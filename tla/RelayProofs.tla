----------------------------- MODULE RelayProofs ------------------------------
(***************************************************************************)
(* Theorems about the two parts that carry bytes between a peer and        *)
(* another: Tunnel, for any two connections, any number of bytes and any   *)
(* way of cutting them into chunks; and Fcgi, for any requests, any answer *)
(* of the application and any way of cutting it into segments.             *)
(***************************************************************************)
EXTENDS Tunnel, Fcgi, SequenceTheorems, FiniteSetTheorems, WellFoundedInduction, TLAPS

(* A set of numbers that is not empty has a least one.  With it the facts    *)
(* below are proved as by induction.                                         *)
LEMMA LeastNumber == \A T \in SUBSET Nat : T # {} => \E x \in T : \A y \in T : x <= y
<1> SUFFICES ASSUME NEW T \in SUBSET Nat, T # {} PROVE \E x \in T : \A y \in T : x <= y
  OBVIOUS
<1> DEFINE R == OpToRel(<, Nat)
<1>1. IsWellFoundedOn(R, Nat)
  BY NatLessThanWellFounded
<1> HIDE DEF R
<1>2. PICK x \in T : \A y \in T : ~(<<y, x>> \in R)
  BY <1>1, WFMin
<1>3. \A y \in T : ~(y < x)
  BY <1>2 DEF R, OpToRel
<1> QED
  BY <1>3

-----------------------------------------------------------------------------
(* FlattenSeq is defined through a function on the positions of a sequence of*)
(* sequences; f is that function, for the first n of them.                   *)
Flattens(f, seqs, n) ==
  f = [i \in 1..n |-> IF i = 1 THEN seqs[i] ELSE f[i - 1] \o seqs[i]]

(* The recursive function that FlattenSeq chooses exists, and any two agree. *)
LEMMA FlattensExists ==
  ASSUME NEW S, NEW seqs \in Seq(Seq(S))
  PROVE  \E f \in [1..Len(seqs) -> Seq(S)] : Flattens(f, seqs, Len(seqs))
<1> DEFINE Good(n) == \E f \in [1..n -> Seq(S)] : Flattens(f, seqs, n)
           Bad == {n \in 0..Len(seqs) : ~Good(n)}
<1>1. Good(0)
  <2>1. <<>> \in [1..0 -> Seq(S)] /\ Flattens(<<>>, seqs, 0)
    BY DEF Flattens
  <2> QED
    BY <2>1
<1>2. ASSUME NEW n \in 1..Len(seqs), Good(n - 1) PROVE Good(n)
  <2>1. PICK f \in [1..n - 1 -> Seq(S)] : Flattens(f, seqs, n - 1)
    BY <1>2
  <2>2. seqs[n] \in Seq(S)
    OBVIOUS
  <2> DEFINE last == IF n = 1 THEN seqs[n] ELSE f[n - 1] \o seqs[n]
             g == [i \in 1..n |-> IF i = n THEN last ELSE f[i]]
  <2>3. last \in Seq(S)
    BY <2>2, ConcatProperties
  <2>4. g \in [1..n -> Seq(S)]
    BY <2>3
  <2>5. ASSUME NEW i \in 1..n PROVE g[i] = IF i = 1 THEN seqs[i] ELSE g[i - 1] \o seqs[i]
    <3>1. CASE i = n
      BY <3>1
    <3>2. CASE i # n
      <4>1. i \in 1..n - 1 /\ g[i] = f[i] /\ (i # 1 => g[i - 1] = f[i - 1])
        BY <3>2
      <4>2. f[i] = IF i = 1 THEN seqs[i] ELSE f[i - 1] \o seqs[i]
        BY <2>1, <4>1 DEF Flattens
      <4> QED
        BY <4>1, <4>2
    <3> QED
      BY <3>1, <3>2
  <2> HIDE DEF last
  <2>6. Flattens(g, seqs, n)
    BY <2>5 DEF Flattens
  <2> QED
    BY <2>4, <2>6
<1> HIDE DEF Good
<1>3. Bad = {}
  <2> SUFFICES ASSUME Bad # {} PROVE FALSE
    OBVIOUS
  <2>1. Bad \in SUBSET Nat
    OBVIOUS
  <2> HIDE DEF Bad
  <2>2. PICK n \in Bad : \A m \in Bad : n <= m
    BY <2>1, LeastNumber
  <2> USE DEF Bad
  <2>3. n \in 1..Len(seqs) /\ n - 1 \in 0..Len(seqs)
    BY <1>1
  <2>4. n - 1 \notin Bad
    BY <2>2, <2>3
  <2> QED
    BY <1>2, <2>3, <2>4
<1> QED
  BY <1>3 DEF Good

(* Two such functions, for sequences that begin in the same way, agree.      *)
Follows(f, seqs, n) ==
  \A i \in 1..n : f[i] = IF i = 1 THEN seqs[i] ELSE f[i - 1] \o seqs[i]

SameStart(s, t, n) == \A i \in 1..n : s[i] = t[i]

LEMMA FlattensAgree ==
  ASSUME NEW s, NEW t, NEW m \in Nat, NEW f, NEW g,
         Follows(f, s, m), Follows(g, t, m), SameStart(s, t, m)
  PROVE  SameStart(f, g, m)
<1> DEFINE Differ == {i \in 1..m : f[i] # g[i]}
<1> SUFFICES ASSUME Differ # {} PROVE FALSE
  BY DEF SameStart
<1>0. Differ \in SUBSET Nat
  OBVIOUS
<1> HIDE DEF Differ
<1>1. PICK i \in Differ : \A j \in Differ : i <= j
  BY <1>0, LeastNumber
<1>2. i \in 1..m /\ f[i] # g[i]
  BY DEF Differ
<1>3. /\ f[i] = IF i = 1 THEN s[i] ELSE f[i - 1] \o s[i]
      /\ g[i] = IF i = 1 THEN t[i] ELSE g[i - 1] \o t[i]
  BY <1>2 DEF Follows
<1>4. i # 1 => f[i - 1] = g[i - 1]
  BY <1>1, <1>2 DEF Differ
<1> QED
  BY <1>2, <1>3, <1>4 DEF SameStart

(* FlattenSeq is its last value.                                             *)
LEMMA FlattenSeqIs ==
  ASSUME NEW S, NEW seqs \in Seq(Seq(S))
  PROVE  \E f \in [1..Len(seqs) -> Seq(S)] :
           /\ Flattens(f, seqs, Len(seqs))
           /\ FlattenSeq(seqs) = IF Len(seqs) = 0 THEN <<>> ELSE f[Len(seqs)]
<1> DEFINE f == CHOOSE g : Flattens(g, seqs, Len(seqs))
<1>1. PICK g \in [1..Len(seqs) -> Seq(S)] : Flattens(g, seqs, Len(seqs))
  BY FlattensExists
<1>2. Flattens(f, seqs, Len(seqs))
  BY <1>1
<1>3. FlattenSeq(seqs) = IF Len(seqs) = 0 THEN <<>> ELSE f[Len(seqs)]
  BY DEF FlattenSeq, Flattens
<1> HIDE DEF f
<1>4. f = g
  <2>1. \A i \in 1..Len(seqs) : f[i] = g[i]
    <3>1. /\ Follows(f, seqs, Len(seqs)) /\ Follows(g, seqs, Len(seqs))
          /\ SameStart(seqs, seqs, Len(seqs))
      BY <1>1, <1>2 DEF Flattens, Follows, SameStart
    <3>2. SameStart(f, g, Len(seqs))
      BY <3>1, FlattensAgree
    <3> QED
      BY <3>2 DEF SameStart
  <2>2. /\ f = [i \in 1..Len(seqs) |-> IF i = 1 THEN seqs[i] ELSE f[i - 1] \o seqs[i]]
        /\ g = [i \in 1..Len(seqs) |-> IF i = 1 THEN seqs[i] ELSE g[i - 1] \o seqs[i]]
    BY <1>1, <1>2 DEF Flattens
  <2>3. f = [i \in 1..Len(seqs) |-> f[i]] /\ g = [i \in 1..Len(seqs) |-> g[i]]
    BY <2>2
  <2> QED
    BY <2>1, <2>3
<1> QED
  BY <1>1, <1>2, <1>3, <1>4

(* Hence its type, and its value on an empty, a longer and a shorter         *)
(* sequence.                                                                 *)
LEMMA FlattenSeqType ==
  ASSUME NEW S, NEW seqs \in Seq(Seq(S))
  PROVE  FlattenSeq(seqs) \in Seq(S)
<1>1. PICK f \in [1..Len(seqs) -> Seq(S)] :
        FlattenSeq(seqs) = IF Len(seqs) = 0 THEN <<>> ELSE f[Len(seqs)]
  BY FlattenSeqIs
<1>2. CASE Len(seqs) = 0
  BY <1>1, <1>2
<1>3. CASE Len(seqs) # 0
  <2>1. Len(seqs) \in Nat
    OBVIOUS
  <2>2. Len(seqs) \in 1..Len(seqs)
    BY ONLY <1>3, <2>1
  <2>3. f[Len(seqs)] \in Seq(S)
    BY ONLY <2>2, f \in [1..Len(seqs) -> Seq(S)]
  <2> QED
    BY ONLY <1>1, <1>3, <2>3
<1> QED
  BY <1>2, <1>3

LEMMA FlattenSeqEmpty == FlattenSeq(<<>>) = <<>>
BY DEF FlattenSeq

LEMMA FlattenSeqAppend ==
  ASSUME NEW S, NEW seqs \in Seq(Seq(S)), NEW e \in Seq(S)
  PROVE  FlattenSeq(Append(seqs, e)) = FlattenSeq(seqs) \o e
<1>n. PICK n \in Nat : n = Len(seqs)
  OBVIOUS
<1>m. PICK more \in Seq(Seq(S)) : more = Append(seqs, e)
  BY AppendProperties
<1>1. Len(more) = n + 1 /\ more[n + 1] = e
  BY <1>n, <1>m, AppendProperties
<1>2. \A i \in 1..n : more[i] = seqs[i] 
  BY <1>n, <1>m, AppendProperties
<1>3. PICK f \in [1..n -> Seq(S)] :
        Flattens(f, seqs, n) /\ FlattenSeq(seqs) = IF n = 0 THEN <<>> ELSE f[n]
  BY <1>n, FlattenSeqIs
<1>4. PICK g \in [1..n + 1 -> Seq(S)] :
        Flattens(g, more, n + 1) /\ FlattenSeq(more) = IF n + 1 = 0 THEN <<>> ELSE g[n + 1]
  BY <1>1, FlattenSeqIs
<1>5. \A i \in 1..n : f[i] = g[i]
  <2>1. Follows(f, seqs, n)
    BY <1>3 DEF Flattens, Follows
  <2>2. Follows(g, more, n)
    <3>1. \A i \in 1..n : i \in 1..n + 1
      OBVIOUS
    <3> QED
      BY <1>4, <3>1 DEF Flattens, Follows
  <2>3. SameStart(seqs, more, n)
    BY <1>2 DEF SameStart
  <2>4. SameStart(f, g, n)
    BY <2>1, <2>2, <2>3, FlattensAgree
  <2> QED
    BY <2>4 DEF SameStart
<1>6. g[n + 1] = IF n = 0 THEN e ELSE g[n] \o e
  <2>1. n + 1 \in 1..n + 1 /\ (n + 1) - 1 = n /\ (n + 1 = 1 <=> n = 0)
    OBVIOUS
  <2>2. g[n + 1] = IF n + 1 = 1 THEN more[n + 1] ELSE g[(n + 1) - 1] \o more[n + 1]
    BY <1>4, <2>1 DEF Flattens
  <2> QED
    BY <1>1, <2>1, <2>2
<1>7. FlattenSeq(more) = FlattenSeq(seqs) \o e
  <2>1. FlattenSeq(more) = g[n + 1]
    BY <1>4
  <2>2. CASE n = 0
    <3>1. FlattenSeq(seqs) = <<>> /\ <<>> \o e = e
      BY <1>3, <2>2, ConcatEmptySeq
    <3> QED
      BY <1>6, <2>1, <2>2, <3>1
  <2>3. CASE n # 0
    <3>1. f[n] = g[n] /\ FlattenSeq(seqs) = f[n]
      BY <1>3, <1>5, <2>3
    <3> QED
      BY <1>6, <2>1, <2>3, <3>1
  <2> QED
    BY <2>2, <2>3
<1> QED
  BY <1>7, <1>m

LEMMA FlattenSeqHead ==
  ASSUME NEW S, NEW seqs \in Seq(Seq(S)), seqs # <<>>
  PROVE  FlattenSeq(seqs) = Head(seqs) \o FlattenSeq(Tail(seqs))
<1> DEFINE x == Head(seqs)  rest == Tail(seqs)  n == Len(rest)
<1>1. x \in Seq(S) /\ rest \in Seq(Seq(S)) /\ n \in Nat /\ Len(seqs) = n + 1 /\ seqs[1] = x
  OBVIOUS
<1>2. \A i \in 1..n : seqs[i + 1] = rest[i] /\ rest[i] \in Seq(S)
  OBVIOUS
<1> HIDE DEF x, rest, n
<1>3. PICK f \in [1..n + 1 -> Seq(S)] :
        Flattens(f, seqs, n + 1) /\ FlattenSeq(seqs) = IF n + 1 = 0 THEN <<>> ELSE f[n + 1]
  BY <1>1, FlattenSeqIs
<1>4. PICK g \in [1..n -> Seq(S)] :
        Flattens(g, rest, n) /\ FlattenSeq(rest) = IF n = 0 THEN <<>> ELSE g[n]
  BY <1>1, FlattenSeqIs DEF n
<1>5. f[1] = x
  BY <1>1, <1>3 DEF Flattens
<1>6. \A i \in 1..n : f[i + 1] = x \o g[i]
  <2> DEFINE Differ == {i \in 1..n : f[i + 1] # x \o g[i]}
  <2> SUFFICES ASSUME Differ # {} PROVE FALSE
    OBVIOUS
  <2>a. Differ \in SUBSET Nat
    BY <1>1
  <2> HIDE DEF Differ
  <2>1. PICK i \in Differ : \A j \in Differ : i <= j
    BY <2>a, LeastNumber
  <2>2. i \in 1..n /\ f[i + 1] # x \o g[i]
    BY DEF Differ
  <2>3. f[i + 1] = f[i] \o rest[i]
    <3>1. i + 1 \in 1..n + 1 /\ (i + 1) - 1 = i /\ i + 1 # 1
      BY <1>1, <2>2
    <3>2. f[i + 1] = IF i + 1 = 1 THEN seqs[i + 1] ELSE f[(i + 1) - 1] \o seqs[i + 1]
      BY <1>3, <3>1 DEF Flattens
    <3> QED
      BY <1>2, <2>2, <3>1, <3>2
  <2>b. g[i] = IF i = 1 THEN rest[i] ELSE g[i - 1] \o rest[i]
    BY <1>4, <2>2 DEF Flattens
  <2>4. CASE i = 1
    BY <1>5, <2>2, <2>3, <2>b, <2>4
  <2>5. CASE i # 1
    <3>1. i - 1 \in 1..n /\ i - 1 \notin Differ
      BY <1>1, <2>1, <2>2, <2>5
    <3>2. f[i] = x \o g[i - 1]
      BY <3>1, <2>2 DEF Differ
    <3>3. g[i - 1] \in Seq(S) /\ rest[i] \in Seq(S)
      BY <1>2, <2>2, <3>1
    <3>4. (x \o g[i - 1]) \o rest[i] = x \o (g[i - 1] \o rest[i])
      <4>1. \A s, t, u \in Seq(S) : (s \o t) \o u = s \o (t \o u)
        BY ONLY ConcatAssociative
      <4> QED
        BY <1>1, <3>3, <4>1
    <3> QED
      BY <2>2, <2>3, <2>b, <2>5, <3>2, <3>4
  <2> QED
    BY <2>4, <2>5
<1>7. FlattenSeq(seqs) = x \o FlattenSeq(rest)
  <2>1. CASE n = 0
    <3>1. x \o <<>> = x
      BY <1>1, ConcatEmptySeq
    <3> QED
      BY <1>1, <1>3, <1>4, <1>5, <2>1, <3>1
  <2>2. CASE n # 0
    <3>1. n \in Nat
      BY <1>1
    <3>2. n \in 1..n /\ n + 1 # 0
      BY ONLY <2>2, <3>1
    <3>3. FlattenSeq(seqs) = f[n + 1] /\ FlattenSeq(rest) = g[n]
      BY ONLY <1>3, <1>4, <2>2, <3>2
    <3> QED
      BY ONLY <1>6, <3>2, <3>3
  <2> QED
    BY <2>1, <2>2
<1> QED
  BY <1>7 DEF x, rest

-----------------------------------------------------------------------------
(* The inductive invariant.  As long as a connection is not stopped, what    *)
(* was delivered to it, what is in its write queue and what the read handler *)
(* of the other one holds is all that was read there.  (The property says so *)
(* only while neither is stopped, which is not inductive: the socket takes   *)
(* bytes until its own stop, and a failed write is popped with that stop.)   *)
Lossless(c) ==
  ~stopped[Other(c)] =>
    delivered[Other(c)] \o FlattenSeq(writes[Other(c)]) \o chunk[c] = Bytes(got[c])
InOrder(c) == delivered[c] = Bytes(Len(delivered[c]))
HoldsNothing(c) == loop[c] # "took" => chunk[c] = <<>>
FailsInFront(c) == failing[c] # "no" => writes[c] # <<>>

IInv ==
  /\ TypeOK
  /\ \A c \in Conn : Lossless(c) /\ InOrder(c) /\ HoldsNothing(c) /\ FailsInFront(c)

(* The two connections of a tunnel.                                          *)
LEMMA OtherProperties ==
  ASSUME NEW c \in Conn
  PROVE  Other(c) \in Conn /\ Other(c) # c /\ Other(Other(c)) = c
BY TunnelAssumption DEF Other, Conn

(* The bytes of this model are numbers.                                      *)
LEMMA BytesAreNumbers == Seq(1..MaxSent) \subseteq Seq(Nat)
<1>1. 1..MaxSent \subseteq Nat
  BY TunnelAssumption
<1>2. ASSUME NEW s \in Seq(1..MaxSent) PROVE s \in Seq(Nat)
  BY ONLY <1>1, SeqMonotonic
<1> QED
  BY ONLY <1>2

(* What begins the first n bytes is the first bytes.                         *)
LEMMA BytesPrefix ==
  ASSUME NEW n \in Nat, NEW s \in Seq(Nat), NEW t \in Seq(Nat), s \o t = Bytes(n)
  PROVE  s = Bytes(Len(s))
<1>1. Len(s) + Len(t) = n /\ \A i \in 1..Len(s) : s[i] = (s \o t)[i]
  <2>1. Bytes(n) \in Seq(Nat) /\ Len(Bytes(n)) = n
    BY DEF Bytes
  <2> QED
    BY <2>1, ConcatProperties
<1>2. \A i \in 1..n : (s \o t)[i] = i
  <2>1. \A i \in 1..n : Bytes(n)[i] = i
    BY DEF Bytes
  <2> QED
    BY ONLY <2>1, s \o t = Bytes(n)
<1>3. \A i \in 1..Len(s) : s[i] = i
  <2>1. \A i \in 1..Len(s) : i \in 1..n
    BY <1>1
  <2> QED
    BY ONLY <1>1, <1>2, <2>1
<1> QED
  BY <1>3 DEF Bytes

(* The socket takes the first byte of the front chunk h, before the rest F.  *)
LEMMA TakeByte ==
  ASSUME NEW D \in Seq(Nat), NEW h \in Seq(Nat), h # <<>>, NEW F \in Seq(Nat)
  PROVE  Append(D, Head(h)) \o (Tail(h) \o F) = D \o (h \o F)
<1> DEFINE l == Append(D, Head(h)) \o (Tail(h) \o F)  r == D \o (h \o F)
<1>1. /\ Head(h) = h[1] /\ Head(h) \in Nat /\ Tail(h) \in Seq(Nat) /\ Len(Tail(h)) = Len(h) - 1
      /\ \A i \in 1..Len(h) - 1 : Tail(h)[i] = h[i + 1]
  OBVIOUS
<1>2. /\ Append(D, Head(h)) \in Seq(Nat) /\ Len(Append(D, Head(h))) = Len(D) + 1
      /\ \A i \in 1..Len(D) : Append(D, Head(h))[i] = D[i]
      /\ Append(D, Head(h))[Len(D) + 1] = h[1]
  BY <1>1
<1>3. l \in Seq(Nat) /\ r \in Seq(Nat) /\ Len(l) = Len(r)
  BY <1>1, <1>2
<1>4. \A i \in 1..Len(l) : l[i] = r[i]
  BY <1>1, <1>2
<1> QED
  BY <1>3, <1>4, SeqEqual

LEMMA IInvInit == Init => IInv
<1> SUFFICES ASSUME Init PROVE IInv
  OBVIOUS
<1>1. TypeOK
  BY TunnelAssumption DEF Init, TypeOK
<1>2. ASSUME NEW c \in Conn
      PROVE  Lossless(c) /\ InOrder(c) /\ HoldsNothing(c) /\ FailsInFront(c)
  <2>1. delivered[c] = <<>> /\ chunk[c] = <<>> /\ got[c] = 0 /\ failing[c] = "no"
    BY DEF Init
  <2>2. delivered[Other(c)] = <<>> /\ writes[Other(c)] = <<>>
    BY OtherProperties DEF Init
  <2>3. Bytes(0) = <<>> /\ Len(<<>>) = 0
    BY DEF Bytes
  <2> QED
    BY <2>1, <2>2, <2>3, FlattenSeqEmpty DEF Lossless, InOrder, HoldsNothing, FailsInFront
<1> QED
  BY <1>1, <1>2 DEF IInv

Step(c) == LoopStep(c) \/ WriteStep(c) \/ PeerSends(c) \/ PeerCloses(c) \/ AppStop(c)

(* A queue is its front and the rest.                                        *)
LEMMA HeadAndTail ==
  ASSUME NEW S, NEW s \in Seq(S), s # <<>>
  PROVE  Head(s) \in S /\ Tail(s) \in Seq(S) /\ s = <<Head(s)>> \o Tail(s)
BY HeadTailProperties, ConcatProperties

(* The bytes that one read takes.                                            *)
LEMMA NextBytes ==
  ASSUME NEW m \in Nat, NEW g \in 0..m, NEW n \in g + 1..m
  PROVE  [i \in 1..n - g |-> g + i] \in Seq(1..m)
<1>1. n - g \in Nat
  OBVIOUS
<1>2. \A i \in 1..n - g : g + i \in 1..m
  OBVIOUS
<1>3. [i \in 1..n - g |-> g + i] \in [1..n - g -> 1..m]
  BY <1>2
<1> QED
  BY ONLY <1>1, <1>3

(* Types, kept by every step of either connection.                           *)
LEMMA TypeStep ==
  ASSUME TypeOK, NEW c \in Conn, FailsInFront(c), Step(c)
  PROVE  TypeOK'
<1>o. PICK o \in Conn : o = Other(c)
  BY OtherProperties
<1>n. sent \in [Conn -> 0..MaxSent] /\ got \in [Conn -> 0..MaxSent] /\ MaxSent \in Nat
  BY TunnelAssumption DEF TypeOK
<1>d. /\ chunk \in [Conn -> Seq(1..MaxSent)] /\ delivered \in [Conn -> Seq(1..MaxSent)]
      /\ writes \in [Conn -> Seq(Seq(1..MaxSent))]
  BY DEF TypeOK
<1>s. /\ closed \in [Conn -> BOOLEAN] /\ stopped \in [Conn -> BOOLEAN]
      /\ loop \in [Conn -> {"check", "reading", "took", "stop first", "stop second", "done"}]
      /\ failing \in [Conn -> {"no", "stop first", "stop second"}]
  BY DEF TypeOK
<1>1. CASE PeerSends(c)
  <2>1. sent' \in [Conn -> 0..MaxSent]
    BY ONLY <1>1, <1>n DEF PeerSends
  <2> QED
    BY ONLY <1>1, <1>n, <1>d, <1>s, <2>1 DEF PeerSends, TypeOK
<1>2. CASE PeerCloses(c) \/ AppStop(c)
  BY ONLY <1>2, <1>n, <1>d, <1>s DEF PeerCloses, AppStop, TypeOK
<1>3. CASE AskRead(c) \/ SeeStopped(c) \/ ReadFails(c) \/ StopFirst(c) \/ StopSecond(c)
  BY ONLY <1>3, <1>o, <1>n, <1>d, <1>s
     DEF AskRead, SeeStopped, ReadFails, StopFirst, StopSecond, TypeOK
<1>4. CASE ReadDone(c)
  <2>1. PICK n \in got[c] + 1..sent[c] :
          /\ chunk' = [chunk EXCEPT ![c] = [i \in 1..n - got[c] |-> got[c] + i]]
          /\ got' = [got EXCEPT ![c] = n]
    BY <1>4 DEF ReadDone
  <2>2. PICK g \in 0..MaxSent : g = got[c] /\ n \in g + 1..MaxSent
    BY ONLY <1>n, <2>1, n \in got[c] + 1..sent[c], c \in Conn
  <2>3. [i \in 1..n - g |-> g + i] \in Seq(1..MaxSent)
    BY <2>2, <1>n, NextBytes
  <2>4. chunk' \in [Conn -> Seq(1..MaxSent)]
    BY ONLY <2>1, <2>2, <2>3, <1>d, c \in Conn
  <2>5. got' \in [Conn -> 0..MaxSent]
    BY ONLY <2>1, <2>2, <1>n, g \in 0..MaxSent, c \in Conn
  <2> QED
    BY ONLY <1>4, <2>4, <2>5, <1>n, <1>d, <1>s DEF ReadDone, TypeOK
<1>5. CASE Forward(c)
  <2>1. chunk[c] \in Seq(1..MaxSent) /\ writes[o] \in Seq(Seq(1..MaxSent))
    BY <1>d
  <2>2. Append(writes[o], chunk[c]) \in Seq(Seq(1..MaxSent)) /\ <<>> \in Seq(1..MaxSent)
    BY ONLY <2>1
  <2>3. writes' \in [Conn -> Seq(Seq(1..MaxSent))] /\ chunk' \in [Conn -> Seq(1..MaxSent)]
    BY ONLY <1>5, <1>o, <1>d, <2>2 DEF Forward
  <2> QED
    BY ONLY <1>5, <2>3, <1>n, <1>d, <1>s DEF Forward, TypeOK
<1>6. CASE WriteByte(c)
  <2>0. /\ writes[c] \in Seq(Seq(1..MaxSent)) /\ writes[c] # <<>> /\ Head(writes[c]) # <<>>
        /\ delivered[c] \in Seq(1..MaxSent)
    BY <1>6, <1>d DEF WriteByte
  <2>1. Head(writes[c]) \in Seq(1..MaxSent) /\ Tail(writes[c]) \in Seq(Seq(1..MaxSent))
    BY ONLY <2>0, HeadAndTail
  <2>2. Head(Head(writes[c])) \in 1..MaxSent /\ Tail(Head(writes[c])) \in Seq(1..MaxSent)
    BY ONLY <2>0, <2>1, HeadAndTail
  <2>3. <<Tail(Head(writes[c]))>> \o Tail(writes[c]) \in Seq(Seq(1..MaxSent))
    BY ONLY <2>1, <2>2
  <2>4. Append(delivered[c], Head(Head(writes[c]))) \in Seq(1..MaxSent)
    BY ONLY <2>0, <2>2
  <2>5. /\ delivered' \in [Conn -> Seq(1..MaxSent)]
        /\ writes' \in [Conn -> Seq(Seq(1..MaxSent))]
    BY ONLY <1>6, <1>d, <2>3, <2>4 DEF WriteByte
  <2> QED
    BY ONLY <1>6, <2>5, <1>n, <1>d, <1>s DEF WriteByte, TypeOK
<1>7. CASE WriteDone(c) \/ WriteStopsSecond(c)
  <2>1. writes[c] \in Seq(Seq(1..MaxSent)) /\ writes[c] # <<>>
    BY <1>7, <1>d DEF WriteDone, WriteStopsSecond, FailsInFront
  <2>2. Tail(writes[c]) \in Seq(Seq(1..MaxSent))
    BY ONLY <2>1, HeadAndTail
  <2>3. writes' \in [Conn -> Seq(Seq(1..MaxSent))]
    BY ONLY <1>7, <1>d, <2>2 DEF WriteDone, WriteStopsSecond
  <2> QED
    BY ONLY <1>7, <2>3, <1>n, <1>d, <1>s DEF WriteDone, WriteStopsSecond, TypeOK
<1>8. CASE WriteFails(c) \/ WriteStopsFirst(c)
  BY ONLY <1>8, <1>o, <1>n, <1>d, <1>s DEF WriteFails, WriteStopsFirst, TypeOK
<1> QED
  BY <1>1, <1>2, <1>3, <1>4, <1>5, <1>6, <1>7, <1>8 DEF Step, LoopStep, WriteStep


(* What a loop holds and where a failing write stands.                       *)
LEMMA ControlStep ==
  ASSUME TypeOK, NEW c \in Conn, Step(c), NEW d \in Conn, HoldsNothing(d), FailsInFront(d)
  PROVE  HoldsNothing(d)' /\ FailsInFront(d)'
<1>o. PICK o \in Conn : o = Other(c) /\ o # c
  BY OtherProperties
<1>t. /\ loop \in [Conn -> {"check", "reading", "took", "stop first", "stop second", "done"}]
      /\ failing \in [Conn -> {"no", "stop first", "stop second"}]
  BY DEF TypeOK
<1>w. /\ chunk \in [Conn -> Seq(1..MaxSent)]
      /\ writes \in [Conn -> Seq(Seq(1..MaxSent))]
  BY DEF TypeOK
<1>1. CASE UNCHANGED <<loop, failing, chunk, writes>>
  BY <1>1 DEF HoldsNothing, FailsInFront
<1>2. CASE AskRead(c) \/ SeeStopped(c) \/ ReadFails(c) \/ StopFirst(c) \/ StopSecond(c)
  <2>1. UNCHANGED <<chunk, writes, failing>> /\ (d # c => loop'[d] = loop[d])
    BY <1>2, <1>t DEF AskRead, SeeStopped, ReadFails, StopFirst, StopSecond
  <2>2. loop[c] # "took"
    BY <1>2 DEF AskRead, SeeStopped, ReadFails, StopFirst, StopSecond
  <2> QED
    BY <1>t, <2>1, <2>2 DEF HoldsNothing, FailsInFront
<1>3. CASE ReadDone(c)
  <2>1. /\ loop' = [loop EXCEPT ![c] = "took"] /\ UNCHANGED <<failing, writes>>
        /\ \E k : chunk' = [chunk EXCEPT ![c] = k]
    BY <1>3 DEF ReadDone
  <2> QED
    BY <1>t, <1>w, <2>1 DEF HoldsNothing, FailsInFront
<1>4. CASE Forward(c)
  <2>1. HoldsNothing(d)'
    BY <1>4, <1>t, <1>w DEF Forward, HoldsNothing
  <2>2. FailsInFront(d)'
    <3>1. chunk[c] \in Seq(1..MaxSent) /\ writes[o] \in Seq(Seq(1..MaxSent))
      BY <1>w
    <3>2. Append(writes[o], chunk[c]) # <<>>
      BY <3>1, AppendProperties
    <3>3. writes' = [writes EXCEPT ![o] = Append(@, chunk[c])] /\ UNCHANGED failing
      BY <1>4, <1>o DEF Forward
    <3> QED
      BY <1>w, <3>2, <3>3 DEF FailsInFront
  <2> QED
    BY <2>1, <2>2
<1>5. CASE WriteByte(c) \/ WriteDone(c) \/ WriteStopsSecond(c)
  <2>1. UNCHANGED <<loop, chunk>> /\ failing'[c] = "no"
    BY <1>5, <1>t DEF WriteByte, WriteDone, WriteStopsSecond
  <2>2. d # c => failing'[d] = failing[d] /\ writes'[d] = writes[d]
    BY <1>5, <1>t, <1>w DEF WriteByte, WriteDone, WriteStopsSecond
  <2> QED
    BY <2>1, <2>2 DEF HoldsNothing, FailsInFront
<1>6. CASE WriteFails(c) \/ WriteStopsFirst(c)
  <2>1. UNCHANGED <<loop, chunk, writes>>
    BY <1>6 DEF WriteFails, WriteStopsFirst
  <2>2. d # c => failing'[d] = failing[d]
    BY <1>6, <1>t DEF WriteFails, WriteStopsFirst
  <2>3. d = c => writes[d] # <<>>
    BY <1>6 DEF WriteFails, WriteStopsFirst, FailsInFront
  <2> QED
    BY <2>1, <2>2, <2>3 DEF HoldsNothing, FailsInFront
<1>7. CASE PeerSends(c) \/ PeerCloses(c) \/ AppStop(c)
  BY <1>1, <1>7 DEF PeerSends, PeerCloses, AppStop
<1> QED
  BY <1>2, <1>3, <1>4, <1>5, <1>6, <1>7 DEF Step, LoopStep, WriteStep

(* The read handler takes the bytes after those read before.                 *)
LEMMA MoreBytes ==
  ASSUME NEW g \in Nat, NEW n \in Nat, g <= n
  PROVE  Bytes(g) \o [i \in 1..n - g |-> g + i] = Bytes(n)
<1> DEFINE l == Bytes(g)  k == [i \in 1..n - g |-> g + i]
<1>1. l \in Seq(Nat) /\ Len(l) = g /\ \A i \in 1..g : l[i] = i
  BY DEF Bytes
<1>2. n - g \in Nat
  OBVIOUS
<1>3. k \in Seq(Nat) /\ Len(k) = n - g /\ \A i \in 1..n - g : k[i] = g + i
  BY <1>2
<1> HIDE DEF l, k
<1>4. l \o k \in Seq(Nat) /\ Len(l \o k) = n
  <2>1. l \o k \in Seq(Nat) /\ Len(l \o k) = Len(l) + Len(k)
    BY ONLY <1>1, <1>3, ConcatProperties
  <2>2. Len(l) + Len(k) = n
    BY <1>1, <1>3
  <2> QED
    BY ONLY <2>1, <2>2
<1>5. \A i \in 1..n : (l \o k)[i] = i
  BY <1>1, <1>2, <1>3
<1>6. Bytes(n) \in Seq(Nat) /\ Len(Bytes(n)) = n /\ \A i \in 1..n : Bytes(n)[i] = i
  BY DEF Bytes
<1>7. l \o k = Bytes(n)
  BY ONLY <1>4, <1>5, <1>6, SeqEqual
<1> QED
  BY <1>7 DEF l, k

(* What was read from c and is delivered to the other connection or on its   *)
(* way there.                                                                *)
Taken(c) == delivered[Other(c)] \o FlattenSeq(writes[Other(c)]) \o chunk[c]

(* A step keeps, for each direction, all bytes taken so far, and the read    *)
(* handler adds those it took; unless the failed write is popped with the    *)
(* stop of its connection.                                                   *)
LEMMA TakenStep ==
  ASSUME IInv, NEW c \in Conn, Step(c), NEW d \in Conn, ~stopped'[Other(d)]
  PROVE  Taken(d)' = Bytes(got'[d])
<1>o. PICK o \in Conn : o = Other(d) /\ o # d /\ Other(c) = IF d = c THEN o ELSE d
  BY OtherProperties DEF Conn, Other
<1>t. /\ chunk \in [Conn -> Seq(1..MaxSent)] /\ delivered \in [Conn -> Seq(1..MaxSent)]
      /\ writes \in [Conn -> Seq(Seq(1..MaxSent))] /\ got \in [Conn -> 0..MaxSent]
      /\ stopped \in [Conn -> BOOLEAN] /\ sent \in [Conn -> 0..MaxSent] /\ MaxSent \in Nat
  BY TunnelAssumption DEF IInv, TypeOK
<1> DEFINE D == delivered[o]  F == FlattenSeq(writes[o])  k == chunk[d]
<1>F. D \in Seq(1..MaxSent) /\ F \in Seq(1..MaxSent) /\ k \in Seq(1..MaxSent)
  BY <1>t, FlattenSeqType
<1>s. ~stopped[o]
  <2>1. \A e \in Conn : stopped[e] => stopped'[e]
    BY <1>t DEF Step, LoopStep, WriteStep, AskRead, SeeStopped, ReadDone, Forward, ReadFails,
         StopFirst, StopSecond, WriteByte, WriteDone, WriteFails, WriteStopsFirst,
         WriteStopsSecond, PeerSends, PeerCloses, AppStop
  <2> QED
    BY <1>o, <2>1
<1>i. D \o F \o k = Bytes(got[d])
  BY <1>o, <1>s DEF IInv, Lossless
<1>0. CASE /\ delivered'[o] = D /\ writes'[o] = writes[o]
           /\ chunk'[d] = k /\ got'[d] = got[d]
  BY <1>0, <1>o, <1>i DEF Taken
<1>1. CASE AskRead(c) \/ SeeStopped(c) \/ ReadFails(c) \/ StopFirst(c) \/ StopSecond(c)
  BY <1>0, <1>1 DEF AskRead, SeeStopped, ReadFails, StopFirst, StopSecond
<1>2. CASE PeerSends(c) \/ PeerCloses(c) \/ AppStop(c) \/ WriteFails(c) \/ WriteStopsFirst(c)
  BY <1>0, <1>2 DEF PeerSends, PeerCloses, AppStop, WriteFails, WriteStopsFirst
<1>3. CASE ReadDone(c) /\ d = c
  <2>1. PICK n \in got[c] + 1..sent[c] :
          /\ chunk' = [chunk EXCEPT ![c] = [i \in 1..n - got[c] |-> got[c] + i]]
          /\ got' = [got EXCEPT ![c] = n]
    BY <1>3 DEF ReadDone
  <2>2. got[c] \in Nat /\ n \in Nat /\ got[c] <= n
    <3>1. got[c] \in 0..MaxSent /\ sent[c] \in 0..MaxSent
      BY ONLY <1>t, c \in Conn
    <3>2. PICK g \in Nat, h \in Nat : g = got[c] /\ h = sent[c]
      <4>1. got[c] \in Nat /\ sent[c] \in Nat
        BY ONLY <1>t, <3>1
      <4> QED
        BY ONLY <4>1
    <3>3. n \in g + 1..h
      BY ONLY <3>2, n \in got[c] + 1..sent[c]
    <3>4. n \in Nat /\ g <= n
      BY ONLY <3>3, g \in Nat, h \in Nat
    <3> QED
      BY ONLY <3>2, <3>4
  <2>3. k = <<>>
    BY <1>3 DEF IInv, HoldsNothing, ReadDone
  <2>4. D \o F = Bytes(got[c])
    <3>1. D \o F \in Seq(1..MaxSent)
      BY <1>F, ConcatProperties
    <3> QED
      BY ONLY <1>i, <1>3, <2>3, <3>1, ConcatEmptySeq
  <2>5. D \o F \o [i \in 1..n - got[c] |-> got[c] + i] = Bytes(n)
    BY ONLY <2>2, <2>4, MoreBytes
  <2>6. /\ delivered' = delivered /\ writes' = writes /\ got'[c] = n
        /\ chunk'[c] = [i \in 1..n - got[c] |-> got[c] + i]
    BY <1>3, <1>t, <2>1 DEF ReadDone
  <2> QED
    BY ONLY <1>3, <1>o, <2>5, <2>6 DEF Taken
<1>4. CASE ReadDone(c) /\ d # c
  BY <1>0, <1>4, <1>t DEF ReadDone
<1>5. CASE Forward(c) /\ d = c
  <2>1. /\ delivered' = delivered /\ got' = got /\ chunk'[d] = <<>>
        /\ writes'[o] = Append(writes[o], k)
    BY <1>5, <1>o, <1>t DEF Forward
  <2>2. FlattenSeq(writes'[o]) = F \o k
    <3>1. writes[o] \in Seq(Seq(1..MaxSent))
      BY <1>t
    <3>2. FlattenSeq(Append(writes[o], k)) = F \o k
      BY ONLY <1>F, <3>1, FlattenSeqAppend
    <3> QED
      BY <2>1, <3>2
  <2>3. D \o (F \o k) \o <<>> = D \o F \o k
    <3>1. \A s, t, u \in Seq(1..MaxSent) : s \o (t \o u) \o <<>> = (s \o t) \o u
      <4> SUFFICES ASSUME NEW s \in Seq(1..MaxSent), NEW t \in Seq(1..MaxSent),
                          NEW u \in Seq(1..MaxSent)
                   PROVE  s \o (t \o u) \o <<>> = (s \o t) \o u
        OBVIOUS
      <4>1. (s \o t) \o u = s \o (t \o u)
        BY ConcatAssociative
      <4>2. s \o (t \o u) \in Seq(1..MaxSent)
        BY ConcatProperties
      <4> QED
        BY <4>1, <4>2, ConcatEmptySeq
    <3> QED
      BY <1>F, <3>1
  <2> QED
    BY <1>o, <1>i, <2>1, <2>2, <2>3 DEF Taken
<1>6. CASE Forward(c) /\ d # c
  BY <1>0, <1>6, <1>o, <1>t DEF Forward
<1>7. CASE WriteByte(c) /\ o = c
  <2>0. writes[c] \in Seq(Seq(1..MaxSent)) /\ writes[c] # <<>> /\ Head(writes[c]) # <<>>
    BY <1>7, <1>t DEF WriteByte
  <2>1. PICK h \in Seq(1..MaxSent), r \in Seq(Seq(1..MaxSent)) :
          h = Head(writes[c]) /\ r = Tail(writes[c])
    BY ONLY <2>0, HeadAndTail
  <2>2. h # <<>> /\ Head(h) \in 1..MaxSent /\ Tail(h) \in Seq(1..MaxSent)
    BY <2>0, <2>1, HeadAndTail
  <2>3. /\ delivered'[c] = Append(D, Head(h)) /\ writes'[c] = <<Tail(h)>> \o r
        /\ chunk' = chunk /\ got' = got
    BY <1>7, <1>t, <2>1 DEF WriteByte
  <2>4. PICK G \in Seq(1..MaxSent) : G = FlattenSeq(r)
    BY FlattenSeqType
  <2>5. F = h \o G
    BY <1>7, <2>0, <2>1, <2>4, FlattenSeqHead
  <2>6. FlattenSeq(writes'[c]) = Tail(h) \o G
    <3>1. PICK w \in Seq(Seq(1..MaxSent)) :
            w = <<Tail(h)>> \o r /\ w # <<>> /\ Head(w) = Tail(h) /\ Tail(w) = r
      <4>1. <<Tail(h)>> \o r \in Seq(Seq(1..MaxSent)) /\ <<Tail(h)>> \o r # <<>>
        BY <2>2
      <4>2. Head(<<Tail(h)>> \o r) = Tail(h) /\ Tail(<<Tail(h)>> \o r) = r
        BY <2>2
      <4> QED
        BY <4>1, <4>2
    <3>2. FlattenSeq(w) = Tail(h) \o G
      BY <3>1, <2>4, FlattenSeqHead
    <3> QED
      BY <2>3, <3>1, <3>2
  <2>7. Append(D, Head(h)) \o (Tail(h) \o G) = D \o F
    <3>1. Seq(1..MaxSent) \subseteq Seq(Nat)
      BY ONLY BytesAreNumbers
    <3>2. D \in Seq(Nat) /\ h \in Seq(Nat) /\ G \in Seq(Nat)
      BY <1>F, <3>1
    <3>3. Append(D, Head(h)) \o (Tail(h) \o G) = D \o (h \o G)
      BY ONLY <2>2, <3>2, TakeByte
    <3> QED
      BY <2>5, <3>3
  <2> QED
    BY ONLY <1>7, <1>o, <1>i, <2>3, <2>6, <2>7 DEF Taken
<1>8. CASE WriteDone(c) /\ o = c
  <2>0. writes[c] \in Seq(Seq(1..MaxSent)) /\ writes[c] # <<>> /\ Head(writes[c]) = <<>>
    BY <1>8, <1>t DEF WriteDone
  <2>1. writes'[c] = Tail(writes[c]) /\ UNCHANGED <<delivered, chunk, got>>
    BY <1>8, <1>t DEF WriteDone
  <2>2. F = <<>> \o FlattenSeq(Tail(writes[c]))
    BY <1>8, <2>0, FlattenSeqHead
  <2>3. FlattenSeq(Tail(writes[c])) \in Seq(1..MaxSent)
    BY ONLY <2>0, HeadAndTail, FlattenSeqType
  <2>4. F = FlattenSeq(writes'[c])
    BY <2>1, <2>2, <2>3, ConcatEmptySeq
  <2> QED
    BY ONLY <1>8, <1>o, <1>i, <2>1, <2>4 DEF Taken
<1>9. CASE WriteStopsSecond(c) /\ o = c
  BY <1>9, <1>o, <1>t DEF WriteStopsSecond
<1>10. CASE (WriteByte(c) \/ WriteDone(c) \/ WriteStopsSecond(c)) /\ o # c
  BY <1>0, <1>10, <1>t DEF WriteByte, WriteDone, WriteStopsSecond
<1> QED
  BY <1>1, <1>2, <1>3, <1>4, <1>5, <1>6, <1>7, <1>8, <1>9, <1>10 DEF Step, LoopStep, WriteStep

(* What was delivered is always the first bytes: while the connection runs   *)
(* because it begins what was read, afterwards because nothing more is       *)
(* delivered.                                                                *)
LEMMA InOrderStep ==
  ASSUME IInv, NEW c \in Conn, Step(c), TypeOK', NEW d \in Conn
  PROVE  InOrder(d)'
<1>o. PICK o \in Conn : o = Other(d) /\ Other(o) = d
  BY OtherProperties
<1>t. delivered \in [Conn -> Seq(1..MaxSent)] /\ MaxSent \in Nat
  BY TunnelAssumption DEF IInv, TypeOK
<1>1. CASE ~stopped'[d]
  <2>1. Taken(o)' = Bytes(got'[o])
    BY <1>1, <1>o, TakenStep
  <2>2. /\ chunk'[o] \in Seq(Nat) /\ delivered'[d] \in Seq(Nat)
        /\ writes'[d] \in Seq(Seq(1..MaxSent)) /\ got'[o] \in Nat
    <3>1. Seq(1..MaxSent) \subseteq Seq(Nat)
      BY ONLY BytesAreNumbers
    <3>2. /\ chunk'[o] \in Seq(1..MaxSent) /\ delivered'[d] \in Seq(1..MaxSent)
          /\ writes'[d] \in Seq(Seq(1..MaxSent)) /\ got'[o] \in 0..MaxSent
      BY DEF TypeOK
    <3> QED
      BY <3>1, <3>2, <1>t
  <2>3. PICK F \in Seq(Nat) : F = FlattenSeq(writes'[d])
    <3>1. FlattenSeq(writes'[d]) \in Seq(1..MaxSent)
      BY <2>2, FlattenSeqType
    <3>2. Seq(1..MaxSent) \subseteq Seq(Nat)
      BY ONLY BytesAreNumbers
    <3> QED
      BY <3>1, <3>2
  <2>4. delivered'[d] \o (F \o chunk'[o]) = Bytes(got'[o])
    <3>1. (delivered'[d] \o F) \o chunk'[o] = Bytes(got'[o])
      BY <2>1, <2>3, <1>o DEF Taken
    <3>2. \A s, t, u \in Seq(Nat) : (s \o t) \o u = s \o (t \o u)
      BY ConcatAssociative
    <3> QED
      BY <2>2, <3>1, <3>2
  <2>5. F \o chunk'[o] \in Seq(Nat)
    BY ONLY <2>2, F \in Seq(Nat), ConcatProperties
  <2>6. delivered'[d] = Bytes(Len(delivered'[d]))
    BY ONLY <2>2, <2>4, <2>5, BytesPrefix
  <2> QED
    BY <2>6 DEF InOrder
<1>2. CASE stopped'[d]
  <2>1. delivered'[d] = delivered[d]
    BY <1>2, <1>t DEF Step, LoopStep, WriteStep, AskRead, SeeStopped, ReadDone, Forward, ReadFails,
         StopFirst, StopSecond, WriteByte, WriteDone, WriteFails, WriteStopsFirst,
         WriteStopsSecond, PeerSends, PeerCloses, AppStop
  <2> QED
    BY <2>1 DEF IInv, InOrder
<1> QED
  BY <1>1, <1>2

(* Each part from the lemma of its own.                                      *)
LEMMA IInvStep == IInv /\ [Next]_vars => IInv'
<1> SUFFICES ASSUME IInv, [Next]_vars PROVE IInv'
  OBVIOUS
<1>1. CASE UNCHANGED vars
  BY <1>1 DEF vars, IInv, TypeOK, Lossless, InOrder, HoldsNothing, FailsInFront
<1>2. ASSUME NEW c \in Conn, Step(c) PROVE IInv'
  <2>1. TypeOK'
    BY <1>2, TypeStep DEF IInv
  <2>2. ASSUME NEW d \in Conn
        PROVE  Lossless(d)' /\ InOrder(d)' /\ HoldsNothing(d)' /\ FailsInFront(d)'
    <3>1. Lossless(d)'
      BY <1>2, TakenStep DEF Lossless, Taken
    <3>2. InOrder(d)'
      BY <1>2, <2>1, InOrderStep
    <3>3. HoldsNothing(d)' /\ FailsInFront(d)'
      BY <1>2, ControlStep DEF IInv
    <3> QED
      BY <3>1, <3>2, <3>3
  <2> QED
    BY <2>1, <2>2 DEF IInv
<1> QED
  BY <1>1, <1>2 DEF Next, Step

LEMMA IInvGives == IInv => NothingLostOrReordered
BY OtherProperties DEF IInv, Lossless, InOrder, NothingLostOrReordered, Other, Conn

(* The peer of each connection receives what the other peer sent, in order,  *)
(* nothing twice and nothing skipped, for any number of bytes, however the   *)
(* reads cut them into chunks and whatever stops.                            *)
THEOREM TunnelKeepsBytes == Spec => []NothingLostOrReordered
<1>1. Spec => []IInv
  BY IInvInit, IInvStep, PTL DEF Spec
<1> QED
  BY <1>1, IInvGives, PTL

-----------------------------------------------------------------------------
(* Pieces of sequences.                                                      *)
LEMMA PieceOf ==
  ASSUME NEW S, NEW s \in Seq(S), NEW i \in 1..Len(s) + 1, NEW j \in 0..Len(s), i <= j + 1
  PROVE  /\ SubSeq(s, i, j) \in Seq(S)
         /\ Len(SubSeq(s, i, j)) = (j - i) + 1
         /\ \A k \in 1..(j - i) + 1 : SubSeq(s, i, j)[k] = s[(i - 1) + k]
<1>1. PICK n \in Nat : n = Len(s)
  OBVIOUS
<1>2. i \in Int /\ j \in Int /\ 1 <= i /\ j <= n
  BY <1>1
<1>3. ASSUME NEW k \in i..j PROVE s[k] \in S
  <2>1. k \in 1..Len(s)
    BY <1>1, <1>2
  <2> QED
    BY <2>1, ElementOfSeq
<1>4. /\ SubSeq(s, i, j) \in Seq(S)
      /\ Len(SubSeq(s, i, j)) = IF i <= j THEN j - i + 1 ELSE 0
      /\ \A k \in 1..j - i + 1 : SubSeq(s, i, j)[k] = s[i + k - 1]
  BY <1>2, <1>3, SubSeqProperties
<1>5. (i > j => j - i + 1 = 0) /\ \A k \in 1..(j - i) + 1 : i + k - 1 = (i - 1) + k
  BY <1>2
<1> QED
  BY <1>2, <1>4, <1>5

(* Two sequences one after the other.                                        *)
LEMMA Joined ==
  ASSUME NEW S, NEW s \in Seq(S), NEW t \in Seq(S)
  PROVE  /\ s \o t \in Seq(S) /\ Len(s \o t) = Len(s) + Len(t)
         /\ \A i \in 1..Len(s) : (s \o t)[i] = s[i]
         /\ \A i \in 1..Len(t) : (s \o t)[Len(s) + i] = t[i]
<1>1. PICK m \in Nat, n \in Nat : m = Len(s) /\ n = Len(t)
  OBVIOUS
<1>2. /\ s \o t \in Seq(S) /\ Len(s \o t) = m + n
      /\ \A i \in 1..m + n : (s \o t)[i] = IF i <= m THEN s[i] ELSE t[i - m]
  BY <1>1, ConcatProperties
<1>3. ASSUME NEW i \in 1..m PROVE (s \o t)[i] = s[i]
  BY <1>2
<1>4. ASSUME NEW i \in 1..n PROVE (s \o t)[m + i] = t[i]
  <2>1. m + i \in 1..m + n /\ ~(m + i <= m) /\ (m + i) - m = i
    OBVIOUS
  <2> QED
    BY <1>2, <2>1
<1> QED
  BY <1>1, <1>2, <1>3, <1>4

(* A buffer and the stream behind it; a read brings k symbols of it, of what *)
(* is then there h are taken.                                                *)
LEMMA ReadBrings ==
  ASSUME NEW S, NEW b \in Seq(S), NEW s \in Seq(S), NEW k \in 0..Len(s)
  PROVE  LET brought == b \o SubSeq(s, 1, k) IN
         /\ brought \in Seq(S) /\ Len(brought) = Len(b) + k
         /\ \A p \in 1..Len(brought) : brought[p] = (b \o s)[p]
<1>1. PICK m \in Nat, n \in Nat : m = Len(b) /\ n = Len(s) /\ k <= n /\ k \in Nat
  OBVIOUS
<1>2. PICK c \in Seq(S) : c = SubSeq(s, 1, k) /\ Len(c) = k /\ \A p \in 1..k : c[p] = s[p]
  <2>1. /\ SubSeq(s, 1, k) \in Seq(S) /\ Len(SubSeq(s, 1, k)) = (k - 1) + 1
        /\ \A p \in 1..(k - 1) + 1 : SubSeq(s, 1, k)[p] = s[(1 - 1) + p]
    <3>1. 1 \in 1..Len(s) + 1 /\ k \in 0..Len(s) /\ 1 <= k + 1
      BY <1>1
    <3> QED
      BY <3>1, PieceOf
  <2>2. (k - 1) + 1 = k /\ \A p \in 1..k : (1 - 1) + p = p
    BY <1>1
  <2> QED
    BY <2>1, <2>2
<1>3. /\ b \o c \in Seq(S) /\ Len(b \o c) = m + k
      /\ \A i \in 1..m : (b \o c)[i] = b[i]
      /\ \A i \in 1..k : (b \o c)[m + i] = c[i]
  BY <1>1, <1>2, Joined
<1>4. /\ \A i \in 1..m : (b \o s)[i] = b[i]
      /\ \A i \in 1..n : (b \o s)[m + i] = s[i]
  BY <1>1, Joined
<1>5. ASSUME NEW p \in 1..m + k PROVE (b \o c)[p] = (b \o s)[p]
  <2>1. CASE p <= m
    <3>1. p \in 1..m
      BY <2>1
    <3> QED
      BY <1>3, <1>4, <3>1
  <2>2. CASE p > m
    <3>1. PICK i \in 1..k : p = m + i
      <4>1. p - m \in 1..k /\ p = m + (p - m)
        BY <2>2
      <4> QED
        BY <4>1
    <3>2. i \in 1..n
      BY <1>1
    <3> QED
      BY <1>2, <1>3, <1>4, <3>1, <3>2
  <2>3. p <= m \/ p > m
    OBVIOUS
  <2> QED
    BY <2>1, <2>2, <2>3
<1> QED
  BY <1>1, <1>2, <1>3, <1>5

(* What is left of buffer b and stream s once h symbols are taken.           *)
Left(b, s, k, h) == SubSeq(b \o SubSeq(s, 1, k), h + 1, Len(b \o SubSeq(s, 1, k)))
After(s, k) == SubSeq(s, k + 1, Len(s))
Behind(x, y, h) == Len(x) = Len(y) - h /\ \A p \in 1..Len(x) : x[p] = y[h + p]

LEMMA ReadLeaves ==
  ASSUME NEW S, NEW b \in Seq(S), NEW s \in Seq(S), NEW k \in 0..Len(s), NEW h \in 0..Len(b) + k
  PROVE  /\ Left(b, s, k, h) \in Seq(S) /\ After(s, k) \in Seq(S)
         /\ Behind(Left(b, s, k, h) \o After(s, k), b \o s, h)
<1>a. PICK m \in Nat, n \in Nat : m = Len(b) /\ n = Len(s)
  OBVIOUS
<1>1. m = Len(b) /\ n = Len(s) /\ k <= n /\ k \in Nat /\ h \in Nat /\ h <= m + k
  BY <1>a
<1>b. (m + k) - h \in Nat
  BY <1>1
<1>5. PICK x \in Nat : x = (m + k) - h
  BY <1>b
<1>2. PICK brought \in Seq(S) :
        /\ brought = b \o SubSeq(s, 1, k) /\ Len(brought) = m + k
        /\ \A p \in 1..m + k : brought[p] = (b \o s)[p]
  <2>1. PICK g : g = b \o SubSeq(s, 1, k)
    OBVIOUS
  <2>2. g \in Seq(S) /\ Len(g) = Len(b) + k /\ \A p \in 1..Len(g) : g[p] = (b \o s)[p]
    BY <2>1, ReadBrings
  <2> QED
    BY <1>1, <2>1, <2>2
<1>3. PICK left \in Seq(S) :
        /\ left = SubSeq(brought, h + 1, m + k) /\ Len(left) = (m + k) - h
        /\ \A p \in 1..(m + k) - h : left[p] = brought[h + p]
  <2>1. h + 1 \in 1..Len(brought) + 1 /\ m + k \in 0..Len(brought) /\ h + 1 <= (m + k) + 1
    BY <1>1, <1>2
  <2>2. /\ SubSeq(brought, h + 1, m + k) \in Seq(S)
        /\ Len(SubSeq(brought, h + 1, m + k)) = ((m + k) - (h + 1)) + 1
        /\ \A p \in 1..((m + k) - (h + 1)) + 1 :
             SubSeq(brought, h + 1, m + k)[p] = brought[((h + 1) - 1) + p]
    BY <2>1, PieceOf
  <2>3. ((m + k) - (h + 1)) + 1 = (m + k) - h /\ (h + 1) - 1 = h
    BY <1>1
  <2> QED
    BY <2>2, <2>3
<1>4. PICK after \in Seq(S) :
        /\ after = SubSeq(s, k + 1, n) /\ Len(after) = n - k
        /\ \A p \in 1..n - k : after[p] = s[k + p]
  <2>1. k + 1 \in 1..Len(s) + 1 /\ n \in 0..Len(s) /\ k + 1 <= n + 1
    BY <1>1
  <2>2. /\ SubSeq(s, k + 1, n) \in Seq(S)
        /\ Len(SubSeq(s, k + 1, n)) = (n - (k + 1)) + 1
        /\ \A p \in 1..(n - (k + 1)) + 1 : SubSeq(s, k + 1, n)[p] = s[((k + 1) - 1) + p]
    BY <2>1, PieceOf
  <2>3. (n - (k + 1)) + 1 = n - k /\ (k + 1) - 1 = k
    BY <1>1
  <2> QED
    BY <2>2, <2>3
<1>6. /\ Len(left \o after) = x + (n - k)
      /\ \A i \in 1..x : (left \o after)[i] = left[i]
      /\ \A i \in 1..n - k : (left \o after)[x + i] = after[i]
  <2>0. n - k \in Nat
    BY <1>1
  <2>1. PICK y \in Nat : y = n - k
    BY <2>0
  <2>2. Len(left) = x /\ Len(after) = y
    BY <1>3, <1>4, <1>5, <2>1
  <2>3. /\ Len(left \o after) = Len(left) + Len(after)
        /\ \A i \in 1..Len(left) : (left \o after)[i] = left[i]
        /\ \A i \in 1..Len(after) : (left \o after)[Len(left) + i] = after[i]
    BY Joined
  <2> QED
    BY <2>1, <2>2, <2>3
<1>7. /\ Len(b \o s) = m + n
      /\ \A i \in 1..n : (b \o s)[m + i] = s[i]
  BY <1>1, Joined
<1>8. x + (n - k) = (m + n) - h
  BY <1>1, <1>5
<1>9. ASSUME NEW p \in 1..x + (n - k) PROVE (left \o after)[p] = (b \o s)[h + p]
  <2>1. CASE p <= x
    <3>1. p \in 1..x /\ h + p \in 1..m + k
      BY <1>1, <1>5, <2>1
    <3> QED
      BY <1>2, <1>3, <1>5, <1>6, <3>1
  <2>2. CASE p > x
    <3>1. PICK i \in 1..n - k : p = x + i
      <4>1. p - x \in 1..n - k /\ p = x + (p - x)
        BY <1>1, <1>5, <2>2
      <4> QED
        BY <4>1
    <3>2. k + i \in 1..n /\ h + p = m + (k + i)
      BY <1>1, <1>5, <3>1
    <3>3. (left \o after)[x + i] = after[i] /\ after[i] = s[k + i]
      BY ONLY <1>4, <1>6, i \in 1..n - k
    <3>4. (b \o s)[m + (k + i)] = s[k + i]
      BY ONLY <1>7, <3>2
    <3> QED
      BY ONLY <3>1, <3>2, <3>3, <3>4
  <2>3. p <= x \/ p > x
    BY <1>1
  <2> QED
    BY <2>1, <2>2, <2>3
<1>10. left = Left(b, s, k, h) /\ after = After(s, k)
  BY <1>1, <1>2, <1>3, <1>4 DEF Left, After
<1>11. Behind(left \o after, b \o s, h)
  BY <1>6, <1>7, <1>8, <1>9 DEF Behind
<1> QED
  BY <1>10, <1>11

-----------------------------------------------------------------------------
(* The records of a request.                                                 *)
ParamNames ==
  {"DOCUMENT_ROOT", "REQUEST_METHOD", "SCRIPT_FILENAME", "SCRIPT_NAME", "QUERY_STRING",
   "SERVER_PROTOCOL", "GATEWAY_INTERFACE", "SERVER_SOFTWARE", "REQUEST_URI",
   "HTTP_CONTENT_LENGTH", "HTTP_HOST", "HTTP_COOKIE", "CONTENT_TYPE", "HTTP_CONTENT_TYPE",
   "HTTP_ACCEPT", "HTTP_CONNECTION"}
ParamsOf(r) ==
  [name : ParamNames, size : Nat, n : {0, r.body}]
    \cup [name : {"CONTENT_LENGTH"}, size : Nat, n : {r.body}]

LEMMA DigitsCount == \A n : Digits(n) \in Nat
<1> SUFFICES ASSUME NEW n PROVE Digits(n) \in Nat
  OBVIOUS
<1> DEFINE K == {k \in 1..9 : 10^k <= n}
<1>1. IsFiniteSet(1..9)
  <2>1. 1 \in Int /\ 9 \in Int
    OBVIOUS
  <2> QED
    BY <2>1, FS_Interval
<1>2. IsFiniteSet(K)
  BY <1>1, FS_Subset
<1>3. Cardinality(K) \in Nat
  BY <1>2, FS_CardinalityType
<1> HIDE DEF K
<1>4. 1 + Cardinality(K) \in Nat
  BY <1>3
<1> USE DEF K
<1> QED
  BY <1>4 DEF Digits

LEMMA RequestTyped ==
  ASSUME NEW r \in Requests
  PROVE  /\ r.root \in Nat /\ r.method \in Nat /\ r.path \in Nat /\ r.query \in Nat /\ r.body \in Nat
         /\ r.slash \in BOOLEAN /\ Root(r) \in Nat
         /\ \A f \in DOMAIN r.fields : r.fields[f] \in Nat
<1>1. IsRequest(r)
  BY FcgiAssumption
<1>2. r.root \in Nat /\ r.method \in Nat /\ r.path \in Nat /\ r.query \in Nat /\ r.body \in Nat
  BY <1>1 DEF IsRequest
<1>3. Root(r) \in Nat
  BY <1>1, <1>2 DEF IsRequest, Root
<1> QED
  BY <1>1, <1>2, <1>3 DEF IsRequest

LEMMA AlwaysTyped ==
  ASSUME NEW r \in Requests
  PROVE  Always(r, r.body) \in Seq(ParamsOf(r))
<1> DEFINE P == ParamsOf(r)
<1>1. \A size \in Nat : \A name \in ParamNames : Param(name, size) \in P
  BY DEF Param, ParamsOf
<1>2. /\ [name |-> "CONTENT_LENGTH", size |-> Digits(r.body), n |-> r.body] \in P
      /\ [name |-> "HTTP_CONTENT_LENGTH", size |-> Digits(r.body), n |-> r.body] \in P
  BY DigitsCount DEF ParamsOf, ParamNames
<1>3. /\ Root(r) \in Nat /\ r.method \in Nat /\ Root(r) + r.path \in Nat /\ r.path \in Nat /\ r.query \in Nat
      /\ r.path + (IF r.query = 0 THEN 0 ELSE 1 + r.query) \in Nat
      /\ 8 \in Nat /\ 7 \in Nat /\ 6 \in Nat
  BY RequestTyped
<1>4. /\ Param("DOCUMENT_ROOT", Root(r)) \in P /\ Param("REQUEST_METHOD", r.method) \in P
      /\ Param("SCRIPT_FILENAME", Root(r) + r.path) \in P /\ Param("SCRIPT_NAME", r.path) \in P
      /\ Param("QUERY_STRING", r.query) \in P /\ Param("SERVER_PROTOCOL", 8) \in P
      /\ Param("GATEWAY_INTERFACE", 7) \in P /\ Param("SERVER_SOFTWARE", 6) \in P
      /\ Param("REQUEST_URI", r.path + (IF r.query = 0 THEN 0 ELSE 1 + r.query)) \in P
  <2> USE <1>1, <1>3 DEF ParamNames
  <2> HIDE DEF P
  <2>1. Param("DOCUMENT_ROOT", Root(r)) \in P /\ Param("REQUEST_METHOD", r.method) \in P
    OBVIOUS
  <2>2. Param("SCRIPT_FILENAME", Root(r) + r.path) \in P /\ Param("SCRIPT_NAME", r.path) \in P
    OBVIOUS
  <2>3. Param("QUERY_STRING", r.query) \in P /\ Param("SERVER_PROTOCOL", 8) \in P
    OBVIOUS
  <2>4. Param("GATEWAY_INTERFACE", 7) \in P /\ Param("SERVER_SOFTWARE", 6) \in P
    OBVIOUS
  <2>5. Param("REQUEST_URI", r.path + (IF r.query = 0 THEN 0 ELSE 1 + r.query)) \in P
    OBVIOUS
  <2> QED
    BY <2>1, <2>2, <2>3, <2>4, <2>5
<1> HIDE DEF P
<1>5. \A a, b, c, d, e, f, g, h, i, j, k \in P : <<a, b, c, d, e, f, g, h, i, j, k>> \in Seq(P)
  OBVIOUS
<1>6. Always(r, r.body) \in Seq(P)
  BY <1>2, <1>4, <1>5, Zenon DEF Always
<1> QED
  BY <1>6 DEF P

LEMMA PresentTyped ==
  ASSUME NEW r \in Requests
  PROVE  Present(r) \in Seq(ParamsOf(r))
<1> DEFINE P == ParamsOf(r)
<1>1. ASSUME NEW field, NEW name \in ParamNames PROVE AddParamIf(r, field, name) \in Seq(P)
  <2>1. CASE field \in DOMAIN r.fields
    <3>1. Param(name, r.fields[field]) \in P
      BY <2>1, RequestTyped DEF Param, ParamsOf
    <3> HIDE DEF P
    <3>2. <<Param(name, r.fields[field])>> \in Seq(P)
      BY <3>1
    <3> QED
      BY <2>1, <3>2 DEF AddParamIf
  <2>2. CASE field \notin DOMAIN r.fields
    BY <2>2 DEF AddParamIf
  <2> QED
    BY <2>1, <2>2
<1> HIDE DEF P
<1>2. /\ AddParamIf(r, "Host", "HTTP_HOST") \in Seq(P) /\ AddParamIf(r, "Cookie", "HTTP_COOKIE") \in Seq(P)
      /\ AddParamIf(r, "Content-Type", "CONTENT_TYPE") \in Seq(P)
      /\ AddParamIf(r, "Content-Type", "HTTP_CONTENT_TYPE") \in Seq(P)
      /\ AddParamIf(r, "Accept", "HTTP_ACCEPT") \in Seq(P)
      /\ AddParamIf(r, "Connection", "HTTP_CONNECTION") \in Seq(P)
  BY <1>1 DEF ParamNames
<1>3. \A s, t \in Seq(P) : s \o t \in Seq(P)
  BY ConcatProperties
<1> QED
  BY <1>2, <1>3, Zenon DEF Present, P

(* The bytes of a length that the application reads.                         *)
LEMMA Bytes4 ==
  ASSUME NEW n \in Nat
  PROVE  /\ ((n \div (256 * 256 * 256)) % 128) + 128 \in Nat
         /\ (n \div (256 * 256)) % 256 \in Nat /\ (n \div 256) % 256 \in Nat /\ n % 256 \in Nat
         /\ n < 65536 =>
              /\ ((n \div (256 * 256 * 256)) % 128) + 128 = 128
              /\ (n \div (256 * 256)) % 256 = 0
              /\ (n \div 256) % 256 = n \div 256
              /\ (n \div 256) * 256 + (n % 256) = n
<1>1. 256 * 256 = 65536 /\ 256 * 256 * 256 = 16777216
  OBVIOUS
<1>2. ((n \div 16777216) % 128) + 128 \in Nat
  OBVIOUS
<1>3. (n \div 65536) % 256 \in Nat /\ (n \div 256) % 256 \in Nat /\ n % 256 \in Nat
  OBVIOUS
<1>4. ASSUME n < 65536 PROVE n \div 16777216 = 0 /\ n \div 65536 = 0
  BY <1>4
<1>5. ASSUME n < 65536 PROVE (n \div 256) % 256 = n \div 256
  BY <1>5
<1>6. (n \div 256) * 256 + (n % 256) = n
  OBVIOUS
<1>7. n < 65536 => ((n \div 16777216) % 128) + 128 = 128 /\ (n \div 65536) % 256 = 0
  BY <1>4
<1> QED
  BY <1>1, <1>2, <1>3, <1>5, <1>6, <1>7

Lengths(n) == LengthBytes(NameSize) \o LengthBytes(n)
ShortForm(b, n) == Len(b) = 2 /\ b[1] = 15 /\ b[2] = n
LongForm(b, n) ==
  Len(b) = 5 /\ b[1] = 15 /\ b[2] = 128 /\ b[3] = 0 /\ b[4] = n \div 256 /\ b[5] = n % 256
IsRead(b, n) ==
  LET name == ReadLength(b, 1)
      value == ReadLength(b, name.next)
  IN  name.n = NameSize /\ value.n = n /\ value.next = Len(b) + 1

LEMMA LengthsOf ==
  ASSUME NEW n \in Nat
  PROVE  /\ Len(Lengths(n)) \in Nat /\ Len(Lengths(n)) > 0
         /\ n < 128 => ShortForm(Lengths(n), n)
         /\ n > 255 /\ n < 65536 => LongForm(Lengths(n), n)
<1>s. PICK s : s = Lengths(n)
  OBVIOUS
<1>1. LengthBytes(NameSize) = <<15>>
  BY DEF LengthBytes, NameSize
<1>0. <<15>> \in Seq(Nat) /\ Len(<<15>>) = 1 /\ <<15>>[1] = 15
  OBVIOUS
<1>a. PICK h \in Seq(Nat) : h = LengthBytes(NameSize) /\ Len(h) = 1 /\ h[1] = 15
  BY <1>0, <1>1, Zenon
<1>2. PICK a \in Nat, b \in Nat, c \in Nat, d \in Nat :
        /\ a = ((n \div (256 * 256 * 256)) % 128) + 128
        /\ b = (n \div (256 * 256)) % 256 /\ c = (n \div 256) % 256 /\ d = n % 256
  BY Bytes4
<1>3. n < 65536 => a = 128 /\ b = 0 /\ c = n \div 256
  BY <1>2, Bytes4
<1>4. PICK t : t = LengthBytes(n)
  OBVIOUS
<1>5. t = IF n > 255 THEN <<a, b, c, d>> ELSE <<n>>
  BY <1>2, <1>4 DEF LengthBytes
<1>6. t \in Seq(Nat)
  BY <1>5
<1>7. s = h \o t
  BY <1>s, <1>a, <1>4 DEF Lengths
<1>8. Len(s) = 1 + Len(t) /\ s[1] = 15 /\ \A i \in 1..Len(t) : s[1 + i] = t[i]
  <2>1. /\ Len(s) = Len(h) + Len(t)
        /\ \A i \in 1..Len(h) : s[i] = h[i]
        /\ \A i \in 1..Len(t) : s[Len(h) + i] = t[i]
    BY <1>6, <1>7, Joined
  <2> QED
    BY <1>a, <2>1
<1>9. Len(t) \in Nat
  BY <1>6
<1>10. ASSUME ~(n > 255) PROVE Len(s) = 2 /\ s[2] = n
  <2>1. Len(t) = 1 /\ t[1] = n /\ 1 \in 1..1
    BY <1>5, <1>10
  <2>2. s[1 + 1] = t[1]
    BY <1>8, <2>1
  <2> QED
    BY <1>8, <2>1, <2>2
<1>11. ASSUME n > 255 PROVE Len(s) = 5 /\ s[2] = a /\ s[3] = b /\ s[4] = c /\ s[5] = d
  <2>1. Len(t) = 4 /\ t[1] = a /\ t[2] = b /\ t[3] = c /\ t[4] = d
    BY <1>5, <1>11
  <2>2. 1 \in 1..4 /\ 2 \in 1..4 /\ 3 \in 1..4 /\ 4 \in 1..4
    OBVIOUS
  <2>3. s[1 + 1] = t[1] /\ s[1 + 2] = t[2] /\ s[1 + 3] = t[3] /\ s[1 + 4] = t[4]
    BY <1>8, <2>1, <2>2
  <2> QED
    BY <1>8, <2>1, <2>3
<1>12. n < 128 => ~(n > 255)
  OBVIOUS
<1>13. n < 128 => ShortForm(s, n)
  BY <1>8, <1>10, <1>12 DEF ShortForm
<1>14. n > 255 /\ n < 65536 => LongForm(s, n)
  BY <1>2, <1>3, <1>8, <1>11 DEF LongForm
<1> QED
  BY <1>s, <1>8, <1>9, <1>13, <1>14

LEMMA LengthsRead ==
  ASSUME NEW n \in Nat, n < 65536, n \notin 128..255
  PROVE  IsRead(Lengths(n), n)
<1>1. PICK b : b = Lengths(n)
  OBVIOUS
<1>2. (n < 128 => ShortForm(b, n)) /\ (n > 255 => LongForm(b, n))
  BY <1>1, LengthsOf
<1>3. n < 128 \/ n > 255
  OBVIOUS
<1>4. CASE n < 128
  <2>1. Len(b) = 2 /\ b[1] = 15 /\ b[2] = n
    BY <1>2, <1>4 DEF ShortForm
  <2>2. ReadLength(b, 1) = [n |-> 15, next |-> 2]
    BY <2>1 DEF ReadLength
  <2>3. ReadLength(b, 2) = [n |-> n, next |-> 3]
    BY <1>4, <2>1 DEF ReadLength
  <2> QED
    BY <1>1, <2>1, <2>2, <2>3 DEF NameSize, IsRead
<1>5. CASE n > 255
  <2>1. /\ Len(b) = 5 /\ b[1] = 15 /\ b[2] = 128 /\ b[3] = 0
        /\ b[4] = n \div 256 /\ b[5] = n % 256
    BY <1>2, <1>5 DEF LongForm
  <2>2. ReadLength(b, 1) = [n |-> 15, next |-> 2]
    BY <2>1 DEF ReadLength
  <2>3. (n \div 256) * 256 + (n % 256) = n
    BY Bytes4
  <2>4. ReadLength(b, 2) = [n |-> (128 - 128) * 256 * 256 * 256 + 0 * 256 * 256
                                     + (n \div 256) * 256 + (n % 256), next |-> 6]
    BY <2>1 DEF ReadLength
  <2>5. n \div 259 \in Int /\ n % 256 \in Int
    OBVIOUS
  <2>6. (128 - 128) * 256 * 256 * 256 + 0 * 256 * 256 + (n \div 256) * 256 + (n % 256) = n
    BY <2>3, <2>5
  <2>7. ReadLength(b, 2) = [n |-> n, next |-> 6]
    BY <2>4, <2>6
  <2> QED
    BY <1>1, <2>1, <2>2, <2>7 DEF NameSize, IsRead
<1> QED
  BY <1>3, <1>4, <1>5

(* One record.                                                               *)
LEMMA PlainRecord ==
  ASSUME NEW type, NEW n \in Nat, type = "PARAMS" => n = 0
  PROVE  LET r == Record(type, Plain(n)) IN
         /\ r.type = type /\ r.content.size = n /\ r.b1 \in 0..255 /\ r.b0 \in 0..255
         /\ ~SaysLength(r)
         /\ Safe(r) => Reads(r)
<1>1. PICK r : r = Record(type, Plain(n))
  OBVIOUS
<1>2. /\ r.type = type /\ r.content.size = n
      /\ r.b1 = (n \div 256) % 256 /\ r.b0 = n % 256
  BY <1>1 DEF Record, Plain
<1>3. r.b1 \in 0..255 /\ r.b0 \in 0..255
  BY <1>2
<1>4. ~(r.type = "PARAMS" /\ r.content.size > 0)
  BY <1>2
<1>5. n < 65536 => r.b1 * 256 + r.b0 = n
  BY <1>2
<1> QED
  BY <1>1, <1>2, <1>3, <1>4, <1>5 DEF SaysLength, Safe, Reads

LEMMA ParamRecord ==
  ASSUME NEW r \in Requests, NEW p \in ParamsOf(r)
  PROVE  LET w == Record("PARAMS", KeyValue(p)) IN
         /\ w.type = "PARAMS" /\ w.content.size \in Nat /\ w.content.size > 0
         /\ w.b1 \in 0..255 /\ w.b0 \in 0..255
         /\ SaysLength(w) => w.content.param.n = r.body
         /\ Safe(w) => Reads(w)
<1>1. p.size \in Nat /\ (p.name = "CONTENT_LENGTH" => p.n = r.body)
  BY DEF ParamsOf, ParamNames
<1>2. PICK b : b = Lengths(p.size)
  OBVIOUS
<1>3. Len(b) \in Nat /\ Len(b) > 0
  BY <1>1, <1>2, LengthsOf
<1>4. PICK w : w = Record("PARAMS", KeyValue(p))
  OBVIOUS
<1>5. PICK size \in Nat : size = Len(b) + NameSize + p.size
  BY <1>1, <1>3 DEF NameSize
<1>6. /\ w.type = "PARAMS" /\ w.content.size = size /\ w.content.param = p /\ w.content.lengths = b
      /\ w.b1 = (size \div 256) % 256 /\ w.b0 = size % 256
  BY <1>2, <1>4, <1>5 DEF Record, KeyValue, Lengths
<1>7. size > 0 /\ p.size <= size
  BY <1>1, <1>3, <1>5 DEF NameSize
<1>8. w.b1 \in 0..255 /\ w.b0 \in 0..255
  BY <1>6
<1>9. SaysLength(w) => w.content.param.n = r.body
  BY <1>1, <1>6 DEF SaysLength
<1>10. ASSUME Safe(w) PROVE Reads(w)
  <2>1. size < 65536 /\ p.size \notin 128..255
    BY <1>6, <1>7, <1>10 DEF Safe
  <2>2. w.b1 * 256 + w.b0 = size
    BY <1>6, <2>1
  <2>3. p.size < 65536
    BY <1>1, <1>7, <2>1
  <2>4. IsRead(b, p.size)
    BY <1>1, <1>2, <2>1, <2>3, LengthsRead
  <2> QED
    BY <1>6, <2>2, <2>4 DEF Reads, IsRead
<1> QED
  BY <1>4, <1>6, <1>7, <1>8, <1>9, <1>10

(* The records in their order: the beginning, one record per parameter, the  *)
(* end of the parameters, the body if there is one, its end.                 *)
Ps(r) == Always(r, r.body) \o Present(r)
RecordsOf(r) ==
  {Record("BEGIN", Plain(8)), Record("PARAMS", Plain(0)), Record("STDIN", Plain(r.body)),
   Record("STDIN", Plain(0))}
    \cup {Record("PARAMS", KeyValue(p)) : p \in ParamsOf(r)}
BodyRecords(r) == IF r.body = 0 THEN <<>> ELSE <<Record("STDIN", Plain(r.body))>>

LEMMA RecordsAre ==
  ASSUME NEW r \in Requests
  PROVE  \E l \in Nat, m \in 0..1 :
           /\ (m = 0) = (r.body = 0)
           /\ Len(RequestRecords(r)) = ((l + 2) + m) + 1
           /\ RequestRecords(r) \in Seq(RecordsOf(r))
           /\ RequestRecords(r)[1] = Record("BEGIN", Plain(8))
           /\ \A i \in 1..l : \E p \in ParamsOf(r) :
                RequestRecords(r)[1 + i] = Record("PARAMS", KeyValue(p))
           /\ RequestRecords(r)[l + 2] = Record("PARAMS", Plain(0))
           /\ m = 1 => RequestRecords(r)[(l + 2) + 1] = Record("STDIN", Plain(r.body))
           /\ RequestRecords(r)[((l + 2) + m) + 1] = Record("STDIN", Plain(0))
<1>1. PICK W : W = RequestRecords(r)
  OBVIOUS
<1>2. Ps(r) \in Seq(ParamsOf(r))
  <2>1. Always(r, r.body) \in Seq(ParamsOf(r)) /\ Present(r) \in Seq(ParamsOf(r))
    BY AlwaysTyped, PresentTyped
  <2> QED
    BY <2>1, ConcatProperties DEF Ps
<1>3. PICK l \in Nat : l = Len(Ps(r))
  BY <1>2
<1>p. \A i \in 1..l : Ps(r)[i] \in ParamsOf(r)
  BY <1>2, <1>3, ElementOfSeq
<1>4. PICK S : S = RecordsOf(r)
  OBVIOUS
<1>5. /\ Record("BEGIN", Plain(8)) \in S /\ Record("PARAMS", Plain(0)) \in S
      /\ Record("STDIN", Plain(r.body)) \in S /\ Record("STDIN", Plain(0)) \in S
      /\ \A p \in ParamsOf(r) : Record("PARAMS", KeyValue(p)) \in S
  BY <1>4 DEF RecordsOf
<1>6. PICK begin : begin = <<Record("BEGIN", Plain(8))>>
  OBVIOUS
<1>7. begin \in Seq(S) /\ Len(begin) = 1 /\ begin[1] = Record("BEGIN", Plain(8))
  BY <1>5, <1>6
<1>8. PICK params : params = ParamRecords(Ps(r))
  OBVIOUS
<1>9. /\ params \in Seq(S) /\ Len(params) = l
      /\ \A i \in 1..l : params[i] = Record("PARAMS", KeyValue(Ps(r)[i]))
  <2>1. params = [i \in 1..l |-> Record("PARAMS", KeyValue(Ps(r)[i]))]
    BY <1>3, <1>8 DEF ParamRecords
  <2>2. \A i \in 1..l : Record("PARAMS", KeyValue(Ps(r)[i])) \in S
    BY <1>5, <1>p
  <2>3. params \in [1..l -> S]
    BY <2>1, <2>2
  <2> QED
    BY <2>1, <2>3
<1>10. PICK closing : closing = <<Record("PARAMS", Plain(0))>>
  OBVIOUS
<1>11. closing \in Seq(S) /\ Len(closing) = 1 /\ closing[1] = Record("PARAMS", Plain(0))
  BY <1>5, <1>10
<1>12. PICK input : input = BodyRecords(r)
  OBVIOUS
<1>13. PICK m \in 0..1 : m = IF r.body = 0 THEN 0 ELSE 1
  OBVIOUS
<1>14. /\ input \in Seq(S) /\ Len(input) = m
       /\ m = 1 => input[1] = Record("STDIN", Plain(r.body))
  BY <1>5, <1>12, <1>13 DEF BodyRecords
<1>15. PICK inputEnd : inputEnd = <<Record("STDIN", Plain(0))>>
  OBVIOUS
<1>16. inputEnd \in Seq(S) /\ Len(inputEnd) = 1 /\ inputEnd[1] = Record("STDIN", Plain(0))
  BY <1>5, <1>15
<1>17. W = (((begin \o params) \o closing) \o input) \o inputEnd
  BY <1>1, <1>6, <1>8, <1>10, <1>12, <1>15 DEF RequestRecords, Ps, BodyRecords
<1>18. PICK AB : AB = begin \o params
  OBVIOUS
<1>19. /\ AB \in Seq(S) /\ Len(AB) = 1 + l
       /\ AB[1] = begin[1] /\ \A i \in 1..l : AB[1 + i] = params[i]
  <2>1. /\ AB \in Seq(S) /\ Len(AB) = Len(begin) + Len(params)
        /\ \A i \in 1..Len(begin) : AB[i] = begin[i]
        /\ \A i \in 1..Len(params) : AB[Len(begin) + i] = params[i]
    BY <1>7, <1>9, <1>18, Joined
  <2> QED
    BY <1>7, <1>9, <2>1
<1>s. AB \in Seq(S) /\ closing \in Seq(S)
  BY <1>11, <1>19
<1>20. PICK ABC : ABC = AB \o closing
  OBVIOUS
<1>21. /\ ABC \in Seq(S) /\ Len(ABC) = l + 2
       /\ \A i \in 1..l + 1 : ABC[i] = AB[i]
       /\ ABC[l + 2] = closing[1]
  <2>1. /\ ABC \in Seq(S) /\ Len(ABC) = Len(AB) + Len(closing)
        /\ \A i \in 1..Len(AB) : ABC[i] = AB[i]
        /\ \A i \in 1..Len(closing) : ABC[Len(AB) + i] = closing[i]
    BY <1>s, <1>20, Joined
  <2>2. 1 \in 1..1 /\ (1 + l) + 1 = l + 2 /\ 1 + l = l + 1
    OBVIOUS
  <2> QED
    BY <1>11, <1>19, <2>1, <2>2
<1>22. PICK ABCD : ABCD = ABC \o input
  OBVIOUS
<1>23. /\ ABCD \in Seq(S) /\ Len(ABCD) = (l + 2) + m
       /\ \A i \in 1..l + 2 : ABCD[i] = ABC[i]
       /\ m = 1 => ABCD[(l + 2) + 1] = input[1]
  <2>1. /\ ABCD \in Seq(S) /\ Len(ABCD) = Len(ABC) + Len(input)
        /\ \A i \in 1..Len(ABC) : ABCD[i] = ABC[i]
        /\ \A i \in 1..Len(input) : ABCD[Len(ABC) + i] = input[i]
    BY <1>14, <1>21, <1>22, Joined
  <2>2. 1 \in 1..1
    OBVIOUS
  <2> QED
    BY <1>14, <1>21, <2>1, <2>2
<1>24. /\ W \in Seq(S) /\ Len(W) = ((l + 2) + m) + 1
       /\ \A i \in 1..(l + 2) + m : W[i] = ABCD[i]
       /\ W[((l + 2) + m) + 1] = inputEnd[1]
  <2>0. W = ABCD \o inputEnd
    BY <1>17, <1>18, <1>20, <1>22
  <2>s. ABCD \in Seq(S) /\ inputEnd \in Seq(S)
    BY <1>16, <1>23
  <2>1. /\ W \in Seq(S) /\ Len(W) = Len(ABCD) + Len(inputEnd)
        /\ \A i \in 1..Len(ABCD) : W[i] = ABCD[i]
        /\ \A i \in 1..Len(inputEnd) : W[Len(ABCD) + i] = inputEnd[i]
    BY <2>s, <2>0, Joined
  <2>2. 1 \in 1..1
    OBVIOUS
  <2> QED
    BY <1>16, <1>23, <2>1, <2>2
<1>25. W[1] = Record("BEGIN", Plain(8))
  <2>1. 1 \in 1..(l + 2) + m /\ 1 \in 1..l + 2 /\ 1 \in 1..l + 1
    OBVIOUS
  <2> QED
    BY <1>7, <1>19, <1>21, <1>23, <1>24, <2>1
<1>26. ASSUME NEW i \in 1..l
       PROVE \E p \in ParamsOf(r) : W[1 + i] = Record("PARAMS", KeyValue(p))
  <2>1. 1 + i \in 1..(l + 2) + m /\ 1 + i \in 1..l + 2 /\ 1 + i \in 1..l + 1
    OBVIOUS
  <2>2. W[1 + i] = Record("PARAMS", KeyValue(Ps(r)[i]))
    BY <1>9, <1>19, <1>21, <1>23, <1>24, <2>1
  <2> QED
    BY <1>p, <2>2
<1>27. W[l + 2] = Record("PARAMS", Plain(0))
  <2>1. l + 2 \in 1..(l + 2) + m /\ l + 2 \in 1..l + 2
    OBVIOUS
  <2> QED
    BY <1>11, <1>21, <1>23, <1>24, <2>1
<1>28. m = 1 => W[(l + 2) + 1] = Record("STDIN", Plain(r.body))
  <2>1. m = 1 => (l + 2) + 1 \in 1..(l + 2) + m
    OBVIOUS
  <2> QED
    BY <1>14, <1>23, <1>24, <2>1
<1>29. W[((l + 2) + m) + 1] = Record("STDIN", Plain(0))
  BY <1>16, <1>24
<1>30. (m = 0) = (r.body = 0)
  BY <1>13
<1> QED
  BY <1>1, <1>4, <1>24, <1>25, <1>26, <1>27, <1>28, <1>29, <1>30, Zenon

(* What the application makes of them, and the types of their length bytes.  *)
Decoded(W) ==
  /\ W # <<>> /\ Len(W) \in Nat
  /\ \A i \in 1..Len(W) : /\ W[i].b1 \in 0..255 /\ W[i].b0 \in 0..255
                          /\ Safe(W[i]) => Reads(W[i])
  /\ \E e \in 1..Len(W) - 1 :
       /\ W[e].type = "PARAMS" /\ W[Len(W)].type = "STDIN"
       /\ \A i \in 1..Len(W) :
            /\ W[i].type = "PARAMS" => i <= e /\ (W[i].content.size = 0 <=> i = e)
            /\ W[i].type = "STDIN" => i > e /\ (W[i].content.size = 0 <=> i = Len(W))
            /\ SaysLength(W[i]) => W[i].content.param.n = W[e + 1].content.size

(* Which place of the records holds what.                                    *)
At(x, type, size) == x.type = type /\ x.content.size = size /\ ~SaysLength(x)
Well(x) == x.b1 \in 0..255 /\ x.b0 \in 0..255 /\ (Safe(x) => Reads(x))

LEMMA PlacesOf ==
  ASSUME NEW r \in Requests
  PROVE  \E l \in Nat, m \in 0..1 :
           /\ (m = 0) = (r.body = 0)
           /\ Len(RequestRecords(r)) = ((l + 2) + m) + 1
           /\ \A i \in 1..Len(RequestRecords(r)) : Well(RequestRecords(r)[i])
           /\ At(RequestRecords(r)[1], "BEGIN", 8)
           /\ \A i \in 1..l :
                /\ RequestRecords(r)[1 + i].type = "PARAMS"
                /\ RequestRecords(r)[1 + i].content.size # 0
                /\ SaysLength(RequestRecords(r)[1 + i]) =>
                     RequestRecords(r)[1 + i].content.param.n = r.body
           /\ At(RequestRecords(r)[l + 2], "PARAMS", 0)
           /\ m = 1 => At(RequestRecords(r)[(l + 2) + 1], "STDIN", r.body)
           /\ At(RequestRecords(r)[((l + 2) + m) + 1], "STDIN", 0)
<1>1. PICK W : W = RequestRecords(r)
  OBVIOUS
<1>2. PICK l \in Nat, m \in 0..1 :
        /\ (m = 0) = (r.body = 0)
        /\ Len(W) = ((l + 2) + m) + 1
        /\ W \in Seq(RecordsOf(r))
        /\ W[1] = Record("BEGIN", Plain(8))
        /\ \A i \in 1..l : \E p \in ParamsOf(r) : W[1 + i] = Record("PARAMS", KeyValue(p))
        /\ W[l + 2] = Record("PARAMS", Plain(0))
        /\ m = 1 => W[(l + 2) + 1] = Record("STDIN", Plain(r.body))
        /\ W[((l + 2) + m) + 1] = Record("STDIN", Plain(0))
  BY <1>1, RecordsAre, Zenon
<1>3. r.body \in Nat /\ 8 \in Nat /\ 0 \in Nat
  BY RequestTyped
<1>4. ASSUME NEW type, NEW n \in Nat, type = "PARAMS" => n = 0
      PROVE  Well(Record(type, Plain(n))) /\ At(Record(type, Plain(n)), type, n)
  BY <1>4, PlainRecord DEF Well, At
<1>5. "BEGIN" # "PARAMS" /\ "STDIN" # "PARAMS"
  OBVIOUS
<1>6. /\ Well(Record("BEGIN", Plain(8))) /\ At(Record("BEGIN", Plain(8)), "BEGIN", 8)
      /\ Well(Record("PARAMS", Plain(0))) /\ At(Record("PARAMS", Plain(0)), "PARAMS", 0)
      /\ Well(Record("STDIN", Plain(0))) /\ At(Record("STDIN", Plain(0)), "STDIN", 0)
      /\ Well(Record("STDIN", Plain(r.body))) /\ At(Record("STDIN", Plain(r.body)), "STDIN", r.body)
  BY <1>3, <1>4, <1>5
<1>7. ASSUME NEW p \in ParamsOf(r)
      PROVE  LET w == Record("PARAMS", KeyValue(p)) IN
             /\ w.type = "PARAMS" /\ w.content.size # 0 /\ Well(w)
             /\ SaysLength(w) => w.content.param.n = r.body
  <2>1. PICK w : w = Record("PARAMS", KeyValue(p))
    OBVIOUS
  <2>2. /\ w.type = "PARAMS" /\ w.content.size \in Nat /\ w.content.size > 0
        /\ w.b1 \in 0..255 /\ w.b0 \in 0..255
        /\ SaysLength(w) => w.content.param.n = r.body
        /\ Safe(w) => Reads(w)
    BY <2>1, ParamRecord
  <2>3. w.content.size # 0
    BY <2>2
  <2> QED
    BY <2>1, <2>2, <2>3 DEF Well
<1>8. ASSUME NEW i \in 1..Len(W) PROVE Well(W[i])
  <2>1. W[i] \in RecordsOf(r)
    BY <1>2, ElementOfSeq
  <2> QED
    BY <1>6, <1>7, <2>1 DEF RecordsOf
<1>9. /\ At(W[1], "BEGIN", 8)
      /\ At(W[l + 2], "PARAMS", 0)
      /\ m = 1 => At(W[(l + 2) + 1], "STDIN", r.body)
      /\ At(W[((l + 2) + m) + 1], "STDIN", 0)
  BY <1>2, <1>6
<1>10. ASSUME NEW i \in 1..l
       PROVE  /\ W[1 + i].type = "PARAMS" /\ W[1 + i].content.size # 0
              /\ SaysLength(W[1 + i]) => W[1 + i].content.param.n = r.body
  <2>1. PICK p \in ParamsOf(r) : W[1 + i] = Record("PARAMS", KeyValue(p))
    BY <1>2
  <2> QED
    BY <1>7, <2>1
<1> QED
  BY <1>1, <1>2, <1>8, <1>9, <1>10, Zenon

LEMMA RecordsDecode ==
  ASSUME NEW r \in Requests
  PROVE  Decoded(RequestRecords(r))
<1>1. PICK W : W = RequestRecords(r)
  OBVIOUS
<1>2. PICK l \in Nat, m \in 0..1 :
        /\ (m = 0) = (r.body = 0)
        /\ Len(W) = ((l + 2) + m) + 1
        /\ \A i \in 1..Len(W) : Well(W[i])
        /\ At(W[1], "BEGIN", 8)
        /\ \A i \in 1..l :
             /\ W[1 + i].type = "PARAMS" /\ W[1 + i].content.size # 0
             /\ SaysLength(W[1 + i]) => W[1 + i].content.param.n = r.body
        /\ At(W[l + 2], "PARAMS", 0)
        /\ m = 1 => At(W[(l + 2) + 1], "STDIN", r.body)
        /\ At(W[((l + 2) + m) + 1], "STDIN", 0)
  BY <1>1, PlacesOf, Zenon
<1>3. PICK e \in Nat : e = l + 2
  OBVIOUS
<1>4. Len(W) = (e + m) + 1 /\ e \in 1..Len(W) - 1 /\ Len(W) \in Nat /\ Len(W) > 0
  BY <1>2, <1>3
<1>5. W # <<>>
  BY <1>4
<1>6. /\ W[e].type = "PARAMS" /\ W[e].content.size = 0 /\ ~SaysLength(W[e])
      /\ W[Len(W)].type = "STDIN" /\ W[Len(W)].content.size = 0 /\ ~SaysLength(W[Len(W)])
      /\ W[1].type = "BEGIN" /\ ~SaysLength(W[1])
      /\ m = 1 => /\ W[e + 1].type = "STDIN" /\ W[e + 1].content.size = r.body
                  /\ ~SaysLength(W[e + 1])
  BY <1>2, <1>3, <1>4 DEF At
<1>7. W[e + 1].content.size = r.body
  <2>1. CASE m = 0
    <3>1. e + 1 = Len(W) /\ r.body = 0
      BY <1>2, <1>4, <2>1
    <3> QED
      BY <1>6, <3>1
  <2>2. m = 0 \/ m = 1
    OBVIOUS
  <2> QED
    BY <1>6, <2>1, <2>2
<1>8. m = 1 => r.body # 0
  BY <1>2
<1>9. ASSUME NEW i \in 1..Len(W)
      PROVE  /\ W[i].type = "PARAMS" => i <= e /\ (W[i].content.size = 0 <=> i = e)
             /\ W[i].type = "STDIN" => i > e /\ (W[i].content.size = 0 <=> i = Len(W))
             /\ SaysLength(W[i]) => W[i].content.param.n = W[e + 1].content.size
  <2>1. CASE i = 1
    <3>1. W[i].type = "BEGIN" /\ ~SaysLength(W[i])
      BY <1>6, <2>1
    <3> QED
      BY <3>1
  <2>2. CASE i > 1 /\ i < e
    <3>1. PICK k \in 1..l : i = 1 + k
      <4>1. i - 1 \in 1..l /\ i = 1 + (i - 1)
        BY <1>3, <2>2
      <4> QED
        BY <4>1
    <3>2. W[i].type = "PARAMS" /\ W[i].content.size # 0 /\ (SaysLength(W[i]) => W[i].content.param.n = r.body)
      BY <1>2, <3>1
    <3>3. i <= e /\ i # e
      BY <2>2
    <3> QED
      BY <1>7, <3>2, <3>3
  <2>3. CASE i = e
    <3>1. W[i].type = "PARAMS" /\ W[i].content.size = 0 /\ ~SaysLength(W[i]) /\ i <= e
      BY <1>6, <2>3
    <3> QED
      BY <2>3, <3>1
  <2>4. CASE m = 1 /\ i = e + 1
    <3>1. W[i].type = "STDIN" /\ W[i].content.size = r.body /\ ~SaysLength(W[i])
      BY <1>6, <2>4
    <3>2. i > e /\ i # Len(W) /\ r.body # 0
      BY <1>4, <1>8, <2>4
    <3> QED
      BY <3>1, <3>2
  <2>5. CASE i = Len(W)
    <3>1. W[i].type = "STDIN" /\ W[i].content.size = 0 /\ ~SaysLength(W[i])
      BY <1>6, <2>5
    <3>2. i > e
      BY <1>4, <2>5
    <3> QED
      BY <2>5, <3>1, <3>2
  <2>6. i = 1 \/ (i > 1 /\ i < e) \/ i = e \/ (m = 1 /\ i = e + 1) \/ i = Len(W)
    BY <1>4
  <2> QED
    BY <2>1, <2>2, <2>3, <2>4, <2>5, <2>6
<1>10. \A i \in 1..Len(W) : /\ W[i].b1 \in 0..255 /\ W[i].b0 \in 0..255
                            /\ Safe(W[i]) => Reads(W[i])
  BY <1>2 DEF Well
<1>11. Decoded(W)
  BY <1>4, <1>5, <1>6, <1>9, <1>10, Zenon DEF Decoded
<1> QED
  BY <1>1, <1>11

-----------------------------------------------------------------------------
(* What is known of the exchange with a FastCGI application.  The records it *)
(* has sent: record i is rs[i], it ends at place at[i] of all that was sent, *)
(* and by then the script's first from[i] symbols are out.                   *)
Kinds == {"STDOUT", "STDERR", "OTHER", "END"}
Shown == [type : Kinds, n : Nat, pad : Nat]

Chain(n, rs, at, from) ==
  /\ n \in Nat /\ rs \in [1..n -> Shown] /\ at \in [0..n -> Nat] /\ from \in [0..n -> Nat]
  /\ at[0] = 0 /\ from[0] = 0
  /\ \A i \in 1..n :
       /\ at[i] = ((at[i - 1] + HeaderSize) + rs[i].n) + rs[i].pad
       /\ at[i] <= at[n]
       /\ from[i] = from[i - 1] + (IF rs[i].type = "STDOUT" THEN rs[i].n ELSE 0)
       /\ from[i] <= from[n]

(* Where the application is.                                                 *)
Speaking(n, rs, from) ==
  /\ from[n] <= Len(script) /\ unsaid = SubSeq(script, from[n] + 1, Len(script))
  /\ \A i \in 1..n : rs[i].type = "END" => i = n /\ rs[i].n = 1
  /\ ended # -1 <=> \E i \in 1..n : rs[i].type = "END"
  /\ odd <=> \E i \in 1..n : rs[i].type = "OTHER"
  /\ written = <<>> => n = 0

(* What was not taken yet begins behind place base; it is as it was sent, and *)
(* all of it unless the application has gone.                                *)
Pending == buffer \o stream

Intact(n, rs, at, from, base) ==
  /\ base + Len(Pending) <= at[n] /\ (~gone => base + Len(Pending) = at[n])
  /\ \A i \in 1..n :
       /\ \A p \in 1..Len(Pending) :
            base + p = at[i - 1] + 1 => Pending[p] = Sym(rs[i].type, rs[i].n, rs[i].pad)
       /\ \A k \in 1..rs[i].n : \A p \in 1..Len(Pending) :
            base + p = (at[i - 1] + HeaderSize) + k =>
              /\ rs[i].type = "STDOUT" => Pending[p] = script[from[i - 1] + k]
              /\ rs[i].type = "END" => Pending[p] = Sym("end", ended, 0)

(* Where the reader is: m records are taken, and the header of the next.     *)
Outcome ==
  /\ finished = 0 => status = 500 /\ (written = <<>> \/ gone)
  /\ finished = 1 =>
       /\ ended # -1 /\ status = Expected
       /\ ended \notin 1..3 => fields = req.set \o HeadersOf(Said) /\ body = BodyOf(Said)

Reading(n, rs, at, from, m, base) ==
  /\ m \in 0..n /\ base \in Nat
  /\ call = "over" => Outcome
  /\ call # "over" =>
       /\ finished = 0 /\ fields = req.set /\ body = SubSeq(script, 1, from[m])
       /\ \A i \in 1..m : rs[i].type # "END"
       /\ status = IF \E i \in 1..m : rs[i].type = "OTHER" THEN 500 ELSE 200
  /\ call \in {"idle", "connecting"} => written = <<>>
  /\ call \in {"idle", "connecting", "header"} => base = at[m]
  /\ call = "content" =>
       /\ m < n /\ base = at[m] + HeaderSize
       /\ header = Sym(rs[m + 1].type, rs[m + 1].n, rs[m + 1].pad)

Exchange(n, rs, at, from, m, base) ==
  /\ Chain(n, rs, at, from) /\ Speaking(n, rs, from)
  /\ Intact(n, rs, at, from, base) /\ Reading(n, rs, at, from, m, base)

ExchangeTypes ==
  /\ req \in Requests /\ script \in Seq(Symbols) /\ unsaid \in Seq(Symbols)
  /\ stream \in Seq(Symbols) /\ buffer \in Seq(Symbols)
  /\ written \in {<<>>, RequestRecords(req)}
  /\ call \in {"idle", "connecting", "header", "content", "over"}
  /\ finished \in 0..1 /\ held \in BOOLEAN /\ released \in BOOLEAN
  /\ ended \in -1..255 /\ gone \in BOOLEAN /\ odd \in BOOLEAN
  /\ records \in 0..MaxRecords
  /\ released => call = "over"

ExchangeInv ==
  ExchangeTypes /\ \E n, rs, at, from, m, base : Exchange(n, rs, at, from, m, base)

(* The symbols of one record.                                                *)
LEMMA Repeated ==
  ASSUME NEW S, NEW x \in S, NEW n \in Nat
  PROVE  [i \in 1..n |-> x] \in Seq(S) /\ Len([i \in 1..n |-> x]) = n
<1>1. [i \in 1..n |-> x] \in [1..n -> S]
  OBVIOUS
<1> QED
  BY <1>1

LEMMA SymbolsOf ==
  ASSUME NEW type \in Kinds, NEW content \in Seq(Symbols), NEW pad \in Nat
  PROVE  LET s == RecordSymbols(type, content, pad) IN
         /\ s \in Seq(Symbols) /\ Len(s) = (HeaderSize + Len(content)) + pad
         /\ s[1] = Sym(type, Len(content), pad)
         /\ \A k \in 1..Len(content) : s[HeaderSize + k] = content[k]
<1>1. HeaderSize \in Nat /\ HeaderSize - 1 \in Nat /\ 1 + (HeaderSize - 1) = HeaderSize
  BY FcgiAssumption
<1>2. PICK c \in Nat : c = Len(content)
  OBVIOUS
<1>3. Sym(type, c, pad) \in Symbols /\ Sym("more", 0, 0) \in Symbols /\ Sym("pad", 0, 0) \in Symbols
  BY DEF Sym, Symbols, Kinds
<1> DEFINE a == <<Sym(type, c, pad)>>
           b == [i \in 1..(HeaderSize - 1) |-> Sym("more", 0, 0)]
           d == [i \in 1..pad |-> Sym("pad", 0, 0)]
           e == a \o b
           f == e \o content
           g == f \o d
<1>4. a \in Seq(Symbols) /\ Len(a) = 1 /\ a[1] = Sym(type, c, pad)
  BY <1>3
<1>5. b \in Seq(Symbols) /\ Len(b) = HeaderSize - 1
  BY <1>1, <1>3, Repeated
<1>6. d \in Seq(Symbols) /\ Len(d) = pad
  BY <1>3, Repeated
<1>7. RecordSymbols(type, content, pad) = g
  BY <1>2 DEF RecordSymbols
<1> HIDE DEF a, b, d
<1>8. /\ e \in Seq(Symbols) /\ Len(e) = Len(a) + Len(b)
      /\ \A i \in 1..Len(a) : e[i] = a[i]
  BY <1>4, <1>5, Joined
<1>e. e \in Seq(Symbols)
  BY <1>8
<1> HIDE DEF e
<1>9. Len(e) = HeaderSize /\ e[1] = Sym(type, c, pad)
  BY <1>1, <1>4, <1>5, <1>8
<1>10. /\ f \in Seq(Symbols) /\ Len(f) = Len(e) + Len(content)
       /\ \A i \in 1..Len(e) : f[i] = e[i]
       /\ \A i \in 1..Len(content) : f[Len(e) + i] = content[i]
  BY <1>e, Joined
<1>f. f \in Seq(Symbols)
  BY <1>10
<1> HIDE DEF f
<1>11. Len(f) = HeaderSize + c /\ f[1] = Sym(type, c, pad) /\ \A i \in 1..c : f[HeaderSize + i] = content[i]
  BY <1>1, <1>2, <1>9, <1>10, FcgiAssumption
<1>12. /\ g \in Seq(Symbols) /\ Len(g) = Len(f) + Len(d)
       /\ \A i \in 1..Len(f) : g[i] = f[i]
  <2>1. d \in Seq(Symbols)
    BY <1>6
  <2> QED
    BY <1>f, <2>1, Joined
<1> HIDE DEF g
<1>13. 1 \in 1..HeaderSize + c /\ \A i \in 1..c : HeaderSize + i \in 1..HeaderSize + c
  BY <1>1, FcgiAssumption
<1> QED
  BY <1>2, <1>6, <1>7, <1>11, <1>12, <1>13

(* What of the exchange a step leaves as it was.                             *)
AppSame == UNCHANGED <<script, unsaid, gone, odd, ended>>
WireSame == UNCHANGED <<buffer, stream>>

LEMMA AppKeeps ==
  ASSUME NEW n, NEW rs, NEW from, Speaking(n, rs, from), AppSame,
         written' = <<>> => written = <<>>
  PROVE  Speaking(n, rs, from)'
BY DEF Speaking, AppSame

LEMMA WireKeeps ==
  ASSUME NEW n, NEW rs, NEW at, NEW from, NEW base, Intact(n, rs, at, from, base),
         AppSame, WireSame
  PROVE  Intact(n, rs, at, from, base)'
<1>1. Pending' = Pending
  BY DEF Pending, WireSame
<1> QED
  BY <1>1 DEF Intact, AppSame

LEMMA ReaderKeeps ==
  ASSUME NEW n, NEW rs, NEW at, NEW from, NEW m, NEW base,
         Reading(n, rs, at, from, m, base), AppSame,
         UNCHANGED <<req, call, written, header, status, fields, body, finished>>
  PROVE  Reading(n, rs, at, from, m, base)'
<1>1. Said' = Said /\ Expected' = Expected
  BY DEF Said, Expected, AppSame
<1>2. Outcome => Outcome'
  BY <1>1 DEF Outcome, AppSame
<1> QED
  BY <1>2 DEF Reading, AppSame

LEMMA Initially ==
  ASSUME FcgiInit
  PROVE  ExchangeInv
<1> USE FcgiAssumption DEF FcgiInit
<1>1. ExchangeTypes
  <2>1. script \in Seq(Symbols) /\ unsaid \in Seq(Symbols)
    OBVIOUS
  <2>2. stream \in Seq(Symbols) /\ buffer \in Seq(Symbols)
    OBVIOUS
  <2>3. records \in 0..MaxRecords /\ finished \in 0..1 /\ ended \in -1..255
    OBVIOUS
  <2>4. written \in {<<>>, RequestRecords(req)}
    OBVIOUS
  <2>5. /\ req \in Requests /\ call = "idle" /\ held = TRUE /\ released = FALSE
        /\ gone = FALSE /\ odd = FALSE
    OBVIOUS
  <2> QED
    BY ONLY <2>1, <2>2, <2>3, <2>4, <2>5 DEF ExchangeTypes
<1> DEFINE n == 0
           rs == [i \in 1..0 |-> <<>>]
           at == [i \in 0..0 |-> 0]
<1>2. Chain(n, rs, at, at)
  <2>1. rs \in [1..n -> Shown] /\ at \in [0..n -> Nat] /\ at[0] = 0 /\ n \in Nat
    OBVIOUS
  <2>2. \A i \in 1..n : FALSE
    OBVIOUS
  <2> HIDE DEF n, rs, at
  <2> QED
    BY <2>1, <2>2, Zenon DEF Chain
<1>3. Speaking(n, rs, at)
  <2>1. PICK l \in Nat : l = Len(script)
    BY <1>1 DEF ExchangeTypes
  <2>2. SubSeq(script, 1, l) = script
    <3>1. script \in Seq(Symbols)
      BY <1>1 DEF ExchangeTypes
    <3>2. l + 1 \in Nat /\ 1 \in 1..Len(script) + 1 /\ l \in 0..Len(script) /\ 1 <= l + 1
      BY <2>1
    <3>3. /\ SubSeq(script, 1, l) \in Seq(Symbols)
          /\ Len(SubSeq(script, 1, l)) = (l - 1) + 1
          /\ \A k \in 1..(l - 1) + 1 : SubSeq(script, 1, l)[k] = script[(1 - 1) + k]
      BY <3>1, <3>2, PieceOf
    <3>4. (l - 1) + 1 = l /\ \A k \in 1..l : (1 - 1) + k = k
      OBVIOUS
    <3>5. Len(SubSeq(script, 1, l)) = Len(script) /\ \A k \in 1..Len(script) : SubSeq(script, 1, l)[k] = script[k]
      BY <2>1, <3>3, <3>4
    <3> QED
      BY <3>1, <3>3, <3>5, SeqEqual
  <2>3. at[n] = 0 /\ 0 + 1 = 1 /\ 0 <= l /\ (\A i \in 1..n : FALSE) /\ n = 0
    OBVIOUS
  <2>4. unsaid = script /\ ended = -1 /\ odd = FALSE
    OBVIOUS
  <2> HIDE DEF n, rs, at
  <2> QED
    BY <2>1, <2>2, <2>3, <2>4 DEF Speaking
<1>4. Intact(n, rs, at, at, 0)
  <2>1. Pending = <<>>
    BY DEF Pending
  <2>2. Len(Pending) = 0 /\ at[n] = 0 /\ 0 + 0 = 0 /\ 0 <= 0 /\ \A i \in 1..n : FALSE
    BY <2>1
  <2> HIDE DEF n, rs, at
  <2> QED
    BY <2>2 DEF Intact
<1>5. Reading(n, rs, at, at, 0, 0)
  <2>1. SubSeq(script, 1, 0) = <<>>
    OBVIOUS
  <2>2. at[0] = 0 /\ 0 \in 0..n /\ 0 \in Nat /\ \A i \in 1..0 : FALSE
    OBVIOUS
  <2>3. finished = 0 /\ fields = req.set /\ body = <<>> /\ status = 200 /\ call = "idle" /\ written = <<>>
    OBVIOUS
  <2> HIDE DEF n, rs, at
  <2> QED
    BY <2>1, <2>2, <2>3 DEF Reading
<1> HIDE DEF n, rs, at
<1>6. Exchange(n, rs, at, at, 0, 0)
  BY <1>2, <1>3, <1>4, <1>5 DEF Exchange
<1> QED
  BY <1>1, <1>6, Zenon DEF ExchangeInv

(* The steps that neither read nor send.                                     *)
LEMMA ControlKeeps ==
  ASSUME ExchangeInv, Call \/ NotConnected \/ Connected \/ RecordFails \/ CallerReturns \/ Release
  PROVE  ExchangeInv'
<1>1. PICK n, rs, at, from, m, base : Exchange(n, rs, at, from, m, base)
  BY DEF ExchangeInv
<1>2. ExchangeTypes
  BY DEF ExchangeInv
<1>3. AppSame /\ WireSame
  BY DEF AppSame, WireSame, Call, NotConnected, Connected, RecordFails, CallerReturns, Release, app
<1>4. RequestRecords(req) # <<>>
  <2>1. req \in Requests
    BY <1>2 DEF ExchangeTypes
  <2> QED
    BY <2>1, RecordsDecode DEF Decoded
<1>5. written' = <<>> => written = <<>>
  BY <1>4 DEF Call, NotConnected, Connected, RecordFails, CallerReturns, Release
<1>6. Chain(n, rs, at, from)' /\ Speaking(n, rs, from)' /\ Intact(n, rs, at, from, base)'
  BY <1>1, <1>3, <1>5, AppKeeps, WireKeeps DEF Exchange, Chain
<1>7. ExchangeTypes'
  <2>1. UNCHANGED <<req, stream, buffer, script, unsaid, gone, odd, ended, records, finished>>
    BY DEF Call, NotConnected, Connected, RecordFails, CallerReturns, Release, app
  <2>2. written' = written \/ written' = RequestRecords(req)
    BY DEF Call, NotConnected, Connected, RecordFails, CallerReturns, Release
  <2>3. call' \in {call, "over", "connecting", "header"} /\ held' \in {held, FALSE}
    BY DEF Call, NotConnected, Connected, RecordFails, CallerReturns, Release
  <2>4. released' => call' = "over"
    <3>1. released => call = "over"
      BY <1>2 DEF ExchangeTypes
    <3>2. CASE Call \/ NotConnected \/ Connected \/ RecordFails
      <4>1. released' = released /\ call # "over"
        BY <3>2 DEF Call, NotConnected, Connected, RecordFails
      <4> QED
        BY ONLY <3>1, <4>1
    <3>3. CASE CallerReturns \/ Release
      <4>1. call' = call /\ (released' = released \/ call = "over")
        BY <3>3 DEF CallerReturns, Release
      <4> QED
        BY ONLY <3>1, <4>1
    <3> QED
      BY <3>2, <3>3
  <2>5. released' \in {released, TRUE}
    BY DEF Call, NotConnected, Connected, RecordFails, CallerReturns, Release
  <2>6. written' \in {<<>>, RequestRecords(req)}
    BY <1>2, <2>2 DEF ExchangeTypes
  <2> QED
    BY ONLY <1>2, <2>1, <2>3, <2>4, <2>5, <2>6 DEF ExchangeTypes
<1>8. Reading(n, rs, at, from, m, base)'
  <2>0. Reading(n, rs, at, from, m, base)
    BY <1>1 DEF Exchange
  <2>1. CASE call' = "over" /\ status' = 500 /\ finished' = finished /\ call # "over"
             /\ (written' = <<>> \/ gone')
    <3>1. finished' = 0
      BY <2>0, <2>1 DEF Reading
    <3>2. Outcome'
      BY <2>1, <3>1 DEF Outcome
    <3> QED
      BY <2>0, <2>1, <3>2 DEF Reading
  <2>2. CASE call = "idle" /\ call' = "connecting"
             /\ UNCHANGED <<req, script, written, header, status, fields, body, finished>>
    BY <2>0, <2>2 DEF Reading
  <2>3. CASE Connected
    BY <2>0, <2>3 DEF Reading, Connected, app
  <2>4. CASE CallerReturns \/ Release
    <3>1. UNCHANGED <<req, call, written, header, status, fields, body, finished>>
      BY <2>4 DEF CallerReturns, Release
    <3> QED
      BY <1>3, <2>0, <3>1, ReaderKeeps
  <2>5. CASE Call
    <3>1. written = <<>>
      BY <2>0, <2>5 DEF Reading, Call
    <3> QED
      BY <2>1, <2>2, <2>5, <3>1 DEF Call, app
  <2>6. CASE NotConnected
    <3>1. written = <<>>
      BY <2>0, <2>6 DEF Reading, NotConnected
    <3> QED
      BY <2>1, <2>6, <3>1 DEF NotConnected
  <2>7. CASE RecordFails
    BY <2>1, <2>7 DEF RecordFails, app
  <2> QED
    BY <2>3, <2>4, <2>5, <2>6, <2>7
<1>9. Exchange(n, rs, at, from, m, base)'
  BY <1>6, <1>8 DEF Exchange
<1> QED
  BY <1>7, <1>9, Zenon DEF ExchangeInv

(* The types that the arithmetic of places needs.                            *)
LEMMA PlacesTyped ==
  ASSUME NEW n, NEW rs, NEW at, NEW from, NEW m, NEW base,
         ExchangeTypes, Exchange(n, rs, at, from, m, base)
  PROVE  /\ n \in Nat /\ m \in 0..n /\ base \in Nat /\ HeaderSize \in Nat /\ HeaderSize > 0
         /\ at[n] \in Nat /\ Pending \in Seq(Symbols) /\ Len(Pending) \in Nat
         /\ Len(Pending) = Len(buffer) + Len(stream) /\ Len(buffer) \in Nat /\ Len(stream) \in Nat
         /\ \A i \in 0..n : at[i] \in Nat /\ from[i] \in Nat
         /\ \A i \in 1..n : /\ at[i - 1] \in Nat /\ from[i - 1] \in Nat
                            /\ rs[i].n \in Nat /\ rs[i].pad \in Nat /\ rs[i].type \in Kinds
<1>1. /\ n \in Nat /\ rs \in [1..n -> Shown] /\ at \in [0..n -> Nat] /\ from \in [0..n -> Nat]
      /\ m \in 0..n /\ base \in Nat
  BY DEF Exchange, Chain, Reading
<1>2. buffer \in Seq(Symbols) /\ stream \in Seq(Symbols)
  BY DEF ExchangeTypes
<1>3. Pending \in Seq(Symbols) /\ Len(Pending) = Len(buffer) + Len(stream)
  BY <1>2, Joined DEF Pending
<1>4. Len(buffer) \in Nat /\ Len(stream) \in Nat /\ Len(Pending) \in Nat
  BY <1>2, <1>3
<1>5. \A i \in 1..n : i - 1 \in 0..n
  BY <1>1
<1>6. HeaderSize \in Nat /\ HeaderSize > 0
  BY FcgiAssumption
<1>7. \A i \in 1..n : rs[i].n \in Nat /\ rs[i].pad \in Nat /\ rs[i].type \in Kinds
  BY <1>1 DEF Shown
<1>8. (\A i \in 0..n : at[i] \in Nat /\ from[i] \in Nat) /\ n \in 0..n
  BY <1>1
<1> QED
  BY <1>1, <1>3, <1>4, <1>5, <1>6, <1>7, <1>8

(* A read that takes h symbols.                                              *)
LEMMA WireTaken ==
  ASSUME NEW n, NEW rs, NEW at, NEW from, NEW m, NEW base,
         ExchangeTypes, Exchange(n, rs, at, from, m, base), AppSame,
         NEW k \in 0..Len(stream), NEW h \in 0..Len(buffer) + k,
         NEW brought, brought = buffer \o SubSeq(stream, 1, k),
         buffer' = SubSeq(brought, h + 1, Len(brought)), stream' = SubSeq(stream, k + 1, Len(stream))
  PROVE  /\ buffer' \in Seq(Symbols) /\ stream' \in Seq(Symbols)
         /\ Intact(n, rs, at, from, base + h)'
<1>1. /\ n \in Nat /\ base \in Nat /\ at[n] \in Nat /\ Len(Pending) \in Nat
      /\ Len(buffer) \in Nat /\ Len(stream) \in Nat /\ Len(Pending) = Len(buffer) + Len(stream)
      /\ HeaderSize \in Nat
      /\ \A i \in 1..n : at[i - 1] \in Nat /\ from[i - 1] \in Nat /\ rs[i].n \in Nat
  BY PlacesTyped
<1>2. buffer \in Seq(Symbols) /\ stream \in Seq(Symbols)
  BY DEF ExchangeTypes
<1>3. h \in Nat /\ h <= Len(Pending)
  BY <1>1
<1>4. /\ buffer' \in Seq(Symbols) /\ stream' \in Seq(Symbols)
      /\ Len(buffer' \o stream') = Len(buffer \o stream) - h
      /\ \A p \in 1..Len(buffer' \o stream') : (buffer' \o stream')[p] = (buffer \o stream)[h + p]
  <2>1. buffer' = Left(buffer, stream, k, h) /\ stream' = After(stream, k)
    BY DEF Left, After
  <2>2. /\ Left(buffer, stream, k, h) \in Seq(Symbols) /\ After(stream, k) \in Seq(Symbols)
        /\ Behind(Left(buffer, stream, k, h) \o After(stream, k), buffer \o stream, h)
    BY <1>2, ReadLeaves
  <2> QED
    BY <2>1, <2>2 DEF Behind
<1>5. /\ Len(Pending') = Len(Pending) - h
      /\ \A p \in 1..Len(Pending') : Pending'[p] = Pending[h + p]
  BY <1>4 DEF Pending
<1>6. PICK x \in Nat, y \in Nat : x = Len(Pending) /\ y = Len(Pending') /\ y = x - h
  <2>1. Len(Pending) - h \in Nat
    BY <1>1, <1>3
  <2> QED
    BY <1>1, <1>5, <2>1
<1>7. Intact(n, rs, at, from, base)
  BY DEF Exchange
<1>8. /\ (base + h) + y <= at[n] /\ (~gone' => (base + h) + y = at[n])
  <2>1. base + x <= at[n] /\ (~gone => base + x = at[n])
    BY <1>6, <1>7 DEF Intact
  <2>2. (base + h) + y = base + x
    BY <1>1, <1>3, <1>6
  <2> QED
    BY <2>1, <2>2 DEF AppSame
<1>9. ASSUME NEW i \in 1..n, NEW p \in 1..y, (base + h) + p = at[i - 1] + 1
      PROVE  Pending'[p] = Sym(rs[i].type, rs[i].n, rs[i].pad)
  <2>1. h + p \in 1..x /\ base + (h + p) = at[i - 1] + 1
    BY <1>1, <1>3, <1>6, <1>9
  <2> QED
    BY <1>5, <1>6, <1>7, <2>1 DEF Intact
<1>10. ASSUME NEW i \in 1..n, NEW j \in 1..rs[i].n, NEW p \in 1..y,
              (base + h) + p = (at[i - 1] + HeaderSize) + j
       PROVE  /\ rs[i].type = "STDOUT" => Pending'[p] = script'[from[i - 1] + j]
              /\ rs[i].type = "END" => Pending'[p] = Sym("end", ended', 0)
  <2>1. h + p \in 1..x /\ base + (h + p) = (at[i - 1] + HeaderSize) + j
    BY <1>1, <1>3, <1>6, <1>10
  <2>2. /\ rs[i].type = "STDOUT" => Pending[h + p] = script[from[i - 1] + j]
        /\ rs[i].type = "END" => Pending[h + p] = Sym("end", ended, 0)
    BY <1>6, <1>7, <2>1 DEF Intact
  <2> QED
    BY <1>5, <1>6, <2>2 DEF AppSame
<1>11. Intact(n, rs, at, from, base + h)'
  BY <1>6, <1>8, <1>9, <1>10 DEF Intact
<1> QED
  BY <1>4, <1>11

LEMMA HeaderKeeps ==
  ASSUME ExchangeInv, NEW k \in 0..Len(stream), HeaderArrives(k)
  PROVE  ExchangeInv'
<1>1. PICK n, rs, at, from, m, base : Exchange(n, rs, at, from, m, base)
  BY DEF ExchangeInv
<1>2. ExchangeTypes
  BY DEF ExchangeInv
<1>3. /\ n \in Nat /\ m \in 0..n /\ base \in Nat /\ HeaderSize \in Nat /\ HeaderSize > 0
      /\ at[n] \in Nat /\ Len(Pending) \in Nat /\ Len(buffer) \in Nat /\ Len(stream) \in Nat
      /\ Len(Pending) = Len(buffer) + Len(stream)
      /\ \A i \in 0..n : at[i] \in Nat
  BY <1>1, <1>2, PlacesTyped
<1>4. buffer \in Seq(Symbols) /\ stream \in Seq(Symbols)
  BY <1>2 DEF ExchangeTypes
<1>5. AppSame
  BY DEF AppSame, HeaderArrives, app
<1>6. PICK brought : brought = buffer \o SubSeq(stream, 1, k)
  OBVIOUS
<1>7. /\ call = "header" /\ k >= HeaderNeeds
      /\ header' = brought[1] /\ buffer' = SubSeq(brought, HeaderSize + 1, Len(brought))
      /\ stream' = SubSeq(stream, k + 1, Len(stream)) /\ call' = "content"
      /\ UNCHANGED <<req, written, status, fields, body, finished, held, released, app>>
  BY <1>6 DEF HeaderArrives
<1>8. /\ Len(brought) = Len(buffer) + k
      /\ \A p \in 1..Len(brought) : brought[p] = Pending[p]
  BY <1>4, <1>6, ReadBrings DEF Pending
<1>9. k \in Nat /\ k <= Len(stream) /\ HeaderSize <= Len(buffer) + k
  BY <1>3, <1>7 DEF HeaderNeeds
<1>10. HeaderSize \in 0..Len(buffer) + k
  BY <1>3, <1>9
<1>11. /\ buffer' \in Seq(Symbols) /\ stream' \in Seq(Symbols)
       /\ Intact(n, rs, at, from, base + HeaderSize)'
  BY <1>1, <1>2, <1>5, <1>6, <1>7, <1>10, WireTaken
<1>12. Reading(n, rs, at, from, m, base) /\ Intact(n, rs, at, from, base)
  BY <1>1 DEF Exchange
<1>13. /\ base = at[m] /\ finished = 0 /\ fields = req.set /\ body = SubSeq(script, 1, from[m])
       /\ \A i \in 1..m : rs[i].type # "END"
       /\ status = IF \E i \in 1..m : rs[i].type = "OTHER" THEN 500 ELSE 200
  BY <1>7, <1>12 DEF Reading
<1>14. m < n /\ m + 1 \in 1..n
  <2>1. base + Len(Pending) <= at[n] /\ Len(Pending) > 0
    BY <1>3, <1>9, <1>12 DEF Intact
  <2>2. m # n
    BY <1>3, <1>13, <2>1
  <2> QED
    BY <1>3, <2>2
<1>15. header' = Sym(rs[m + 1].type, rs[m + 1].n, rs[m + 1].pad)
  <2>1. 1 \in 1..Len(brought) /\ 1 \in 1..Len(Pending)
    BY <1>3, <1>8, <1>9
  <2>2. (m + 1) - 1 = m /\ base + 1 = at[(m + 1) - 1] + 1
    BY <1>3, <1>13
  <2>3. Pending[1] = Sym(rs[m + 1].type, rs[m + 1].n, rs[m + 1].pad)
    BY <1>12, <1>14, <2>1, <2>2 DEF Intact
  <2> QED
    BY <1>7, <1>8, <2>1, <2>3
<1>16. Reading(n, rs, at, from, m, base + HeaderSize)'
  <2>1. base + HeaderSize \in Nat /\ base + HeaderSize = at[m] + HeaderSize
    BY <1>3, <1>13
  <2> QED
    BY <1>3, <1>5, <1>7, <1>13, <1>14, <1>15, <2>1 DEF Reading, AppSame
<1>17. Chain(n, rs, at, from)' /\ Speaking(n, rs, from)'
  BY <1>1, <1>5, <1>7, AppKeeps DEF Exchange, Chain
<1>18. Exchange(n, rs, at, from, m, base + HeaderSize)'
  BY <1>11, <1>16, <1>17 DEF Exchange
<1>19. ExchangeTypes'
  <2>1. released = released' /\ (released => call = "over")
    BY <1>2, <1>7 DEF ExchangeTypes
  <2>2. ~released'
    BY <1>7, <2>1
  <2>3. UNCHANGED <<req, written, finished, held, script, unsaid, gone, odd, ended, records>>
    BY <1>7 DEF app
  <2> QED
    BY <1>2, <1>7, <1>11, <2>2, <2>3 DEF ExchangeTypes
<1> QED
  BY <1>18, <1>19, Zenon DEF ExchangeInv

(* A read of the content of record m + 1 and its padding.                    *)
LEMMA ContentTaken ==
  ASSUME NEW n, NEW rs, NEW at, NEW from, NEW m, NEW base,
         ExchangeTypes, Exchange(n, rs, at, from, m, base), AppSame, TakeContent
  PROVE  /\ m + 1 \in 1..n /\ (m + 1) - 1 = m /\ at[m + 1] \in Nat
         /\ header.is = rs[m + 1].type /\ header.n = rs[m + 1].n
         /\ buffer' \in Seq(Symbols) /\ stream' \in Seq(Symbols)
         /\ Intact(n, rs, at, from, at[m + 1])'
         /\ Content \in Seq(Symbols) /\ Len(Content) = rs[m + 1].n
         /\ \A j \in 1..rs[m + 1].n :
              /\ rs[m + 1].type = "STDOUT" => Content[j] = script[from[m] + j]
              /\ rs[m + 1].type = "END" => Content[j] = Sym("end", ended, 0)
<1>1. /\ n \in Nat /\ m \in 0..n /\ base \in Nat /\ HeaderSize \in Nat /\ HeaderSize > 0
      /\ at[n] \in Nat /\ Len(Pending) \in Nat /\ Len(buffer) \in Nat /\ Len(stream) \in Nat
      /\ Len(Pending) = Len(buffer) + Len(stream)
      /\ \A i \in 0..n : at[i] \in Nat
      /\ \A i \in 1..n : rs[i].n \in Nat /\ rs[i].pad \in Nat
  BY PlacesTyped
<1>2. buffer \in Seq(Symbols) /\ stream \in Seq(Symbols)
  BY DEF ExchangeTypes
<1>3. call = "content" /\ Len(stream) >= ContentNeeds
  BY DEF TakeContent
<1>4. /\ m < n /\ base = at[m] + HeaderSize
      /\ header = Sym(rs[m + 1].type, rs[m + 1].n, rs[m + 1].pad)
  BY <1>3 DEF Exchange, Reading
<1>5. m + 1 \in 1..n /\ (m + 1) - 1 = m /\ m + 1 \in 0..n
  <2>1. n \in Nat /\ m \in Nat /\ m < n
    BY <1>1, <1>4
  <2> QED
    BY ONLY <2>1
<1>6. PICK l \in Nat, pad \in Nat : l = rs[m + 1].n /\ pad = rs[m + 1].pad
  BY <1>1, <1>5
<1>7. header.is = rs[m + 1].type /\ header.n = l /\ header.pad = pad
  BY <1>4, <1>6 DEF Sym
<1>8. PICK k \in 0..Len(stream) : k = ContentNeeds /\ l + pad <= Len(buffer) + k
  <2>1. PICK b \in Nat, z \in Nat : b = Len(buffer) /\ z = Len(stream)
    BY ONLY <1>1
  <2>2. ContentNeeds = IF b < l + pad THEN (l + pad) - b ELSE 0
    BY ONLY <1>7, <2>1 DEF ContentNeeds
  <2>3. z >= ContentNeeds
    BY ONLY <1>3, <2>1
  <2>4. ContentNeeds \in 0..z /\ l + pad <= b + ContentNeeds
    BY ONLY <2>2, <2>3, b \in Nat, z \in Nat, l \in Nat, pad \in Nat
  <2> HIDE DEF ContentNeeds
  <2> QED
    BY ONLY <2>1, <2>4
<1>9. PICK brought : brought = buffer \o SubSeq(stream, 1, k)
  OBVIOUS
<1>10. Got = brought
  BY <1>8, <1>9 DEF Got
<1>11. l + pad \in 0..Len(buffer) + k
  <2>1. Len(buffer) \in Nat
    BY ONLY <1>1
  <2> QED
    BY ONLY <1>8, <2>1, l \in Nat, pad \in Nat
<1>12. buffer' = SubSeq(brought, (l + pad) + 1, Len(brought)) /\ stream' = SubSeq(stream, k + 1, Len(stream))
  BY <1>7, <1>8, <1>10 DEF TakeContent
<1>13. buffer' \in Seq(Symbols) /\ stream' \in Seq(Symbols) /\ Intact(n, rs, at, from, base + (l + pad))'
  BY <1>9, <1>11, <1>12, WireTaken
<1>14. base + (l + pad) = at[m + 1] /\ at[m + 1] \in Nat /\ at[m] \in Nat
  <2>1. at[m + 1] = ((at[(m + 1) - 1] + HeaderSize) + rs[m + 1].n) + rs[m + 1].pad
    BY <1>5 DEF Exchange, Chain
  <2>2. at[m] \in Nat /\ at[m + 1] \in Nat
    BY <1>1, <1>5
  <2> QED
    <3>1. at[m + 1] = ((at[m] + HeaderSize) + l) + pad
      BY <1>5, <1>6, <2>1
    <3>2. base = at[m] + HeaderSize /\ HeaderSize \in Nat /\ l \in Nat /\ pad \in Nat
      BY <1>1, <1>4
    <3> QED
      BY ONLY <2>2, <3>1, <3>2
<1>15. /\ brought \in Seq(Symbols) /\ Len(brought) = Len(buffer) + k
       /\ \A p \in 1..Len(brought) : brought[p] = Pending[p]
  BY <1>2, <1>9, ReadBrings DEF Pending
<1>16. /\ Content \in Seq(Symbols) /\ Len(Content) = l
       /\ \A j \in 1..l : Content[j] = brought[j]
  <2>1. 1 \in 1..Len(brought) + 1 /\ l \in 0..Len(brought) /\ 1 <= l + 1
    BY <1>1, <1>8, <1>11, <1>15
  <2>2. /\ SubSeq(brought, 1, l) \in Seq(Symbols) /\ Len(SubSeq(brought, 1, l)) = (l - 1) + 1
        /\ \A j \in 1..(l - 1) + 1 : SubSeq(brought, 1, l)[j] = brought[(1 - 1) + j]
    BY <1>15, <2>1, PieceOf
  <2>3. (l - 1) + 1 = l /\ \A j \in 1..l : (1 - 1) + j = j
    OBVIOUS
  <2> QED
    BY <1>7, <1>10, <2>2, <2>3 DEF Content
<1>17. Intact(n, rs, at, from, base)
  BY DEF Exchange
<1>18. ASSUME NEW j \in 1..l
       PROVE  /\ rs[m + 1].type = "STDOUT" => Content[j] = script[from[m] + j]
              /\ rs[m + 1].type = "END" => Content[j] = Sym("end", ended, 0)
  <2>1. j \in 1..Len(brought) /\ j \in 1..Len(Pending)
    BY <1>1, <1>8, <1>11, <1>15
  <2>2. base + j = (at[(m + 1) - 1] + HeaderSize) + j /\ j \in 1..rs[m + 1].n
    BY <1>4, <1>5, <1>6
  <2>3. /\ rs[m + 1].type = "STDOUT" => Pending[j] = script[from[(m + 1) - 1] + j]
        /\ rs[m + 1].type = "END" => Pending[j] = Sym("end", ended, 0)
    BY <1>5, <1>17, <2>1, <2>2 DEF Intact
  <2> QED
    BY <1>5, <1>15, <1>16, <2>1, <2>3
<1> QED
  BY <1>5, <1>6, <1>7, <1>13, <1>14, <1>16, <1>18

(* The pieces of the script, and that more of them is one.                   *)
LEMMA NextPiece ==
  ASSUME NEW S, NEW s \in Seq(S), NEW a \in Nat, NEW c \in Seq(S), a + Len(c) <= Len(s),
         \A j \in 1..Len(c) : c[j] = s[a + j]
  PROVE  SubSeq(s, 1, a) \o c = SubSeq(s, 1, a + Len(c))
<1>1. PICK l \in Nat, z \in Nat : l = Len(c) /\ z = Len(s) /\ a + l <= z
  OBVIOUS
<1>2. PICK x : x = SubSeq(s, 1, a)
  OBVIOUS
<1>3. PICK y : y = SubSeq(s, 1, a + l)
  OBVIOUS
<1>4. x \in Seq(S) /\ Len(x) = a /\ \A p \in 1..a : x[p] = s[p]
  <2>1. 1 \in 1..Len(s) + 1 /\ a \in 0..Len(s) /\ 1 <= a + 1
    BY <1>1
  <2>2. /\ SubSeq(s, 1, a) \in Seq(S) /\ Len(SubSeq(s, 1, a)) = (a - 1) + 1
        /\ \A j \in 1..(a - 1) + 1 : SubSeq(s, 1, a)[j] = s[(1 - 1) + j]
    BY <2>1, PieceOf
  <2>3. (a - 1) + 1 = a /\ \A j \in 1..a : (1 - 1) + j = j
    OBVIOUS
  <2> QED
    BY <1>2, <2>2, <2>3
<1>5. y \in Seq(S) /\ Len(y) = a + l /\ \A p \in 1..a + l : y[p] = s[p]
  <2>1. 1 \in 1..Len(s) + 1 /\ a + l \in 0..Len(s) /\ 1 <= (a + l) + 1
    BY <1>1
  <2>2. /\ SubSeq(s, 1, a + l) \in Seq(S) /\ Len(SubSeq(s, 1, a + l)) = ((a + l) - 1) + 1
        /\ \A j \in 1..((a + l) - 1) + 1 : SubSeq(s, 1, a + l)[j] = s[(1 - 1) + j]
    BY <2>1, PieceOf
  <2>3. ((a + l) - 1) + 1 = a + l /\ \A j \in 1..a + l : (1 - 1) + j = j
    OBVIOUS
  <2> QED
    BY <1>3, <2>2, <2>3
<1>6. /\ x \o c \in Seq(S) /\ Len(x \o c) = a + l
      /\ \A p \in 1..a : (x \o c)[p] = x[p]
      /\ \A p \in 1..l : (x \o c)[a + p] = c[p]
  <2>0. x \in Seq(S) /\ c \in Seq(S)
    BY <1>4
  <2>1. /\ x \o c \in Seq(S) /\ Len(x \o c) = Len(x) + Len(c)
        /\ \A i \in 1..Len(x) : (x \o c)[i] = x[i]
        /\ \A i \in 1..Len(c) : (x \o c)[Len(x) + i] = c[i]
    BY <2>0, Joined
  <2> QED
    BY <1>1, <1>4, <2>1
<1>7. ASSUME NEW p \in 1..a + l PROVE (x \o c)[p] = y[p]
  <2>1. CASE p <= a
    <3>1. p \in 1..a
      BY <2>1
    <3> QED
      BY <1>4, <1>5, <1>6, <3>1
  <2>2. CASE p > a
    <3>1. PICK i \in 1..l : p = a + i
      <4>1. p - a \in 1..l /\ p = a + (p - a)
        BY <2>2
      <4> QED
        BY <4>1
    <3> QED
      BY <1>1, <1>5, <1>6, <3>1
  <2>3. p <= a \/ p > a
    OBVIOUS
  <2> QED
    BY <2>1, <2>2, <2>3
<1>8. x \o c = y
  <2>1. x \o c \in Seq(S) /\ y \in Seq(S) /\ Len(x \o c) = Len(y)
    BY <1>5, <1>6
  <2>2. \A p \in 1..Len(x \o c) : (x \o c)[p] = y[p]
    BY <1>6, <1>7
  <2> QED
    BY <2>1, <2>2, SeqEqual
<1> QED
  BY <1>1, <1>2, <1>3, <1>8

LEMMA OutputKeeps ==
  ASSUME ExchangeInv, OutputArrives \/ OtherArrives
  PROVE  ExchangeInv'
<1>1. PICK n, rs, at, from, m, base : Exchange(n, rs, at, from, m, base)
  BY DEF ExchangeInv
<1>2. ExchangeTypes
  BY DEF ExchangeInv
<1>3. AppSame /\ TakeContent /\ call = "content" /\ call' = "header"
  BY DEF AppSame, OutputArrives, OtherArrives, TakeContent, app
<1>4. /\ m + 1 \in 1..n /\ (m + 1) - 1 = m /\ at[m + 1] \in Nat
      /\ header.is = rs[m + 1].type /\ header.n = rs[m + 1].n
      /\ buffer' \in Seq(Symbols) /\ stream' \in Seq(Symbols)
      /\ Intact(n, rs, at, from, at[m + 1])'
      /\ Content \in Seq(Symbols) /\ Len(Content) = rs[m + 1].n
      /\ \A j \in 1..rs[m + 1].n :
           rs[m + 1].type = "STDOUT" => Content[j] = script[from[m] + j]
  BY <1>1, <1>2, <1>3, ContentTaken
<1>5. /\ n \in Nat /\ m \in 0..n
      /\ \A i \in 0..n : from[i] \in Nat
      /\ \A i \in 1..n : rs[i].n \in Nat /\ rs[i].type \in Kinds
  BY <1>1, <1>2, PlacesTyped
<1>6. /\ finished = 0 /\ fields = req.set /\ body = SubSeq(script, 1, from[m])
      /\ \A i \in 1..m : rs[i].type # "END"
      /\ status = IF \E i \in 1..m : rs[i].type = "OTHER" THEN 500 ELSE 200
  BY <1>1, <1>3 DEF Exchange, Reading
<1>7. /\ from[m + 1] = from[m] + (IF rs[m + 1].type = "STDOUT" THEN rs[m + 1].n ELSE 0)
      /\ from[m + 1] <= Len(script) /\ script \in Seq(Symbols)
  <2>1. /\ from[m + 1] = from[(m + 1) - 1] + (IF rs[m + 1].type = "STDOUT" THEN rs[m + 1].n ELSE 0)
        /\ from[m + 1] <= from[n] /\ from[n] <= Len(script)
    BY <1>1, <1>4 DEF Exchange, Chain, Speaking
  <2>2. script \in Seq(Symbols)
    BY <1>2 DEF ExchangeTypes
  <2>3. from[m + 1] \in Nat /\ from[n] \in Nat /\ Len(script) \in Nat
    BY <1>4, <1>5, <2>2
  <2> QED
    BY <1>4, <2>1, <2>2, <2>3
<1>8. /\ UNCHANGED <<req, written, fields, finished, held, released, app>>
      /\ rs[m + 1].type = "STDOUT" => body' = body \o Content /\ status' = status
      /\ rs[m + 1].type # "STDOUT" =>
           /\ body' = body /\ status' = IF rs[m + 1].type = "STDERR" THEN status ELSE 500
           /\ rs[m + 1].type # "END"
  BY <1>4 DEF OutputArrives, OtherArrives
<1>9. body' = SubSeq(script, 1, from[m + 1])
  <2>1. CASE rs[m + 1].type = "STDOUT"
    <3>1. from[m] \in Nat /\ from[m] + Len(Content) <= Len(script) /\ from[m + 1] = from[m] + Len(Content)
      BY <1>4, <1>5, <1>7, <2>1
    <3>2. \A j \in 1..Len(Content) : Content[j] = script[from[m] + j]
      BY <1>4, <2>1
    <3>3. Content \in Seq(Symbols) /\ script \in Seq(Symbols)
      BY <1>4, <1>7
    <3>4. SubSeq(script, 1, from[m]) \o Content = SubSeq(script, 1, from[m] + Len(Content))
      BY <3>1, <3>2, <3>3, NextPiece
    <3> QED
      BY <1>6, <1>8, <2>1, <3>1, <3>4
  <2>2. CASE rs[m + 1].type # "STDOUT"
    <3>1. from[m + 1] = from[m]
      BY <1>5, <1>7, <2>2
    <3> QED
      BY <1>6, <1>8, <2>2, <3>1
  <2> QED
    BY <2>1, <2>2
<1>10. \A i \in 1..m + 1 : i \in 1..m \/ i = m + 1
  BY <1>5
<1>11. /\ \A i \in 1..m + 1 : rs[i].type # "END"
       /\ status' = IF \E i \in 1..m + 1 : rs[i].type = "OTHER" THEN 500 ELSE 200
  <2>1. rs[m + 1].type # "END"
    <3>1. "STDOUT" # "END"
      OBVIOUS
    <3> QED
      BY <1>8, <3>1
  <2>2. \A i \in 1..m : i \in 1..m + 1
    BY <1>5
  <2>3. m + 1 \in 1..m + 1
    BY <1>5
  <2>4. rs[m + 1].type \in {"STDOUT", "STDERR", "OTHER"}
    BY <1>4, <1>5, <2>1 DEF Kinds
  <2>5. status' = IF rs[m + 1].type = "OTHER" THEN 500 ELSE status
    BY <1>8, <2>4
  <2>6. (\E i \in 1..m + 1 : rs[i].type = "OTHER")
           <=> (rs[m + 1].type = "OTHER" \/ \E i \in 1..m : rs[i].type = "OTHER")
    BY <1>10, <2>2, <2>3
  <2> QED
    BY <1>6, <1>10, <2>1, <2>5, <2>6
<1>12. Reading(n, rs, at, from, m + 1, at[m + 1])'
  <2>1. m + 1 \in 0..n
    BY <1>4
  <2>2. UNCHANGED <<req, written, fields, finished, script>>
    BY <1>8 DEF app
  <2>3. call' = "header" /\ at[m + 1] \in Nat
    BY <1>3, <1>4
  <2> QED
    BY ONLY <1>6, <1>9, <1>11, <2>1, <2>2, <2>3 DEF Reading
<1>13. Chain(n, rs, at, from)' /\ Speaking(n, rs, from)'
  <2>1. Chain(n, rs, at, from) /\ Speaking(n, rs, from)
    BY ONLY <1>1 DEF Exchange
  <2>2. written' = written
    BY ONLY <1>8
  <2>3. Speaking(n, rs, from)'
    BY ONLY <1>3, <2>1, <2>2, AppKeeps
  <2>4. Chain(n, rs, at, from)'
    BY ONLY <2>1 DEF Chain
  <2> QED
    BY ONLY <2>3, <2>4
<1>14. Exchange(n, rs, at, from, m + 1, at[m + 1])'
  BY <1>4, <1>12, <1>13 DEF Exchange
<1>15. ExchangeTypes'
  <2>1. ~released'
    BY <1>2, <1>3, <1>8 DEF ExchangeTypes
  <2>2. UNCHANGED <<req, written, finished, held, script, unsaid, gone, odd, ended, records>>
    BY <1>8 DEF app
  <2>3. call' = "header" /\ buffer' \in Seq(Symbols) /\ stream' \in Seq(Symbols)
    BY <1>3, <1>4
  <2>4. released' \in BOOLEAN
    BY <1>2, <1>8 DEF ExchangeTypes
  <2> QED
    BY ONLY <1>2, <2>1, <2>2, <2>3, <2>4 DEF ExchangeTypes
<1> QED
  BY <1>14, <1>15, Zenon DEF ExchangeInv

(* What the application has said is what its records hold.                   *)
LEMMA SaidIs ==
  ASSUME NEW n, NEW rs, NEW at, NEW from, NEW m, NEW base,
         ExchangeTypes, Exchange(n, rs, at, from, m, base)
  PROVE  /\ Said = SubSeq(script, 1, from[n])
         /\ Len(unsaid) <= Len(script) /\ Len(unsaid) \in Nat /\ Len(script) \in Nat
         /\ Len(script) - Len(unsaid) = from[n] /\ from[n] \in Nat
<1>1. script \in Seq(Symbols) /\ n \in Nat /\ from[n] \in Nat /\ from[n] <= Len(script)
  <2>1. n \in Nat /\ \A i \in 0..n : from[i] \in Nat
    BY PlacesTyped
  <2> QED
    BY <2>1 DEF ExchangeTypes, Exchange, Speaking
<1>2. PICK z \in Nat, f \in Nat : z = Len(script) /\ f = from[n] /\ f <= z
  BY <1>1
<1>3. unsaid = SubSeq(script, f + 1, z)
  BY <1>2 DEF Exchange, Speaking
<1>4. Len(unsaid) = (z - (f + 1)) + 1
  <2>1. f + 1 \in 1..Len(script) + 1 /\ z \in 0..Len(script) /\ f + 1 <= z + 1
    BY <1>2
  <2> QED
    BY <1>1, <1>3, <2>1, PieceOf
<1>5. z - Len(unsaid) = f /\ Len(unsaid) <= z /\ Len(unsaid) \in Nat
  BY <1>2, <1>4
<1> QED
  BY <1>2, <1>5 DEF Said

LEMMA EndKeeps ==
  ASSUME ExchangeInv, EndArrives
  PROVE  ExchangeInv'
<1>1. PICK n, rs, at, from, m, base : Exchange(n, rs, at, from, m, base)
  BY DEF ExchangeInv
<1>2. ExchangeTypes
  BY DEF ExchangeInv
<1>3. /\ AppSame /\ TakeContent /\ call = "content" /\ call' = "over" /\ header.is = "END"
      /\ EndRequest(Content[1].n) /\ finished' = finished + 1
      /\ UNCHANGED <<req, written, held, released, app>>
  BY DEF AppSame, EndArrives, TakeContent, app
<1>4. /\ m + 1 \in 1..n /\ (m + 1) - 1 = m /\ at[m + 1] \in Nat
      /\ header.is = rs[m + 1].type
      /\ buffer' \in Seq(Symbols) /\ stream' \in Seq(Symbols)
      /\ Intact(n, rs, at, from, at[m + 1])'
      /\ \A j \in 1..rs[m + 1].n : rs[m + 1].type = "END" => Content[j] = Sym("end", ended, 0)
  BY <1>1, <1>2, <1>3, ContentTaken
<1>5. n \in Nat /\ m \in 0..n /\ (\A i \in 0..n : from[i] \in Nat)
  BY <1>1, <1>2, PlacesTyped
<1>6. /\ finished = 0 /\ fields = req.set /\ body = SubSeq(script, 1, from[m])
      /\ status = IF \E i \in 1..m : rs[i].type = "OTHER" THEN 500 ELSE 200
  BY <1>1, <1>3 DEF Exchange, Reading
<1>7. rs[m + 1].type = "END" /\ m + 1 = n /\ rs[m + 1].n = 1 /\ ended # -1
  <2>1. rs[m + 1].type = "END"
    BY <1>3, <1>4
  <2> QED
    BY <1>1, <1>4, <2>1 DEF Exchange, Speaking
<1>8. Content[1].n = ended
  <2>1. 1 \in 1..rs[m + 1].n
    BY <1>7
  <2> QED
    BY <1>4, <1>7, <2>1 DEF Sym
<1>9. from[n] = from[m] /\ body = Said
  <2>1. from[m + 1] = from[(m + 1) - 1] + (IF rs[m + 1].type = "STDOUT" THEN rs[m + 1].n ELSE 0)
    BY <1>1, <1>4 DEF Exchange, Chain
  <2>2. from[m + 1] = from[m]
    BY <1>4, <1>5, <1>7, <2>1
  <2> QED
    BY <1>1, <1>2, <1>6, <1>7, <2>2, SaidIs
<1>10. status = IF odd THEN 500 ELSE 200
  <2>1. odd <=> \E i \in 1..n : rs[i].type = "OTHER"
    BY <1>1 DEF Exchange, Speaking
  <2>2. \A i \in 1..n : i \in 1..m \/ i = m + 1
    BY <1>5, <1>7
  <2>3. \A i \in 1..m : i \in 1..n
    BY <1>5, <1>7
  <2>4. rs[m + 1].type # "OTHER"
    BY <1>7
  <2>5. (\E i \in 1..n : rs[i].type = "OTHER") <=> \E i \in 1..m : rs[i].type = "OTHER"
    BY <2>2, <2>3, <2>4
  <2> QED
    BY <1>6, <2>1, <2>5
<1>11. Said' = Said /\ finished' = 1 /\ ended' = ended /\ odd' = odd /\ req' = req
  BY <1>3, <1>6 DEF Said, app
<1>12. Outcome'
  <2>1. CASE ended \in 1..3
    <3>1. status' = 500
      BY <1>3, <1>8, <2>1 DEF EndRequest
    <3>2. Expected' = 500
      BY <1>11, <2>1 DEF Expected
    <3> QED
      BY <1>7, <1>11, <2>1, <3>1, <3>2 DEF Outcome
  <2>2. CASE ended \notin 1..3
    <3>1. PICK failed : failed = IF ended = 0 THEN status ELSE 500
      OBVIOUS
    <3>2. /\ fields' = fields \o HeadersOf(body) /\ body' = BodyOf(body)
          /\ status' = StatusOf(fields', failed)
      BY <1>3, <1>8, <2>2, <3>1 DEF EndRequest
    <3>3. failed = IF ended # 0 \/ odd THEN 500 ELSE 200
      BY <1>2, <1>10, <3>1 DEF ExchangeTypes
    <3>4. fields' = req.set \o HeadersOf(Said) /\ body' = BodyOf(Said)
      BY <1>6, <1>9, <3>2
    <3>5. Expected' = StatusOf(req.set \o HeadersOf(Said), failed)
      BY <1>11, <2>2, <3>3 DEF Expected
    <3>6. status' = Expected'
      BY <3>2, <3>4, <3>5
    <3> QED
      BY <1>7, <1>11, <2>2, <3>4, <3>6 DEF Outcome
  <2> QED
    BY <2>1, <2>2
<1>13. Reading(n, rs, at, from, m + 1, at[m + 1])'
  <2>1. m + 1 \in 0..n /\ call' = "over" /\ at[m + 1] \in Nat
    BY <1>3, <1>4
  <2> QED
    BY ONLY <1>12, <2>1 DEF Reading
<1>14. Chain(n, rs, at, from)' /\ Speaking(n, rs, from)'
  BY <1>1, <1>3, AppKeeps DEF Exchange, Chain
<1>15. Exchange(n, rs, at, from, m + 1, at[m + 1])'
  BY <1>4, <1>13, <1>14 DEF Exchange
<1>16. ExchangeTypes'
  <2>1. UNCHANGED <<req, written, held, released, script, unsaid, gone, odd, ended, records>>
    BY <1>3 DEF app
  <2>2. call' = "over" /\ buffer' \in Seq(Symbols) /\ stream' \in Seq(Symbols) /\ finished' = 1
    BY <1>3, <1>4, <1>11
  <2> QED
    BY ONLY <1>2, <2>1, <2>2 DEF ExchangeTypes
<1> QED
  BY <1>15, <1>16, Zenon DEF ExchangeInv

(* The application goes away.                                                *)
LEMMA ClosesKeeps ==
  ASSUME ExchangeInv, NEW k \in 0..Len(stream), Closes(k)
  PROVE  ExchangeInv'
<1>1. PICK n, rs, at, from, m, base : Exchange(n, rs, at, from, m, base)
  BY DEF ExchangeInv
<1>2. ExchangeTypes
  BY DEF ExchangeInv
<1>3. /\ gone' = TRUE /\ stream' = SubSeq(stream, 1, k) /\ written # <<>>
      /\ UNCHANGED <<req, lib, script, unsaid, odd, ended, records>>
  BY DEF Closes
<1>4. /\ UNCHANGED <<call, written, buffer, header, status, fields, body, finished, held, released>>
  BY <1>3 DEF lib
<1>5. buffer \in Seq(Symbols) /\ stream \in Seq(Symbols)
  BY <1>2 DEF ExchangeTypes
<1>6. /\ n \in Nat /\ base \in Nat /\ at[n] \in Nat /\ Len(Pending) \in Nat
      /\ Len(buffer) \in Nat /\ Len(stream) \in Nat /\ Len(Pending) = Len(buffer) + Len(stream)
  BY <1>1, <1>2, PlacesTyped
<1>7. /\ Pending' \in Seq(Symbols) /\ Len(Pending') = Len(buffer) + k
      /\ \A p \in 1..Len(Pending') : Pending'[p] = Pending[p]
  <2>1. PICK brought : brought = buffer \o SubSeq(stream, 1, k)
    OBVIOUS
  <2>2. /\ brought \in Seq(Symbols) /\ Len(brought) = Len(buffer) + k
        /\ \A p \in 1..Len(brought) : brought[p] = Pending[p]
    BY <1>5, <2>1, ReadBrings DEF Pending
  <2>3. Pending' = brought
    BY <1>3, <1>4, <2>1 DEF Pending
  <2> QED
    BY <2>2, <2>3
<1>8. k \in Nat /\ k <= Len(stream) /\ Len(Pending') <= Len(Pending) /\ Len(Pending') \in Nat
  BY <1>6, <1>7
<1>9. Intact(n, rs, at, from, base)'
  <2>0. Intact(n, rs, at, from, base)
    BY <1>1 DEF Exchange
  <2>1. base + Len(Pending') <= at[n]
    <3>1. base + Len(Pending) <= at[n]
      BY <2>0 DEF Intact
    <3> QED
      BY <1>6, <1>8, <3>1
  <2>2. \A p \in 1..Len(Pending') : p \in 1..Len(Pending)
    BY <1>6, <1>8
  <2>3. \A i \in 1..n : \A p \in 1..Len(Pending') :
          base + p = at[i - 1] + 1 => Pending'[p] = Sym(rs[i].type, rs[i].n, rs[i].pad)
    BY <1>7, <2>0, <2>2 DEF Intact
  <2>4. \A i \in 1..n : \A j \in 1..rs[i].n : \A p \in 1..Len(Pending') :
          base + p = (at[i - 1] + HeaderSize) + j =>
              /\ rs[i].type = "STDOUT" => Pending'[p] = script[from[i - 1] + j]
              /\ rs[i].type = "END" => Pending'[p] = Sym("end", ended, 0)
    BY <1>7, <2>0, <2>2 DEF Intact
  <2> QED
    BY <1>3, <2>1, <2>3, <2>4 DEF Intact
<1>10. Chain(n, rs, at, from)' /\ Speaking(n, rs, from)'
  BY <1>1, <1>3, <1>4 DEF Exchange, Chain, Speaking
<1>11. Reading(n, rs, at, from, m, base)'
  <2>1. Said' = Said /\ Expected' = Expected
    BY <1>3, <1>4 DEF Said, Expected
  <2>2. Outcome => Outcome'
    BY <1>3, <1>4, <2>1 DEF Outcome
  <2>3. Reading(n, rs, at, from, m, base) /\ UNCHANGED <<req, script>>
    BY <1>1, <1>3 DEF Exchange
  <2> QED
    BY ONLY <1>4, <2>2, <2>3 DEF Reading
<1>12. Exchange(n, rs, at, from, m, base)'
  BY <1>9, <1>10, <1>11 DEF Exchange
<1>13. ExchangeTypes'
  <2>1. stream' \in Seq(Symbols)
    <3>1. 1 \in 1..Len(stream) + 1 /\ k \in 0..Len(stream) /\ 1 <= k + 1
      BY <1>6, <1>8
    <3> QED
      BY <1>3, <1>5, <3>1, PieceOf
  <2>2. UNCHANGED <<req, call, written, buffer, finished, held, released, script, unsaid, odd, ended, records>>
    BY <1>3, <1>4
  <2> QED
    BY ONLY <1>2, <1>3, <2>1, <2>2 DEF ExchangeTypes
<1> QED
  BY <1>12, <1>13, Zenon DEF ExchangeInv

(* One more record behind the others.                                        *)
MoreRecords(n, rs, at, from, m, base, content, type, rs2, at2, from2) ==
  /\ Chain(n + 1, rs2, at2, from2)
  /\ from2[n + 1] = from[n] + (IF type = "STDOUT" THEN Len(content) ELSE 0)
  /\ rs2[n + 1].type = type /\ rs2[n + 1].n = Len(content)
  /\ \A i \in 1..n : rs2[i] = rs[i]

LEMMA Appends ==
  ASSUME NEW n, NEW rs, NEW at, NEW from, NEW m, NEW base,
         ExchangeTypes, Exchange(n, rs, at, from, m, base), Answering,
         NEW type \in Kinds, NEW content \in Seq(Symbols), NEW pad \in Nat,
         stream' = stream \o RecordSymbols(type, content, pad),
         UNCHANGED <<req, lib, script, gone>>,
         type = "STDOUT" => \A j \in 1..Len(content) : content[j] = script[from[n] + j],
         type = "END" => content = <<Sym("end", ended', 0)>>
  PROVE  /\ stream' \in Seq(Symbols)
         /\ \A i \in 1..n : rs[i].type # "END"
         /\ \E rs2, at2, from2 :
              /\ MoreRecords(n, rs, at, from, m, base, content, type, rs2, at2, from2)
              /\ Intact(n + 1, rs2, at2, from2, base)'
              /\ Reading(n + 1, rs2, at2, from2, m, base)'
<1>1. /\ n \in Nat /\ m \in 0..n /\ base \in Nat /\ HeaderSize \in Nat /\ HeaderSize > 0
      /\ at[n] \in Nat /\ Pending \in Seq(Symbols) /\ Len(Pending) \in Nat
      /\ \A i \in 0..n : at[i] \in Nat /\ from[i] \in Nat
      /\ \A i \in 1..n : /\ at[i - 1] \in Nat /\ from[i - 1] \in Nat
                         /\ rs[i].n \in Nat /\ rs[i].pad \in Nat
  BY PlacesTyped
<1>2. /\ rs \in [1..n -> Shown] /\ at \in [0..n -> Nat] /\ from \in [0..n -> Nat]
      /\ at[0] = 0 /\ from[0] = 0
      /\ \A i \in 1..n :
           /\ at[i] = ((at[i - 1] + HeaderSize) + rs[i].n) + rs[i].pad
           /\ at[i] <= at[n]
           /\ from[i] = from[i - 1] + (IF rs[i].type = "STDOUT" THEN rs[i].n ELSE 0)
           /\ from[i] <= from[n]
  BY DEF Exchange, Chain
<1>3. written # <<>> /\ ~gone /\ ended = -1 /\ \A i \in 1..n : rs[i].type # "END"
  BY DEF Answering, Exchange, Speaking
<1>4. PICK c \in Nat : c = Len(content)
  OBVIOUS
<1>5. PICK x : x = RecordSymbols(type, content, pad)
  OBVIOUS
<1>6. /\ x \in Seq(Symbols) /\ Len(x) = (HeaderSize + c) + pad
      /\ x[1] = Sym(type, c, pad)
      /\ \A j \in 1..c : x[HeaderSize + j] = content[j]
  BY ONLY <1>4, <1>5, type \in Kinds, content \in Seq(Symbols), pad \in Nat, SymbolsOf
<1>7. buffer \in Seq(Symbols) /\ stream \in Seq(Symbols) /\ buffer' = buffer
  BY DEF ExchangeTypes, lib
<1>8. stream' = stream \o x /\ stream' \in Seq(Symbols)
  BY <1>5, <1>6, <1>7, Joined
<1>9. PICK q \in Nat : q = Len(Pending)
  BY <1>1
<1>10. Pending' = Pending \o x
  <2>0. buffer \in Seq(Symbols) /\ stream \in Seq(Symbols) /\ x \in Seq(Symbols)
    BY <1>6, <1>7
  <2>1. (buffer \o stream) \o x = buffer \o (stream \o x)
    BY ONLY <2>0, ConcatAssociative
  <2> QED
    BY <1>7, <1>8, <2>1 DEF Pending
<1>11. /\ Len(Pending') = q + ((HeaderSize + c) + pad)
       /\ \A p \in 1..q : Pending'[p] = Pending[p]
       /\ \A p \in 1..(HeaderSize + c) + pad : Pending'[q + p] = x[p]
  <2>1. Pending \in Seq(Symbols) /\ x \in Seq(Symbols)
    BY <1>1, <1>6
  <2>2. /\ Len(Pending \o x) = Len(Pending) + Len(x)
        /\ \A p \in 1..Len(Pending) : (Pending \o x)[p] = Pending[p]
        /\ \A p \in 1..Len(x) : (Pending \o x)[Len(Pending) + p] = x[p]
    BY <2>1, Joined
  <2> QED
    BY <1>6, <1>9, <1>10, <2>2
<1>12. base + q = at[n]
  BY <1>3, <1>9 DEF Exchange, Intact
<1> DEFINE end == ((at[n] + HeaderSize) + c) + pad
           out == from[n] + (IF type = "STDOUT" THEN c ELSE 0)
<1>13. end \in Nat /\ out \in Nat /\ at[n] <= end /\ from[n] <= out /\ from[n] \in Nat
  <2>1. n \in 0..n
    BY <1>1
  <2>2. PICK e \in Nat, f \in Nat : e = at[n] /\ f = from[n]
    BY <1>1, <2>1
  <2>3. HeaderSize \in Nat
    BY <1>1
  <2>4. ((e + HeaderSize) + c) + pad \in Nat /\ e <= ((e + HeaderSize) + c) + pad
    BY ONLY <2>3, c \in Nat, pad \in Nat, e \in Nat
  <2>5. /\ f + (IF type = "STDOUT" THEN c ELSE 0) \in Nat
        /\ f <= f + (IF type = "STDOUT" THEN c ELSE 0)
    BY ONLY c \in Nat, f \in Nat
  <2> QED
    BY <2>2, <2>4, <2>5
<1> HIDE DEF end, out
<1> DEFINE rs2 == [i \in 1..n + 1 |-> IF i <= n THEN rs[i] ELSE [type |-> type, n |-> c, pad |-> pad]]
           at2 == [i \in 0..n + 1 |-> IF i <= n THEN at[i] ELSE end]
           from2 == [i \in 0..n + 1 |-> IF i <= n THEN from[i] ELSE out]
<1>14. /\ n + 1 \in Nat /\ ~(n + 1 <= n) /\ n + 1 \in 1..n + 1 /\ n + 1 \in 0..n + 1 /\ (n + 1) - 1 = n
       /\ \A i \in 1..n : i <= n /\ i \in 1..n + 1 /\ i \in 0..n + 1 /\ i - 1 <= n /\ i - 1 \in 0..n + 1
       /\ \A i \in 0..n : i <= n /\ i \in 0..n + 1
       /\ \A i \in 1..n + 1 : i \in 1..n \/ i = n + 1
       /\ \A i \in 0..n + 1 : i \in 0..n \/ i = n + 1
  BY <1>1
<1>15. /\ rs2 \in [1..n + 1 -> Shown] /\ at2 \in [0..n + 1 -> Nat] /\ from2 \in [0..n + 1 -> Nat]
  <2>1. \A i \in 1..n + 1 : (IF i <= n THEN rs[i] ELSE [type |-> type, n |-> c, pad |-> pad]) \in Shown
    <3>1. [type |-> type, n |-> c, pad |-> pad] \in Shown
      BY DEF Shown
    <3>2. \A i \in 1..n : rs[i] \in Shown
      BY <1>2
    <3> QED
      BY <1>14, <3>1, <3>2
  <2>2. \A i \in 0..n + 1 : (IF i <= n THEN at[i] ELSE end) \in Nat
    BY <1>1, <1>13, <1>14
  <2>3. \A i \in 0..n + 1 : (IF i <= n THEN from[i] ELSE out) \in Nat
    BY <1>1, <1>13, <1>14
  <2> QED
    BY <2>1, <2>2, <2>3
<1>16. /\ \A i \in 1..n : rs2[i] = rs[i]
       /\ \A i \in 0..n : at2[i] = at[i] /\ from2[i] = from[i]
       /\ rs2[n + 1] = [type |-> type, n |-> c, pad |-> pad]
       /\ at2[n + 1] = end /\ from2[n + 1] = out
  BY <1>14
<1> HIDE DEF rs2, at2, from2
<1>17. \A i \in 1..n : i \in 0..n /\ i - 1 \in 0..n
  BY <1>1
<1>18. 0 \in 0..n /\ n \in 0..n
  BY <1>1
<1>19. Chain(n + 1, rs2, at2, from2)
  <2>1. ASSUME NEW i \in 1..n
        PROVE  /\ at2[i] = ((at2[i - 1] + HeaderSize) + rs2[i].n) + rs2[i].pad
               /\ at2[i] <= at2[n + 1]
               /\ from2[i] = from2[i - 1] + (IF rs2[i].type = "STDOUT" THEN rs2[i].n ELSE 0)
               /\ from2[i] <= from2[n + 1]
    <3>1. at2[i] = at[i] /\ at2[i - 1] = at[i - 1] /\ from2[i] = from[i] /\ from2[i - 1] = from[i - 1]
      BY <1>16, <1>17
    <3>2. at[i] <= end
      <4>1. at[i] \in Nat /\ at[i] <= at[n]
        BY <1>1, <1>2, <1>17
      <4> QED
        BY <1>1, <1>13, <4>1
    <3>3. from[i] <= out
      <4>1. from[i] \in Nat /\ from[i] <= from[n]
        BY <1>1, <1>2, <1>17
      <4> QED
        BY <1>13, <4>1
    <3> QED
      BY <1>2, <1>16, <3>1, <3>2, <3>3
  <2>2. /\ at2[n + 1] = ((at2[n] + HeaderSize) + rs2[n + 1].n) + rs2[n + 1].pad
        /\ from2[n + 1] = from2[n] + (IF rs2[n + 1].type = "STDOUT" THEN rs2[n + 1].n ELSE 0)
    BY <1>16, <1>18 DEF end, out
  <2>3. at2[n + 1] <= at2[n + 1] /\ from2[n + 1] <= from2[n + 1]
    BY <1>13, <1>16
  <2>4. at2[0] = 0 /\ from2[0] = 0
    BY <1>2, <1>16, <1>18
  <2>5. ASSUME NEW i \in 1..n + 1
        PROVE  /\ at2[i] = ((at2[i - 1] + HeaderSize) + rs2[i].n) + rs2[i].pad
               /\ at2[i] <= at2[n + 1]
               /\ from2[i] = from2[i - 1] + (IF rs2[i].type = "STDOUT" THEN rs2[i].n ELSE 0)
               /\ from2[i] <= from2[n + 1]
    <3>1. CASE i \in 1..n
      BY <2>1, <3>1
    <3>2. CASE i = n + 1
      BY <1>14, <2>2, <2>3, <3>2
    <3> QED
      BY <1>14, <3>1, <3>2
  <2> QED
    BY <1>14, <1>15, <2>4, <2>5 DEF Chain
<1>20. MoreRecords(n, rs, at, from, m, base, content, type, rs2, at2, from2)
  BY <1>4, <1>16, <1>19 DEF MoreRecords, out
<1>21. Intact(n, rs, at, from, base)
  BY DEF Exchange
<1>22. Intact(n + 1, rs2, at2, from2, base)'
  <2>1. base + Len(Pending') = at2[n + 1]
    BY <1>1, <1>11, <1>12, <1>16 DEF end
  <2>2. ASSUME NEW i \in 1..n + 1, NEW p \in 1..Len(Pending'), base + p = at2[i - 1] + 1
        PROVE  Pending'[p] = Sym(rs2[i].type, rs2[i].n, rs2[i].pad)
    <3>0. p \in Nat /\ p >= 1
      BY <1>1, <1>11
    <3>1. CASE i \in 1..n
      <4>1. base + p = at[i - 1] + 1 /\ rs2[i] = rs[i]
        BY <1>16, <1>17, <2>2, <3>1
      <4>2. PICK a \in Nat, rn \in Nat, rp \in Nat : a = at[i - 1] /\ rn = rs[i].n /\ rp = rs[i].pad
        BY <1>1, <3>1
      <4>3. ((a + HeaderSize) + rn) + rp <= at[n]
        BY <1>2, <3>1, <4>2
      <4>4. p <= q
        <5>1. /\ base \in Nat /\ HeaderSize \in Nat /\ HeaderSize > 0 /\ p \in Nat
              /\ base + p = a + 1 /\ ((a + HeaderSize) + rn) + rp <= base + q
          BY <1>1, <1>12, <3>0, <4>1, <4>2, <4>3
        <5> QED
          BY ONLY <5>1, a \in Nat, rn \in Nat, rp \in Nat, q \in Nat
      <4>5. p \in 1..q
        BY <3>0, <4>4
      <4>6. p \in 1..Len(Pending)
        BY <1>9, <4>5
      <4>7. Pending[p] = Sym(rs[i].type, rs[i].n, rs[i].pad)
        BY <1>21, <3>1, <4>1, <4>6 DEF Intact
      <4> QED
        BY <1>11, <4>1, <4>5, <4>7
    <3>2. CASE i = n + 1
      <4>1. base + p = at[n] + 1
        BY <1>14, <1>16, <1>18, <2>2, <3>2
      <4>2. p = q + 1
        BY <1>1, <1>12, <3>0, <4>1
      <4>3. 1 \in 1..(HeaderSize + c) + pad
        BY <1>1
      <4>4. Pending'[p] = x[1]
        BY <1>11, <4>2, <4>3
      <4> QED
        BY <1>6, <1>16, <3>2, <4>4
    <3> QED
      BY <1>14, <3>1, <3>2
  <2>3. ASSUME NEW i \in 1..n + 1, NEW j \in 1..rs2[i].n, NEW p \in 1..Len(Pending'),
               base + p = (at2[i - 1] + HeaderSize) + j
        PROVE  /\ rs2[i].type = "STDOUT" => Pending'[p] = script[from2[i - 1] + j]
               /\ rs2[i].type = "END" => Pending'[p] = Sym("end", ended', 0)
    <3>0. p \in Nat /\ p >= 1
      BY <1>1, <1>11
    <3>1. CASE i \in 1..n
      <4>1. /\ base + p = (at[i - 1] + HeaderSize) + j /\ rs2[i] = rs[i] /\ from2[i - 1] = from[i - 1]
            /\ j \in 1..rs[i].n
        BY <1>16, <1>17, <2>3, <3>1
      <4>2. PICK a \in Nat, rn \in Nat, rp \in Nat : a = at[i - 1] /\ rn = rs[i].n /\ rp = rs[i].pad
        BY <1>1, <3>1
      <4>3. ((a + HeaderSize) + rn) + rp <= at[n]
        BY <1>2, <3>1, <4>2
      <4>4. j \in Nat /\ j <= rn
        BY <4>1, <4>2
      <4>5. p <= q
        <5>1. /\ base \in Nat /\ HeaderSize \in Nat /\ p \in Nat
              /\ base + p = (a + HeaderSize) + j /\ ((a + HeaderSize) + rn) + rp <= base + q
          BY <1>1, <1>12, <3>0, <4>1, <4>2, <4>3
        <5> QED
          BY ONLY <5>1, <4>4, a \in Nat, rn \in Nat, rp \in Nat, q \in Nat
      <4>6. p \in 1..q
        BY <3>0, <4>5
      <4>7. p \in 1..Len(Pending)
        BY <1>9, <4>6
      <4>8. rs[i].type = "STDOUT" => Pending[p] = script[from[i - 1] + j]
        BY <1>21, <3>1, <4>1, <4>7 DEF Intact
      <4>9. rs[i].type # "END"
        BY <1>3, <3>1
      <4> QED
        BY <1>11, <4>1, <4>6, <4>8, <4>9
    <3>2. CASE i = n + 1
      <4>1. /\ base + p = (at[n] + HeaderSize) + j /\ j \in 1..c /\ rs2[i].type = type
            /\ from2[i - 1] = from[n]
        BY <1>14, <1>16, <1>18, <2>3, <3>2
      <4>2. p = q + (HeaderSize + j)
        <5>1. /\ base \in Nat /\ HeaderSize \in Nat /\ p \in Nat /\ j \in Nat
              /\ base + p = ((base + q) + HeaderSize) + j
          <6>1. base \in Nat /\ HeaderSize \in Nat /\ p \in Nat
            BY <1>1, <3>0
          <6>2. j \in Nat
            BY ONLY <4>1, c \in Nat
          <6>3. base + p = ((base + q) + HeaderSize) + j
            BY ONLY <1>12, <4>1
          <6> QED
            BY ONLY <6>1, <6>2, <6>3
        <5> QED
          BY ONLY <5>1, q \in Nat
      <4>3. HeaderSize + j \in 1..(HeaderSize + c) + pad
        <5>1. HeaderSize \in Nat /\ j \in 1..c
          BY <1>1, <4>1
        <5> QED
          BY ONLY <5>1, c \in Nat, pad \in Nat
      <4>4. Pending'[p] = content[j]
        BY <1>6, <1>11, <4>1, <4>2, <4>3
      <4>5. type = "STDOUT" => content[j] = script[from[n] + j]
        BY <1>4, <4>1
      <4>6. type = "END" => content[j] = Sym("end", ended', 0)
        <5>1. type = "END" => c = 1 /\ content[1] = Sym("end", ended', 0)
          BY <1>4
        <5>2. type = "END" => j = 1
          BY <4>1, <5>1
        <5> QED
          BY <5>1, <5>2
      <4> QED
        BY <4>1, <4>4, <4>5, <4>6
    <3> QED
      BY <1>14, <3>1, <3>2
  <2>4. script' = script /\ base + Len(Pending') <= at2[n + 1]
    BY <1>13, <1>16, <2>1
  <2> QED
    BY <2>1, <2>2, <2>3, <2>4 DEF Intact
<1>23. Reading(n + 1, rs2, at2, from2, m, base)'
  <2>0. Reading(n, rs, at, from, m, base)
    BY DEF Exchange
  <2>1. UNCHANGED <<req, call, written, buffer, header, status, fields, body, finished, script>>
    BY DEF lib
  <2>2. call # "over"
    <3>1. finished \in 0..1
      BY DEF ExchangeTypes
    <3>2. ~Outcome
      BY <1>3, <3>1 DEF Outcome
    <3> QED
      BY <2>0, <3>2 DEF Reading
  <2>3. m \in 0..n + 1 /\ from2[m] = from[m] /\ at2[m] = at[m] /\ (m < n => m < n + 1 /\ rs2[m + 1] = rs[m + 1])
    <3>1. m < n => m + 1 \in 1..n
      BY <1>1
    <3> QED
      <4>1. m \in 0..n /\ n \in Nat
        BY ONLY <1>1
      <4>2. m \in 0..n + 1 /\ (m < n => m < n + 1)
        BY ONLY <4>1
      <4> QED
        BY ONLY <1>16, <3>1, <4>1, <4>2
  <2>4. \A i \in 1..m : rs2[i] = rs[i]
    BY <1>1, <1>16
  <2>5. base \in Nat
    BY <1>1
  <2> QED
    BY ONLY <2>0, <2>1, <2>2, <2>3, <2>4, <2>5 DEF Reading
<1> QED
  BY <1>3, <1>8, <1>20, <1>22, <1>23, Zenon

(* The application's end of it, once there is one more record.               *)
LEMMA SpeaksOn ==
  ASSUME NEW n \in Nat, NEW rs, NEW from, NEW rs2, NEW from2, NEW type, NEW size,
         Speaking(n, rs, from), Answering, written' = written, script' = script,
         \A i \in 1..n : rs2[i] = rs[i], \A i \in 1..n : rs[i].type # "END",
         rs2[n + 1].type = type, rs2[n + 1].n = size,
         from2[n + 1] <= Len(script), unsaid' = SubSeq(script, from2[n + 1] + 1, Len(script)),
         type = "END" => size = 1, ended' # -1 <=> type = "END",
         odd' = (odd \/ type = "OTHER")
  PROVE  Speaking(n + 1, rs2, from2)'
<1>1. /\ n + 1 \in 1..n + 1 /\ \A i \in 1..n : i \in 1..n + 1
      /\ \A i \in 1..n + 1 : i \in 1..n \/ i = n + 1
  OBVIOUS
<1>2. \A i \in 1..n + 1 : rs2[i].type = "END" => i = n + 1 /\ rs2[i].n = 1
  BY <1>1
<1>3. ended' # -1 <=> \E i \in 1..n + 1 : rs2[i].type = "END"
  BY <1>1
<1>4. odd <=> \E i \in 1..n : rs[i].type = "OTHER"
  BY DEF Speaking
<1>5. (\E i \in 1..n + 1 : rs2[i].type = "OTHER")
        <=> (type = "OTHER" \/ \E i \in 1..n : rs[i].type = "OTHER")
  BY <1>1
<1>6. odd' <=> \E i \in 1..n + 1 : rs2[i].type = "OTHER"
  BY <1>4, <1>5
<1>7. written' # <<>>
  BY DEF Answering
<1> QED
  BY <1>2, <1>3, <1>6, <1>7 DEF Speaking

LEMMA PrintsKeeps ==
  ASSUME ExchangeInv, NEW pad \in 0..MaxPadding, NEW k \in 1..Len(unsaid), Prints(k, pad)
  PROVE  ExchangeInv'
<1>1. PICK n, rs, at, from, m, base : Exchange(n, rs, at, from, m, base)
  BY DEF ExchangeInv
<1>2. ExchangeTypes
  BY DEF ExchangeInv
<1>3. script \in Seq(Symbols) /\ unsaid \in Seq(Symbols) /\ n \in Nat /\ pad \in Nat
  BY <1>1, <1>2, FcgiAssumption DEF ExchangeTypes, Exchange, Chain
<1>4. PICK f \in Nat, z \in Nat, u \in Nat :
        /\ f = from[n] /\ z = Len(script) /\ u = Len(unsaid) /\ u <= z /\ z - u = f /\ k \in 1..u
  BY <1>1, <1>2, SaidIs
<1>5. unsaid = SubSeq(script, f + 1, z)
  BY <1>1, <1>4 DEF Exchange, Speaking
<1>6. \A j \in 1..u : unsaid[j] = script[f + j]
  <2>1. f + 1 \in 1..Len(script) + 1 /\ z \in 0..Len(script) /\ f + 1 <= z + 1
    BY <1>4
  <2>2. \A j \in 1..(z - (f + 1)) + 1 : SubSeq(script, f + 1, z)[j] = script[((f + 1) - 1) + j]
    BY <1>3, <2>1, PieceOf
  <2>3. (z - (f + 1)) + 1 = u /\ (f + 1) - 1 = f
    <3>1. z - u = f
      BY ONLY <1>4
    <3> QED
      BY ONLY <3>1, f \in Nat, z \in Nat, u \in Nat
  <2> QED
    BY <1>5, <2>2, <2>3
<1>7. PICK content : content = SubSeq(unsaid, 1, k)
  OBVIOUS
<1>8. content \in Seq(Symbols) /\ Len(content) = k /\ \A j \in 1..k : content[j] = script[f + j]
  <2>1. 1 \in 1..Len(unsaid) + 1 /\ k \in 0..Len(unsaid) /\ 1 <= k + 1
    BY <1>4
  <2>2. /\ SubSeq(unsaid, 1, k) \in Seq(Symbols) /\ Len(SubSeq(unsaid, 1, k)) = (k - 1) + 1
        /\ \A j \in 1..(k - 1) + 1 : SubSeq(unsaid, 1, k)[j] = unsaid[(1 - 1) + j]
    BY <1>3, <2>1, PieceOf
  <2>3. (k - 1) + 1 = k /\ \A j \in 1..k : (1 - 1) + j = j /\ j \in 1..u
    BY <1>4
  <2> QED
    BY <1>6, <1>7, <2>2, <2>3
<1>9. /\ Answering /\ records < MaxRecords /\ records' = records + 1
      /\ stream' = stream \o RecordSymbols("STDOUT", content, pad)
      /\ unsaid' = SubSeq(unsaid, k + 1, Len(unsaid))
      /\ UNCHANGED <<req, lib, script, gone, odd, ended>>
  BY <1>7 DEF Prints
<1>t. PICK type \in Kinds : type = "STDOUT"
  BY DEF Kinds
<1>10. /\ stream' \in Seq(Symbols) /\ \A i \in 1..n : rs[i].type # "END"
       /\ \E rs2, at2, from2 :
            /\ MoreRecords(n, rs, at, from, m, base, content, type, rs2, at2, from2)
            /\ Intact(n + 1, rs2, at2, from2, base)'
            /\ Reading(n + 1, rs2, at2, from2, m, base)'
  <2>1. type = "END" => content = <<Sym("end", ended', 0)>>
    BY <1>t
  <2>2. type = "STDOUT" => \A j \in 1..Len(content) : content[j] = script[from[n] + j]
    BY <1>4, <1>8
  <2>3. UNCHANGED <<req, lib, script, gone>> /\ stream' = stream \o RecordSymbols(type, content, pad)
    BY <1>9, <1>t
  <2>4. content \in Seq(Symbols) /\ pad \in Nat /\ Answering
    BY <1>3, <1>8, <1>9
  <2> QED
    BY <1>1, <1>2, <2>1, <2>2, <2>3, <2>4, Appends
<1>11. PICK rs2, at2, from2 :
         /\ MoreRecords(n, rs, at, from, m, base, content, type, rs2, at2, from2)
         /\ Intact(n + 1, rs2, at2, from2, base)'
         /\ Reading(n + 1, rs2, at2, from2, m, base)'
  BY <1>10
<1>12. /\ Chain(n + 1, rs2, at2, from2) /\ from2[n + 1] = f + k
       /\ rs2[n + 1].type = type /\ rs2[n + 1].n = k /\ \A i \in 1..n : rs2[i] = rs[i]
  BY <1>4, <1>8, <1>11, <1>t DEF MoreRecords
<1>13. unsaid' = SubSeq(script, (f + k) + 1, z) /\ unsaid' \in Seq(Symbols)
  <2>1. k + 1 \in 1..Len(unsaid) + 1 /\ u \in 0..Len(unsaid) /\ k + 1 <= u + 1
    BY <1>4
  <2>2. /\ SubSeq(unsaid, k + 1, u) \in Seq(Symbols) /\ Len(SubSeq(unsaid, k + 1, u)) = (u - (k + 1)) + 1
        /\ \A j \in 1..(u - (k + 1)) + 1 : SubSeq(unsaid, k + 1, u)[j] = unsaid[((k + 1) - 1) + j]
    BY <1>3, <2>1, PieceOf
  <2>3. (f + k) + 1 \in 1..Len(script) + 1 /\ z \in 0..Len(script) /\ (f + k) + 1 <= z + 1
    BY <1>4
  <2>4. /\ SubSeq(script, (f + k) + 1, z) \in Seq(Symbols)
        /\ Len(SubSeq(script, (f + k) + 1, z)) = (z - ((f + k) + 1)) + 1
        /\ \A j \in 1..(z - ((f + k) + 1)) + 1 :
             SubSeq(script, (f + k) + 1, z)[j] = script[(((f + k) + 1) - 1) + j]
    BY <1>3, <2>3, PieceOf
  <2>5. PICK l \in Nat : l = u - k
    <3>1. u - k \in Nat
      BY <1>4
    <3> QED
      BY <3>1
  <2>6. /\ (u - (k + 1)) + 1 = l /\ (k + 1) - 1 = k /\ (z - ((f + k) + 1)) + 1 = l
        /\ ((f + k) + 1) - 1 = f + k
    BY <1>4, <2>5
  <2>7. \A j \in 1..l : k + j \in 1..u /\ f + (k + j) = (f + k) + j
    BY <1>4, <2>5
  <2>8. \A j \in 1..l : SubSeq(unsaid, k + 1, u)[j] = SubSeq(script, (f + k) + 1, z)[j]
    BY <1>6, <2>2, <2>4, <2>6, <2>7
  <2>9. Len(SubSeq(unsaid, k + 1, u)) = l /\ Len(SubSeq(script, (f + k) + 1, z)) = l
    BY <2>2, <2>4, <2>6
  <2>10. SubSeq(unsaid, k + 1, u) = SubSeq(script, (f + k) + 1, z)
    BY <2>2, <2>4, <2>8, <2>9, SeqEqual
  <2> QED
    BY <1>4, <1>9, <2>2, <2>10
<1>14. Speaking(n + 1, rs2, from2)'
  <2>1. from2[n + 1] <= Len(script) /\ unsaid' = SubSeq(script, from2[n + 1] + 1, Len(script))
    BY <1>4, <1>12, <1>13
  <2>2. Speaking(n, rs, from) /\ written' = written /\ script' = script
    BY <1>1, <1>9 DEF Exchange, lib
  <2>3. (ended' # -1 <=> type = "END") /\ odd' = (odd \/ type = "OTHER")
    <3>1. ended' = -1 /\ odd' = odd /\ odd \in BOOLEAN
      BY <1>2, <1>9 DEF Answering, ExchangeTypes
    <3> QED
      BY <1>t, <3>1
  <2>4. type = "END" => k = 1
    BY <1>t
  <2> QED
    BY <1>3, <1>9, <1>10, <1>12, <2>1, <2>2, <2>3, <2>4, SpeaksOn
<1>15. Exchange(n + 1, rs2, at2, from2, m, base)'
  BY <1>11, <1>12, <1>14 DEF Exchange, Chain
<1>16. ExchangeTypes'
  <2>1. UNCHANGED <<req, call, written, buffer, finished, held, released, script, gone, odd, ended>>
    BY <1>9 DEF lib
  <2>2. records' \in 0..MaxRecords
    BY <1>2, <1>9, FcgiAssumption DEF ExchangeTypes
  <2> QED
    BY <1>2, <1>10, <1>13, <2>1, <2>2 DEF ExchangeTypes
<1> QED
  BY <1>15, <1>16, Zenon DEF ExchangeInv

(* A record that is none of the script's output.                             *)
LEMMA AsideKeeps ==
  ASSUME ExchangeInv, NEW pad \in Nat, NEW type \in Kinds, NEW s \in Symbols, type # "STDOUT", Answering,
         stream' = stream \o RecordSymbols(type, <<s>>, pad),
         type = "END" => s = Sym("end", ended', 0), ended' # -1 <=> type = "END", ended' \in -1..255,
         odd' = (odd \/ type = "OTHER"), records' \in 0..MaxRecords,
         UNCHANGED <<req, lib, script, unsaid, gone>>
  PROVE  ExchangeInv'
<1>1. PICK n, rs, at, from, m, base : Exchange(n, rs, at, from, m, base)
  BY DEF ExchangeInv
<1>2. ExchangeTypes
  BY DEF ExchangeInv
<1>3. PICK content : content = <<s>>
  OBVIOUS
<1>4. content \in Seq(Symbols) /\ Len(content) = 1
  BY <1>3
<1>5. n \in Nat
  BY <1>1 DEF Exchange, Chain
<1>6. /\ stream' \in Seq(Symbols) /\ \A i \in 1..n : rs[i].type # "END"
      /\ \E rs2, at2, from2 :
           /\ MoreRecords(n, rs, at, from, m, base, content, type, rs2, at2, from2)
           /\ Intact(n + 1, rs2, at2, from2, base)'
           /\ Reading(n + 1, rs2, at2, from2, m, base)'
  <2>1. type = "END" => content = <<Sym("end", ended', 0)>>
    BY <1>3
  <2>2. type = "STDOUT" => \A j \in 1..Len(content) : content[j] = script[from[n] + j]
    OBVIOUS
  <2>3. UNCHANGED <<req, lib, script, gone>> /\ stream' = stream \o RecordSymbols(type, content, pad)
    BY <1>3
  <2> QED
    BY <1>1, <1>2, <1>4, <2>1, <2>2, <2>3, Appends
<1>7. PICK rs2, at2, from2 :
        /\ MoreRecords(n, rs, at, from, m, base, content, type, rs2, at2, from2)
        /\ Intact(n + 1, rs2, at2, from2, base)'
        /\ Reading(n + 1, rs2, at2, from2, m, base)'
  BY <1>6
<1>8. from[n] \in Nat /\ from[n] <= Len(script) /\ unsaid = SubSeq(script, from[n] + 1, Len(script))
  <2>1. n \in 0..n
    BY <1>5
  <2> QED
    BY <1>1, <2>1 DEF Exchange, Chain, Speaking
<1>9. /\ Chain(n + 1, rs2, at2, from2) /\ from2[n + 1] = from[n]
      /\ rs2[n + 1].type = type /\ rs2[n + 1].n = 1 /\ \A i \in 1..n : rs2[i] = rs[i]
  BY <1>4, <1>7, <1>8 DEF MoreRecords
<1>10. Speaking(n + 1, rs2, from2)'
  <2>1. from2[n + 1] <= Len(script) /\ unsaid' = SubSeq(script, from2[n + 1] + 1, Len(script))
    BY <1>8, <1>9
  <2>2. Speaking(n, rs, from) /\ written' = written /\ script' = script
    BY <1>1 DEF Exchange, lib
  <2>3. type = "END" => 1 = 1
    OBVIOUS
  <2> QED
    BY <1>5, <1>6, <1>9, <2>1, <2>2, <2>3, SpeaksOn
<1>11. Exchange(n + 1, rs2, at2, from2, m, base)'
  BY <1>7, <1>9, <1>10 DEF Exchange, Chain
<1>12. ExchangeTypes'
  <2>1. UNCHANGED <<req, call, written, buffer, finished, held, released, script, unsaid, gone>>
    BY DEF lib
  <2>2. odd' \in BOOLEAN
    BY <1>2 DEF ExchangeTypes
  <2> QED
    BY <1>2, <1>6, <2>1, <2>2 DEF ExchangeTypes
<1> QED
  BY <1>11, <1>12, Zenon DEF ExchangeInv

LEMMA OtherKeeps ==
  ASSUME ExchangeInv, NEW pad \in 0..MaxPadding, NEW type \in {"STDERR", "OTHER"}, SendsOther(type, pad)
  PROVE  ExchangeInv'
<1>1. /\ pad \in Nat /\ type \in Kinds /\ type # "STDOUT" /\ type # "END"
      /\ type # "STDERR" <=> type = "OTHER"
  BY FcgiAssumption DEF Kinds
<1>2. Sym("byte", 0, 0) \in Symbols
  BY DEF Sym, Symbols
<1>3. /\ Answering /\ records < MaxRecords /\ records' = records + 1
      /\ stream' = stream \o RecordSymbols(type, <<Sym("byte", 0, 0)>>, pad)
      /\ odd' = (odd \/ type # "STDERR")
      /\ UNCHANGED <<req, lib, script, unsaid, gone, ended>>
  BY DEF SendsOther
<1>4. ended' = -1 /\ -1 \in -1..255 /\ records' \in 0..MaxRecords
  BY <1>3, FcgiAssumption DEF Answering, ExchangeInv, ExchangeTypes
<1>5. odd' = (odd \/ type = "OTHER")
  BY <1>1, <1>3
<1> QED
  BY <1>1, <1>2, <1>3, <1>4, <1>5, AsideKeeps

LEMMA EndsKeeps ==
  ASSUME ExchangeInv, NEW st \in Statuses, Ends(st)
  PROVE  ExchangeInv'
<1>1. st \in 0..255
  BY FcgiAssumption
<1>2. "END" \in Kinds /\ "END" # "STDOUT" /\ "END" # "OTHER"
  BY DEF Kinds
<1>3. Sym("end", st, 0) \in Symbols /\ 0 \in Nat
  BY <1>1 DEF Sym, Symbols
<1>4. /\ Answering /\ stream' = stream \o RecordSymbols("END", <<Sym("end", st, 0)>>, 0)
      /\ ended' = st /\ UNCHANGED <<req, lib, script, unsaid, gone, odd, records>>
  BY DEF Ends
<1>5. ended' # -1 /\ ended' \in -1..255
  BY <1>1, <1>4
<1>6. odd' = (odd \/ "END" = "OTHER") /\ records' \in 0..MaxRecords
  <2>1. odd \in BOOLEAN /\ records \in 0..MaxRecords
    BY DEF ExchangeInv, ExchangeTypes
  <2> QED
    BY <1>4, <2>1
<1> QED
  BY <1>2, <1>3, <1>4, <1>5, <1>6, AsideKeeps

LEMMA StepKeeps ==
  ASSUME ExchangeInv, [FcgiNext]_fcgiVars
  PROVE  ExchangeInv'
<1>1. CASE Library
  <2>1. CASE Connected \/ NotConnected \/ RecordFails \/ CallerReturns \/ Release
    BY <2>1, ControlKeeps
  <2>2. CASE OutputArrives \/ OtherArrives
    BY <2>2, OutputKeeps
  <2>3. CASE EndArrives
    BY <2>3, EndKeeps
  <2>4. CASE \E k \in 0..Len(stream) : HeaderArrives(k)
    BY <2>4, HeaderKeeps
  <2> QED
    BY <1>1, <2>1, <2>2, <2>3, <2>4 DEF Library
<1>2. CASE Call
  BY <1>2, ControlKeeps
<1>3. CASE \E pad \in 0..MaxPadding : \E k \in 1..Len(unsaid) : Prints(k, pad)
  BY <1>3, PrintsKeeps
<1>4. CASE \E pad \in 0..MaxPadding : \E type \in {"STDERR", "OTHER"} : SendsOther(type, pad)
  BY <1>4, OtherKeeps
<1>5. CASE \E st \in Statuses : Ends(st)
  BY <1>5, EndsKeeps
<1>6. CASE \E k \in 0..Len(stream) : Closes(k)
  BY <1>6, ClosesKeeps
<1>7. CASE UNCHANGED fcgiVars
  <2>1. UNCHANGED <<req, stream, call, written, buffer, header, status, fields, body, finished, held,
                    released, script, unsaid, gone, odd, ended, records>>
    BY <1>7 DEF fcgiVars, lib, app
  <2>2. PICK n, rs, at, from, m, base : Exchange(n, rs, at, from, m, base)
    BY DEF ExchangeInv
  <2>3. AppSame /\ WireSame
    BY <2>1 DEF AppSame, WireSame
  <2>4. Chain(n, rs, at, from)' /\ Speaking(n, rs, from)'
    BY <2>1, <2>2, <2>3, AppKeeps DEF Exchange, Chain
  <2>5. Intact(n, rs, at, from, base)'
    BY <2>2, <2>3, WireKeeps DEF Exchange
  <2>6. Reading(n, rs, at, from, m, base)'
    BY <2>1, <2>2, <2>3, ReaderKeeps DEF Exchange
  <2>7. Exchange(n, rs, at, from, m, base)'
    BY <2>4, <2>5, <2>6 DEF Exchange
  <2>8. ExchangeTypes'
    BY <2>1 DEF ExchangeInv, ExchangeTypes
  <2> QED
    BY <2>7, <2>8, Zenon DEF ExchangeInv
<1> QED
  BY <1>1, <1>2, <1>3, <1>4, <1>5, <1>6, <1>7 DEF FcgiNext

(* What follows from the invariant.                                          *)
LEMMA WrittenDecodes ==
  ASSUME ExchangeInv
  PROVE  /\ RequestDecodes
         /\ \A i \in 1..Len(written) : written[i].b1 \in 0..255 /\ written[i].b0 \in 0..255
<1>1. req \in Requests /\ written \in {<<>>, RequestRecords(req)}
  BY DEF ExchangeInv, ExchangeTypes
<1>2. CASE written = <<>>
  BY <1>2 DEF RequestDecodes
<1>3. CASE written # <<>>
  <2>1. Decoded(written)
    BY <1>1, <1>3, RecordsDecode
  <2> QED
    BY <2>1 DEF Decoded, RequestDecodes
<1> QED
  BY <1>2, <1>3

LEMMA AnswersTruly ==
  ASSUME ExchangeInv
  PROVE  AnswerSaysWhatHappened
<1>1. PICK n, rs, at, from, m, base : Exchange(n, rs, at, from, m, base)
  BY DEF ExchangeInv
<1>2. ExchangeTypes
  BY DEF ExchangeInv
<1>3. FcgiTypeOK
  <2>1. Len(unsaid) <= Len(script)
    BY <1>1, <1>2, SaidIs
  <2>2. finished = 1 => call = "over"
    BY <1>1 DEF Exchange, Reading
  <2>3. \A i \in 1..Len(written) : written[i].b1 \in 0..255 /\ written[i].b0 \in 0..255
    BY WrittenDecodes
  <2> QED
    BY ONLY <1>2, <2>1, <2>2, <2>3 DEF FcgiTypeOK, ExchangeTypes
<1>4. ASSUME released
      PROVE  /\ status = Expected
             /\ finished = 1 /\ ended \notin 1..3 => fields = req.set \o HeadersOf(Said) /\ body = BodyOf(Said)
             /\ finished = 1 => ended # -1
             /\ ended # -1 /\ ~gone => finished = 1
  <2>1. finished \in 0..1 /\ call = "over"
    BY <1>2, <1>4 DEF ExchangeTypes
  <2>2. Outcome
    BY <1>1, <2>1 DEF Exchange, Reading
  <2>3. CASE finished = 1
    BY <2>2, <2>3 DEF Outcome
  <2>4. CASE finished = 0
    <3>1. status = 500 /\ (written = <<>> \/ gone)
      BY <2>2, <2>4 DEF Outcome
    <3>2. Expected = 500
      BY <2>4 DEF Expected
    <3>3. written = <<>> => ended = -1
      <4>1. (written = <<>> => n = 0) /\ (ended # -1 <=> \E i \in 1..n : rs[i].type = "END")
        BY <1>1 DEF Exchange, Speaking
      <4>2. \A i \in 1..0 : FALSE
        OBVIOUS
      <4> QED
        BY <4>1, <4>2
    <3> QED
      BY <2>4, <3>1, <3>2, <3>3
  <2> QED
    BY <2>1, <2>3, <2>4
<1> QED
  BY <1>3, <1>4 DEF AnswerSaysWhatHappened

(* The invariant of the exchange.                                            *)
THEOREM ExchangeInvariant == FcgiSpec => []ExchangeInv
<1>1. FcgiInit => ExchangeInv
  BY Initially
<1>2. ExchangeInv /\ [FcgiNext]_fcgiVars => ExchangeInv'
  BY StepKeeps
<1> QED
  BY <1>1, <1>2, PTL DEF FcgiSpec

(* Whatever the parts of the request are, the application reads every record *)
(* of safe sizes as fcgi() put it together.                                  *)
THEOREM RequestIsRead == FcgiSpec => []RequestDecodes
<1>1. ExchangeInv => RequestDecodes
  BY WrittenDecodes
<1> QED
  BY <1>1, ExchangeInvariant, PTL

(* Whatever the script prints, however its output is cut into records,       *)
(* padded, mixed with others and received, and whenever the application goes *)
(* away: a response that is sent says what happened.                         *)
THEOREM AnswerIsTrue == FcgiSpec => []AnswerSaysWhatHappened
<1>1. ExchangeInv => AnswerSaysWhatHappened
  BY AnswersTruly
<1> QED
  BY <1>1, ExchangeInvariant, PTL
=============================================================================
