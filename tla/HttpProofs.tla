------------------------------ MODULE HttpProofs ------------------------------
(***************************************************************************)
(* Theorems about Parser, for any streams, any cut into reads and any      *)
(* limits, and about Package, for any lengths and calls: both are compared *)
(* with HttpFraming.                                                       *)
(***************************************************************************)
EXTENDS Parser, Package, SequenceTheorems, WellFoundedInduction, TLAPS

(* The inductive invariant.  What is buffered is the end of what was read.   *)
EndsAt(b, p) ==
  /\ b \in Seq(Symbol) /\ Len(b) <= p
  /\ \A i \in 1..Len(b) : b[i] = input[p - Len(b) + i]

Buffered == input \in Seq(Symbol) /\ pos \in 0..Len(input) /\ EndsAt(buf, pos)

Held ==
  /\ length \in Symbol \cup {None} /\ length.is \in {"none", "length", "badlength"}
  /\ coding \in Symbol \cup {None} /\ coding.is \in {"none", "chunked"}
  /\ body \in Seq(Symbol)
  /\ attached \in BOOLEAN /\ told \in BOOLEAN /\ stopped \in BOOLEAN /\ thrown \in BOOLEAN

(* The package is detached exactly while the last report is a failure, and   *)
(* no success follows a failure, nor another parse.                          *)
Failed == reports # <<>> /\ reports[Len(reports)] = "null"
History ==
  /\ reports \in Seq({"ok", "null"})
  /\ attached <=> ~Failed
  /\ Failed => told
  /\ \A i, j \in 1..Len(reports) : i < j /\ reports[i] = "null" => reports[j] = "null"
  /\ stopped => Failed

(* The queue says how far the parse is, and there are these cases only.      *)
BodyOp(m) == [kind |-> "body", chunk |-> 0, need |-> m]
DataOp(n, m) == [kind |-> "data", chunk |-> n, need |-> m]
EndOp(n) == [kind |-> "end", chunk |-> n, need |-> 0]

AtFirst == ops = <<Op("first")>> /\ attached /\ length = None /\ coding = None /\ body = <<>>
AtHeader == ops = <<Op("header")>> /\ attached /\ body = <<>>

Fits == length.is = "length" /\ length.n <= IntMax /\ Len(input) <= IntMax
AtBody ==
  /\ attached /\ buf = <<>> /\ length.is = "length"
  /\ \E m \in 1..IntMax : ops = <<BodyOp(m)>> /\ (Fits => Len(body) + m = length.n)

Chunked == attached => length = None /\ coding.is = "chunked"
AtSize == ops = <<Op("size")>> /\ Chunked
AtData ==
  /\ attached /\ Chunked
  /\ \E n \in 1..MaxChunk :
       n > Len(buf) /\ ops = <<DataOp(n, n - Len(buf)), EndOp(n), Op("size")>>
AtEnd == Chunked /\ \E n \in 1..MaxChunk : ops = <<EndOp(n), Op("size")>>

(* Behind the size of the last chunk: either that line was the last one, or  *)
(* there is another one to end the message.                                  *)
LastSizeAt(i) ==
  i \in 1..Len(input) /\ (input[i].is = "blank" \/ (input[i].is = "size" /\ input[i].n = 0))
AtLastEnd ==
  /\ attached /\ Chunked /\ ops = <<EndOp(0)>>
  /\ Newlines(buf) # {} \/ LastSizeAt(pos - Len(buf))

Over == ops = <<>> /\ (told \/ EndsUnheard) /\ SizedBodyIsWhole

Stage == AtFirst \/ AtHeader \/ AtBody \/ AtSize \/ AtData \/ AtEnd \/ AtLastEnd \/ Over

IInv == Buffered /\ Held /\ History /\ Stage


-----------------------------------------------------------------------------
(* A set of numbers that is not empty has a least one.                       *)
LEMMA LeastNumber == \A T \in SUBSET Nat : T # {} => \E x \in T : \A y \in T : x <= y
<1> SUFFICES ASSUME NEW T \in SUBSET Nat, T # {} PROVE \E x \in T : \A y \in T : x <= y
  OBVIOUS
<1> DEFINE R == OpToRel(<, Nat)
<1>1. IsWellFoundedOn(R, Nat)
  BY NatLessThanWellFounded
<1> HIDE DEF R
<1>2. PICK x \in T : \A y \in T : ~(<<y, x>> \in R)
  BY <1>1, WFMin
<1>3. \A y \in T : ~(y < x)
  BY <1>2 DEF R, OpToRel
<1> QED
  BY <1>3

(* The numbers the model computes with an int stay in its range, and those   *)
(* in its range stay as they are.                                            *)
LEMMA ToIntRange ==
  ASSUME NEW n \in Int
  PROVE  ToInt(n) \in -(IntMax + 1)..IntMax /\ (n \in -(IntMax + 1)..IntMax => ToInt(n) = n)
<1>1. PICK m \in Nat : m = 2 * IntMax + 2 /\ m > 0
  BY ParserAssumption
<1>2. PICK a \in Int : a = n + IntMax + 1
  BY ParserAssumption
<1>3. a % m \in 0..m - 1
  BY <1>1
<1>4. a \in 0..m - 1 => a % m = a
  BY <1>1
<1>5. ToInt(n) = (a % m) - IntMax - 1
  BY <1>1, <1>2 DEF ToInt
<1> QED
  BY <1>1, <1>2, <1>3, <1>4, <1>5, ParserAssumption

(* The first newline is the least of them.                                   *)
LEMMA FirstNewlineIs ==
  ASSUME NEW b \in Seq(Symbol), Newlines(b) # {}
  PROVE  FirstNewline(b) \in Newlines(b) /\ FirstNewline(b) \in 1..Len(b)
<1>1. Newlines(b) \in SUBSET Nat /\ Newlines(b) \subseteq 1..Len(b)
  BY DEF Newlines
<1>2. \E i \in Newlines(b) : \A j \in Newlines(b) : i <= j
  BY <1>1, LeastNumber
<1>3. FirstNewline(b) \in Newlines(b)
  BY <1>2 DEF FirstNewline
<1> QED
  BY <1>1, <1>3

(* What is left when the first k of the bytes that end at p are taken.       *)
LEMMA Cut ==
  ASSUME Buffered, NEW p \in 0..Len(input), NEW b, EndsAt(b, p), NEW k \in 0..Len(b)
  PROVE  LET r == SubSeq(b, k + 1, Len(b)) IN EndsAt(r, p) /\ Len(r) = Len(b) - k
<1>0. PICK s \in Seq(Symbol) : s = b
  BY DEF EndsAt
<1> DEFINE r == SubSeq(s, k + 1, Len(s))
<1>1. r \in Seq(Symbol) /\ Len(r) = Len(s) - k /\ \A i \in 1..Len(s) - k : r[i] = s[k + i]
  <2>1. k + 1 \in 1..Len(s) + 1
    BY <1>0
  <2> QED
    BY <1>0, <2>1, SubSeqProperties
<1> HIDE DEF r
<1>2. ASSUME NEW i \in 1..Len(r) PROVE r[i] = input[p - Len(r) + i]
  <2>1. k + i \in 1..Len(s) /\ p - Len(s) + (k + i) = p - Len(r) + i
    BY <1>0, <1>1 DEF Buffered
  <2>2. s[k + i] = input[p - Len(s) + (k + i)]
    BY <1>0, <2>1 DEF EndsAt
  <2> QED
    BY <1>1, <2>1, <2>2
<1>3. Len(r) <= p
  BY <1>0, <1>1 DEF EndsAt, Buffered
<1>4. EndsAt(r, p)
  BY <1>1, <1>2, <1>3 DEF EndsAt
<1> QED
  BY <1>0, <1>1, <1>4 DEF r

(* An empty buffer ends anywhere.                                            *)
LEMMA NothingLeft == ASSUME NEW p \in Nat PROVE EndsAt(<<>>, p)
BY DEF EndsAt

(* What is buffered after n more bytes were read.                            *)
LEMMA Ahead ==
  ASSUME Buffered, NEW n \in 0..Len(input) - pos
  PROVE  /\ pos + n \in 0..Len(input) /\ EndsAt(buf \o More(n), pos + n)
         /\ Len(buf \o More(n)) = Len(buf) + n
<1>0. PICK s \in Seq(Symbol), q \in Nat :
        s = input /\ q = pos /\ q <= Len(s) /\ n \in Nat /\ q + n <= Len(s)
  BY DEF Buffered
<1>1. More(n) \in Seq(Symbol) /\ Len(More(n)) = n /\ \A i \in 1..n : More(n)[i] = s[q + i]
  <2>1. SubSeq(s, q + 1, q + n) \in Seq(Symbol)
    BY <1>0, SubSeqProperties
  <2>2. /\ Len(SubSeq(s, q + 1, q + n)) = n
        /\ \A i \in 1..n : SubSeq(s, q + 1, q + n)[i] = s[q + i]
    BY <1>0, SubSeqProperties
  <2> QED
    BY <1>0, <2>1, <2>2 DEF More
<1>2. buf \in Seq(Symbol) /\ Len(buf) <= q /\ \A i \in 1..Len(buf) : buf[i] = s[q - Len(buf) + i]
  BY <1>0 DEF Buffered, EndsAt
<1>3. PICK m \in Seq(Symbol) : m = More(n)
  BY <1>1
<1>4. PICK c \in Seq(Symbol) : c = buf
  BY <1>2
<1>5. PICK b \in Seq(Symbol) :
        /\ b = c \o m /\ Len(b) = Len(c) + n
        /\ \A i \in 1..Len(b) : b[i] = IF i <= Len(c) THEN c[i] ELSE m[i - Len(c)]
  <2>1. /\ c \o m \in Seq(Symbol) /\ Len(c \o m) = Len(c) + Len(m)
        /\ \A i \in 1..Len(c) + Len(m) :
             (c \o m)[i] = IF i <= Len(c) THEN c[i] ELSE m[i - Len(c)]
    BY ONLY c \in Seq(Symbol), m \in Seq(Symbol), ConcatProperties
  <2>2. Len(m) = n
    BY <1>1, <1>3
  <2>3. Len(c \o m) = Len(c) + n
    BY <2>1, <2>2
  <2> QED
    BY ONLY <2>1, <2>2, <2>3
<1>6. ASSUME NEW i \in 1..Len(b) PROVE b[i] = s[q + n - Len(b) + i]
  <2>1. CASE i <= Len(c)
    <3>1. i \in 1..Len(c) /\ q + n - Len(b) + i = q - Len(c) + i
      BY <1>0, <1>5, <2>1
    <3> QED
      BY <1>2, <1>4, <1>5, <2>1, <3>1
  <2>2. CASE ~(i <= Len(c))
    <3>1. i - Len(c) \in 1..n /\ q + n - Len(b) + i = q + (i - Len(c))
      BY <1>0, <1>5, <2>2
    <3> QED
      BY <1>1, <1>3, <1>5, <2>2, <3>1
  <2> QED
    BY <2>1, <2>2
<1>7. Len(b) <= q + n
  BY <1>0, <1>2, <1>4, <1>5
<1>8. EndsAt(b, pos + n)
  BY <1>0, <1>6, <1>7 DEF EndsAt
<1>9. b = buf \o More(n) /\ Len(b) = Len(buf) + n
  BY ONLY <1>3, <1>4, <1>5
<1>10. pos + n \in 0..Len(input)
  BY <1>0
<1> QED
  BY ONLY <1>8, <1>9, <1>10

(* Taking a line leaves what follows it, and takes something.                *)
LEMMA LineTaken ==
  ASSUME Buffered, NEW p \in 0..Len(input), NEW b, EndsAt(b, p), Newlines(b) # {}
  PROVE  /\ EndsAt(AfterLine(b), p) /\ Len(AfterLine(b)) < Len(b)
         /\ Line(b) \in Symbol \/ Line(b) = Sym("garbage")
<1>0. b \in Seq(Symbol)
  BY DEF EndsAt
<1>1. FirstNewline(b) \in 1..Len(b)
  BY <1>0, FirstNewlineIs
<1>2. FirstNewline(b) \in 0..Len(b) /\ Len(b) \in Nat /\ 1 \in 1..Len(b)
  BY <1>0, <1>1
<1>3. EndsAt(AfterLine(b), p) /\ Len(AfterLine(b)) = Len(b) - FirstNewline(b)
  BY <1>2, Cut DEF AfterLine
<1>4. Line(b) \in Symbol \/ Line(b) = Sym("garbage")
  BY <1>0, <1>2 DEF Line
<1> QED
  BY <1>1, <1>2, <1>3, <1>4

(* operator>> takes blank lines only.                                        *)
LEMMA SkipBlankTakes ==
  ASSUME NEW b \in Seq(Symbol)
  PROVE  \E k \in 0..Len(b) : /\ SkipBlank(b) = SubSeq(b, k + 1, Len(b))
                              /\ \A i \in 1..k : b[i].is = "blank"
<1> DEFINE solid == {i \in 1..Len(b) : b[i].is # "blank"}
<1>1. CASE solid = {}
  <2>1. SkipBlank(b) = <<>>
    BY <1>1 DEF SkipBlank
  <2>2. SubSeq(b, Len(b) + 1, Len(b)) = <<>>
    BY SubSeqProperties
  <2>3. Len(b) \in 0..Len(b) /\ \A i \in 1..Len(b) : b[i].is = "blank"
    BY <1>1
  <2> QED
    BY <2>1, <2>2, <2>3
<1>2. CASE solid # {}
  <2> DEFINE k == CHOOSE i \in solid : \A j \in solid : i <= j
  <2>1. solid \in SUBSET Nat
    OBVIOUS
  <2>2. SkipBlank(b) = SubSeq(b, k, Len(b))
    BY <1>2 DEF SkipBlank
  <2>3. k \in solid /\ \A j \in solid : k <= j
    <3> HIDE DEF solid
    <3>1. \E i \in solid : \A j \in solid : i <= j
      BY <1>2, <2>1, LeastNumber
    <3> QED
      BY <3>1
  <2> HIDE DEF k
  <2>4. k - 1 \in 0..Len(b) /\ (k - 1) + 1 = k /\ \A i \in 1..k - 1 : b[i].is = "blank"
    BY <2>3
  <2> QED
    BY <2>2, <2>4
<1> QED
  BY <1>1, <1>2


-----------------------------------------------------------------------------
LEMMA NoneIs == None.is = "none"
BY DEF None, Sym

LEMMA IInvInit == Init => IInv
<1> SUFFICES ASSUME Init PROVE IInv
  OBVIOUS
<1>1. Buffered
  BY ParserAssumption, NothingLeft DEF Init, Buffered
<1>2. Held
  <2>1. /\ length = None /\ coding = None /\ body = <<>>
        /\ attached = TRUE /\ told = FALSE /\ stopped = FALSE /\ thrown = FALSE
    BY DEF Init
  <2>2. <<>> \in Seq(Symbol)
    OBVIOUS
  <2> QED
    BY ONLY <2>1, <2>2, NoneIs DEF Held
<1>3. History
  BY DEF Init, History, Failed
<1>4. AtFirst
  BY DEF Init, AtFirst
<1> QED
  BY <1>1, <1>2, <1>3, <1>4 DEF IInv, Stage

(* The operation in flight tells the stage.                                  *)
LEMMA FrontTells ==
  ASSUME IInv, NEW k, Front(k)
  PROVE  /\ k = "first" => AtFirst
         /\ k = "header" => AtHeader
         /\ k = "body" => AtBody
         /\ k = "size" => AtSize
         /\ k = "data" => AtData
         /\ k = "end" => AtEnd \/ AtLastEnd
BY DEF IInv, Stage, AtFirst, AtHeader, AtBody, AtSize, AtData, AtEnd, AtLastEnd, Over,
       Front, Op, BodyOp, DataOp, EndOp

(* The operations queued after the one at the front is done.                 *)
LEMMA Queued ==
  /\ \A e, s : Tail(<<e>>) \o <<s>> = <<s>> /\ Tail(<<e>>) \o <<>> = <<>>
  /\ \A e, f, s : Tail(<<e, f>>) \o <<>> = <<f>>
  /\ \A e, f, g, s : Tail(<<e, f, g>>) \o <<>> = <<f, g>>
OBVIOUS

(* A queue of known length, by its entries.                                  *)
LEMMA ByElements ==
  ASSUME NEW S, NEW s \in Seq(S)
  PROVE  /\ Len(s) = 2 => s = <<s[1], s[2]>>
         /\ Len(s) = 3 => s = <<s[1], s[2], s[3]>>
OBVIOUS

LEMMA ChunkQueued ==
  /\ \A e, f, g : <<>> \o (<<e>> \o <<f>> \o <<g>>) = <<e, f, g>>
  /\ \A f, g : <<>> \o (<<>> \o <<f>> \o <<g>>) = <<f, g>>
  /\ \A f : <<>> \o (<<>> \o <<f>> \o <<>>) = <<f>>
<1>1. \A f, g : <<f>> \o <<g>> = <<f, g>>
  <2> SUFFICES ASSUME NEW f, NEW g PROVE <<f>> \o <<g>> = <<f, g>>
    OBVIOUS
  <2>1. <<f>> \o <<g>> \in Seq({f, g}) /\ Len(<<f>> \o <<g>>) = 2
    OBVIOUS
  <2>2. (<<f>> \o <<g>>)[1] = f /\ (<<f>> \o <<g>>)[2] = g
    OBVIOUS
  <2> QED
    BY ONLY <2>1, <2>2, ByElements
<1>2. \A e, f, g : <<e, f>> \o <<g>> = <<e, f, g>>
  <2> SUFFICES ASSUME NEW e, NEW f, NEW g PROVE <<e, f>> \o <<g>> = <<e, f, g>>
    OBVIOUS
  <2>1. <<e, f>> \o <<g>> \in Seq({e, f, g}) /\ Len(<<e, f>> \o <<g>>) = 3
    OBVIOUS
  <2>2. /\ (<<e, f>> \o <<g>>)[1] = e /\ (<<e, f>> \o <<g>>)[2] = f
        /\ (<<e, f>> \o <<g>>)[3] = g
    OBVIOUS
  <2> QED
    BY ONLY <2>1, <2>2, ByElements
<1>3. \A e : <<>> \o <<e>> = <<e>> /\ <<e>> \o <<>> = <<e>>
  OBVIOUS
<1>4. /\ \A e, f : <<>> \o <<e, f>> = <<e, f>>
      /\ \A e, f, g : <<>> \o <<e, f, g>> = <<e, f, g>>
  OBVIOUS
<1>5. ASSUME NEW e, NEW f, NEW g PROVE <<>> \o (<<e>> \o <<f>> \o <<g>>) = <<e, f, g>>
  <2>1. <<e>> \o <<f>> \o <<g>> = <<e, f, g>>
    <3>1. <<e>> \o <<f>> = <<e, f>>
      BY <1>1
    <3>2. <<e, f>> \o <<g>> = <<e, f, g>>
      BY <1>2
    <3> QED
      BY ONLY <3>1, <3>2
  <2> QED
    BY ONLY <1>4, <2>1
<1>6. ASSUME NEW f, NEW g PROVE <<>> \o (<<>> \o <<f>> \o <<g>>) = <<f, g>>
  <2>1. <<>> \o <<f>> \o <<g>> = <<f, g>>
    BY ONLY <1>1, <1>3
  <2> QED
    BY ONLY <1>4, <2>1
<1>7. ASSUME NEW f PROVE <<>> \o (<<>> \o <<f>> \o <<>>) = <<f>>
  BY ONLY <1>3
<1> QED
  BY <1>5, <1>6, <1>7, Zenon

(* Reports: null is the last one, ok leaves the parse attached.              *)
LEMMA NullReported ==
  ASSUME History, ~attached', told', reports' = Append(reports, "null")
  PROVE  History' /\ Failed'
<1>1. PICK s \in Seq({"ok", "null"}) : s = reports
  BY DEF History
<1>2. /\ Append(s, "null") \in Seq({"ok", "null"}) /\ Len(Append(s, "null")) = Len(s) + 1
      /\ Append(s, "null")[Len(s) + 1] = "null" /\ Append(s, "null") # <<>>
      /\ \A i \in 1..Len(s) : Append(s, "null")[i] = s[i]
  BY AppendProperties
<1>3. Failed'
  BY <1>1, <1>2 DEF Failed
<1>4. ASSUME NEW i \in 1..Len(reports'), NEW j \in 1..Len(reports'), i < j, reports'[i] = "null"
      PROVE  reports'[j] = "null"
  BY <1>1, <1>2, <1>4 DEF History
<1> QED
  BY <1>1, <1>2, <1>3, <1>4 DEF History

LEMMA OkReported ==
  ASSUME History, attached, attached', stopped' = stopped, reports' = Append(reports, "ok")
  PROVE  History'
<1>1. PICK s \in Seq({"ok", "null"}) : s = reports
  BY DEF History
<1>2. /\ Append(s, "ok") \in Seq({"ok", "null"}) /\ Len(Append(s, "ok")) = Len(s) + 1
      /\ Append(s, "ok")[Len(s) + 1] = "ok" /\ Append(s, "ok") # <<>>
      /\ \A i \in 1..Len(s) : Append(s, "ok")[i] = s[i]
  BY AppendProperties
<1>3. ~Failed'
  BY <1>1, <1>2 DEF Failed
<1>4. \A i \in 1..Len(s) : s[i] # "null"
  <2>1. s # <<>> => s[Len(s)] # "null"
    BY <1>1 DEF History, Failed
  <2>2. ASSUME NEW i \in 1..Len(s), s[i] = "null" PROVE FALSE
    <3>1. s # <<>> /\ Len(s) \in 1..Len(s)
      BY <2>2
    <3>2. i < Len(s) => s[Len(s)] = "null"
      BY <1>1, <2>2, <3>1 DEF History
    <3> QED
      BY <2>1, <2>2, <3>1, <3>2
  <2> QED
    BY <2>2
<1>5. \A i \in 1..Len(reports') : reports'[i] # "null"
  BY <1>1, <1>2, <1>4
<1> QED
  BY <1>1, <1>2, <1>3, <1>5 DEF History

(* What a step reads: the bytes before pos' were read, buf' is what is left. *)
Read == input' = input /\ pos' \in 0..Len(input) /\ EndsAt(buf', pos')

(* A step that only reads keeps the buffer a part of the input.              *)
LEMMA StillBuffered == ASSUME Buffered, Read PROVE Buffered'
BY DEF Buffered, Read, EndsAt

(* Any failure ends in a stage again: what is left of the message is queued, *)
(* with the package detached.                                                *)
LEMMA FailStep ==
  ASSUME IInv, ops # <<>>, Read, Fail
  PROVE  IInv'
<1>1. Buffered'
  BY StillBuffered DEF IInv
<1>2. Held'
  BY DEF IInv, Held, Fail
<1>3. ~attached' /\ told' /\ History' /\ Failed'
  BY NullReported DEF IInv, Fail
<1>4. SizedBodyIsWhole'
  BY <1>3 DEF Failed, SizedBodyIsWhole
<1>5. Chunked'
  BY <1>3 DEF Chunked
<1>6. ops' = Tail(ops) \o <<>>
  BY DEF Fail, Pop
<1>7. CASE \E e : ops = <<e>>
  BY <1>1, <1>2, <1>3, <1>4, <1>6, <1>7, Queued DEF IInv, Over, Stage
<1>8. CASE AtData
  <2>1. PICK n \in 1..MaxChunk : ops = <<DataOp(n, n - Len(buf)), EndOp(n), Op("size")>>
    BY <1>8 DEF AtData
  <2>2. ops' = <<EndOp(n), Op("size")>>
    BY <1>6, <2>1, Queued
  <2>3. EndOp(n)' = EndOp(n) /\ Op("size")' = Op("size")
    BY DEF EndOp, Op
  <2>4. AtEnd'
    BY <1>5, <2>2, <2>3 DEF AtEnd
  <2> QED
    BY <1>1, <1>2, <1>3, <2>4 DEF IInv, Stage
<1>9. CASE AtEnd
  <2>1. PICK n \in 1..MaxChunk : ops = <<EndOp(n), Op("size")>>
    BY <1>9 DEF AtEnd
  <2>2. ops' = <<Op("size")>>
    BY <1>6, <2>1, Queued
  <2>3. AtSize'
    BY <1>5, <2>2 DEF AtSize, Op
  <2> QED
    BY <1>1, <1>2, <1>3, <2>3 DEF IInv, Stage
<1> QED
  BY <1>7, <1>8, <1>9 DEF IInv, Stage, AtFirst, AtHeader, AtBody, AtSize, AtLastEnd, Over

(* A message is delivered when its operations are done: its body is whole.   *)
LEMMA SucceedStep ==
  ASSUME IInv, Read, NEW bd \in Seq(Symbol), Succeed(bd), attached, \E e : ops = <<e>>,
         Fits => Len(bd) = length.n
  PROVE  IInv'
<1>1. Buffered'
  BY StillBuffered DEF IInv
<1>2. attached' /\ reports' = Append(reports, "ok") /\ stopped' = stopped
  BY DEF Succeed
<1>3. History'
  BY <1>2, OkReported DEF IInv
<1>4. Held'
  <2>1. body' \in Seq(Symbol)
    <3>1. body' = bd \/ body' = <<>>
      BY DEF Succeed
    <3>2. <<>> \in Seq(Symbol)
      BY EmptySeq
    <3> QED
      BY <3>1, <3>2
  <2>2. (length' = length \/ length' = None) /\ (coding' = coding \/ coding' = None)
    BY DEF Succeed
  <2>3. UNCHANGED <<stopped, thrown>> /\ told' \in BOOLEAN
    BY DEF Succeed
  <2> QED
    BY <1>2, <2>1, <2>2, <2>3, NoneIs DEF IInv, Held, None, Sym
<1>5. CASE Pop(<<Op("first")>>) /\ length' = None /\ coding' = None /\ body' = <<>>
  <2>1. ops' = <<Op("first")>>
    BY <1>5, Queued DEF Pop
  <2>2. AtFirst'
    BY <1>2, <1>5, <2>1 DEF AtFirst, None, Sym, Op
  <2> QED
    BY <1>1, <1>3, <1>4, <2>2 DEF IInv, Stage
<1>6. CASE Pop(<<>>) /\ told' = TRUE /\ body' = bd /\ length' = length
  <2>1. ops' = <<>>
    BY <1>6, Queued DEF Pop
  <2>2. SizedBodyIsWhole'
    BY <1>6 DEF SizedBodyIsWhole, Fits, Read
  <2>3. Over'
    BY <1>6, <2>1, <2>2 DEF Over
  <2> QED
    BY <1>1, <1>3, <1>4, <2>3 DEF IInv, Stage
<1> QED
  BY <1>5, <1>6 DEF Succeed


(* A line was read, at the end of the bytes b.                               *)
LineRead(b, k) ==
  /\ Front(k) /\ pos' \in 0..Len(input) /\ EndsAt(b, pos') /\ Newlines(b) # {}
  /\ pos' - Len(b) = pos - Len(buf)

(* A line that is there is read whole, and leaves the rest.                  *)
LEMMA LineIsRead ==
  ASSUME IInv, NEW n \in 0..Len(input) - pos, Newlines(buf \o More(n)) # {}, pos' = pos + n,
         NEW k, Front(k)
  PROVE  LineRead(buf \o More(n), k)
<1>1. /\ pos' \in 0..Len(input) /\ EndsAt(buf \o More(n), pos')
      /\ Len(buf \o More(n)) = Len(buf) + n
  BY Ahead DEF IInv
<1>2. pos' - (Len(buf) + n) = pos - Len(buf)
  BY DEF IInv, Buffered, EndsAt
<1> QED
  BY <1>1, <1>2 DEF LineRead

LEMMA LineIsTaken ==
  ASSUME IInv, NEW k, NEW b, LineRead(b, k), input' = input, buf' = AfterLine(b)
  PROVE  Read
BY LineTaken DEF IInv, LineRead, Read

(* A read that fails takes nothing from the buffer.                          *)
LEMMA ReadFailed ==
  ASSUME IInv, NEW k, ReadFails(k), input' = input
  PROVE  Read /\ ops # <<>>
<1>1. CASE UNCHANGED <<pos, buf>>
  BY <1>1 DEF IInv, Buffered, Read, ReadFails, Front
<1>2. CASE pos' = Len(input) /\ buf' = buf \o Rest
  <2>1. Len(input) - pos \in 0..Len(input) - pos /\ pos + (Len(input) - pos) = Len(input)
    BY DEF IInv, Buffered
  <2>2. Len(input) \in 0..Len(input) /\ EndsAt(buf \o Rest, Len(input))
    BY <2>1, Ahead DEF IInv, Rest
  <2> QED
    BY <1>2, <2>2 DEF Read, ReadFails, Front
<1> QED
  BY <1>1, <1>2 DEF ReadFails

(* A step that only goes on in the queue.                                    *)
LEMMA QuietStep ==
  ASSUME IInv, Read, UNCHANGED <<attached, reports, told, stopped>>, thrown' \in BOOLEAN,
         length' \in Symbol \cup {None}, length'.is \in {"none", "length", "badlength"},
         coding' \in Symbol \cup {None}, coding'.is \in {"none", "chunked"},
         body' \in Seq(Symbol), Stage'
  PROVE  IInv'
<1>1. Buffered'
  BY StillBuffered DEF IInv
<1>2. Held'
  BY DEF IInv, Held
<1>3. History'
  BY DEF IInv, History, Failed
<1> QED
  BY <1>1, <1>2, <1>3 DEF IInv

(* One lemma per handler.                                                    *)
LEMMA FirstLineStep == ASSUME IInv, FirstLine PROVE IInv'
<1>1. CASE GoodFirstLine
  <2>1. PICK b : /\ LineRead(b, "first") /\ buf' = AfterLine(b)
                 /\ Queue(<<Op("header")>>) /\ UNCHANGED <<length, coding, body>>
    BY <1>1, LineIsRead DEF GoodFirstLine, LineIs
  <2>2. AtFirst
    BY <2>1, FrontTells DEF LineRead
  <2>3. Read /\ UNCHANGED <<attached, reports, told, stopped, thrown>>
    BY <2>1, LineIsTaken DEF Queue
  <2>4. ops' = <<Op("header")>>
    BY <2>1, <2>2, Queued DEF Queue, Pop, AtFirst
  <2>5. AtHeader'
    BY <2>1, <2>2, <2>3, <2>4 DEF AtFirst, AtHeader, Op
  <2> QED
    BY <2>1, <2>3, <2>5, QuietStep DEF IInv, Held, Stage
<1>2. CASE BadFirstLine
  <2>1. PICK b : LineRead(b, "first") /\ buf' = AfterLine(b) /\ Fail
    BY <1>2, LineIsRead DEF BadFirstLine, LineIs
  <2>2. Read /\ ops # <<>>
    BY <2>1, LineIsTaken DEF Fail, LineRead, Front
  <2> QED
    BY <2>1, <2>2, FailStep
<1>3. CASE FirstLineThrows
  <2>1. PICK b : /\ LineRead(b, "first") /\ buf' = AfterLine(b) /\ thrown' = TRUE
                 /\ UNCHANGED <<input, ops, package, reports, bodies, told, stopped>>
    BY <1>3, LineIsRead DEF FirstLineThrows, LineIs
  <2>2. AtFirst
    BY <2>1, FrontTells DEF LineRead
  <2>3. Read /\ UNCHANGED <<attached, reports, told, stopped, length, coding, body, ops>>
    BY <2>1, LineIsTaken DEF package
  <2>4. AtFirst'
    BY <2>2, <2>3 DEF AtFirst, Op
  <2> QED
    BY <2>1, <2>3, <2>4, QuietStep DEF IInv, Held, Stage
<1>4. CASE FirstLineFails
  <2>1. Fail /\ Read /\ ops # <<>>
    BY <1>4, ReadFailed DEF FirstLineFails, Fail
  <2> QED
    BY <2>1, FailStep
<1> QED
  BY <1>1, <1>2, <1>3, <1>4 DEF FirstLine

LEMMA HeaderStep == ASSUME IInv, Header PROVE IInv'
<1>1. CASE HeaderLine
  <2>1. PICK b : /\ LineRead(b, "header") /\ buf' = AfterLine(b)
                 /\ length' = IF length = None /\ Line(b).is \in {"length", "badlength"}
                              THEN Line(b) ELSE length
                 /\ coding' = IF coding = None /\ Line(b).is = "chunked"
                              THEN Line(b) ELSE coding
                 /\ Queue(<<Op("header")>>) /\ UNCHANGED body
    BY <1>1, LineIsRead DEF HeaderLine, LineIs
  <2>2. AtHeader
    BY <2>1, FrontTells DEF LineRead
  <2>3. Read /\ UNCHANGED <<attached, reports, told, stopped, thrown>>
    BY <2>1, LineIsTaken DEF Queue
  <2>4. ops' = <<Op("header")>>
    BY <2>1, <2>2, Queued DEF Queue, Pop, AtHeader
  <2>5. AtHeader'
    BY <2>1, <2>2, <2>3, <2>4 DEF AtHeader, Op
  <2>6. Line(b) \in Symbol \/ Line(b).is = "garbage"
    BY <2>1, LineTaken DEF IInv, LineRead, Sym
  <2>7. length' \in Symbol \cup {None} /\ length'.is \in {"none", "length", "badlength"}
    BY <2>1, <2>6 DEF IInv, Held
  <2>8. coding' \in Symbol \cup {None} /\ coding'.is \in {"none", "chunked"}
    BY <2>1, <2>6 DEF IInv, Held
  <2>9. body' \in Seq(Symbol) /\ thrown' \in BOOLEAN
    BY <2>1, <2>3 DEF IInv, Held
  <2> QED
    BY <2>3, <2>5, <2>7, <2>8, <2>9, QuietStep DEF Stage
<1>2. CASE HeaderFails
  <2>1. Fail /\ Read /\ ops # <<>>
    BY <1>2, ReadFailed DEF HeaderFails, Fail
  <2> QED
    BY <2>1, FailStep
<1>3. CASE NoBody
  <2>1. PICK b : /\ LineRead(b, "header") /\ buf' = AfterLine(b) /\ Succeed(body)
                 /\ \/ length = None /\ coding = None
                    \/ length = [is |-> "length", n |-> 0]
    BY <1>3, LineIsRead DEF NoBody, LineIs
  <2>2. AtHeader
    BY <2>1, FrontTells DEF LineRead
  <2>3. Read
    BY <2>1, LineIsTaken DEF Succeed
  <2>4. Fits => Len(body) = length.n
    BY <2>1, <2>2, NoneIs DEF Fits, AtHeader
  <2>5. body \in Seq(Symbol) /\ attached /\ \E e : ops = <<e>>
    BY <2>2 DEF IInv, Held, AtHeader
  <2> QED
    BY <2>1, <2>3, <2>4, <2>5, SucceedStep
<1>4. CASE StartChunks
  <2>1. PICK b : /\ LineRead(b, "header") /\ buf' = AfterLine(b)
                 /\ length = None /\ coding # None
                 /\ Queue(<<Op("size")>>) /\ UNCHANGED <<length, coding, body>>
    BY <1>4, LineIsRead DEF StartChunks, LineIs
  <2>2. AtHeader
    BY <2>1, FrontTells DEF LineRead
  <2>3. Read /\ UNCHANGED <<attached, reports, told, stopped, thrown>>
    BY <2>1, LineIsTaken DEF Queue
  <2>4. ops' = <<Op("size")>>
    BY <2>1, <2>2, Queued DEF Queue, Pop, AtHeader
  <2>5. coding.is = "chunked"
    BY <2>1, NoneIs DEF IInv, Held, Symbol
  <2>6. AtSize'
    BY <2>1, <2>4, <2>5 DEF AtSize, Chunked, Op, None, Sym
  <2> QED
    BY <2>1, <2>3, <2>6, QuietStep DEF IInv, Held, Stage
<1>5. CASE LengthNotANumber
  <2>1. PICK b : LineRead(b, "header") /\ buf' = AfterLine(b) /\ Fail
    BY <1>5, LineIsRead DEF LengthNotANumber, LineIs
  <2>2. Read /\ ops # <<>>
    BY <2>1, LineIsTaken DEF Fail, LineRead, Front
  <2> QED
    BY <2>1, <2>2, FailStep
<1> QED
  BY <1>1, <1>2, <1>3, <1>4, <1>5 DEF Header


(* What the blank line leaves: a body with a length is of that length, or    *)
(* the bytes it lacks are asked for.                                         *)
LEMMA NeedIs ==
  ASSUME IInv, NEW b, LineRead(b, "header"), length.is = "length",
         NEW need, need = ToInt(length.n - Len(AfterLine(b)))
  PROVE  /\ AfterLine(b) \in Seq(Symbol) /\ need \in -(IntMax + 1)..IntMax
         /\ Fits => Len(AfterLine(b)) + need = length.n
<1>1. EndsAt(AfterLine(b), pos') /\ pos' \in 0..Len(input)
  BY LineTaken DEF IInv, LineRead
<1>2. PICK a \in Seq(Symbol) : a = AfterLine(b) /\ Len(a) <= Len(input)
  BY <1>1 DEF EndsAt, IInv, Buffered
<1>3. length.n \in Nat
  BY NoneIs DEF IInv, Held, Symbol
<1>4. need \in -(IntMax + 1)..IntMax
  BY <1>2, <1>3, ToIntRange
<1>5. ASSUME Fits PROVE Len(a) + need = length.n
  <2>1. length.n - Len(a) \in -(IntMax + 1)..IntMax
    BY <1>2, <1>3, <1>5, ParserAssumption DEF Fits
  <2>2. need = length.n - Len(a)
    BY <1>2, <1>3, <2>1, ToIntRange
  <2> QED
    BY <1>2, <1>3, <2>2
<1> QED
  BY <1>2, <1>4, <1>5

LEMMA BodyStep == ASSUME IInv, Body PROVE IInv'
<1>1. CASE TooMuchBuffered
  <2>1. PICK b : LineRead(b, "header") /\ buf' = AfterLine(b) /\ Fail
    BY <1>1, LineIsRead DEF TooMuchBuffered, LineIs, SizedBody
  <2>2. Read /\ ops # <<>>
    BY <2>1, LineIsTaken DEF Fail, LineRead, Front
  <2> QED
    BY <2>1, <2>2, FailStep
<1>2. CASE BodyBuffered
  <2>1. PICK b : /\ LineRead(b, "header") /\ length.is = "length"
                 /\ ToInt(length.n - Len(AfterLine(b))) = 0
                 /\ buf' = <<>> /\ Succeed(body \o AfterLine(b))
    BY <1>2, LineIsRead DEF BodyBuffered, LineIs, SizedBody
  <2>2. AtHeader
    BY <2>1, FrontTells DEF LineRead
  <2>3. Read
    BY <2>1, NothingLeft DEF Read, LineRead, Succeed
  <2>4. AfterLine(b) \in Seq(Symbol) /\ (Fits => Len(AfterLine(b)) + 0 = length.n)
    BY <2>1, NeedIs
  <2>5. body \o AfterLine(b) = AfterLine(b)
    BY <2>2, <2>4, ConcatEmptySeq DEF AtHeader
  <2>6. Fits => Len(body \o AfterLine(b)) = length.n
    BY <2>4, <2>5
  <2>7. attached /\ \E e : ops = <<e>>
    BY <2>2 DEF AtHeader
  <2> QED
    BY <2>1, <2>3, <2>4, <2>5, <2>6, <2>7, SucceedStep
<1>3. CASE AskForBody
  <2>1. PICK b, need : /\ LineRead(b, "header") /\ length.is = "length"
                       /\ need = ToInt(length.n - Len(AfterLine(b)))
                       /\ need > 0 /\ buf' = <<>>
                       /\ body' = body \o AfterLine(b)
                       /\ Queue(<<[Op("body") EXCEPT !.need = need]>>)
                       /\ UNCHANGED <<length, coding>>
    BY <1>3, LineIsRead DEF AskForBody, LineIs, SizedBody
  <2>2. AtHeader
    BY <2>1, FrontTells DEF LineRead
  <2>3. Read /\ UNCHANGED <<attached, reports, told, stopped, thrown>>
    BY <2>1, NothingLeft DEF Read, LineRead, Queue
  <2>4. /\ AfterLine(b) \in Seq(Symbol) /\ need \in -(IntMax + 1)..IntMax
        /\ Fits => Len(AfterLine(b)) + need = length.n
    BY <2>1, NeedIs
  <2>5. body' = AfterLine(b)
    BY <2>1, <2>2, <2>4, ConcatEmptySeq DEF AtHeader
  <2>6. need \in 1..IntMax
    BY <2>1, <2>4, ParserAssumption
  <2>7. ops' = <<BodyOp(need)>>
    <3>1. [Op("body") EXCEPT !.need = need] = BodyOp(need)
      BY DEF Op, BodyOp
    <3> QED
      BY <2>1, <2>2, <3>1, Queued DEF Queue, Pop, AtHeader
  <2>8. Fits' => Len(body') + need = length'.n
    BY <2>1, <2>3, <2>4, <2>5 DEF Fits, Read
  <2>9. AtBody'
    BY <2>1, <2>2, <2>3, <2>6, <2>7, <2>8 DEF AtBody, AtHeader, BodyOp
  <2> QED
    BY <2>1, <2>3, <2>4, <2>5, <2>9, QuietStep DEF IInv, Held, Stage
<1>4. CASE BodyRead
  <2> DEFINE m == Head(ops).need
             b == buf \o More(m)
  <2>1. /\ Front("body") /\ pos + m <= Len(input) /\ pos' = pos + m
        /\ buf' = <<>> /\ Succeed(body \o b)
    BY <1>4 DEF BodyRead, BytesAre
  <2>2. AtBody
    BY <2>1, FrontTells
  <2>3. m \in 1..IntMax /\ (Fits => Len(body) + m = length.n)
    BY <2>2 DEF AtBody, BodyOp
  <2> HIDE DEF m
  <2>4. m \in 0..Len(input) - pos
    BY <2>1, <2>3 DEF IInv, Buffered
  <2>5. pos' \in 0..Len(input) /\ EndsAt(b, pos') /\ Len(b) = m
    BY <2>1, <2>2, <2>3, <2>4, Ahead DEF IInv, AtBody
  <2> HIDE DEF b
  <2>6. Read
    BY <2>1, <2>5, NothingLeft DEF Read, Succeed
  <2>7. body \in Seq(Symbol) /\ b \in Seq(Symbol)
    BY <2>5 DEF IInv, Held, EndsAt
  <2>8. body \o b \in Seq(Symbol) /\ Len(body \o b) = Len(body) + Len(b)
    BY <2>7, ConcatProperties
  <2>9. Fits => Len(body \o b) = length.n
    BY <2>3, <2>5, <2>8
  <2>10. attached /\ \E e : ops = <<e>>
    BY <2>2 DEF AtBody
  <2> QED
    BY <2>1, <2>6, <2>8, <2>9, <2>10, SucceedStep
<1>5. CASE BodyFails
  <2>1. Fail /\ Read /\ ops # <<>>
    BY <1>5, ReadFailed DEF BodyFails, Fail
  <2> QED
    BY <2>1, FailStep
<1> QED
  BY <1>1, <1>2, <1>3, <1>4, <1>5 DEF Body

(* What the size handler finds: a size, and the bytes behind it; a size of 0 *)
(* stands at the end of a line that has been taken, or the line is left.     *)
LEMMA SizeTaken ==
  ASSUME IInv, NEW p \in 0..Len(input), NEW b, EndsAt(b, p), Newlines(b) # {}
  PROVE  /\ EndsAt(AfterSize(b), p) /\ SizeRead(b) \in Nat
         /\ SizeRead(b) = 0 =>
              Newlines(AfterSize(b)) # {} \/ LastSizeAt(p - Len(AfterSize(b)))
<1>0. b \in Seq(Symbol) /\ Len(b) <= p /\ Buffered /\ p \in Nat
  BY DEF EndsAt, IInv, Buffered
<1>1. PICK k \in 0..Len(b) : /\ SkipBlank(b) = SubSeq(b, k + 1, Len(b))
                             /\ \A i \in 1..k : b[i].is = "blank"
  BY <1>0, SkipBlankTakes
<1>2. PICK s \in Seq(Symbol) : s = SkipBlank(b) /\ EndsAt(s, p) /\ Len(s) = Len(b) - k
  BY <1>0, <1>1, Cut DEF EndsAt
<1>3. CASE ReadsSize(b)
  <2>1. s # <<>> /\ s[1].is = "size" /\ SizeRead(b) = s[1].n /\ AfterSize(b) = Tail(s)
    BY <1>2, <1>3 DEF ReadsSize, SizeRead, AfterSize
  <2>2. /\ Tail(s) \in Seq(Symbol) /\ Len(Tail(s)) = Len(s) - 1
        /\ \A i \in 1..Len(s) - 1 : Tail(s)[i] = s[i + 1]
    BY <2>1, HeadTailProperties
  <2>3. s[1] \in Symbol /\ s[1].n \in Nat /\ 1 \in 1..Len(s) /\ Len(s) \in Nat
    <3>1. 1 \in 1..Len(s) /\ Len(s) \in Nat /\ s[1] \in Symbol
      BY ONLY <2>1, s \in Seq(Symbol)
    <3>2. s[1].n \in Nat
      BY <3>1 DEF Symbol
    <3> QED
      BY <3>1, <3>2
  <2>4. \A i \in 1..Len(Tail(s)) : Tail(s)[i] = input[p - Len(Tail(s)) + i]
    <3> SUFFICES ASSUME NEW i \in 1..Len(Tail(s))
                 PROVE  Tail(s)[i] = input[p - Len(Tail(s)) + i]
      OBVIOUS
    <3>1. i + 1 \in 1..Len(s) /\ p - Len(s) + (i + 1) = p - Len(Tail(s)) + i
      BY <1>0, <2>2, <2>3
    <3> QED
      BY <1>2, <2>2, <3>1 DEF EndsAt
  <2>5. EndsAt(Tail(s), p)
    BY <1>0, <1>2, <2>2, <2>3, <2>4 DEF EndsAt
  <2>6. s[1] = input[p - Len(s) + 1] /\ p - Len(s) + 1 \in 1..Len(input)
    BY <1>0, <1>2, <2>3 DEF EndsAt, Buffered
  <2>7. p - Len(Tail(s)) = p - Len(s) + 1
    BY <1>0, <2>2, <2>3
  <2>8. s[1].n = 0 => LastSizeAt(p - Len(Tail(s)))
    BY <2>1, <2>6, <2>7 DEF LastSizeAt
  <2> QED
    BY <2>1, <2>3, <2>5, <2>8
<1>4. CASE ~ReadsSize(b)
  <2>1. SizeRead(b) = 0 /\ AfterSize(b) = s
    BY <1>2, <1>4 DEF SizeRead, AfterSize
  <2>2. CASE k = 0
    <3>1. s = b
      BY <1>0, <1>1, <1>2, <2>2, SubSeqProperties
    <3> QED
      BY <1>2, <2>1, <3>1
  <2>3. CASE k # 0
    <3>1. k \in 1..Len(b) /\ b[k].is = "blank"
      BY <1>1, <2>3
    <3>2. b[k] = input[p - Len(b) + k] /\ p - Len(b) + k = p - Len(s)
      BY <1>0, <1>2, <3>1 DEF EndsAt
    <3>3. p - Len(s) \in 1..Len(input)
      BY <1>0, <1>2, <3>1 DEF Buffered
    <3>4. LastSizeAt(p - Len(s))
      BY <3>1, <3>2, <3>3 DEF LastSizeAt
    <3> QED
      BY <1>2, <2>1, <3>4
  <2> QED
    BY <2>2, <2>3
<1> QED
  BY <1>3, <1>4


LEMMA ChunkSizeStep == ASSUME IInv, ChunkSize PROVE IInv'
<1>1. PICK b : /\ LineRead(b, "size") /\ attached /\ SizeRead(b) <= MaxChunk
               /\ TakeChunk(SizeRead(b), AfterSize(b)) /\ UNCHANGED <<length, coding>>
  BY LineIsRead DEF ChunkSize, LineIs
<1>2. PICK p \in 0..Len(input) : p = pos' /\ EndsAt(b, p) /\ Newlines(b) # {}
  BY <1>1 DEF LineRead
<1>3. PICK n \in 0..MaxChunk, rest \in Seq(Symbol) :
        /\ n = SizeRead(b) /\ rest = AfterSize(b) /\ EndsAt(rest, p)
        /\ n = 0 => Newlines(rest) # {} \/ LastSizeAt(p - Len(rest))
  <2>1. /\ EndsAt(AfterSize(b), p) /\ SizeRead(b) \in Nat
        /\ SizeRead(b) = 0 =>
             Newlines(AfterSize(b)) # {} \/ LastSizeAt(p - Len(AfterSize(b)))
    BY <1>2, SizeTaken
  <2>2. SizeRead(b) \in 0..MaxChunk
    BY <1>1, <2>1, ParserAssumption
  <2>3. AfterSize(b) \in Seq(Symbol)
    BY <2>1 DEF EndsAt
  <2> QED
    BY <2>1, <2>2, <2>3
<1>4. PICK need \in Int : need = n - Len(rest)
  <2>1. n \in Int /\ Len(rest) \in Int
    BY ParserAssumption
  <2>2. n - Len(rest) \in Int
    BY ONLY <2>1
  <2> QED
    BY ONLY <2>2, Zenon
<1>5. TakeChunk(n, rest)
  BY <1>1, <1>3
<1>6. ops' = <<>> \o ChunkOps(n, need) /\ UNCHANGED <<input, attached, reports, told, stopped, thrown>>
  <2>1. AtSize
    BY <1>1, FrontTells DEF LineRead
  <2>2. Queue(ChunkOps(n, need))
    BY <1>4, <1>5 DEF TakeChunk
  <2>3. Tail(<<Op("size")>>) = <<>>
    OBVIOUS
  <2> QED
    BY <2>1, <2>2, <2>3 DEF Queue, Pop, AtSize
<1>7. attached' /\ Chunked'
  <2>1. AtSize
    BY <1>1, FrontTells DEF LineRead
  <2> QED
    BY <1>1, <1>6, <2>1 DEF AtSize, Chunked, None, Sym
<1>8. CASE need > 0
  <2>1. buf' = rest /\ body' = body
    BY <1>4, <1>5, <1>8 DEF TakeChunk
  <2>2. Read
    BY <1>2, <1>3, <1>6, <2>1 DEF Read
  <2>3. n \in 1..MaxChunk /\ n > Len(rest)
    BY <1>4, <1>8, ParserAssumption
  <2>4. ops' = <<DataOp(n, need), EndOp(n), Op("size")>>
    <3>1. ChunkOps(n, need) = <<DataOp(n, need)>> \o <<EndOp(n)>> \o <<Op("size")>>
      BY <1>8, <2>3 DEF ChunkOps, DataOp, EndOp
    <3> QED
      BY <1>6, <3>1, ChunkQueued
  <2>5. /\ DataOp(n, n - Len(buf))' = DataOp(n, need)
        /\ EndOp(n)' = EndOp(n) /\ Op("size")' = Op("size")
    BY <1>4, <2>1 DEF DataOp, EndOp, Op
  <2>6. AtData'
    BY <1>7, <2>1, <2>3, <2>4, <2>5 DEF AtData
  <2> QED
    BY <1>1, <1>6, <2>1, <2>2, <2>6, QuietStep DEF IInv, Held, Stage
<1>9. CASE ~(need > 0)
  <2>0. n \in 0..Len(rest)
    BY <1>4, <1>9, ParserAssumption
  <2>1. /\ buf' = SubSeq(rest, n + 1, Len(rest))
        /\ body' = body \o SubSeq(rest, 1, n)
    BY <1>4, <1>5, <1>9 DEF TakeChunk
  <2>2. EndsAt(buf', p) /\ Len(buf') = Len(rest) - n
    BY <1>2, <1>3, <2>0, <2>1, Cut DEF IInv
  <2>3. Read
    BY <1>2, <1>6, <2>2 DEF Read
  <2>4. body' \in Seq(Symbol)
    <3>1. SubSeq(rest, 1, n) \in Seq(Symbol)
      BY <2>0, SubSeqProperties
    <3>2. body \in Seq(Symbol)
      BY DEF IInv, Held
    <3> QED
      BY <2>1, <3>1, <3>2, ConcatProperties
  <2>5. Stage'
    <3>1. CASE n = 0
      <4>1. ops' = <<EndOp(0)>>
        <5>1. ChunkOps(n, need) = <<>> \o <<EndOp(0)>> \o <<>>
          BY <1>9, <3>1 DEF ChunkOps, EndOp
        <5> QED
          BY <1>6, <5>1, ChunkQueued
      <4>2. buf' = rest
        BY <2>1, <3>1, SubSeqProperties
      <4>3. Newlines(buf') # {} \/ LastSizeAt(p - Len(buf'))
        BY <1>3, <3>1, <4>2
      <4>4. (Newlines(buf) # {} \/ LastSizeAt(pos - Len(buf)))'
        BY <1>2, <1>6, <4>3 DEF Newlines, LastSizeAt
      <4>5. EndOp(0)' = EndOp(0)
        BY DEF EndOp
      <4> QED
        BY <1>7, <4>1, <4>4, <4>5 DEF AtLastEnd, Stage
    <3>2. CASE n # 0
      <4>1. n \in 1..MaxChunk
        BY <3>2
      <4>2. ops' = <<EndOp(n), Op("size")>>
        <5>1. ChunkOps(n, need) = <<>> \o <<EndOp(n)>> \o <<Op("size")>>
          BY <1>9, <4>1 DEF ChunkOps, EndOp
        <5> QED
          BY <1>6, <5>1, ChunkQueued
      <4>3. EndOp(n)' = EndOp(n) /\ Op("size")' = Op("size")
        BY DEF EndOp, Op
      <4>4. AtEnd'
        BY <1>7, <4>1, <4>2, <4>3 DEF AtEnd
      <4> QED
        BY <4>4 DEF Stage
    <3> QED
      BY <3>1, <3>2
  <2> QED
    BY <1>1, <1>6, <2>3, <2>4, <2>5, QuietStep DEF IInv, Held
<1> QED
  BY <1>8, <1>9

LEMMA ChunkDataStep == ASSUME IInv, ChunkData PROVE IInv'
<1>1. AtData
  BY FrontTells DEF ChunkData, BytesAre
<1>2. PICK n \in 1..MaxChunk :
        n > Len(buf) /\ ops = <<DataOp(n, n - Len(buf)), EndOp(n), Op("size")>>
  BY <1>1 DEF AtData
<1>3. PICK m \in Int : m = n - Len(buf) /\ Head(ops).need = m /\ Head(ops).chunk = n
  BY <1>2, ParserAssumption DEF DataOp, IInv, Buffered, EndsAt
<1> DEFINE b == buf \o More(m)
<1>4. /\ pos + m <= Len(input) /\ pos' = pos + m
      /\ body' = body \o SubSeq(b, 1, n) /\ buf' = SubSeq(b, n + 1, Len(b))
      /\ Queue(<<>>) /\ UNCHANGED <<length, coding>>
  BY <1>3 DEF ChunkData, BytesAre
<1>5. m \in 0..Len(input) - pos
  BY <1>2, <1>3, <1>4, ParserAssumption DEF IInv, Buffered, EndsAt
<1>6. pos' \in 0..Len(input) /\ EndsAt(b, pos') /\ Len(b) = n
  <2>1. pos + m \in 0..Len(input) /\ EndsAt(b, pos + m) /\ Len(b) = Len(buf) + m
    BY <1>5, Ahead DEF IInv
  <2>2. Len(buf) \in Nat /\ n \in Nat
    BY ParserAssumption DEF IInv, Buffered, EndsAt
  <2>3. Len(buf) + m = n
    BY ONLY <1>3, <2>2
  <2> QED
    BY <1>4, <2>1, <2>3
<1> HIDE DEF b
<1>7. b \in Seq(Symbol) /\ n \in 0..Len(b)
  BY <1>6 DEF EndsAt
<1>8. Read /\ UNCHANGED <<attached, reports, told, stopped, thrown>>
  <2>1. EndsAt(buf', pos')
    BY <1>4, <1>6, <1>7, Cut DEF IInv
  <2> QED
    BY <1>4, <1>6, <2>1 DEF Read, Queue
<1>9. body' \in Seq(Symbol)
  <2>1. SubSeq(b, 1, n) \in Seq(Symbol)
    BY <1>7, SubSeqProperties
  <2>2. body \in Seq(Symbol)
    BY DEF IInv, Held
  <2> QED
    BY <1>4, <2>1, <2>2, ConcatProperties
<1>10. AtEnd'
  <2>1. ops' = <<EndOp(n), Op("size")>>
    BY <1>2, <1>4, Queued DEF Queue, Pop
  <2>2. EndOp(n)' = EndOp(n) /\ Op("size")' = Op("size")
    BY DEF EndOp, Op
  <2>3. Chunked'
    BY <1>1, <1>4, <1>8 DEF AtData, Chunked, None, Sym
  <2> QED
    BY <2>1, <2>2, <2>3 DEF AtEnd
<1> QED
  BY <1>4, <1>8, <1>9, <1>10, QuietStep DEF IInv, Held, Stage

LEMMA LastEndFailsStep == ASSUME IInv, LastEndFails PROVE IInv'
<1>1. AtLastEnd
  <2>1. AtEnd \/ AtLastEnd
    BY FrontTells DEF LastEndFails, ReadFails
  <2>2. ~AtEnd
    BY DEF LastEndFails, AtEnd, EndOp
  <2> QED
    BY <2>1, <2>2
<1>2. Read /\ UNCHANGED <<attached, reports, told, stopped, thrown, length, coding, body>>
  BY ReadFailed DEF LastEndFails, Queue
<1>3. ops' = <<>>
  BY <1>1, Queued DEF LastEndFails, Queue, Pop, AtLastEnd
<1>4. attached /\ length = None /\ coding.is = "chunked"
  BY <1>1 DEF AtLastEnd, Chunked
<1>5. SizedBodyIsWhole'
  BY <1>2, <1>4, NoneIs DEF SizedBodyIsWhole
<1>6. ASSUME ~told
      PROVE  pos' = Len(input) /\ EndsAfterLastSize
  <2>1. /\ Newlines(buf \o Rest) = {} /\ pos' = Len(input)
    BY <1>1, <1>6 DEF IInv, History, LastEndFails, ReadFails
  <2>2. PICK b \in Seq(Symbol) :
          /\ b = buf \o Rest /\ Len(b) = Len(buf) + (Len(input) - pos)
          /\ \A i \in 1..Len(b) : b[i] = input[Len(input) - Len(b) + i]
    <3>1. Len(input) - pos \in 0..Len(input) - pos /\ pos + (Len(input) - pos) = Len(input)
      BY DEF IInv, Buffered
    <3>2. /\ EndsAt(buf \o Rest, Len(input))
          /\ Len(buf \o Rest) = Len(buf) + (Len(input) - pos)
      BY <3>1, Ahead DEF IInv, Rest
    <3> QED
      BY <3>2 DEF EndsAt
  <2>3. buf \in Seq(Symbol) /\ pos \in Nat /\ pos <= Len(input) /\ input \in Seq(Symbol)
    BY DEF IInv, Buffered, EndsAt
  <2>4. \A i \in 1..Len(b) : b[i].is = "byte"
    BY <2>1, <2>2 DEF Newlines
  <2>5. PICK l \in Int : l = pos - Len(buf) /\ l = Len(input) - Len(b)
    <3>1. /\ pos \in Int /\ Len(buf) \in Int /\ Len(input) \in Int
          /\ Len(b) = Len(buf) + (Len(input) - pos)
      BY ONLY <2>2, <2>3
    <3>2. pos - Len(buf) \in Int /\ pos - Len(buf) = Len(input) - Len(b)
      BY ONLY <3>1
    <3> QED
      BY ONLY <3>2
  <2>6. \A j \in l + 1..Len(input) : input[j].is = "byte"
    <3> SUFFICES ASSUME NEW j \in l + 1..Len(input) PROVE input[j].is = "byte"
      OBVIOUS
    <3>1. j - l \in 1..Len(b) /\ Len(input) - Len(b) + (j - l) = j
      BY <2>2, <2>3, <2>5
    <3> QED
      BY <2>2, <2>4, <3>1
  <2>7. Newlines(buf) = {}
    <3> SUFFICES ASSUME NEW i \in 1..Len(buf) PROVE buf[i].is = "byte"
      BY DEF Newlines
    <3>1. buf[i] = input[l + i] /\ l + i \in l + 1..Len(input)
      BY <2>3, <2>5 DEF IInv, Buffered, EndsAt
    <3> QED
      BY <2>6, <3>1
  <2>8. LastSizeAt(l)
    BY <1>1, <2>5, <2>7 DEF AtLastEnd
  <2>9. l \in Newlines(input)
    BY <2>8 DEF LastSizeAt, Newlines
  <2>10. \A j \in Newlines(input) : j <= l
    BY <2>3, <2>6 DEF Newlines
  <2> QED
    BY <2>1, <2>8, <2>9, <2>10 DEF LastSizeAt, EndsAfterLastSize
<1>7. told' \/ EndsUnheard'
  <2>1. coding # None /\ ~thrown
    BY <1>4, NoneIs DEF LastEndFails, ReadFails, Front
  <2>2. EndsAfterLastSize' = EndsAfterLastSize
    BY <1>2 DEF EndsAfterLastSize, Newlines, Read
  <2> QED
    BY <1>2, <1>4, <1>6, <2>1, <2>2 DEF EndsUnheard, Read, None, Sym
<1>8. Stage'
  BY <1>3, <1>5, <1>7 DEF Over, Stage
<1> QED
  BY <1>2, <1>8, QuietStep DEF IInv, Held

LEMMA DetachedLineStep == ASSUME IInv, NEW k, DetachedLine(k) PROVE IInv'
<1>1. PICK b : /\ LineRead(b, k) /\ ~attached /\ buf' = b
               /\ Queue(<<>>) /\ UNCHANGED <<length, coding, body>>
  BY LineIsRead DEF DetachedLine, LineIs
<1>2. Read /\ UNCHANGED <<attached, reports, told, stopped, thrown>>
  BY <1>1 DEF Read, LineRead, Queue
<1>3. Failed' /\ ~attached'
  BY <1>1, <1>2 DEF IInv, History, Failed
<1>4. Chunked' /\ SizedBodyIsWhole' /\ told'
  BY <1>2, <1>3 DEF Chunked, SizedBodyIsWhole, IInv, History, Failed
<1>5. CASE k = "size"
  <2>1. ops' = <<>>
    BY <1>1, <1>5, FrontTells, Queued DEF AtSize, LineRead, Queue, Pop
  <2> QED
    BY <1>1, <1>2, <1>4, <2>1, QuietStep DEF IInv, Held, Stage, Over
<1>6. CASE k = "end"
  <2>1. AtEnd
    BY <1>1, <1>6, FrontTells DEF LineRead, AtLastEnd
  <2>2. ops' = <<Op("size")>>
    BY <1>1, <2>1, Queued DEF AtEnd, Queue, Pop
  <2>3. AtSize'
    BY <1>4, <2>2 DEF AtSize, Op
  <2> QED
    BY <1>1, <1>2, <2>3, QuietStep DEF IInv, Held, Stage
<1> QED
  BY <1>5, <1>6 DEF DetachedLine

LEMMA ChunkStep == ASSUME IInv, Chunk PROVE IInv'
<1>1. CASE ChunkTooLarge
  <2>1. PICK b : LineRead(b, "size") /\ buf' = AfterSize(b) /\ Fail
    BY <1>1, LineIsRead DEF ChunkTooLarge, LineIs
  <2>2. EndsAt(AfterSize(b), pos')
    BY <2>1, SizeTaken DEF LineRead
  <2>3. Read /\ ops # <<>>
    BY <2>1, <2>2 DEF Read, LineRead, Front, Fail
  <2> QED
    BY <2>1, <2>3, FailStep
<1>2. CASE ChunkSize
  BY <1>2, ChunkSizeStep
<1>3. CASE ChunkData
  BY <1>3, ChunkDataStep
<1>4. CASE ChunkEnd
  <2>1. PICK b : /\ LineRead(b, "end") /\ attached /\ Head(ops).chunk > 0
                 /\ buf' = AfterLine(b) /\ Queue(<<>>)
                 /\ UNCHANGED <<length, coding, body>>
    BY <1>4, LineIsRead DEF ChunkEnd, LineIs
  <2>2. Read /\ UNCHANGED <<attached, reports, told, stopped, thrown>>
    BY <2>1, LineIsTaken DEF Queue
  <2>3. AtEnd
    BY <2>1, FrontTells DEF LineRead, AtLastEnd, EndOp
  <2>4. ops' = <<Op("size")>>
    BY <2>1, <2>3, Queued DEF AtEnd, Queue, Pop
  <2>5. AtSize'
    BY <2>1, <2>2, <2>3, <2>4 DEF AtEnd, AtSize, Chunked, Op, None, Sym
  <2> QED
    BY <2>1, <2>2, <2>5, QuietStep DEF IInv, Held, Stage
<1>5. CASE LastChunkEnd
  <2>1. PICK b : /\ LineRead(b, "end") /\ attached /\ Head(ops).chunk = 0
                 /\ buf' = AfterLine(b) /\ Succeed(body)
    BY <1>5, LineIsRead DEF LastChunkEnd, LineIs
  <2>2. Read
    BY <2>1, LineIsTaken DEF Succeed
  <2>3. AtLastEnd
    BY <2>1, FrontTells DEF LineRead, AtEnd, EndOp
  <2>4. ~Fits
    BY <2>1, <2>3, NoneIs DEF AtLastEnd, Chunked, Fits
  <2> QED
    BY <2>1, <2>2, <2>3, <2>4, SucceedStep DEF IInv, Held, AtLastEnd
<1>6. CASE DetachedLine("size") \/ DetachedLine("end")
  BY <1>6, DetachedLineStep
<1>7. CASE SizeFails \/ DataFails \/ EndFails
  <2>1. Fail /\ Read /\ ops # <<>>
    BY <1>7, ReadFailed DEF SizeFails, DataFails, EndFails, Fail
  <2> QED
    BY <2>1, FailStep
<1>8. CASE LastEndFails
  BY <1>8, LastEndFailsStep
<1> QED
  BY <1>1, <1>2, <1>3, <1>4, <1>5, <1>6, <1>7, <1>8 DEF Chunk

-----------------------------------------------------------------------------
(* Every step is one of those handlers, or ends the input.                   *)
LEMMA IInvStep == IInv /\ [Next]_vars => IInv'
<1> SUFFICES ASSUME IInv, [Next]_vars PROVE IInv'
  OBVIOUS
<1>1. CASE UNCHANGED vars
  <2>1. Read /\ UNCHANGED <<attached, reports, told, stopped, thrown, length, coding, body, ops, buf, pos>>
    BY <1>1 DEF vars, Read, IInv, Buffered
  <2>2. Stage'
    BY <2>1 DEF IInv, Stage, AtFirst, AtHeader, AtBody, AtSize, AtData, AtEnd, AtLastEnd, Over,
         Chunked, LastSizeAt, Newlines, EndsUnheard, EndsAfterLastSize, SizedBodyIsWhole,
         Fits, Op, BodyOp, DataOp, EndOp, None, Sym, Read
  <2> QED
    BY <2>1, <2>2, QuietStep DEF IInv, Held
<1> QED
  BY <1>1, FirstLineStep, HeaderStep, BodyStep, ChunkStep DEF Next

LEMMA InvariantHolds == Spec => []IInv
BY IInvInit, IInvStep, PTL DEF Spec

LEMMA TypesHold == IInv => TypeOK
<1> SUFFICES ASSUME IInv PROVE TypeOK
  OBVIOUS
<1>1. \A i \in 1..Len(ops) :
        /\ ops[i].kind \in {"first", "header", "body", "size", "data", "end"}
        /\ ops[i].chunk \in 0..MaxChunk
        /\ ops[i].need \in IF ops[i].kind \in {"data", "body"} THEN 1..IntMax ELSE {0}
  <2>0. Len(buf) \in Nat
    BY DEF IInv, Buffered, EndsAt
  <2>1. CASE AtFirst \/ AtHeader \/ AtSize \/ AtLastEnd \/ Over
    BY <2>1, ParserAssumption DEF AtFirst, AtHeader, AtSize, AtLastEnd, Over, Op, EndOp
  <2>2. CASE AtBody
    BY <2>2, ParserAssumption DEF AtBody, BodyOp
  <2>3. CASE AtData
    BY <2>0, <2>3, ParserAssumption DEF AtData, DataOp, EndOp, Op
  <2>4. CASE AtEnd
    BY <2>4, ParserAssumption DEF AtEnd, EndOp, Op
  <2> QED
    BY <2>1, <2>2, <2>3, <2>4 DEF IInv, Stage
<1>2. \A i \in 1..Len(reports) : reports[i] \in {"ok", "null"}
  BY DEF IInv, History
<1> QED
  BY <1>1, <1>2 DEF IInv, Buffered, EndsAt, Held, TypeOK

(* For any stream and any cut of it into reads, after a failure was reported *)
(* nothing is delivered, whatever is still queued and buffered.              *)
THEOREM FailureIsFinal == Spec => []NothingAfterFailure
<1>1. IInv => NothingAfterFailure
  BY TypesHold DEF IInv, History, NothingAfterFailure
<1> QED
  BY <1>1, InvariantHolds, PTL

(* The next parse starts only when the one before has no operation left.     *)
THEOREM ParsesDoNotMix == Spec => []OneParseAtATime
<1>1. IInv => OneParseAtATime
  BY DEF IInv, Stage, AtFirst, AtHeader, AtBody, AtSize, AtData, AtEnd, AtLastEnd, Over,
         OneParseAtATime, Op, BodyOp, DataOp, EndOp
<1> QED
  BY <1>1, InvariantHolds, PTL

(* What throws is a request without a path; nothing happens behind it.       *)
Thrown == thrown => ThrowsUnheard

LEMMA ThrownStep == IInv /\ Thrown /\ [Next]_vars => Thrown'
<1> SUFFICES ASSUME IInv, Thrown, [Next]_vars PROVE Thrown'
  OBVIOUS
<1>1. CASE UNCHANGED vars
  BY <1>1 DEF vars, Thrown, ThrowsUnheard
<1>2. CASE FirstLineThrows
  <2>0. PICK n \in 0..Len(input) - pos :
          /\ Front("first") /\ Newlines(buf \o More(n)) # {} /\ pos' = pos + n
          /\ ServerSide /\ Line(buf \o More(n)).is = "queryonly"
          /\ buf' = AfterLine(buf \o More(n)) /\ input' = input
    BY <1>2 DEF FirstLineThrows, LineIs
  <2>1. PICK b :
          /\ b = buf \o More(n) /\ Front("first") /\ Newlines(b) # {} /\ pos' = pos + n
          /\ ServerSide /\ Line(b).is = "queryonly" /\ buf' = AfterLine(b) /\ input' = input
    BY <2>0
  <2>2. LineRead(b, "first")
    BY <2>1, LineIsRead
  <2>3. b \in Seq(Symbol) /\ Len(b) <= pos' /\ pos' \in 0..Len(input)
    BY <2>2 DEF LineRead, EndsAt
  <2>4. FirstNewline(b) = 1 /\ b[1].is = "queryonly"
    BY <2>1 DEF Line, Sym
  <2>5. b[1] = input[pos' - Len(b) + 1] /\ Len(b) \in Nat /\ Len(b) > 0
    <3>1. 1 \in 1..Len(b)
      BY <2>1, <2>3, <2>4, FirstNewlineIs
    <3> QED
      BY <2>2, <2>3, <3>1 DEF LineRead, EndsAt
  <2>6. Len(buf') = Len(b) - 1
    <3>1. FirstNewline(b) \in 0..Len(b)
      BY <2>4, <2>5
    <3> QED
      BY <2>1, <2>2, <2>4, <3>1, Cut DEF IInv, LineRead, AfterLine
  <2>7. pos' - Len(buf') = pos' - Len(b) + 1 /\ pos' - Len(buf') \in 1..Len(input)
    BY ONLY <2>3, <2>5, <2>6
  <2> QED
    BY <1>2, <2>1, <2>4, <2>5, <2>7 DEF Thrown, ThrowsUnheard, FirstLineThrows, LineIs
<1>3. CASE Next /\ ~FirstLineThrows
  <2>1. ~thrown /\ thrown' = thrown
    BY <1>3 DEF Next, FirstLine, Header, Body, Chunk, GoodFirstLine, BadFirstLine, FirstLineFails,
         HeaderLine, HeaderFails, NoBody, StartChunks, LengthNotANumber, TooMuchBuffered,
         BodyBuffered, AskForBody, BodyRead, BodyFails, ChunkTooLarge, ChunkSize, ChunkData,
         ChunkEnd, LastChunkEnd, DetachedLine, SizeFails, DataFails, EndFails, LastEndFails,
         SizedBody, LineIs, BytesAre, ReadFails, Front, TakeChunk, Fail, Succeed, Queue
  <2> QED
    BY <2>1 DEF Thrown
<1> QED
  BY <1>1, <1>2, <1>3

(* Whatever the streams and their cuts: every parse of which nothing is left *)
(* to run has called its handler, except in the two places the property      *)
(* names (parser.cc:117 and :229).                                           *)
THEOREM FailuresReported == Spec => []FailureIsReported
<1>1. Init => Thrown
  BY DEF Init, Thrown
<1>2. IInv /\ Thrown => FailureIsReported
  <2>1. IInv /\ ops = <<>> => Over
    BY DEF IInv, Stage, AtFirst, AtHeader, AtBody, AtSize, AtData, AtEnd, AtLastEnd
  <2> QED
    BY <2>1 DEF Over, FailureIsReported, Idle, Thrown
<1> QED
  BY <1>1, <1>2, ThrownStep, InvariantHolds, PTL DEF Spec

(* A body is delivered with as many bytes as its Content-Length says, for    *)
(* any length and stream that an int can count.                              *)
THEOREM BodiesWhole == Spec => []SizedBodyIsWhole
<1>1. IInv => SizedBodyIsWhole
  BY DEF IInv, Stage, AtFirst, AtHeader, AtBody, AtSize, AtData, AtEnd, AtLastEnd, Over,
         SizedBodyIsWhole
<1> QED
  BY <1>1, InvariantHolds, PTL

-----------------------------------------------------------------------------
(* The reference.  WalkFrom is defined through a recursive function on the   *)
(* positions, which exists because every step leads further on.              *)
Walked(next, out, w, j) ==
  IF j \in DOMAIN next
  THEN [end |-> w[next[j]].end, out |-> out[j] \o w[next[j]].out]
  ELSE [end |-> j, out |-> <<>>]
Walks(next, out, w) == w = [j \in Nat |-> Walked(next, out, w, j)]

GoesOn(D, N, next, S, out) ==
  /\ N \in Nat /\ D \subseteq 1..N /\ next \in [D -> Nat] /\ out \in [D -> Seq(S)]
  /\ \A j \in D : next[j] > j

LEMMA WalkExists ==
  ASSUME NEW D, NEW N, NEW next, NEW S, NEW out, GoesOn(D, N, next, S, out)
  PROVE  \E w : Walks(next, out, w)
<1> DEFINE V == [end : Nat, out : Seq(S)]
           Good(n) == \E w \in [Nat -> V] :
                        \A j \in Nat : j + n > N => w[j] = Walked(next, out, w, j)
           Bad == {n \in Nat : ~Good(n)}
<1>0. /\ N \in Nat /\ DOMAIN next = D /\ \A j \in D : j \in Nat /\ j <= N
      /\ \A j \in D : next[j] \in Nat /\ next[j] > j /\ out[j] \in Seq(S)
  BY DEF GoesOn
<1>1. ASSUME NEW w \in [Nat -> V], NEW j \in Nat PROVE Walked(next, out, w, j) \in V
  <2>1. CASE j \in D
    <3>1. w[next[j]] \in V
      BY <1>0, <2>1
    <3>2. w[next[j]].end \in Nat /\ w[next[j]].out \in Seq(S) /\ out[j] \in Seq(S)
      BY <1>0, <2>1, <3>1
    <3>3. out[j] \o w[next[j]].out \in Seq(S)
      BY <3>2, ConcatProperties
    <3> QED
      BY <1>0, <2>1, <3>2, <3>3 DEF Walked
  <2>2. CASE j \notin D
    <3>1. <<>> \in Seq(S)
      BY EmptySeq
    <3> QED
      BY <1>0, <2>2, <3>1 DEF Walked
  <2> QED
    BY <2>1, <2>2
<1>2. Good(0)
  <2> DEFINE w == [j \in Nat |-> [end |-> j, out |-> <<>>]]
  <2>1. <<>> \in Seq(S)
    BY EmptySeq
  <2>2. w \in [Nat -> V]
    BY <2>1
  <2>3. ASSUME NEW j \in Nat, j + 0 > N PROVE w[j] = Walked(next, out, w, j)
    <3>1. j \notin D
      BY <1>0, <2>3
    <3> QED
      BY <1>0, <3>1 DEF Walked
  <2> QED
    BY <2>2, <2>3
<1>3. ASSUME NEW n \in Nat, Good(n) PROVE Good(n + 1)
  <2>1. PICK w \in [Nat -> V] : \A j \in Nat : j + n > N => w[j] = Walked(next, out, w, j)
    BY <1>3
  <2>2. CASE n > N
    <3>1. \A j \in Nat : j + n > N
      BY <1>0, <2>2
    <3> QED
      BY <2>1, <3>1
  <2>3. CASE ~(n > N)
    <3>1. PICK k \in Nat : k = N - n
      BY <1>0, <2>3
    <3>2. PICK x \in V : x = Walked(next, out, w, k)
      BY <1>1, <3>1
    <3> DEFINE u == [w EXCEPT ![k] = x]
    <3>3. u \in [Nat -> V] /\ u[k] = x /\ \A j \in Nat : j # k => u[j] = w[j]
      BY <3>2
    <3> HIDE DEF u
    <3>4. ASSUME NEW j \in Nat, j >= k PROVE Walked(next, out, u, j) = Walked(next, out, w, j)
      <4>1. CASE j \in D
        <5>1. next[j] \in Nat /\ next[j] # k
          BY <1>0, <3>4, <4>1
        <5>2. u[next[j]] = w[next[j]]
          BY <3>3, <5>1
        <5> QED
          BY <1>0, <4>1, <5>2 DEF Walked
      <4>2. CASE j \notin D
        BY <1>0, <4>2 DEF Walked
      <4> QED
        BY <4>1, <4>2
    <3>5. ASSUME NEW j \in Nat, j + (n + 1) > N PROVE u[j] = Walked(next, out, u, j)
      <4>1. j >= k /\ (j # k => j + n > N)
        BY <1>0, <3>1, <3>5
      <4>2. Walked(next, out, u, j) = Walked(next, out, w, j)
        BY <3>4, <4>1
      <4>3. CASE j = k
        BY <3>2, <3>3, <4>2, <4>3
      <4>4. CASE j # k
        BY <2>1, <3>3, <4>1, <4>2, <4>4
      <4> QED
        BY <4>3, <4>4
    <3> QED
      BY <3>3, <3>5
  <2> QED
    BY <2>2, <2>3
<1> HIDE DEF Good
<1>4. Bad = {}
  <2> SUFFICES ASSUME Bad # {} PROVE FALSE
    OBVIOUS
  <2>1. Bad \in SUBSET Nat
    OBVIOUS
  <2>2. PICK n \in Bad : \A m \in Bad : n <= m
    BY <2>1, LeastNumber
  <2>3. n \in Nat /\ n # 0 /\ ~Good(n)
    BY <1>2, <2>2
  <2>4. n - 1 \in Nat /\ (n - 1) + 1 = n /\ n - 1 \notin Bad
    BY <2>2, <2>3
  <2>5. Good(n - 1)
    BY <2>4
  <2> QED
    BY <1>3, <2>3, <2>4, <2>5
<1>5. N + 1 \in Nat
  BY <1>0
<1>6. Good(N + 1)
  BY <1>4, <1>5
<1>7. PICK w \in [Nat -> V] : \A j \in Nat : j + (N + 1) > N => w[j] = Walked(next, out, w, j)
  BY <1>6 DEF Good
<1>8. \A j \in Nat : j + (N + 1) > N
  BY <1>0
<1>9. w = [j \in Nat |-> Walked(next, out, w, j)]
  BY <1>7, <1>8
<1> QED
  BY <1>9 DEF Walks

(* One step of a walk; it never goes back.                                   *)
Steps(D, next, S, out, i) ==
  /\ WalkFrom(next, out, i).end \in Nat /\ WalkFrom(next, out, i).end >= i
  /\ WalkFrom(next, out, i).out \in Seq(S)
  /\ i \in D =>
       /\ WalkFrom(next, out, i).end = WalkFrom(next, out, next[i]).end
       /\ WalkFrom(next, out, i).out = out[i] \o WalkFrom(next, out, next[i]).out
  /\ i \notin D => WalkFrom(next, out, i).end = i /\ WalkFrom(next, out, i).out = <<>>

LEMMA WalkSteps ==
  ASSUME NEW D, NEW N, NEW next, NEW S, NEW out, GoesOn(D, N, next, S, out), NEW i \in Nat
  PROVE  Steps(D, next, S, out, i)
<1> DEFINE W == CHOOSE w : Walks(next, out, w)
<1>0. /\ N \in Nat /\ DOMAIN next = D /\ \A j \in D : j \in Nat /\ j <= N
      /\ \A j \in D : next[j] \in Nat /\ next[j] > j /\ out[j] \in Seq(S)
  BY DEF GoesOn
<1>1. Walks(next, out, W)
  BY WalkExists
<1>2. \A j : WalkFrom(next, out, j) = W[j]
  BY DEF WalkFrom, Walks, Walked
<1> HIDE DEF W
<1>3. \A j \in Nat : W[j] = Walked(next, out, W, j)
  BY <1>1 DEF Walks
<1> DEFINE Typed(j) == W[j].end \in Nat /\ W[j].end >= j /\ W[j].out \in Seq(S)
           Bad == {m \in 0..N : ~Typed(N - m)}
<1>4. ASSUME NEW j \in Nat, j \notin D PROVE Typed(j) /\ W[j].end = j /\ W[j].out = <<>>
  <2>1. <<>> \in Seq(S)
    BY EmptySeq
  <2>2. W[j] = Walked(next, out, W, j)
    BY <1>3
  <2>3. W[j] = [end |-> j, out |-> <<>>]
    BY <1>0, <1>4, <2>2 DEF Walked
  <2>4. W[j].end = j /\ W[j].out = <<>>
    BY ONLY <2>3
  <2> QED
    BY <2>1, <2>4
<1>5. ASSUME NEW j \in D, Typed(next[j])
      PROVE  /\ Typed(j) /\ W[j].end = W[next[j]].end /\ W[j].out = out[j] \o W[next[j]].out
  <2>0. W[j] = Walked(next, out, W, j)
    BY <1>0, <1>3
  <2>a. W[j] = [end |-> W[next[j]].end, out |-> out[j] \o W[next[j]].out]
    BY <1>0, <2>0 DEF Walked
  <2>b. PICK e, o : e = W[next[j]].end /\ o = out[j] \o W[next[j]].out
    OBVIOUS
  <2>c. W[j] = [end |-> e, out |-> o]
    BY ONLY <2>a, <2>b
  <2>d. W[j].end = e /\ W[j].out = o
    BY ONLY <2>c
  <2>1. W[j].end = W[next[j]].end /\ W[j].out = out[j] \o W[next[j]].out
    BY ONLY <2>b, <2>d
  <2>2. out[j] \o W[next[j]].out \in Seq(S)
    BY <1>0, <1>5, ConcatProperties
  <2> QED
    BY <1>0, <1>5, <2>1, <2>2
<1> HIDE DEF Typed
<1>6. Bad = {}
  <2> SUFFICES ASSUME Bad # {} PROVE FALSE
    OBVIOUS
  <2>1. Bad \in SUBSET Nat
    BY <1>0
  <2>2. PICK m \in Bad : \A k \in Bad : m <= k
    BY <2>1, LeastNumber
  <2>3. m \in 0..N /\ ~Typed(N - m) /\ N - m \in Nat
    BY <1>0, <2>2
  <2>4. N - m \in D
    BY <1>4, <2>3
  <2>5. next[N - m] \in Nat /\ next[N - m] > N - m
    BY <1>0, <2>4
  <2>6. CASE next[N - m] > N
    <3>1. next[N - m] \notin D
      BY <1>0, <2>6
    <3> QED
      BY <1>4, <1>5, <2>3, <2>4, <2>5, <3>1
  <2>7. CASE ~(next[N - m] > N)
    <3>1. PICK k \in 0..N : N - k = next[N - m] /\ k < m
      <4>1. /\ N - next[N - m] \in 0..N /\ N - (N - next[N - m]) = next[N - m]
            /\ N - next[N - m] < m
        BY <1>0, <2>3, <2>5, <2>7
      <4> QED
        BY <4>1
    <3>2. k \notin Bad
      BY <2>2, <3>1
    <3>3. Typed(next[N - m])
      BY <3>1, <3>2
    <3> QED
      BY <1>5, <2>3, <2>4, <3>3
  <2> QED
    BY <2>6, <2>7
<1>7. ASSUME NEW j \in Nat PROVE Typed(j)
  <2>1. CASE j \in D
    <3>1. N - j \in 0..N /\ N - (N - j) = j
      BY <1>0, <2>1
    <3> QED
      BY <1>6, <3>1
  <2> QED
    BY <1>4, <2>1
<1>8. W[i].end \in Nat /\ W[i].end >= i /\ W[i].out \in Seq(S)
  BY <1>7 DEF Typed
<1>9. i \in D => W[i].end = W[next[i]].end /\ W[i].out = out[i] \o W[next[i]].out
  BY <1>0, <1>5, <1>7
<1>10. i \notin D => W[i].end = i /\ W[i].out = <<>>
  BY <1>4
<1>11. WalkFrom(next, out, i) = W[i]
  BY <1>2
<1>12. WalkFrom(next, out, next[i]) = W[next[i]]
  BY <1>2
<1> QED
  BY ONLY <1>8, <1>9, <1>10, <1>11, <1>12 DEF Steps

LEMMA SymbolAt ==
  ASSUME NEW s \in Seq(Symbol), NEW j \in 1..Len(s)
  PROVE  s[j] \in Symbol /\ s[j].n \in Nat
<1>1. s[j] \in Symbol
  BY ElementOfSeq
<1> QED
  BY <1>1 DEF Symbol

(* The three walks of the reference, step by step.                           *)
HeadersStep(s, field, i) ==
  /\ Headers(s, field, i).end \in Nat /\ Headers(s, field, i).end >= i
  /\ Headers(s, field, i).out \in Seq(Nat)
  /\ i \in HeaderLines(s) =>
       /\ Headers(s, field, i).end = Headers(s, field, i + 1).end
       /\ s[i].is = field =>
            Headers(s, field, i).out = <<s[i].n>> \o Headers(s, field, i + 1).out
       /\ s[i].is # field => Headers(s, field, i).out = Headers(s, field, i + 1).out
  /\ i \notin HeaderLines(s) =>
       Headers(s, field, i).end = i /\ Headers(s, field, i).out = <<>>

LEMMA HeadersSteps ==
  ASSUME NEW s \in Seq(Symbol), NEW field, NEW i \in Nat
  PROVE  HeadersStep(s, field, i)
<1> DEFINE D == HeaderLines(s)
           next == [j \in D |-> j + 1]
           out == [j \in D |-> IF s[j].is = field THEN <<s[j].n>> ELSE <<>>]
<1>1. Len(s) \in Nat /\ D \subseteq 1..Len(s) /\ \A j \in D : j \in Nat
  BY DEF HeaderLines
<1>2. \A j \in D : s[j].n \in Nat
  BY <1>1, SymbolAt
<1>3. <<>> \in Seq(Nat) /\ \A j \in D : <<s[j].n>> \in Seq(Nat)
  BY <1>2
<1>4. next \in [D -> Nat] /\ \A j \in D : next[j] > j /\ next[j] = j + 1
  BY <1>1
<1>5. out \in [D -> Seq(Nat)]
  BY <1>3
<1>6. /\ \A j \in D : s[j].is = field => out[j] = <<s[j].n>>
      /\ \A j \in D : s[j].is # field => out[j] = <<>>
  OBVIOUS
<1>7. \A j : Headers(s, field, j) = WalkFrom(next, out, j)
  BY DEF Headers
<1> HIDE DEF next, out, D
<1>8. GoesOn(D, Len(s), next, Nat, out)
  BY <1>1, <1>4, <1>5 DEF GoesOn
<1>w. \A j \in Nat : Steps(D, next, Nat, out, j)
  BY <1>8, WalkSteps
<1>9. \A j \in Nat : Headers(s, field, j).out \in Seq(Nat) /\ Headers(s, field, j).end >= j
                      /\ Headers(s, field, j).end \in Nat
  BY <1>7, <1>w DEF Steps
<1>10. ASSUME i \in D
       PROVE  /\ Headers(s, field, i).end = Headers(s, field, i + 1).end
              /\ Headers(s, field, i).out = out[i] \o Headers(s, field, i + 1).out
  <2>1. /\ WalkFrom(next, out, i).end = WalkFrom(next, out, next[i]).end
        /\ WalkFrom(next, out, i).out = out[i] \o WalkFrom(next, out, next[i]).out
    BY <1>10, <1>w DEF Steps
  <2>2. next[i] = i + 1
    BY <1>4, <1>10
  <2>3. /\ Headers(s, field, i) = WalkFrom(next, out, i)
        /\ Headers(s, field, i + 1) = WalkFrom(next, out, i + 1)
    BY <1>7
  <2> QED
    BY ONLY <2>1, <2>2, <2>3
<1>11. i \notin D => Headers(s, field, i).end = i /\ Headers(s, field, i).out = <<>>
  <2>1. Steps(D, next, Nat, out, i) /\ Headers(s, field, i) = WalkFrom(next, out, i)
    BY <1>7, <1>w
  <2> QED
    BY ONLY <2>1 DEF Steps
<1>12. ASSUME i \in D, s[i].is # field
       PROVE  Headers(s, field, i).out = Headers(s, field, i + 1).out
  <2>1. Headers(s, field, i + 1).out \in Seq(Nat)
    BY <1>9
  <2>2. <<>> \o Headers(s, field, i + 1).out = Headers(s, field, i + 1).out
    BY <2>1, ConcatEmptySeq
  <2> QED
    BY <1>6, <1>10, <1>12, <2>2
<1>13. i \in D /\ s[i].is = field =>
         Headers(s, field, i).out = <<s[i].n>> \o Headers(s, field, i + 1).out
  BY <1>6, <1>10
<1>14. /\ Headers(s, field, i).end \in Nat /\ Headers(s, field, i).end >= i
       /\ Headers(s, field, i).out \in Seq(Nat)
  BY ONLY <1>9, i \in Nat
<1> QED
  BY ONLY <1>10, <1>11, <1>12, <1>13, <1>14 DEF D, HeadersStep

(* The walk over the header lines, case by case.                             *)
LEMMA HeadersTyped ==
  ASSUME NEW s \in Seq(Symbol), NEW field, NEW i \in Nat
  PROVE  /\ Headers(s, field, i).end \in Nat /\ Headers(s, field, i).end >= i
         /\ Headers(s, field, i).out \in Seq(Nat)
<1>1. HeadersStep(s, field, i)
  BY HeadersSteps
<1> QED
  BY ONLY <1>1 DEF HeadersStep

LEMMA HeadersNext ==
  ASSUME NEW s \in Seq(Symbol), NEW field, NEW i \in HeaderLines(s), i \in Nat
  PROVE  Headers(s, field, i).end = Headers(s, field, i + 1).end
<1>1. HeadersStep(s, field, i) /\ i \in HeaderLines(s)
  BY HeadersSteps
<1> QED
  BY ONLY <1>1 DEF HeadersStep

LEMMA HeadersTake ==
  ASSUME NEW s \in Seq(Symbol), NEW field, NEW i \in HeaderLines(s), i \in Nat, s[i].is = field
  PROVE  Headers(s, field, i).out = <<s[i].n>> \o Headers(s, field, i + 1).out
<1>1. HeadersStep(s, field, i) /\ i \in HeaderLines(s) /\ s[i].is = field
  BY HeadersSteps
<1> QED
  BY ONLY <1>1 DEF HeadersStep

LEMMA HeadersSkip ==
  ASSUME NEW s \in Seq(Symbol), NEW field, NEW i \in HeaderLines(s), i \in Nat, s[i].is # field
  PROVE  Headers(s, field, i).out = Headers(s, field, i + 1).out
<1>1. HeadersStep(s, field, i) /\ i \in HeaderLines(s) /\ s[i].is # field
  BY HeadersSteps
<1> QED
  BY ONLY <1>1 DEF HeadersStep

LEMMA HeadersStop ==
  ASSUME NEW s \in Seq(Symbol), NEW field, NEW i \in Nat, i \notin HeaderLines(s)
  PROVE  Headers(s, field, i).end = i /\ Headers(s, field, i).out = <<>>
<1>1. HeadersStep(s, field, i) /\ i \notin HeaderLines(s)
  BY HeadersSteps
<1> QED
  BY ONLY <1>1 DEF HeadersStep

ChunksStep(s, max, i) ==
  /\ Chunks(s, max, i).end \in Nat /\ Chunks(s, max, i).end >= i
  /\ Chunks(s, max, i).out \in Seq(Symbol)
  /\ i \in FullChunks(s, max) =>
       /\ Chunks(s, max, i).end = Chunks(s, max, i + s[i].n + 2).end
       /\ Chunks(s, max, i).out =
            SubSeq(s, i + 1, i + s[i].n) \o Chunks(s, max, i + s[i].n + 2).out
  /\ i \notin FullChunks(s, max) =>
       Chunks(s, max, i).end = i /\ Chunks(s, max, i).out = <<>>

LEMMA ChunksSteps ==
  ASSUME NEW s \in Seq(Symbol), NEW max \in Nat, NEW i \in Nat
  PROVE  ChunksStep(s, max, i)
<1> DEFINE D == FullChunks(s, max)
           next == [j \in D |-> j + s[j].n + 2]
           out == [j \in D |-> SubSeq(s, j + 1, j + s[j].n)]
<1>1. Len(s) \in Nat /\ D \subseteq 1..Len(s) /\ \A j \in D : j \in Nat
  BY DEF FullChunks
<1>2. \A j \in D : s[j].n \in Nat /\ j + s[j].n <= Len(s)
  <2> SUFFICES ASSUME NEW j \in D PROVE s[j].n \in Nat /\ j + s[j].n <= Len(s)
    OBVIOUS
  <2>1. j \in 1..Len(s) /\ j + s[j].n < Len(s)
    BY DEF FullChunks, IsChunk
  <2>2. s[j].n \in Nat
    BY <2>1, SymbolAt
  <2> QED
    BY <1>1, <2>1, <2>2
<1>3. \A j \in D : SubSeq(s, j + 1, j + s[j].n) \in Seq(Symbol)
  <2> SUFFICES ASSUME NEW j \in D PROVE SubSeq(s, j + 1, j + s[j].n) \in Seq(Symbol)
    OBVIOUS
  <2>1. PICK a \in Nat, e \in Nat : a = j + 1 /\ e = j + s[j].n /\ 1 <= a /\ e <= Len(s)
    BY <1>1, <1>2
  <2>2. SubSeq(s, a, e) \in Seq(Symbol)
    BY <2>1, SubSeqProperties
  <2> QED
    BY <2>1, <2>2
<1>4. next \in [D -> Nat] /\ \A j \in D : next[j] > j /\ next[j] = j + s[j].n + 2
  BY <1>1, <1>2
<1>5. out \in [D -> Seq(Symbol)] /\ \A j \in D : out[j] = SubSeq(s, j + 1, j + s[j].n)
  BY <1>3
<1>7. \A j : Chunks(s, max, j) = WalkFrom(next, out, j)
  BY DEF Chunks
<1> HIDE DEF next, out, D
<1>8. GoesOn(D, Len(s), next, Symbol, out)
  BY <1>1, <1>4, <1>5 DEF GoesOn
<1>w. \A j \in Nat : Steps(D, next, Symbol, out, j)
  BY <1>8, WalkSteps
<1>9. /\ Chunks(s, max, i).out \in Seq(Symbol) /\ Chunks(s, max, i).end >= i
      /\ Chunks(s, max, i).end \in Nat
  BY <1>7, <1>w DEF Steps
<1>10. ASSUME i \in D
       PROVE  /\ Chunks(s, max, i).end = Chunks(s, max, i + s[i].n + 2).end
              /\ Chunks(s, max, i).out = out[i] \o Chunks(s, max, i + s[i].n + 2).out
  <2>1. /\ WalkFrom(next, out, i).end = WalkFrom(next, out, next[i]).end
        /\ WalkFrom(next, out, i).out = out[i] \o WalkFrom(next, out, next[i]).out
    BY <1>10, <1>w DEF Steps
  <2>2. next[i] = i + s[i].n + 2
    BY <1>4, <1>10
  <2>3. /\ Chunks(s, max, i) = WalkFrom(next, out, i)
        /\ Chunks(s, max, i + s[i].n + 2) = WalkFrom(next, out, i + s[i].n + 2)
    BY <1>7
  <2> QED
    BY ONLY <2>1, <2>2, <2>3
<1>11. i \notin D => Chunks(s, max, i).end = i /\ Chunks(s, max, i).out = <<>>
  <2>1. Steps(D, next, Symbol, out, i) /\ Chunks(s, max, i) = WalkFrom(next, out, i)
    BY <1>7, <1>w
  <2> QED
    BY ONLY <2>1 DEF Steps
<1> QED
  BY ONLY <1>5, <1>9, <1>10, <1>11 DEF D, ChunksStep

(* The walk over the chunks, case by case.                                   *)
LEMMA ChunksTyped ==
  ASSUME NEW s \in Seq(Symbol), NEW max \in Nat, NEW i \in Nat
  PROVE  /\ Chunks(s, max, i).end \in Nat /\ Chunks(s, max, i).end >= i
         /\ Chunks(s, max, i).out \in Seq(Symbol)
<1>1. ChunksStep(s, max, i)
  BY ChunksSteps
<1> QED
  BY ONLY <1>1 DEF ChunksStep

LEMMA ChunksTake ==
  ASSUME NEW s \in Seq(Symbol), NEW max \in Nat, NEW i \in FullChunks(s, max), i \in Nat
  PROVE  /\ Chunks(s, max, i).end = Chunks(s, max, i + s[i].n + 2).end
         /\ Chunks(s, max, i).out =
              SubSeq(s, i + 1, i + s[i].n) \o Chunks(s, max, i + s[i].n + 2).out
<1>1. ChunksStep(s, max, i) /\ i \in FullChunks(s, max)
  BY ChunksSteps
<1> QED
  BY ONLY <1>1 DEF ChunksStep

LEMMA ChunksStop ==
  ASSUME NEW s \in Seq(Symbol), NEW max \in Nat, NEW i \in Nat, i \notin FullChunks(s, max)
  PROVE  Chunks(s, max, i).end = i /\ Chunks(s, max, i).out = <<>>
<1>1. ChunksStep(s, max, i) /\ i \notin FullChunks(s, max)
  BY ChunksSteps
<1> QED
  BY ONLY <1>1 DEF ChunksStep

(* What a well-formed message is: the head ends at its blank line, and then  *)
(* comes what the head says.                                                 *)
Blank(s, i) == Headers(s, "length", i + 1).end
LengthsAt(s, i) == Headers(s, "length", i + 1).out
CodingsAt(s, i) == Headers(s, "chunked", i + 1).out
ChunksAt(s, max, i) == Chunks(s, max, Blank(s, i) + 1)

LEMMA MessageParts ==
  ASSUME NEW s \in Seq(Symbol), NEW max \in Nat, NEW i \in Messages(s, max)
  PROVE  /\ i \in 1..Len(s) /\ s[i].is = "request"
         /\ Blank(s, i) \in 1..Len(s) /\ Blank(s, i) > i /\ s[Blank(s, i)].is = "blank"
         /\ LengthsAt(s, i) \in Seq(Nat)
         /\ LengthsAt(s, i) # <<>> =>
              LET e == Blank(s, i) + LengthsAt(s, i)[1] IN
              /\ LengthsAt(s, i)[1] \in Nat /\ e <= Len(s)
              /\ Message(s, max, i) = WellFormed(SubSeq(s, Blank(s, i) + 1, e), e + 1)
         /\ LengthsAt(s, i) = <<>> /\ CodingsAt(s, i) = <<>> =>
              Message(s, max, i) = WellFormed(<<>>, Blank(s, i) + 1)
         /\ LengthsAt(s, i) = <<>> /\ CodingsAt(s, i) # <<>> =>
              /\ IsChunk(s, max, ChunksAt(s, max, i).end)
              /\ Message(s, max, i) = WellFormed(ChunksAt(s, max, i).out,
                                                 ChunksAt(s, max, i).end + 2)
<1>0. i \in 1..Len(s) /\ Message(s, max, i).ok /\ i \in Nat /\ i + 1 \in Nat
  BY DEF Messages
<1>1. Message(s, max, i) # Malformed
  BY <1>0 DEF Malformed
<1>2. /\ Blank(s, i) \in Nat /\ Blank(s, i) >= i + 1 /\ LengthsAt(s, i) \in Seq(Nat)
  BY <1>0, HeadersTyped DEF Blank, LengthsAt
<1>3. PICK z, L, C, K, m :
        /\ z \in Nat /\ L \in Seq(Nat)
        /\ z = Blank(s, i) /\ L = LengthsAt(s, i) /\ C = CodingsAt(s, i)
        /\ K = ChunksAt(s, max, i) /\ m = Message(s, max, i)
  BY <1>2
<1>4. PICK e, W1, W2, W3 :
        /\ e = z + L[1] /\ W1 = WellFormed(SubSeq(s, z + 1, e), e + 1)
        /\ W2 = WellFormed(<<>>, z + 1) /\ W3 = WellFormed(K.out, K.end + 2)
  OBVIOUS
<1>5. m = IF i \notin 1..Len(s) \/ s[i].is # "request" \/ z > Len(s) \/ s[z].is # "blank"
          THEN Malformed
          ELSE IF L # <<>> THEN IF e <= Len(s) THEN W1 ELSE Malformed
          ELSE IF C = <<>> THEN W2
          ELSE IF IsChunk(s, max, K.end) THEN W3 ELSE Malformed
  BY <1>3, <1>4 DEF Message, Blank, LengthsAt, CodingsAt, ChunksAt
<1>6. m # Malformed
  BY <1>1, <1>3
<1>7. s[i].is = "request" /\ ~(z > Len(s)) /\ s[z].is = "blank"
  BY ONLY <1>5, <1>6, Zenon
<1>8. /\ L # <<>> => e <= Len(s) /\ m = W1
      /\ L = <<>> /\ C = <<>> => m = W2
      /\ L = <<>> /\ C # <<>> => IsChunk(s, max, K.end) /\ m = W3
  BY <1>0, <1>5, <1>6, <1>7, Zenon
<1>9. z \in 1..Len(s) /\ z > i
  BY <1>0, <1>2, <1>3, <1>7
<1>10. L # <<>> => L[1] \in Nat
  BY ONLY <1>3
<1>11. L # <<>> => /\ L[1] \in Nat /\ z + L[1] <= Len(s)
                  /\ m = WellFormed(SubSeq(s, z + 1, z + L[1]), (z + L[1]) + 1)
  BY ONLY <1>4, <1>8, <1>10
<1>12. L = <<>> /\ C = <<>> => m = WellFormed(<<>>, z + 1)
  BY ONLY <1>4, <1>8
<1>13. L = <<>> /\ C # <<>> => IsChunk(s, max, K.end) /\ m = WellFormed(K.out, K.end + 2)
  BY ONLY <1>4, <1>8
<1> QED
  BY <1>0, <1>2, <1>3, <1>7, <1>9, <1>11, <1>12, <1>13


LEMMA WellFormedIs == \A b, n : WellFormed(b, n).body = b /\ WellFormed(b, n).next = n
BY DEF WellFormed

(* A message ends behind where it starts.                                    *)
LEMMA MessageTypes ==
  ASSUME NEW s \in Seq(Symbol), NEW max \in Nat, NEW i \in Messages(s, max)
  PROVE  /\ Message(s, max, i).body \in Seq(Symbol)
         /\ Message(s, max, i).next \in Nat /\ Message(s, max, i).next > i
<1>1. PICK z, L, C, K, m :
        /\ z = Blank(s, i) /\ L = LengthsAt(s, i) /\ C = CodingsAt(s, i)
        /\ K = ChunksAt(s, max, i) /\ m = Message(s, max, i)
  OBVIOUS
<1>2. /\ i \in 1..Len(s) /\ z \in 1..Len(s) /\ z > i
      /\ L # <<>> => /\ L[1] \in Nat /\ z + L[1] <= Len(s)
                     /\ m = WellFormed(SubSeq(s, z + 1, z + L[1]), (z + L[1]) + 1)
      /\ L = <<>> /\ C = <<>> => m = WellFormed(<<>>, z + 1)
      /\ L = <<>> /\ C # <<>> => m = WellFormed(K.out, K.end + 2)
  BY <1>1, MessageParts
<1>3. \A b, n : WellFormed(b, n).body = b /\ WellFormed(b, n).next = n
  BY WellFormedIs
<1>4. K.out \in Seq(Symbol) /\ K.end \in Nat /\ K.end >= z + 1
  <2>1. z + 1 \in Nat
    BY <1>2
  <2> QED
    BY <1>1, <2>1, ChunksTyped DEF ChunksAt
<1>5. CASE L # <<>>
  <2>1. PICK a, e : a = z + 1 /\ e = z + L[1]
    OBVIOUS
  <2>2. m = WellFormed(SubSeq(s, a, e), e + 1)
    BY ONLY <1>2, <1>5, <2>1
  <2>3. m.body = SubSeq(s, a, e) /\ m.next = e + 1
    BY ONLY <1>3, <2>2
  <2>4. a \in Nat /\ e \in Nat /\ 1 <= a /\ e <= Len(s) /\ e + 1 > i /\ e + 1 \in Nat
    <3>1. z \in Nat /\ z > i /\ L[1] \in Nat /\ z + L[1] <= Len(s) /\ i \in Nat
      BY <1>2, <1>5
    <3> QED
      BY ONLY <2>1, <3>1
  <2>5. SubSeq(s, a, e) \in Seq(Symbol)
    BY <2>4, SubSeqProperties
  <2> QED
    BY ONLY <1>1, <2>3, <2>4, <2>5
<1>6. CASE L = <<>> /\ C = <<>>
  <2>1. m.body = <<>> /\ m.next = z + 1
    BY <1>2, <1>3, <1>6
  <2>2. <<>> \in Seq(Symbol)
    BY EmptySeq
  <2> QED
    BY <1>1, <1>2, <2>1, <2>2
<1>7. CASE L = <<>> /\ C # <<>>
  <2>1. m.body = K.out /\ m.next = K.end + 2
    BY <1>2, <1>3, <1>7
  <2> QED
    BY <1>1, <1>2, <1>4, <2>1
<1> QED
  BY <1>5, <1>6, <1>7

LEMMA BodiesSteps ==
  ASSUME NEW s \in Seq(Symbol), NEW max \in Nat, NEW i \in Nat
  PROVE  /\ BodiesFrom(s, max, i) \in Seq(Seq(Symbol))
         /\ i \in Messages(s, max) =>
              BodiesFrom(s, max, i) =
                <<Message(s, max, i).body>> \o BodiesFrom(s, max, Message(s, max, i).next)
         /\ i \notin Messages(s, max) => BodiesFrom(s, max, i) = <<>>
<1> DEFINE D == Messages(s, max)
           next == [j \in D |-> Message(s, max, j).next]
           out == [j \in D |-> <<Message(s, max, j).body>>]
<1>1. Len(s) \in Nat /\ D \subseteq 1..Len(s) /\ \A j \in D : j \in Nat
  BY DEF Messages
<1>2. /\ next \in [D -> Nat] /\ \A j \in D : next[j] > j
      /\ \A j \in D : next[j] = Message(s, max, j).next
  BY MessageTypes
<1>3. /\ out \in [D -> Seq(Seq(Symbol))]
      /\ \A j \in D : out[j] = <<Message(s, max, j).body>>
  <2>1. \A j \in D : <<Message(s, max, j).body>> \in Seq(Seq(Symbol))
    BY MessageTypes
  <2> QED
    BY <2>1
<1>4. \A j : BodiesFrom(s, max, j) = WalkFrom(next, out, j).out
  BY DEF BodiesFrom
<1> HIDE DEF next, out, D
<1>5. GoesOn(D, Len(s), next, Seq(Symbol), out)
  BY <1>1, <1>2, <1>3 DEF GoesOn
<1>6. Steps(D, next, Seq(Symbol), out, i)
  BY <1>5, WalkSteps
<1>7. BodiesFrom(s, max, i) \in Seq(Seq(Symbol))
  BY <1>4, <1>6 DEF Steps
<1>8. ASSUME i \in D
      PROVE  BodiesFrom(s, max, i) =
               <<Message(s, max, i).body>> \o BodiesFrom(s, max, Message(s, max, i).next)
  <2>1. WalkFrom(next, out, i).out = out[i] \o WalkFrom(next, out, next[i]).out
    BY <1>6, <1>8 DEF Steps
  <2>2. next[i] = Message(s, max, i).next /\ out[i] = <<Message(s, max, i).body>>
    BY <1>2, <1>3, <1>8
  <2>3. /\ BodiesFrom(s, max, i) = WalkFrom(next, out, i).out
        /\ BodiesFrom(s, max, Message(s, max, i).next)
             = WalkFrom(next, out, Message(s, max, i).next).out
    BY <1>4
  <2> QED
    BY ONLY <2>1, <2>2, <2>3
<1>9. i \notin D => BodiesFrom(s, max, i) = <<>>
  BY <1>4, <1>6 DEF Steps
<1> QED
  BY <1>7, <1>8, <1>9 DEF D

-----------------------------------------------------------------------------
(* What is buffered is a piece of the stream, and so is what a handler takes *)
(* from it.                                                                  *)
LEMMA SamePiece ==
  ASSUME NEW s \in Seq(Symbol), NEW c \in Seq(Symbol), NEW l \in Nat, l + Len(c) <= Len(s),
         \A i \in 1..Len(c) : c[i] = s[l + i], NEW k \in 0..Len(c)
  PROVE  SubSeq(c, 1, k) = SubSeq(s, l + 1, l + k)
<1>1. PICK a \in Nat, e \in Nat :
        a = l + 1 /\ e = l + k /\ 1 <= a /\ e <= Len(s) /\ e - a + 1 = k /\ a <= e + 1
  OBVIOUS
<1>2. k \in Nat /\ \A i \in 1..k : i \in 1..Len(c)
  OBVIOUS
<1>3. \A i \in 1..k : c[i] \in Symbol
  BY <1>2, ElementOfSeq
<1>4. /\ SubSeq(c, 1, k) \in Seq(Symbol) /\ Len(SubSeq(c, 1, k)) = IF 1 <= k THEN k - 1 + 1 ELSE 0
      /\ \A i \in 1..k - 1 + 1 : SubSeq(c, 1, k)[i] = c[1 + i - 1]
  BY <1>2, <1>3, SubSeqProperties
<1>5. \A i \in a..e : s[i] \in Symbol
  BY <1>1, ElementOfSeq
<1>6. /\ SubSeq(s, a, e) \in Seq(Symbol)
      /\ Len(SubSeq(s, a, e)) = IF a <= e THEN e - a + 1 ELSE 0
      /\ \A i \in 1..e - a + 1 : SubSeq(s, a, e)[i] = s[a + i - 1]
  BY <1>5, SubSeqProperties
<1>7. Len(SubSeq(c, 1, k)) = k /\ Len(SubSeq(s, a, e)) = k
  BY <1>1, <1>2, <1>4, <1>6
<1>8. ASSUME NEW i \in 1..k PROVE SubSeq(c, 1, k)[i] = SubSeq(s, a, e)[i]
  <2>1. i \in 1..k - 1 + 1 /\ i \in 1..e - a + 1 /\ 1 + i - 1 = i /\ a + i - 1 = l + i
    BY <1>1, <1>2
  <2>2. SubSeq(c, 1, k)[i] = c[i] /\ SubSeq(s, a, e)[i] = s[l + i]
    BY <1>4, <1>6, <2>1
  <2> QED
    BY <1>2, <2>2
<1>9. SubSeq(c, 1, k) = SubSeq(s, a, e)
  BY <1>4, <1>6, <1>7, <1>8, SeqEqual
<1> QED
  BY <1>1, <1>9

LEMMA PieceIs ==
  ASSUME Buffered, NEW p \in 0..Len(input), NEW b, EndsAt(b, p), NEW k \in 0..Len(b)
  PROVE  SubSeq(b, 1, k) = SubSeq(input, p - Len(b) + 1, p - Len(b) + k)
<1>1. /\ input \in Seq(Symbol) /\ b \in Seq(Symbol) /\ Len(b) <= p
      /\ \A i \in 1..Len(b) : b[i] = input[p - Len(b) + i]
  BY DEF Buffered, EndsAt
<1>2. p \in Nat /\ Len(b) \in Nat /\ Len(input) \in Nat /\ p <= Len(input)
  BY <1>1
<1>3. PICK l \in Nat : l = p - Len(b) /\ l + Len(b) <= Len(input)
  <2>1. p - Len(b) \in Nat /\ (p - Len(b)) + Len(b) <= Len(input)
    BY ONLY <1>1, <1>2
  <2> QED
    BY ONLY <2>1
<1>4. \A i \in 1..Len(b) : b[i] = input[l + i]
  BY ONLY <1>1, <1>3
<1> QED
  BY <1>1, <1>3, <1>4, SamePiece

LEMMA WholePiece ==
  ASSUME Buffered, NEW p \in 0..Len(input), NEW b, EndsAt(b, p)
  PROVE  b = SubSeq(input, p - Len(b) + 1, p)
<1>1. b \in Seq(Symbol) /\ Len(b) \in 0..Len(b) /\ p - Len(b) + Len(b) = p
  BY DEF EndsAt, Buffered
<1>2. SubSeq(b, 1, Len(b)) = b
  BY <1>1, SubSeqFull
<1>3. SubSeq(b, 1, Len(b)) = SubSeq(input, p - Len(b) + 1, p - Len(b) + Len(b))
  BY ONLY <1>1, Buffered, p \in 0..Len(input), EndsAt(b, p), PieceIs
<1> QED
  BY ONLY <1>1, <1>2, <1>3

(* A line that starts at a newline is that newline.                          *)
LEMMA OneLine ==
  ASSUME Buffered, NEW p \in 0..Len(input), NEW b, EndsAt(b, p), Newlines(b) # {},
         NEW q, q = p - Len(b) + 1, input[q].is # "byte"
  PROVE  /\ b[1] = input[q] /\ Line(b) = input[q] /\ q \in 1..Len(input)
         /\ EndsAt(AfterLine(b), p) /\ p - Len(AfterLine(b)) = q
<1>1. b \in Seq(Symbol) /\ Len(b) \in Nat /\ Len(b) <= p
  BY DEF EndsAt
<1>2. FirstNewline(b) \in Newlines(b) /\ FirstNewline(b) \in 1..Len(b)
  BY <1>1, FirstNewlineIs
<1>3. 1 \in 1..Len(b)
  BY <1>1, <1>2
<1>4. b[1] = input[q]
  BY <1>3 DEF EndsAt
<1>5. 1 \in Newlines(b)
  BY <1>3, <1>4 DEF Newlines
<1>6. \A i \in Newlines(b) : 1 <= i /\ i \in Nat
  BY <1>1 DEF Newlines
<1>7. FirstNewline(b) = 1
  <2>1. \E i \in Newlines(b) : \A j \in Newlines(b) : i <= j
    BY <1>5, <1>6
  <2>2. \A j \in Newlines(b) : FirstNewline(b) <= j
    BY <2>1 DEF FirstNewline
  <2> QED
    BY <1>2, <1>5, <1>6, <2>2
<1>8. Line(b) = input[q]
  BY <1>4, <1>7 DEF Line
<1>9. EndsAt(AfterLine(b), p) /\ Len(AfterLine(b)) = Len(b) - 1
  <2>1. 1 \in 0..Len(b)
    BY <1>3
  <2>2. EndsAt(SubSeq(b, 1 + 1, Len(b)), p) /\ Len(SubSeq(b, 1 + 1, Len(b))) = Len(b) - 1
    BY <2>1, Cut
  <2> QED
    BY <1>7, <2>2 DEF AfterLine
<1>10. p - (Len(b) - 1) = q /\ q \in 1..Len(input)
  BY <1>1, <1>3 DEF Buffered
<1> QED
  BY <1>4, <1>8, <1>9, <1>10

-----------------------------------------------------------------------------
(* Where the parse of a well-formed message stands in the stream: the next   *)
(* byte that no handler took, and what the handlers so far made of the bytes *)
(* before it, against what the reference makes of those behind it.           *)
Here == pos - Len(buf) + 1
Doing(k) == ops # <<>> /\ Head(ops).kind = k

InHead(p) ==
  /\ Here > p /\ Headers(input, "length", Here).end = Blank(input, p)
  /\ length = None => LengthsAt(input, p) = Headers(input, "length", Here).out
  /\ length # None =>
       /\ length.is = "length" /\ LengthsAt(input, p) # <<>>
       /\ LengthsAt(input, p)[1] = length.n /\ Len(input) - Blank(input, p) <= IntMax
  /\ coding = None => CodingsAt(input, p) = Headers(input, "chunked", Here).out
  /\ coding # None => CodingsAt(input, p) # <<>>

InBody(p) ==
  /\ LengthsAt(input, p) # <<>> /\ Blank(input, p) <= pos
  /\ pos + Head(ops).need = Blank(input, p) + LengthsAt(input, p)[1]
  /\ body = SubSeq(input, Blank(input, p) + 1, pos)

IsChunked(p) == LengthsAt(input, p) = <<>> /\ CodingsAt(input, p) # <<>>
ChunksLeft(p, q) ==
  /\ IsChunked(p)
  /\ ChunksAt(input, MaxChunk, p).end = Chunks(input, MaxChunk, q).end
  /\ ChunksAt(input, MaxChunk, p).out = body \o Chunks(input, MaxChunk, q).out

InChunk(p) ==
  /\ Here - 1 \in FullChunks(input, MaxChunk) /\ input[Here - 1].n = Head(ops).chunk
  /\ ChunksLeft(p, Here - 1)

AfterChunk(p) ==
  /\ Here \in 1..Len(input) /\ input[Here].is = "blank"
  /\ Head(ops).chunk > 0 => ChunksLeft(p, Here + 1)
  /\ Head(ops).chunk = 0 =>
       /\ IsChunked(p) /\ ChunksAt(input, MaxChunk, p).end = Here - 1
       /\ ChunksAt(input, MaxChunk, p).out = body

OnTrack(p) ==
  /\ p \in Messages(input, MaxChunk) /\ attached /\ ~stopped /\ ~thrown
  /\ \/ Doing("first") /\ Here = p
     \/ Doing("header") /\ InHead(p)
     \/ Doing("body") /\ InBody(p)
     \/ Doing("size") /\ ChunksLeft(p, Here)
     \/ Doing("data") /\ InChunk(p)
     \/ Doing("end") /\ AfterChunk(p)

(* What a step does on the way through a message: it goes on; it delivers    *)
(* the message as the reference reads it, and then starts behind it if at    *)
(* all; or it fails because more was buffered than the message, which is     *)
(* then not the last of the stream (parser.cc takes this for an error).      *)
Advance(p) == OnTrack(p)' /\ UNCHANGED <<input, bodies, reports>>
Deliver(p) ==
  /\ UNCHANGED <<input, stopped, thrown>>
  /\ reports' = Append(reports, "ok")
  /\ bodies' = Append(bodies, Message(input, MaxChunk, p).body)
  /\ ops' = <<>> \/ (AtFirst' /\ Here' = Message(input, MaxChunk, p).next)
Overrun(p) == Fail /\ Message(input, MaxChunk, p).next <= Len(input)

(* A line that ends where the parse stands can be read.                      *)
LEMMA NewlineComes ==
  ASSUME IInv, Here \in 1..Len(input), input[Here].is # "byte", ~stopped,
         NEW k, k \notin {"data", "body"}
  PROVE  ~ReadFails(k)
<1>1. Len(input) - pos \in 0..Len(input) - pos /\ pos + (Len(input) - pos) = Len(input)
  BY DEF IInv, Buffered
<1>2. PICK b : b = buf \o Rest /\ EndsAt(b, Len(input)) /\ Len(b) = Len(buf) + (Len(input) - pos)
  BY <1>1, Ahead DEF IInv, Rest
<1>3. buf \in Seq(Symbol) /\ pos \in Nat /\ Len(input) \in Nat /\ Len(b) \in Nat
  BY <1>2 DEF IInv, Buffered, EndsAt
<1>4. 1 \in 1..Len(b) /\ Len(input) - Len(b) + 1 = Here
  <2>1. Len(buf) \in Nat /\ pos - Len(buf) + 1 <= Len(input)
    BY <1>3 DEF Here
  <2> QED
    BY ONLY <1>2, <1>3, <2>1 DEF Here
<1>5. b[1] = input[Here]
  BY <1>2, <1>4 DEF EndsAt
<1>6. 1 \in Newlines(b)
  BY <1>4, <1>5 DEF Newlines
<1> QED
  BY <1>2, <1>6 DEF ReadFails

(* And it is read as that line.                                              *)
LEMMA LineHere ==
  ASSUME IInv, NEW k, NEW b, LineRead(b, k), Here \in 1..Len(input), input[Here].is # "byte"
  PROVE  /\ b[1] = input[Here] /\ Line(b) = input[Here]
         /\ EndsAt(AfterLine(b), pos') /\ pos' - Len(AfterLine(b)) = Here
<1>1. Here = pos' - Len(b) + 1
  BY DEF Here, LineRead
<1> QED
  BY <1>1, OneLine DEF LineRead, IInv

(* The operation in flight tells which handler runs.                         *)
LEMMA HandlersFront ==
  /\ FirstLine => Front("first")
  /\ Header \/ TooMuchBuffered \/ BodyBuffered \/ AskForBody => Front("header")
  /\ BodyRead \/ BodyFails => Front("body")
  /\ ChunkTooLarge \/ ChunkSize \/ DetachedLine("size") \/ SizeFails => Front("size")
  /\ ChunkData \/ DataFails => Front("data")
  /\ ChunkEnd \/ LastChunkEnd \/ DetachedLine("end") \/ EndFails \/ LastEndFails => Front("end")
<1>1. \A j : ReadFails(j) => Front(j)
  BY DEF ReadFails
<1>2. FirstLine => Front("first")
  BY <1>1 DEF FirstLine, GoodFirstLine, BadFirstLine, FirstLineThrows, FirstLineFails, LineIs
<1>3. Header \/ TooMuchBuffered \/ BodyBuffered \/ AskForBody => Front("header")
  BY <1>1 DEF Header, HeaderLine, HeaderFails, NoBody, StartChunks, LengthNotANumber,
       TooMuchBuffered, BodyBuffered, AskForBody, LineIs
<1>4. BodyRead \/ BodyFails => Front("body")
  BY <1>1 DEF BodyRead, BodyFails, BytesAre
<1>5. ChunkTooLarge \/ ChunkSize \/ DetachedLine("size") \/ SizeFails => Front("size")
  BY <1>1 DEF ChunkTooLarge, ChunkSize, DetachedLine, SizeFails, LineIs
<1>6. ChunkData \/ DataFails => Front("data")
  BY <1>1 DEF ChunkData, DataFails, BytesAre
<1>7. ChunkEnd \/ LastChunkEnd \/ DetachedLine("end") \/ EndFails \/ LastEndFails => Front("end")
  BY <1>1 DEF ChunkEnd, LastChunkEnd, DetachedLine, EndFails, LastEndFails, LineIs
<1> QED
  BY <1>2, <1>3, <1>4, <1>5, <1>6, <1>7

LEMMA OnlyFront ==
  ASSUME Next, NEW k, Doing(k)
  PROVE  /\ Front(k)
         /\ k = "first" => FirstLine
         /\ k = "header" => Header \/ TooMuchBuffered \/ BodyBuffered \/ AskForBody
         /\ k = "body" => BodyRead \/ BodyFails
         /\ k = "size" => ChunkTooLarge \/ ChunkSize \/ DetachedLine("size") \/ SizeFails
         /\ k = "data" => ChunkData \/ DataFails
         /\ k = "end" => ChunkEnd \/ LastChunkEnd \/ DetachedLine("end") \/ EndFails \/ LastEndFails
<1>1. \A j : Front(j) => j = k
  BY DEF Front, Doing
<1> QED
  BY <1>1, HandlersFront DEF Next, Body, Chunk

LEMMA NotOver == Next => ops # <<>>
<1>1. \A k : Front(k) => ops # <<>>
  BY DEF Front
<1> QED
  BY <1>1, HandlersFront DEF Next, Body, Chunk

LEMMA FirstOn ==
  ASSUME IInv, NEW p, OnTrack(p), Doing("first"), Next
  PROVE  Advance(p)
<1>1. Front("first") /\ FirstLine
  BY OnlyFront
<1>2. AtFirst
  BY <1>1, FrontTells
<1>3. Here = p /\ p \in Messages(input, MaxChunk) /\ ~stopped /\ ~thrown /\ attached
  BY DEF OnTrack, Doing
<1>4. input \in Seq(Symbol) /\ MaxChunk \in Nat
  BY ParserAssumption DEF IInv, Buffered
<1>5. p \in 1..Len(input) /\ input[p].is = "request"
  BY <1>3, <1>4, MessageParts
<1>6. CASE GoodFirstLine
  <2>1. PICK b : /\ LineRead(b, "first") /\ buf' = AfterLine(b)
                 /\ Queue(<<Op("header")>>) /\ UNCHANGED <<length, coding, body>>
    BY <1>6, LineIsRead DEF GoodFirstLine, LineIs
  <2>2. pos' - Len(buf') = p
    BY <1>3, <1>5, <2>1, LineHere
  <2>3. Here' = p + 1
    BY <2>2 DEF Here
  <2>4. ops' = <<Op("header")>>
    BY <1>2, <2>1, Queued DEF Queue, Pop, AtFirst
  <2>5. UNCHANGED <<input, attached, reports, bodies, stopped, thrown>>
    BY <2>1 DEF Queue
  <2>6. Doing("header")'
    BY <2>4 DEF Doing, Op
  <2>7. length' = None /\ coding' = None /\ None' = None
    BY <1>2, <2>1 DEF AtFirst, None, Sym
  <2>8. p + 1 > p
    BY <1>5
  <2>9. InHead(p)'
    BY <2>3, <2>5, <2>7, <2>8 DEF InHead, Blank, LengthsAt, CodingsAt
  <2> QED
    BY <1>3, <2>5, <2>6, <2>9 DEF Advance, OnTrack
<1>7. CASE BadFirstLine \/ FirstLineThrows
  <2>1. PICK b : LineRead(b, "first") /\ Line(b).is # "request"
    BY <1>7, LineIsRead DEF BadFirstLine, FirstLineThrows, LineIs
  <2> QED
    BY <1>3, <1>5, <2>1, LineHere
<1>8. ~FirstLineFails
  BY <1>3, <1>5, NewlineComes DEF FirstLineFails
<1> QED
  BY <1>1, <1>6, <1>7, <1>8 DEF FirstLine

(* In the head of the message, a header line comes next or the blank one.    *)
LEMMA HeadPlace ==
  ASSUME IInv, NEW p, OnTrack(p), Doing("header")
  PROVE  /\ AtHeader /\ InHead(p) /\ p \in Messages(input, MaxChunk)
         /\ input \in Seq(Symbol) /\ MaxChunk \in Nat
         /\ p \in 1..Len(input) /\ Blank(input, p) \in 1..Len(input)
         /\ Here \in Nat /\ Here \in 1..Len(input) /\ Here <= Blank(input, p)
         /\ input[Here].is # "byte" /\ ~stopped /\ ~thrown /\ attached
         /\ \/ Here \in HeaderLines(input) /\ Here < Blank(input, p)
            \/ Here = Blank(input, p) /\ Here \notin HeaderLines(input)
               /\ input[Here].is = "blank"
<1>1. InHead(p) /\ p \in Messages(input, MaxChunk) /\ ~stopped /\ ~thrown /\ attached
  BY DEF OnTrack, Doing
<1>2. AtHeader
  BY <1>1, FrontTells DEF Front, Doing
<1>3. input \in Seq(Symbol) /\ MaxChunk \in Nat
  BY ParserAssumption DEF IInv, Buffered
<1>4. /\ p \in 1..Len(input) /\ Blank(input, p) \in 1..Len(input)
      /\ input[Blank(input, p)].is = "blank"
  BY <1>1, <1>3, MessageParts
<1>5. Here \in Nat /\ Here > p
  <2>1. pos - Len(buf) \in Nat
    BY DEF IInv, Buffered, EndsAt
  <2> QED
    BY <1>1, <2>1 DEF Here, InHead
<1>6. CASE Here \in HeaderLines(input)
  <2>1. Headers(input, "length", Here).end = Headers(input, "length", Here + 1).end
    BY <1>3, <1>5, <1>6, HeadersNext
  <2>2. Headers(input, "length", Here + 1).end >= Here + 1
    <3>1. Here + 1 \in Nat
      BY <1>5
    <3> QED
      BY <1>3, <3>1, HeadersTyped
  <2>3. Here < Blank(input, p)
    BY <1>1, <1>4, <1>5, <2>1, <2>2 DEF InHead
  <2>4. Here \in 1..Len(input) /\ input[Here].is # "byte"
    BY <1>6 DEF HeaderLines
  <2> QED
    BY <1>1, <1>2, <1>3, <1>4, <1>5, <1>6, <2>3, <2>4
<1>7. CASE Here \notin HeaderLines(input)
  <2>1. Headers(input, "length", Here).end = Here
    BY <1>3, <1>5, <1>7, HeadersStop
  <2>2. Here = Blank(input, p)
    BY <1>1, <2>1 DEF InHead
  <2> QED
    BY <1>1, <1>2, <1>3, <1>4, <1>5, <1>7, <2>2
<1> QED
  BY <1>6, <1>7

LEMMA HeaderLineOn ==
  ASSUME IInv, LengthsFit, NEW p, OnTrack(p), Doing("header"), HeaderLine
  PROVE  Advance(p)
<1>1. PICK b : /\ LineRead(b, "header") /\ Line(b).is # "blank" /\ buf' = AfterLine(b)
               /\ length' = IF length = None /\ Line(b).is \in {"length", "badlength"}
                            THEN Line(b) ELSE length
               /\ coding' = IF coding = None /\ Line(b).is = "chunked"
                            THEN Line(b) ELSE coding
               /\ Queue(<<Op("header")>>) /\ UNCHANGED body
  BY LineIsRead DEF HeaderLine, LineIs
<1>2. /\ AtHeader /\ InHead(p) /\ p \in Messages(input, MaxChunk)
      /\ input \in Seq(Symbol) /\ Here \in Nat /\ Here \in 1..Len(input) /\ p \in Nat
      /\ Blank(input, p) \in 1..Len(input) /\ Here <= Blank(input, p)
      /\ input[Here].is # "byte" /\ ~stopped /\ ~thrown /\ attached
  BY HeadPlace
<1>3. Line(b) = input[Here] /\ pos' - Len(buf') = Here
  BY <1>1, <1>2, LineHere
<1>4. Here \in HeaderLines(input) /\ input[Here].is \in {"length", "chunked", "host"}
  <2>1. Here \in HeaderLines(input)
    BY <1>1, <1>3, HeadPlace
  <2> QED
    BY <2>1 DEF HeaderLines
<1>5. PICK h \in Nat : h = Here + 1 /\ h > Here
  BY <1>2
<1>6. Here' = h
  BY <1>3, <1>5 DEF Here
<1>7. UNCHANGED <<input, attached, reports, bodies, stopped, thrown>>
  BY <1>1 DEF Queue
<1>8. Doing("header")'
  <2>1. ops' = <<Op("header")>>
    BY <1>1, <1>2, Queued DEF Queue, Pop, AtHeader
  <2> QED
    BY <2>1 DEF Doing, Op
<1>9. None' = None /\ input[Here] # None
  BY <1>4, NoneIs DEF None, Sym
<1>10. h > p /\ Headers(input, "length", h).end = Blank(input, p)
  <2>1. Headers(input, "length", Here).end = Headers(input, "length", Here + 1).end
    BY <1>2, <1>4, HeadersNext
  <2>2. Here > p /\ Headers(input, "length", Here).end = Blank(input, p)
    BY <1>2 DEF InHead
  <2> QED
    BY <1>2, <1>5, <2>1, <2>2
<1>11. input[Here].n \in Nat
  BY <1>2, SymbolAt
<1>12. \A field : Headers(input, field, h).out \in Seq(Nat)
  BY <1>2, HeadersTyped
<1>13. /\ length' = None => LengthsAt(input, p) = Headers(input, "length", h).out
       /\ length' # None =>
            /\ length'.is = "length" /\ LengthsAt(input, p) # <<>>
            /\ LengthsAt(input, p)[1] = length'.n /\ Len(input) - Blank(input, p) <= IntMax
  <2>1. CASE length # None
    BY <1>1, <1>2, <2>1 DEF InHead
  <2>2. CASE length = None /\ input[Here].is # "length"
    <3>1. length' = None
      BY <1>1, <1>3, <1>4, <2>2
    <3>2. Headers(input, "length", Here).out = Headers(input, "length", Here + 1).out
      BY <1>2, <1>4, <2>2, HeadersSkip
    <3> QED
      BY <1>2, <1>5, <2>2, <3>1, <3>2 DEF InHead
  <2>3. CASE length = None /\ input[Here].is = "length"
    <3>1. length' = input[Here]
      BY <1>1, <1>3, <2>3
    <3>2. PICK u \in Seq(Nat), n \in Nat : u = Headers(input, "length", h).out /\ n = input[Here].n
      BY <1>11, <1>12
    <3>3. Headers(input, "length", Here).out = <<n>> \o u
      BY <1>2, <1>4, <1>5, <2>3, <3>2, HeadersTake
    <3>4. <<n>> \o u # <<>> /\ (<<n>> \o u)[1] = n
      OBVIOUS
    <3>5. Len(input) - Blank(input, p) <= IntMax
      <4>1. Len(input) - Here <= IntMax
        BY <1>2, <2>3 DEF LengthsFit
      <4> QED
        BY <1>2, <4>1, ParserAssumption
    <3> QED
      BY <1>2, <1>9, <2>3, <3>1, <3>2, <3>3, <3>4, <3>5 DEF InHead
  <2> QED
    BY <2>1, <2>2, <2>3
<1>14. /\ coding' = None => CodingsAt(input, p) = Headers(input, "chunked", h).out
       /\ coding' # None => CodingsAt(input, p) # <<>>
  <2>1. CASE coding # None
    BY <1>1, <1>2, <2>1 DEF InHead
  <2>2. CASE coding = None /\ input[Here].is # "chunked"
    <3>1. coding' = None
      BY <1>1, <1>3, <1>4, <2>2
    <3>2. Headers(input, "chunked", Here).out = Headers(input, "chunked", Here + 1).out
      BY <1>2, <1>4, <2>2, HeadersSkip
    <3> QED
      BY <1>2, <1>5, <2>2, <3>1, <3>2 DEF InHead
  <2>3. CASE coding = None /\ input[Here].is = "chunked"
    <3>1. coding' = input[Here]
      BY <1>1, <1>3, <2>3
    <3>2. PICK u \in Seq(Nat), n \in Nat : u = Headers(input, "chunked", h).out /\ n = input[Here].n
      BY <1>11, <1>12
    <3>3. Headers(input, "chunked", Here).out = <<n>> \o u
      BY <1>2, <1>4, <1>5, <2>3, <3>2, HeadersTake
    <3>4. <<n>> \o u # <<>>
      OBVIOUS
    <3> QED
      BY <1>2, <1>9, <2>3, <3>1, <3>3, <3>4 DEF InHead
  <2> QED
    BY <2>1, <2>2, <2>3
<1>15. InHead(p)'
  BY <1>6, <1>7, <1>9, <1>10, <1>13, <1>14 DEF InHead, Blank, LengthsAt, CodingsAt
<1> QED
  BY <1>2, <1>7, <1>8, <1>15 DEF Advance, OnTrack

(* At the blank line the head has said all.                                  *)
LEMMA BlankHere ==
  ASSUME IInv, NEW p, OnTrack(p), Doing("header"), NEW b, LineRead(b, "header"),
         Line(b).is = "blank"
  PROVE  /\ pos' - Len(AfterLine(b)) = Blank(input, p) /\ EndsAt(AfterLine(b), pos')
         /\ length = None => LengthsAt(input, p) = <<>>
         /\ coding = None => CodingsAt(input, p) = <<>>
<1>1. /\ InHead(p) /\ input \in Seq(Symbol) /\ Here \in Nat /\ Here \in 1..Len(input)
      /\ input[Here].is # "byte"
  BY HeadPlace
<1>2. /\ Line(b) = input[Here] /\ pos' - Len(AfterLine(b)) = Here
      /\ EndsAt(AfterLine(b), pos')
  BY <1>1, LineHere
<1>3. Here \notin HeaderLines(input)
  BY <1>2 DEF HeaderLines
<1>4. Here = Blank(input, p)
  BY <1>3, HeadPlace
<1>5. \A field : Headers(input, field, Here).out = <<>>
  BY <1>1, <1>3, HeadersStop
<1> QED
  BY <1>1, <1>2, <1>4, <1>5 DEF InHead

(* The message is delivered, and what is left starts where the next one does. *)
LEMMA SucceedOn ==
  ASSUME NEW p, NEW bd, Succeed(bd), \E e : ops = <<e>>,
         bd = Message(input, MaxChunk, p).body,
         pos' - Len(buf') + 1 = Message(input, MaxChunk, p).next
  PROVE  Deliver(p)
<1>1. /\ UNCHANGED <<input, stopped, thrown>>
      /\ reports' = Append(reports, "ok")
      /\ bodies' = Append(bodies, Message(input, MaxChunk, p).body)
  BY DEF Succeed
<1>2. CASE /\ Pop(<<Op("first")>>) /\ attached' = TRUE
           /\ length' = None /\ coding' = None /\ body' = <<>>
  <2>1. ops' = <<Op("first")>>
    BY <1>2, Queued DEF Pop
  <2>2. AtFirst'
    BY <1>2, <2>1 DEF AtFirst, Op, None, Sym
  <2> QED
    BY <1>1, <2>2 DEF Deliver, Here
<1>3. CASE Pop(<<>>)
  <2>1. ops' = <<>>
    BY <1>3, Queued DEF Pop
  <2> QED
    BY <1>1, <2>1 DEF Deliver
<1> QED
  BY <1>2, <1>3 DEF Succeed

(* A head without a length of more than 0 and without chunks is the message. *)
LEMMA NoBodyOn ==
  ASSUME IInv, NEW p, OnTrack(p), Doing("header"), NoBody
  PROVE  Deliver(p)
<1>1. PICK b : /\ LineRead(b, "header") /\ Line(b).is = "blank" /\ buf' = AfterLine(b)
               /\ \/ length = None /\ coding = None
                  \/ length = [is |-> "length", n |-> 0]
               /\ Succeed(body)
  BY LineIsRead DEF NoBody, LineIs
<1>2. /\ AtHeader /\ InHead(p) /\ p \in Messages(input, MaxChunk)
      /\ input \in Seq(Symbol) /\ MaxChunk \in Nat
  BY HeadPlace
<1>3. PICK z, L, C, m :
        /\ z = Blank(input, p) /\ L = LengthsAt(input, p) /\ C = CodingsAt(input, p)
        /\ m = Message(input, MaxChunk, p)
  OBVIOUS
<1>4. /\ z \in 1..Len(input)
      /\ L # <<>> => m = WellFormed(SubSeq(input, z + 1, z + L[1]), (z + L[1]) + 1)
      /\ L = <<>> /\ C = <<>> => m = WellFormed(<<>>, z + 1)
  BY <1>2, <1>3, MessageParts
<1>5. /\ pos' - Len(buf') = z
      /\ length = None => L = <<>>
      /\ coding = None => C = <<>>
  BY <1>1, <1>3, BlankHere
<1>6. m = WellFormed(<<>>, z + 1)
  <2>1. CASE length = None /\ coding = None
    BY <1>4, <1>5, <2>1
  <2>2. CASE length = [is |-> "length", n |-> 0]
    <3>1. length # None /\ length.n = 0
      BY <2>2, NoneIs
    <3>2. L # <<>> /\ L[1] = 0
      BY <1>2, <1>3, <3>1 DEF InHead
    <3>3. z + 0 = z /\ SubSeq(input, z + 1, z) = <<>>
      <4>1. z \in Int /\ z + 1 \in Int /\ z < z + 1 /\ z + 0 = z
        BY <1>4
      <4> QED
        BY <4>1, SubSeqEmpty
    <3>4. m = WellFormed(SubSeq(input, z + 1, z + 0), (z + 0) + 1)
      BY ONLY <1>4, <3>2
    <3> QED
      BY ONLY <3>3, <3>4
  <2> QED
    BY <1>1, <2>1, <2>2
<1>7. m.body = <<>> /\ m.next = z + 1
  BY <1>6 DEF WellFormed
<1>8. body = <<>> /\ \E e : ops = <<e>>
  BY <1>2 DEF AtHeader
<1>9. pos' - Len(buf') + 1 = m.next
  BY <1>5, <1>7
<1> QED
  BY <1>1, <1>3, <1>7, <1>8, <1>9, SucceedOn

LEMMA StartChunksOn ==
  ASSUME IInv, NEW p, OnTrack(p), Doing("header"), StartChunks
  PROVE  Advance(p)
<1>1. PICK b : /\ LineRead(b, "header") /\ Line(b).is = "blank" /\ buf' = AfterLine(b)
               /\ length = None /\ coding # None
               /\ Queue(<<Op("size")>>) /\ UNCHANGED <<length, coding, body>>
  BY LineIsRead DEF StartChunks, LineIs
<1>2. /\ AtHeader /\ InHead(p) /\ p \in Messages(input, MaxChunk)
      /\ input \in Seq(Symbol) /\ MaxChunk \in Nat /\ Blank(input, p) \in 1..Len(input)
      /\ ~stopped /\ ~thrown /\ attached
  BY HeadPlace
<1>3. pos' - Len(buf') = Blank(input, p) /\ LengthsAt(input, p) = <<>>
  BY <1>1, BlankHere
<1>4. Here' = Blank(input, p) + 1
  BY <1>3 DEF Here
<1>5. UNCHANGED <<input, attached, reports, bodies, stopped, thrown>>
  BY <1>1 DEF Queue
<1>6. ops' = <<Op("size")>>
  BY <1>1, <1>2, Queued DEF Queue, Pop, AtHeader
<1>7. Doing("size")'
  BY <1>6 DEF Doing, Op
<1>8. IsChunked(p)
  BY <1>1, <1>2, <1>3 DEF InHead, IsChunked
<1>9. body' = <<>>
  BY <1>1, <1>2 DEF AtHeader
<1>10. PICK o \in Seq(Symbol) : o = ChunksAt(input, MaxChunk, p).out
  <2>1. Blank(input, p) + 1 \in Nat
    BY <1>2
  <2> QED
    BY <1>2, <2>1, ChunksTyped DEF ChunksAt
<1>11. <<>> \o o = o
  BY ConcatEmptySeq
<1>12. ChunksLeft(p, Here)'
  <2>1. Chunks(input, MaxChunk, Here') = ChunksAt(input, MaxChunk, p)
    BY <1>4 DEF ChunksAt
  <2>2. IsChunked(p)'
    BY <1>5, <1>8 DEF IsChunked, LengthsAt, CodingsAt
  <2>3. ChunksAt(input, MaxChunk, p)' = ChunksAt(input, MaxChunk, p)
    BY <1>5 DEF ChunksAt, Blank
  <2>4. Chunks(input, MaxChunk, Here)' = ChunksAt(input, MaxChunk, p)
    BY <1>5, <2>1
  <2>5. ChunksAt(input, MaxChunk, p).out = body' \o ChunksAt(input, MaxChunk, p).out
    BY <1>9, <1>10, <1>11
  <2> QED
    BY <2>2, <2>3, <2>4, <2>5 DEF ChunksLeft
<1> QED
  BY <1>2, <1>5, <1>7, <1>12 DEF Advance, OnTrack

(* With a length: what is buffered behind the blank line is the beginning of *)
(* the body, and need_read is what is missing, or less than nothing.         *)
LEMMA SizedHere ==
  ASSUME IInv, NEW p, OnTrack(p), Doing("header"), NEW b, LineRead(b, "header"),
         Line(b).is = "blank", length.is = "length",
         NEW need, need = ToInt(length.n - Len(AfterLine(b)))
  PROVE  \E z \in Nat, n \in Nat :
           /\ z = Blank(input, p) /\ LengthsAt(input, p) # <<>> /\ n = LengthsAt(input, p)[1]
           /\ pos' \in Nat /\ z <= pos' /\ pos' <= Len(input) /\ pos' + need = z + n /\ need \in Int
           /\ need < 0 => z + n < pos'
           /\ need = 0 => pos' = z + n
           /\ z + n <= Len(input)
           /\ AfterLine(b) = SubSeq(input, z + 1, pos') /\ AfterLine(b) \in Seq(Symbol)
           /\ Message(input, MaxChunk, p) = WellFormed(SubSeq(input, z + 1, z + n), (z + n) + 1)
<1>1. /\ InHead(p) /\ p \in Messages(input, MaxChunk)
      /\ input \in Seq(Symbol) /\ MaxChunk \in Nat /\ Blank(input, p) \in 1..Len(input)
  BY HeadPlace
<1>2. PICK z, a : z \in Nat /\ z = Blank(input, p) /\ a = AfterLine(b)
  BY <1>1
<1>3. length # None
  BY NoneIs
<1>4. /\ LengthsAt(input, p) # <<>> /\ LengthsAt(input, p)[1] = length.n
      /\ Len(input) - z <= IntMax
  BY <1>1, <1>2, <1>3 DEF InHead
<1>5. /\ LengthsAt(input, p)[1] \in Nat /\ z + LengthsAt(input, p)[1] <= Len(input)
      /\ Message(input, MaxChunk, p) =
           WellFormed(SubSeq(input, z + 1, z + LengthsAt(input, p)[1]),
                      (z + LengthsAt(input, p)[1]) + 1)
  BY <1>1, <1>2, <1>4, MessageParts
<1>6. PICK n \in Nat : n = LengthsAt(input, p)[1] /\ n = length.n
  BY <1>4, <1>5
<1>7. pos' - Len(a) = z /\ EndsAt(a, pos') /\ pos' \in 0..Len(input)
  BY <1>1, <1>2, BlankHere DEF LineRead
<1>8. a = SubSeq(input, z + 1, pos') /\ a \in Seq(Symbol)
  <2>1. a = SubSeq(input, pos' - Len(a) + 1, pos')
    BY <1>7, WholePiece DEF IInv
  <2> QED
    BY <1>7, <2>1 DEF EndsAt
<1>9. pos' \in Nat /\ Len(a) \in Nat /\ pos' = z + Len(a) /\ pos' <= Len(input) /\ Len(input) \in Nat
  <2>1. pos' \in Nat /\ Len(a) \in Nat /\ pos' <= Len(input) /\ Len(input) \in Nat
    <3>1. Len(a) \in Nat
      BY ONLY <1>8
    <3>2. Len(input) \in Nat
      BY ONLY <1>1
    <3> QED
      BY ONLY <1>7, <3>1, <3>2
  <2> QED
    BY ONLY <1>2, <1>7, <2>1
<1>10. need = n - Len(a) /\ need \in Int
  <2>1. n - Len(a) \in -(IntMax + 1)..IntMax
    <3>1. n <= IntMax /\ Len(a) <= IntMax
      <4>1. z + n <= Len(input) /\ IntMax \in Nat
        BY <1>5, <1>6, ParserAssumption
      <4> QED
        BY ONLY <1>2, <1>4, <1>6, <1>9, <4>1
    <3> QED
      BY <1>9, <3>1, ParserAssumption
  <2>2. n - Len(a) \in Int
    BY <1>9
  <2> QED
    BY <1>2, <1>6, <2>1, <2>2, ToIntRange
<1>11. pos' + need = z + n /\ z <= pos'
  BY ONLY <1>2, <1>6, <1>9, <1>10
<1>12. z + n <= Len(input)
  BY <1>5, <1>6
<1>13. Message(input, MaxChunk, p) = WellFormed(SubSeq(input, z + 1, z + n), (z + n) + 1)
  BY ONLY <1>5, <1>6
<1>14. (need < 0 => z + n < pos') /\ (need = 0 => pos' = z + n)
  BY ONLY <1>2, <1>6, <1>9, <1>10
<1> QED
  BY <1>2, <1>4, <1>6, <1>8, <1>9, <1>10, <1>11, <1>12, <1>13, <1>14

LEMMA SizedOn ==
  ASSUME IInv, NEW p, OnTrack(p), Doing("header"), TooMuchBuffered \/ BodyBuffered \/ AskForBody
  PROVE  Advance(p) \/ Deliver(p) \/ Overrun(p)
<1>0. PICK b, need :
        /\ LineRead(b, "header") /\ Line(b).is = "blank" /\ length.is = "length"
        /\ need = ToInt(length.n - Len(AfterLine(b)))
        /\ \/ need < 0 /\ Fail
           \/ need = 0 /\ buf' = <<>> /\ Succeed(body \o AfterLine(b))
           \/ /\ need > 0 /\ buf' = <<>> /\ body' = body \o AfterLine(b)
              /\ Queue(<<[Op("body") EXCEPT !.need = need]>>)
              /\ UNCHANGED <<length, coding>>
  <2>1. CASE TooMuchBuffered
    BY <2>1, LineIsRead DEF TooMuchBuffered, LineIs, SizedBody
  <2>2. CASE BodyBuffered
    BY <2>2, LineIsRead DEF BodyBuffered, LineIs, SizedBody
  <2>3. CASE AskForBody
    BY <2>3, LineIsRead DEF AskForBody, LineIs, SizedBody
  <2> QED
    BY <2>1, <2>2, <2>3
<1>1. /\ AtHeader /\ InHead(p) /\ p \in Messages(input, MaxChunk)
      /\ input \in Seq(Symbol) /\ ~stopped /\ ~thrown /\ attached
  BY HeadPlace
<1>2. PICK z, n :
        /\ z \in Nat /\ n \in Nat /\ z = Blank(input, p) /\ LengthsAt(input, p) # <<>> /\ n = LengthsAt(input, p)[1]
        /\ pos' \in Nat /\ z <= pos' /\ pos' <= Len(input) /\ pos' + need = z + n /\ need \in Int
        /\ need < 0 => z + n < pos'
        /\ need = 0 => pos' = z + n
        /\ z + n <= Len(input)
        /\ AfterLine(b) = SubSeq(input, z + 1, pos') /\ AfterLine(b) \in Seq(Symbol)
        /\ Message(input, MaxChunk, p) = WellFormed(SubSeq(input, z + 1, z + n), (z + n) + 1)
  BY <1>0, SizedHere
<1>3. body \o AfterLine(b) = AfterLine(b)
  BY <1>1, <1>2, ConcatEmptySeq DEF AtHeader
<1>a. z \in Nat /\ n \in Nat /\ pos' \in Nat /\ need \in Int /\ pos' + need = z + n
  BY <1>2
<1>m. Message(input, MaxChunk, p) = WellFormed(SubSeq(input, z + 1, z + n), (z + n) + 1)
  BY <1>2
<1>4. /\ Message(input, MaxChunk, p).body = SubSeq(input, z + 1, z + n)
      /\ Message(input, MaxChunk, p).next = (z + n) + 1
  BY ONLY <1>m, WellFormedIs
<1>5. CASE need < 0 /\ Fail
  <2>0. need < 0
    BY <1>5
  <2>1. z + n < pos'
    BY <1>2, <2>0
  <2>2. (z + n) + 1 <= Len(input)
    <3>1. Len(input) \in Nat /\ pos' <= Len(input)
      BY <1>1, <1>2
    <3> QED
      BY ONLY <1>a, <2>1, <3>1
  <2> QED
    BY <1>4, <1>5, <2>2 DEF Overrun
<1>6. CASE need = 0 /\ buf' = <<>> /\ Succeed(body \o AfterLine(b))
  <2>0. need = 0
    BY <1>6
  <2>1. pos' = z + n
    BY <1>2, <2>0
  <2>2. body \o AfterLine(b) = Message(input, MaxChunk, p).body
    BY ONLY <1>2, <1>3, <1>4, <2>1
  <2>3. pos' - Len(buf') + 1 = Message(input, MaxChunk, p).next
    <3>1. Len(buf') = 0
      BY <1>6
    <3> QED
      BY ONLY <1>a, <1>4, <2>1, <3>1
  <2>4. \E e : ops = <<e>>
    BY <1>1 DEF AtHeader
  <2> QED
    BY <1>6, <2>2, <2>3, <2>4, SucceedOn
<1>7. CASE /\ need > 0 /\ buf' = <<>> /\ body' = body \o AfterLine(b)
           /\ Queue(<<[Op("body") EXCEPT !.need = need]>>)
           /\ UNCHANGED <<length, coding>>
  <2>1. UNCHANGED <<input, attached, reports, bodies, stopped, thrown>>
    BY <1>7 DEF Queue
  <2>2. ops' = <<BodyOp(need)>>
    <3>1. [Op("body") EXCEPT !.need = need] = BodyOp(need)
      BY DEF Op, BodyOp
    <3> QED
      BY <1>1, <1>7, <3>1, Queued DEF Queue, Pop, AtHeader
  <2>3. Doing("body")' /\ Head(ops').need = need
    BY <2>2 DEF Doing, BodyOp
  <2>4. body' = SubSeq(input, z + 1, pos')
    BY <1>2, <1>3, <1>7
  <2>5. InBody(p)'
    BY <1>2, <2>1, <2>3, <2>4 DEF InBody, LengthsAt, Blank
  <2> QED
    BY <1>1, <2>1, <2>3, <2>5 DEF Advance, OnTrack
<1> QED
  BY <1>0, <1>5, <1>6, <1>7

LEMMA HeaderOn ==
  ASSUME IInv, LengthsFit, NEW p, OnTrack(p), Doing("header"), Next
  PROVE  Advance(p) \/ Deliver(p) \/ Overrun(p)
<1>1. Header \/ TooMuchBuffered \/ BodyBuffered \/ AskForBody
  BY OnlyFront
<1>2. ~HeaderFails
  <2>1. Here \in 1..Len(input) /\ input[Here].is # "byte" /\ ~stopped
    BY HeadPlace
  <2> QED
    BY <2>1, NewlineComes DEF HeaderFails
<1>3. ~LengthNotANumber
  <2> SUFFICES ASSUME LengthNotANumber PROVE FALSE
    OBVIOUS
  <2>1. length.is = "badlength"
    BY DEF LengthNotANumber, LineIs
  <2>2. InHead(p)
    BY HeadPlace
  <2> QED
    BY <2>1, <2>2, NoneIs DEF InHead
<1> QED
  BY <1>1, <1>2, <1>3, HeaderLineOn, NoBodyOn, StartChunksOn, SizedOn DEF Header

LEMMA BodyOn ==
  ASSUME IInv, NEW p, OnTrack(p), Doing("body"), Next
  PROVE  Deliver(p)
<1>1. Front("body") /\ (BodyRead \/ BodyFails)
  BY OnlyFront
<1>2. AtBody
  BY <1>1, FrontTells
<1>3. InBody(p) /\ p \in Messages(input, MaxChunk) /\ ~stopped /\ ~thrown
  BY DEF OnTrack, Doing
<1>4. input \in Seq(Symbol) /\ MaxChunk \in Nat /\ pos \in 0..Len(input)
  BY ParserAssumption DEF IInv, Buffered
<1>5. PICK z, m, k : z = Blank(input, p) /\ m = LengthsAt(input, p)[1] /\ k = Head(ops).need
  OBVIOUS
<1>6. /\ z \in 1..Len(input) /\ m \in Nat /\ z + m <= Len(input)
      /\ Message(input, MaxChunk, p) = WellFormed(SubSeq(input, z + 1, z + m), (z + m) + 1)
  BY <1>3, <1>4, <1>5, MessageParts DEF InBody
<1>7. z <= pos /\ pos + k = z + m /\ body = SubSeq(input, z + 1, pos)
  BY <1>3, <1>5 DEF InBody
<1>8. k \in 1..IntMax /\ k \in Nat /\ buf = <<>> /\ \E e : ops = <<e>>
  BY <1>2, <1>5, ParserAssumption DEF AtBody, BodyOp
<1>9. ~BodyFails
  <2>1. ~(pos + k > Len(input))
    BY <1>4, <1>6, <1>7
  <2> QED
    BY <1>3, <1>5, <2>1 DEF BodyFails, ReadFails
<1>10. pos' = pos + k /\ buf' = <<>> /\ Succeed(body \o (buf \o More(k)))
  BY <1>1, <1>5, <1>9 DEF BodyRead, BytesAre
<1>11. buf \o More(k) = SubSeq(input, pos + 1, z + m)
  <2>1. k \in 0..Len(input) - pos
    BY <1>4, <1>6, <1>7, <1>8
  <2>2. EndsAt(buf \o More(k), pos + k) /\ Len(buf \o More(k)) = k /\ pos + k \in 0..Len(input)
    BY <1>8, <2>1, Ahead DEF IInv
  <2>3. buf \o More(k) = SubSeq(input, (pos + k) - Len(buf \o More(k)) + 1, pos + k)
    BY <2>2, WholePiece DEF IInv
  <2>4. (pos + k) - k + 1 = pos + 1
    BY <1>4, <1>8
  <2> QED
    BY ONLY <1>7, <2>2, <2>3, <2>4
<1>12. body \o (buf \o More(k)) = SubSeq(input, z + 1, z + m)
  <2>1. /\ z + 1 \in 1..Len(input) + 1 /\ pos \in (z + 1) - 1..Len(input)
        /\ z + m \in pos..Len(input)
    BY <1>4, <1>6, <1>7, <1>8
  <2>2. PICK a, e : a = z + 1 /\ e = z + m
    OBVIOUS
  <2>3. SubSeq(input, a, pos) \o SubSeq(input, pos + 1, e) = SubSeq(input, a, e)
    BY <1>4, <2>1, <2>2, ConcatAdjacentSubSeq
  <2> QED
    BY <1>7, <1>11, <2>2, <2>3
<1>13. /\ Message(input, MaxChunk, p).body = SubSeq(input, z + 1, z + m)
       /\ Message(input, MaxChunk, p).next = (z + m) + 1
  BY <1>6, WellFormedIs
<1>14. pos' - Len(buf') + 1 = Message(input, MaxChunk, p).next
  <2>1. Len(buf') = 0
    BY <1>10
  <2>2. z + m \in Nat
    BY <1>6
  <2> QED
    BY <1>7, <1>10, <1>13, <2>1, <2>2
<1> QED
  BY <1>8, <1>10, <1>12, <1>13, <1>14, SucceedOn


(* Where a chunk of the message is to come, there is one, and either its     *)
(* data comes first of what is left or it is the last.                       *)
LEMMA ChunkHere ==
  ASSUME IInv, NEW p \in Messages(input, MaxChunk), NEW q \in Nat, ChunksLeft(p, q)
  PROVE  /\ input \in Seq(Symbol) /\ MaxChunk \in Nat /\ body \in Seq(Symbol)
         /\ q \in 1..Len(input) /\ input[q].is = "size" /\ input[q].n \in 0..MaxChunk
         /\ input[q].n \in Nat
         /\ q + input[q].n < Len(input) /\ input[q + input[q].n + 1].is = "blank"
         /\ input[q].n > 0 => q \in FullChunks(input, MaxChunk)
         /\ input[q].n = 0 =>
              /\ ChunksAt(input, MaxChunk, p).end = q
              /\ ChunksAt(input, MaxChunk, p).out = body
<1>1. input \in Seq(Symbol) /\ MaxChunk \in Nat /\ body \in Seq(Symbol)
  BY ParserAssumption DEF IInv, Buffered, Held
<1>2. IsChunk(input, MaxChunk, ChunksAt(input, MaxChunk, p).end)
  BY <1>1, MessageParts DEF ChunksLeft, IsChunked
<1>3. /\ q \notin FullChunks(input, MaxChunk) =>
           /\ Chunks(input, MaxChunk, q).end = q
           /\ Chunks(input, MaxChunk, q).out = <<>>
  BY <1>1, ChunksStop
<1>4. IsChunk(input, MaxChunk, q)
  <2>1. CASE q \in FullChunks(input, MaxChunk)
    BY <2>1 DEF FullChunks
  <2>2. CASE q \notin FullChunks(input, MaxChunk)
    BY <1>2, <1>3, <2>2 DEF ChunksLeft
  <2> QED
    BY <2>1, <2>2
<1>5. /\ q \in 1..Len(input) /\ input[q].is = "size" /\ input[q].n <= MaxChunk
      /\ q + input[q].n < Len(input) /\ input[q + input[q].n + 1].is = "blank"
  BY <1>4 DEF IsChunk
<1>6. input[q].n \in Nat
  BY <1>1, <1>5, SymbolAt
<1>7. input[q].n > 0 => q \in FullChunks(input, MaxChunk)
  BY <1>4, <1>5 DEF FullChunks
<1>8. ASSUME input[q].n = 0
      PROVE  /\ ChunksAt(input, MaxChunk, p).end = q
             /\ ChunksAt(input, MaxChunk, p).out = body
  <2>1. q \notin FullChunks(input, MaxChunk)
    BY <1>8 DEF FullChunks
  <2>2. body \o <<>> = body
    BY <1>1, ConcatEmptySeq
  <2> QED
    BY <1>3, <2>1, <2>2 DEF ChunksLeft
<1>9. input[q].n \in 0..MaxChunk
  BY <1>1, <1>5, <1>6
<1> QED
  BY <1>1, <1>5, <1>6, <1>7, <1>8, <1>9

(* The data of a chunk is taken off what is left: d is what is assembled     *)
(* once it is, and r where the next chunk is read.                           *)
ChunkOff(p, d, r) ==
  /\ ChunksAt(input, MaxChunk, p).end = Chunks(input, MaxChunk, r).end
  /\ ChunksAt(input, MaxChunk, p).out = d \o Chunks(input, MaxChunk, r).out

LEMMA ChunkTaken ==
  ASSUME IInv, NEW p \in Messages(input, MaxChunk), NEW q \in FullChunks(input, MaxChunk),
         ChunksLeft(p, q)
  PROVE  ChunkOff(p, body \o SubSeq(input, q + 1, q + input[q].n), q + input[q].n + 2)
<1>r. PICK r : r = q + input[q].n + 2
  OBVIOUS
<1>1. q \in Nat
  BY DEF FullChunks
<1>2. /\ input \in Seq(Symbol) /\ MaxChunk \in Nat /\ body \in Seq(Symbol)
      /\ q \in 1..Len(input) /\ input[q].n \in Nat /\ q + input[q].n < Len(input)
  BY <1>1, ChunkHere
<1>3. PICK x, y, z :
        /\ x = body /\ y = SubSeq(input, q + 1, q + input[q].n)
        /\ z = Chunks(input, MaxChunk, r).out
  OBVIOUS
<1>4. PICK a, e : a = q + 1 /\ e = q + input[q].n
  OBVIOUS
<1>5. y \in Seq(Symbol)
  <2>0. a \in Nat /\ e \in Nat /\ 1 <= a /\ e <= Len(input)
    <3>1. PICK n \in Nat : n = input[q].n
      BY <1>2
    <3>2. Len(input) \in Nat /\ q + n < Len(input) /\ e = q + n /\ a = q + 1
      BY <1>2, <1>4, <3>1
    <3> QED
      BY ONLY <1>1, <3>1, <3>2
  <2>1. SubSeq(input, a, e) \in Seq(Symbol)
    <3>1. \A i \in a..e : input[i] \in Symbol
      BY ONLY <1>2, <2>0, ElementOfSeq
    <3> QED
      BY <2>0, <3>1, SubSeqProperties
  <2> QED
    BY <1>3, <1>4, <2>1
<1>6. z \in Seq(Symbol)
  <2>1. r \in Nat
    BY ONLY <1>1, <1>2, <1>r
  <2> QED
    BY <1>2, <1>3, <2>1, ChunksTyped
<1>7. /\ Chunks(input, MaxChunk, q).end = Chunks(input, MaxChunk, r).end
      /\ Chunks(input, MaxChunk, q).out = y \o z
  BY <1>1, <1>2, <1>r, <1>3, ChunksTake
<1>8. (x \o y) \o z = x \o (y \o z)
  <2>1. x \in Seq(Symbol)
    BY <1>2, <1>3
  <2> QED
    BY <1>5, <1>6, <2>1, ConcatAssociative, Z3
<1>9. /\ ChunksAt(input, MaxChunk, p).end = Chunks(input, MaxChunk, q).end
      /\ ChunksAt(input, MaxChunk, p).out = x \o Chunks(input, MaxChunk, q).out
  BY <1>3 DEF ChunksLeft
<1>10. ChunkOff(p, x \o y, r)
  BY ONLY <1>3, <1>7, <1>8, <1>9 DEF ChunkOff
<1> QED
  BY ONLY <1>r, <1>3, <1>10

(* A size that is there is read as it stands.                                *)
LEMMA SizeHere ==
  ASSUME IInv, NEW b, LineRead(b, "size"), Here \in 1..Len(input), input[Here].is = "size"
  PROVE  /\ SizeRead(b) = input[Here].n /\ EndsAt(AfterSize(b), pos')
         /\ pos' - Len(AfterSize(b)) = Here
<1>1. b[1] = input[Here]
  BY LineHere
<1>2. /\ b \in Seq(Symbol) /\ b # <<>> /\ pos' \in 0..Len(input) /\ EndsAt(b, pos')
      /\ pos' - Len(b) + 1 = Here
  <2>1. Newlines(b) # {}
    BY DEF LineRead
  <2>2. b # <<>>
    BY <2>1 DEF Newlines
  <2> QED
    BY <2>2 DEF LineRead, EndsAt, Here
<1>3. 1 \in 1..Len(b) /\ Len(b) \in Nat
  BY ONLY <1>2
<1>4. SkipBlank(b) = b
  <2> DEFINE solid == {i \in 1..Len(b) : b[i].is # "blank"}
             k == CHOOSE i \in solid : \A j \in solid : i <= j
  <2>1. 1 \in solid /\ \A j \in solid : 1 <= j /\ j \in Nat
    BY <1>1, <1>3
  <2>2. SkipBlank(b) = SubSeq(b, k, Len(b))
    BY <2>1 DEF SkipBlank
  <2> HIDE DEF solid
  <2>3. k \in solid /\ \A j \in solid : k <= j
    <3>1. \E i \in solid : \A j \in solid : i <= j
      BY <2>1
    <3> QED
      BY <3>1
  <2> HIDE DEF k
  <2>4. k = 1
    BY <2>1, <2>3
  <2> QED
    BY <1>2, <2>2, <2>4, SubSeqFull
<1>5. ReadsSize(b) /\ SizeRead(b) = input[Here].n /\ AfterSize(b) = Tail(b)
  BY <1>1, <1>2, <1>4 DEF ReadsSize, SizeRead, AfterSize
<1>6. EndsAt(Tail(b), pos') /\ Len(Tail(b)) = Len(b) - 1
  <2>1. Tail(b) = SubSeq(b, 1 + 1, Len(b))
    <3>1. Tail(b) = SubSeq(b, 2, Len(b))
      BY <1>2, TailIsSubSeq
    <3> QED
      BY <3>1
  <2>2. 1 \in 0..Len(b)
    BY <1>3
  <2> QED
    BY <1>2, <2>1, <2>2, Cut DEF IInv
<1>7. pos' - (Len(b) - 1) = Here
  BY <1>2, <1>3
<1> QED
  BY <1>5, <1>6, <1>7


LEMMA HereIsNat == IInv => Here \in Nat
BY DEF IInv, Buffered, EndsAt, Here

LEMMA ChunkSizeOn ==
  ASSUME IInv, NEW p, OnTrack(p), Doing("size"), ChunkSize
  PROVE  Advance(p)
<1>1. /\ p \in Messages(input, MaxChunk) /\ ChunksLeft(p, Here)
      /\ ~stopped /\ ~thrown /\ attached
  BY DEF OnTrack, Doing
<1>2. PICK q \in Nat : q = Here
  BY HereIsNat
<1>3. PICK n \in Nat : n = input[q].n
  BY <1>1, <1>2, ChunkHere
<1>4. /\ input \in Seq(Symbol) /\ Len(input) \in Nat /\ MaxChunk \in Nat /\ body \in Seq(Symbol)
      /\ q \in 1..Len(input) /\ input[q].is = "size" /\ n \in 0..MaxChunk
      /\ q + n < Len(input) /\ input[q + n + 1].is = "blank"
      /\ n > 0 => q \in FullChunks(input, MaxChunk)
      /\ n = 0 => /\ ChunksAt(input, MaxChunk, p).end = q
                  /\ ChunksAt(input, MaxChunk, p).out = body
  BY <1>1, <1>2, <1>3, ChunkHere
<1>5. PICK b : /\ LineRead(b, "size")
               /\ TakeChunk(SizeRead(b), AfterSize(b)) /\ UNCHANGED <<length, coding>>
  BY LineIsRead DEF ChunkSize, LineIs
<1>6. PICK rest : rest = AfterSize(b)
  OBVIOUS
<1>7. SizeRead(b) = n /\ EndsAt(rest, pos') /\ pos' - Len(rest) = q
  BY <1>2, <1>3, <1>4, <1>5, <1>6, SizeHere
<1>8. rest \in Seq(Symbol) /\ Len(rest) \in Nat /\ pos' \in 0..Len(input)
  BY <1>5, <1>7 DEF EndsAt, LineRead
<1>9. PICK need \in Int : need = n - Len(rest)
  BY <1>8
<1>10. TakeChunk(n, rest)
  BY <1>5, <1>6, <1>7
<1>11. /\ ops' = <<>> \o ChunkOps(n, need)
       /\ UNCHANGED <<input, attached, reports, bodies, stopped, thrown>>
  <2>1. AtSize
    BY <1>5, FrontTells DEF LineRead
  <2>2. Queue(ChunkOps(n, need))
    BY <1>9, <1>10 DEF TakeChunk
  <2>3. Tail(<<Op("size")>>) = <<>>
    OBVIOUS
  <2> QED
    BY <2>1, <2>2, <2>3 DEF Queue, Pop, AtSize
<1>12. CASE need > 0
  <2>1. buf' = rest /\ body' = body
    BY <1>9, <1>10, <1>12 DEF TakeChunk
  <2>2. n > 0
    BY ONLY <1>3, <1>8, <1>9, <1>12
  <2>3. ops' = <<DataOp(n, need), EndOp(n), Op("size")>>
    <3>1. ChunkOps(n, need) = <<DataOp(n, need)>> \o <<EndOp(n)>> \o <<Op("size")>>
      BY <1>12, <2>2 DEF ChunkOps, DataOp, EndOp
    <3> QED
      BY <1>11, <3>1, ChunkQueued
  <2>4. Doing("data")' /\ Head(ops').chunk = n
    BY <2>3 DEF Doing, DataOp
  <2>5. Here' = q + 1 /\ Here' - 1 = q
    BY <1>2, <1>7, <2>1 DEF Here
  <2>6. ChunksLeft(p, q)'
    BY <1>1, <1>2, <1>11, <2>1 DEF ChunksLeft, IsChunked, LengthsAt, CodingsAt, ChunksAt, Blank
  <2>7. InChunk(p)'
    <3>1. (Here - 1)' = q
      BY <2>5
    <3>2. q \in FullChunks(input', MaxChunk) /\ input'[q].n = Head(ops').chunk
      BY <1>3, <1>4, <1>11, <2>2, <2>4
    <3>3. ChunksLeft(p, Here - 1)'
      BY <2>6, <3>1 DEF ChunksLeft
    <3> QED
      BY <3>1, <3>2, <3>3 DEF InChunk
  <2> QED
    BY <1>1, <1>11, <2>4, <2>7 DEF Advance, OnTrack
<1>13. CASE ~(need > 0)
  <2>0. n \in 0..Len(rest)
    BY ONLY <1>3, <1>8, <1>9, <1>13
  <2>1. buf' = SubSeq(rest, n + 1, Len(rest)) /\ body' = body \o SubSeq(rest, 1, n)
    BY <1>9, <1>10, <1>13 DEF TakeChunk
  <2>2. Len(buf') = Len(rest) - n
    BY <1>7, <1>8, <2>0, <2>1, Cut DEF IInv
  <2>3. Here' = q + n + 1
    <3>1. PICK l \in Nat, e \in Nat : l = Len(rest) /\ e = pos'
      BY <1>8
    <3>2. e - l = q
      BY <1>7, <3>1
    <3>3. Len(buf') = l - n
      BY <2>2, <3>1
    <3>4. e - (l - n) + 1 = q + n + 1
      BY ONLY <1>2, <1>3, <3>1, <3>2
    <3>5. Here' = pos' - Len(buf') + 1
      BY DEF Here
    <3> QED
      BY <3>1, <3>3, <3>4, <3>5
  <2>4. body' = body \o SubSeq(input, q + 1, q + n)
    <3>1. SubSeq(rest, 1, n) = SubSeq(input, pos' - Len(rest) + 1, pos' - Len(rest) + n)
      BY <1>7, <1>8, <2>0, PieceIs DEF IInv
    <3> QED
      BY <1>7, <2>1, <3>1
  <2>5. q + n + 1 \in 1..Len(input)
    BY ONLY <1>2, <1>3, <1>4
  <2>6. Here' \in 1..Len(input') /\ input'[Here'].is = "blank"
    BY <1>4, <1>11, <2>3, <2>5
  <2>7. IsChunked(p)'
    BY <1>1, <1>11 DEF ChunksLeft, IsChunked, LengthsAt, CodingsAt
  <2>8. ChunksAt(input, MaxChunk, p)' = ChunksAt(input, MaxChunk, p)
    BY <1>11 DEF ChunksAt, Blank
  <2>9. CASE n = 0
    <3>1. ops' = <<EndOp(0)>>
      <4>1. ChunkOps(n, need) = <<>> \o <<EndOp(0)>> \o <<>>
        BY <1>13, <2>9 DEF ChunkOps, EndOp
      <4> QED
        BY <1>11, <4>1, ChunkQueued
    <3>2. Doing("end")' /\ Head(ops').chunk = 0
      BY <3>1 DEF Doing, EndOp
    <3>3. body' = body
      <4>1. SubSeq(rest, 1, n) = <<>>
        BY <2>9, SubSeqEmpty
      <4> QED
        BY <1>4, <2>1, <4>1, ConcatEmptySeq
    <3>4. (Here - 1)' = q
      BY <2>3, <2>9
    <3>5. AfterChunk(p)'
      <4>1. /\ (ChunksAt(input, MaxChunk, p)').end = (Here - 1)'
            /\ (ChunksAt(input, MaxChunk, p)').out = body'
        BY <1>4, <2>8, <2>9, <3>3, <3>4
      <4>2. ~(Head(ops').chunk > 0)
        BY <3>2
      <4> QED
        BY <2>6, <2>7, <4>1, <4>2 DEF AfterChunk
    <3> QED
      BY <1>1, <1>11, <3>2, <3>5 DEF Advance, OnTrack
  <2>10. CASE n > 0
    <3>1. ops' = <<EndOp(n), Op("size")>>
      <4>1. ChunkOps(n, need) = <<>> \o <<EndOp(n)>> \o <<Op("size")>>
        BY <1>13, <2>10 DEF ChunkOps, EndOp
      <4> QED
        BY <1>11, <4>1, ChunkQueued
    <3>2. Doing("end")' /\ Head(ops').chunk = n
      BY <3>1 DEF Doing, EndOp
    <3>3. PICK r : r = q + n + 2 /\ r = (Here + 1)'
      <4>1. q + n + 2 = (q + n + 1) + 1
        BY ONLY <1>2, <1>3
      <4> QED
        BY <2>3, <4>1
    <3>4. /\ ChunksAt(input, MaxChunk, p).end = Chunks(input, MaxChunk, r).end
          /\ ChunksAt(input, MaxChunk, p).out = body' \o Chunks(input, MaxChunk, r).out
      <4>1. body' = body \o SubSeq(input, q + 1, q + input[q].n)
        BY <1>3, <2>4
      <4>2. r = q + input[q].n + 2
        BY <1>3, <3>3
      <4>3. ChunksLeft(p, q) /\ q \in FullChunks(input, MaxChunk)
        BY <1>1, <1>2, <1>4, <2>10
      <4>4. ChunkOff(p, body \o SubSeq(input, q + 1, q + input[q].n), q + input[q].n + 2)
        BY ONLY IInv, <1>1, <4>3, ChunkTaken
      <4> QED
        BY ONLY <4>1, <4>2, <4>4 DEF ChunkOff
    <3>5. ChunksLeft(p, Here + 1)'
      <4>1. Chunks(input, MaxChunk, Here + 1)' = Chunks(input, MaxChunk, r)
        BY <1>11, <3>3
      <4> QED
        BY <2>7, <2>8, <3>4, <4>1 DEF ChunksLeft
    <3>6. AfterChunk(p)'
      BY <2>6, <2>10, <3>2, <3>5 DEF AfterChunk
    <3> QED
      BY <1>1, <1>11, <3>2, <3>6 DEF Advance, OnTrack
  <2> QED
    BY <2>0, <2>9, <2>10
<1> QED
  BY <1>12, <1>13

LEMMA SizeOn ==
  ASSUME IInv, NEW p, OnTrack(p), Doing("size"), Next
  PROVE  Advance(p)
<1>1. ChunkTooLarge \/ ChunkSize \/ DetachedLine("size") \/ SizeFails
  BY OnlyFront
<1>2. /\ p \in Messages(input, MaxChunk) /\ ChunksLeft(p, Here)
      /\ ~stopped /\ ~thrown /\ attached
  BY DEF OnTrack, Doing
<1>3. Here \in Nat
  BY HereIsNat
<1>4. /\ Here \in 1..Len(input) /\ input[Here].is = "size" /\ input[Here].n \in 0..MaxChunk
      /\ MaxChunk \in Nat
  BY <1>2, <1>3, ChunkHere
<1>5. ~ChunkTooLarge
  <2> SUFFICES ASSUME ChunkTooLarge PROVE FALSE
    OBVIOUS
  <2>1. PICK b : LineRead(b, "size") /\ SizeRead(b) > MaxChunk
    BY LineIsRead DEF ChunkTooLarge, LineIs
  <2>2. SizeRead(b) = input[Here].n
    BY <1>4, <2>1, SizeHere
  <2> QED
    BY <1>4, <2>1, <2>2
<1>6. ~SizeFails
  BY <1>2, <1>4, NewlineComes DEF SizeFails
<1>7. ~DetachedLine("size")
  BY <1>2 DEF DetachedLine, LineIs
<1> QED
  BY <1>1, <1>5, <1>6, <1>7, ChunkSizeOn

LEMMA DataOn ==
  ASSUME IInv, NEW p, OnTrack(p), Doing("data"), Next
  PROVE  Advance(p)
<1>1. Front("data") /\ (ChunkData \/ DataFails)
  BY OnlyFront
<1>2. AtData
  BY <1>1, FrontTells
<1>3. /\ p \in Messages(input, MaxChunk) /\ InChunk(p) /\ ~stopped /\ ~thrown /\ attached
  BY DEF OnTrack, Doing
<1>4. PICK n \in 1..MaxChunk :
        n > Len(buf) /\ ops = <<DataOp(n, n - Len(buf)), EndOp(n), Op("size")>>
  BY <1>2 DEF AtData
<1>5. pos \in Nat /\ Len(buf) \in Nat /\ n \in Nat /\ Len(buf) <= pos
  BY <1>4, ParserAssumption DEF IInv, Buffered, EndsAt
<1>6. PICK q, m : q = pos - Len(buf) /\ m = n - Len(buf)
  OBVIOUS
<1>7. /\ q \in Nat /\ m \in Nat /\ Here - 1 = q /\ pos + m = q + n
  BY ONLY <1>4, <1>5, <1>6 DEF Here
<1>8. Head(ops).need = m /\ Head(ops).chunk = n
  BY <1>4, <1>6 DEF DataOp
<1>9. q \in FullChunks(input, MaxChunk) /\ input[q].n = n /\ ChunksLeft(p, q)
  BY <1>3, <1>7, <1>8 DEF InChunk
<1>10. /\ input \in Seq(Symbol) /\ Len(input) \in Nat
       /\ q + n < Len(input) /\ input[q + n + 1].is = "blank"
  BY <1>3, <1>7, <1>9, ChunkHere
<1>11. ~DataFails
  <2>1. ~(pos + m > Len(input))
    BY <1>5, <1>7, <1>10
  <2> QED
    BY <1>3, <1>8, <2>1 DEF DataFails, ReadFails
<1>12. /\ pos' = pos + m
       /\ body' = body \o SubSeq(buf \o More(m), 1, n)
       /\ buf' = SubSeq(buf \o More(m), n + 1, Len(buf \o More(m)))
       /\ Queue(<<>>) /\ UNCHANGED <<length, coding>>
  BY <1>1, <1>8, <1>11 DEF ChunkData, BytesAre
<1>13. PICK b : b = buf \o More(m) /\ EndsAt(b, pos') /\ Len(b) = n /\ pos' \in 0..Len(input)
  <2>1. m \in 0..Len(input) - pos
    BY <1>5, <1>7, <1>10
  <2>2. EndsAt(buf \o More(m), pos + m) /\ Len(buf \o More(m)) = Len(buf) + m
        /\ pos + m \in 0..Len(input)
    BY <2>1, Ahead DEF IInv
  <2>3. Len(buf) + m = n
    BY ONLY <1>5, <1>6
  <2> QED
    BY <1>12, <2>2, <2>3
<1>14. body' = body \o SubSeq(input, q + 1, q + n)
  <2>1. SubSeq(b, 1, n) = SubSeq(input, pos' - Len(b) + 1, pos' - Len(b) + n)
    <3>1. n \in 0..Len(b)
      BY <1>5, <1>13
    <3> QED
      BY <1>13, <3>1, PieceIs DEF IInv
  <2>2. pos' - Len(b) = q
    <3>1. (q + n) - n = q
      BY <1>5, <1>7
    <3> QED
      BY ONLY <1>7, <1>12, <1>13, <3>1
  <2> QED
    BY <1>12, <1>13, <2>1, <2>2
<1>15. buf' = <<>>
  <2>1. n + 1 \in Int /\ n \in Int /\ n < n + 1
    BY <1>5
  <2> QED
    BY <1>12, <1>13, <2>1, SubSeqEmpty
<1>16. Here' = q + n + 1
  <2>1. Len(buf') = 0
    BY <1>15
  <2>2. (q + n) - 0 + 1 = q + n + 1
    BY <1>5, <1>7
  <2> QED
    BY <1>7, <1>12, <2>1, <2>2 DEF Here
<1>17. UNCHANGED <<input, attached, reports, bodies, stopped, thrown>>
  BY <1>12 DEF Queue
<1>18. ops' = <<EndOp(n), Op("size")>>
  BY <1>4, <1>12, Queued DEF Queue, Pop
<1>19. Doing("end")' /\ Head(ops').chunk = n /\ n > 0
  BY <1>4, <1>18, ParserAssumption DEF Doing, EndOp
<1>20. PICK r : r = q + n + 2 /\ r = (Here + 1)'
  <2>1. q + n + 2 = (q + n + 1) + 1
    BY ONLY <1>5, <1>7
  <2> QED
    BY <1>16, <2>1
<1>21. ChunksLeft(p, Here + 1)'
  <2>1. body' = body \o SubSeq(input, q + 1, q + input[q].n) /\ r = q + input[q].n + 2
    BY <1>9, <1>14, <1>20
  <2>2. /\ ChunksAt(input, MaxChunk, p).end = Chunks(input, MaxChunk, r).end
        /\ ChunksAt(input, MaxChunk, p).out = body' \o Chunks(input, MaxChunk, r).out
    <3>1. ChunkOff(p, body \o SubSeq(input, q + 1, q + input[q].n), q + input[q].n + 2)
      BY ONLY IInv, <1>3, <1>9, ChunkTaken
    <3> QED
      BY ONLY <2>1, <3>1 DEF ChunkOff
  <2>3. Chunks(input, MaxChunk, Here + 1)' = Chunks(input, MaxChunk, r)
    BY <1>17, <1>20
  <2>4. IsChunked(p)'
    BY <1>9, <1>17 DEF ChunksLeft, IsChunked, LengthsAt, CodingsAt
  <2>5. ChunksAt(input, MaxChunk, p)' = ChunksAt(input, MaxChunk, p)
    BY <1>17 DEF ChunksAt, Blank
  <2> QED
    BY <2>2, <2>3, <2>4, <2>5 DEF ChunksLeft
<1>22. Here' \in 1..Len(input') /\ input'[Here'].is = "blank"
  <2>1. q + n + 1 \in 1..Len(input)
    BY ONLY <1>5, <1>7, <1>10
  <2> QED
    BY <1>10, <1>16, <1>17, <2>1
<1>23. AfterChunk(p)'
  <2>1. Head(ops').chunk # 0
    BY <1>5, <1>19
  <2> QED
    BY <1>21, <1>22, <2>1 DEF AfterChunk
<1> QED
  BY <1>3, <1>17, <1>19, <1>23 DEF Advance, OnTrack

LEMMA EndOn ==
  ASSUME IInv, NEW p, OnTrack(p), Doing("end"), Next
  PROVE  Advance(p) \/ Deliver(p)
<1>1. /\ Front("end")
      /\ ChunkEnd \/ LastChunkEnd \/ DetachedLine("end") \/ EndFails \/ LastEndFails
  BY OnlyFront
<1>2. /\ p \in Messages(input, MaxChunk) /\ AfterChunk(p) /\ ~stopped /\ ~thrown /\ attached
  BY DEF OnTrack, Doing
<1>3. /\ Here \in 1..Len(input) /\ input[Here].is = "blank" /\ Here \in Nat
      /\ input \in Seq(Symbol) /\ MaxChunk \in Nat
  BY <1>2, ParserAssumption DEF AfterChunk, IInv, Buffered
<1>4. ~EndFails /\ ~LastEndFails
  BY <1>2, <1>3, NewlineComes DEF EndFails, LastEndFails
<1>5. ~DetachedLine("end")
  BY <1>2 DEF DetachedLine, LineIs
<1>6. CASE ChunkEnd
  <2>1. PICK b : /\ LineRead(b, "end") /\ Head(ops).chunk > 0
                 /\ buf' = AfterLine(b) /\ Queue(<<>>)
                 /\ UNCHANGED <<length, coding, body>>
    BY <1>6, LineIsRead DEF ChunkEnd, LineIs
  <2>2. pos' - Len(buf') = Here
    BY <1>3, <2>1, LineHere
  <2>3. Here' = Here + 1
    BY <2>2 DEF Here
  <2>4. UNCHANGED <<input, attached, reports, bodies, stopped, thrown>>
    BY <2>1 DEF Queue
  <2>5. AtEnd
    BY <1>1, <2>1, FrontTells DEF AtLastEnd, EndOp
  <2>6. ops' = <<Op("size")>>
    BY <2>1, <2>5, Queued DEF AtEnd, Queue, Pop
  <2>7. Doing("size")'
    BY <2>6 DEF Doing, Op
  <2>8. ChunksLeft(p, Here + 1)
    BY <1>2, <2>1 DEF AfterChunk
  <2>9. ChunksLeft(p, Here)'
    <3>1. PICK r : r = Here + 1 /\ r = Here'
      BY <2>3
    <3>2. ChunksLeft(p, r)'
      BY <2>1, <2>4, <2>8, <3>1 DEF ChunksLeft, IsChunked, LengthsAt, CodingsAt, ChunksAt, Blank
    <3> QED
      BY <3>1, <3>2 DEF ChunksLeft
  <2> QED
    BY <1>2, <2>4, <2>7, <2>9 DEF Advance, OnTrack
<1>7. CASE LastChunkEnd
  <2>1. PICK b : /\ LineRead(b, "end") /\ Head(ops).chunk = 0
                 /\ buf' = AfterLine(b) /\ Succeed(body)
    BY <1>7, LineIsRead DEF LastChunkEnd, LineIs
  <2>2. pos' - Len(buf') = Here
    BY <1>3, <2>1, LineHere
  <2>3. PICK K : K = ChunksAt(input, MaxChunk, p) /\ K.end = Here - 1 /\ K.out = body
    BY <1>2, <2>1 DEF AfterChunk
  <2>4. Message(input, MaxChunk, p) = WellFormed(K.out, K.end + 2)
    BY <1>2, <1>3, <2>1, <2>3, MessageParts DEF AfterChunk, IsChunked
  <2>5. /\ Message(input, MaxChunk, p).body = K.out
        /\ Message(input, MaxChunk, p).next = K.end + 2
    BY ONLY <2>4, WellFormedIs
  <2>6. (Here - 1) + 2 = Here + 1
    BY <1>3
  <2>7. AtLastEnd
    BY <1>1, <2>1, FrontTells DEF AtEnd, EndOp
  <2>8. \E e : ops = <<e>>
    BY <2>7 DEF AtLastEnd
  <2> QED
    BY <2>1, <2>2, <2>3, <2>5, <2>6, <2>8, SucceedOn
<1> QED
  BY <1>1, <1>4, <1>5, <1>6, <1>7

LEMMA TrackStep ==
  ASSUME IInv, LengthsFit, NEW p, OnTrack(p), Next
  PROVE  Advance(p) \/ Deliver(p) \/ Overrun(p)
BY FirstOn, HeaderOn, BodyOn, SizeOn, DataOn, EndOn DEF OnTrack

-----------------------------------------------------------------------------
(* The inductive invariant of the framing: what was delivered is the         *)
(* beginning of what the reference finds; and the parse has failed, is over, *)
(* is past all of it, or stands in the message that comes next.              *)
Ref == Bodies(input, MaxChunk)
Left(p) == BodiesFrom(input, MaxChunk, p)

Agrees ==
  /\ bodies \in Seq(Seq(Symbol))
  /\ \A i \in 1..Len(bodies) : i <= Len(Ref) => bodies[i] = Ref[i]
Follows ==
  \/ Failed \/ Len(Ref) <= Len(bodies) \/ ops = <<>>
  \/ \E p \in Nat : OnTrack(p) /\ Ref = bodies \o Left(p)
Whole ==
  IsOneMessage(input, MaxChunk) =>
    /\ reports = <<>> => OnTrack(1)
    /\ reports # <<>> => reports[1] = "ok"

FInv == LengthsFit => Agrees /\ Follows /\ Whole

(* What any step does to the histories.                                      *)
Grown ==
  \/ bodies' = bodies /\ (reports' = reports \/ reports' = Append(reports, "null"))
  \/ /\ reports' = Append(reports, "ok")
     /\ \E bd \in Seq(Symbol) : bodies' = Append(bodies, bd)

LEMMA FailGrows == Fail => input' = input /\ Grown
BY DEF Fail, Grown

LEMMA QueueGrows == ASSUME NEW more, Queue(more) PROVE input' = input /\ Grown
BY DEF Queue, Grown

LEMMA SucceedGrows == ASSUME NEW bd \in Seq(Symbol), Succeed(bd) PROVE input' = input /\ Grown
BY DEF Succeed, Grown

LEMMA Grows == ASSUME IInv, Next PROVE input' = input /\ Grown
<1>0. body \in Seq(Symbol) /\ Buffered
  BY DEF IInv, Held
<1>1. CASE FirstLine
  <2>1. CASE GoodFirstLine
    BY <2>1, QueueGrows DEF GoodFirstLine, LineIs
  <2>2. CASE BadFirstLine \/ FirstLineFails
    BY <2>2, FailGrows DEF BadFirstLine, FirstLineFails, LineIs
  <2>3. CASE FirstLineThrows
    BY <2>3 DEF FirstLineThrows, LineIs, Grown
  <2> QED
    BY <1>1, <2>1, <2>2, <2>3 DEF FirstLine
<1>2. CASE Header
  <2>1. CASE HeaderLine \/ StartChunks
    BY <2>1, QueueGrows DEF HeaderLine, StartChunks, LineIs
  <2>2. CASE HeaderFails \/ LengthNotANumber
    BY <2>2, FailGrows DEF HeaderFails, LengthNotANumber, LineIs
  <2>3. CASE NoBody
    BY <1>0, <2>3, SucceedGrows DEF NoBody, LineIs
  <2> QED
    BY <1>2, <2>1, <2>2, <2>3 DEF Header
<1>3. CASE Body
  <2>1. CASE TooMuchBuffered \/ BodyFails
    BY <2>1, FailGrows DEF TooMuchBuffered, BodyFails, LineIs, SizedBody
  <2>2. CASE AskForBody
    BY <2>2, QueueGrows DEF AskForBody, LineIs, SizedBody
  <2>3. CASE BodyBuffered
    <3>1. PICK b : LineRead(b, "header") /\ Succeed(body \o AfterLine(b))
      BY <2>3, LineIsRead DEF BodyBuffered, LineIs, SizedBody
    <3>2. AfterLine(b) \in Seq(Symbol)
      BY <1>0, <3>1, LineTaken DEF LineRead, EndsAt
    <3>3. body \o AfterLine(b) \in Seq(Symbol)
      BY <1>0, <3>2, ConcatProperties
    <3> QED
      BY <3>1, <3>3, SucceedGrows
  <2>4. CASE BodyRead
    <3>1. PICK m : /\ m = Head(ops).need /\ Front("body") /\ pos + m <= Len(input)
                   /\ Succeed(body \o (buf \o More(m)))
      BY <2>4 DEF BodyRead, BytesAre
    <3>2. m \in 1..IntMax
      BY <3>1, FrontTells DEF AtBody, BodyOp
    <3>3. m \in 0..Len(input) - pos
      BY <1>0, <3>1, <3>2, ParserAssumption DEF Buffered
    <3>4. buf \o More(m) \in Seq(Symbol)
      BY <1>0, <3>3, Ahead DEF EndsAt
    <3>5. body \o (buf \o More(m)) \in Seq(Symbol)
      BY <1>0, <3>4, ConcatProperties
    <3> QED
      BY <3>1, <3>5, SucceedGrows
  <2> QED
    BY <1>3, <2>1, <2>2, <2>3, <2>4 DEF Body
<1>4. CASE Chunk
  <2>1. CASE ChunkTooLarge \/ SizeFails \/ DataFails \/ EndFails
    BY <2>1, FailGrows DEF ChunkTooLarge, SizeFails, DataFails, EndFails, LineIs
  <2>2. CASE \/ ChunkSize \/ ChunkData \/ ChunkEnd \/ LastEndFails
             \/ DetachedLine("size") \/ DetachedLine("end")
    BY <2>2, QueueGrows DEF ChunkSize, ChunkData, ChunkEnd, LastEndFails, DetachedLine, LineIs,
         BytesAre, TakeChunk
  <2>3. CASE LastChunkEnd
    BY <1>0, <2>3, SucceedGrows DEF LastChunkEnd, LineIs
  <2> QED
    BY <1>4, <2>1, <2>2, <2>3 DEF Chunk
<1> QED
  BY <1>1, <1>2, <1>3, <1>4 DEF Next

(* A message starts in the stream.                                           *)
LEMMA MessageInStream ==
  ASSUME NEW s, NEW max, NEW i, Message(s, max, i).ok
  PROVE  i \in Messages(s, max)
<1>1. i \notin 1..Len(s) => Message(s, max, i) = Malformed
  BY DEF Message
<1>2. ~Malformed.ok
  BY DEF Malformed
<1> QED
  BY <1>1, <1>2 DEF Messages

(* At the start of a message the parse stands in it; where there is none,    *)
(* the reference finds no more.                                              *)
LEMMA AtStart ==
  ASSUME IInv, NEW p \in Nat, AtFirst, Here = p, ~stopped, ~thrown
  PROVE  IF p \in Messages(input, MaxChunk) THEN OnTrack(p) ELSE Left(p) = <<>>
<1>1. Doing("first") /\ attached
  BY DEF AtFirst, Doing, Op
<1>2. input \in Seq(Symbol) /\ MaxChunk \in Nat
  BY ParserAssumption DEF IInv, Buffered
<1>3. p \notin Messages(input, MaxChunk) => Left(p) = <<>>
  BY <1>2, BodiesSteps DEF Left
<1>4. p \in Messages(input, MaxChunk) => OnTrack(p)
  BY <1>1 DEF OnTrack
<1> QED
  BY <1>3, <1>4

(* The whole of a stream, in front of what was delivered and what is left.   *)
LEMMA RefTypes ==
  ASSUME IInv
  PROVE  /\ Ref \in Seq(Seq(Symbol)) /\ Ref = Left(1)
         /\ \A p \in Nat : Left(p) \in Seq(Seq(Symbol))
<1>1. input \in Seq(Symbol) /\ MaxChunk \in Nat
  BY ParserAssumption DEF IInv, Buffered
<1> QED
  BY <1>1, BodiesSteps DEF Ref, Left, Bodies

(* What is left when as much was delivered as the beginning of it.           *)
LEMMA Prefix ==
  ASSUME NEW S, NEW r, NEW s \in Seq(S), NEW t \in Seq(S), r = s \o t
  PROVE  /\ \A i \in 1..Len(s) : s[i] = r[i]
         /\ t = <<>> => Len(r) = Len(s)
<1>1. /\ Len(s) \in Nat /\ Len(t) \in Nat /\ Len(r) = Len(s) + Len(t)
      /\ \A i \in 1..Len(s) + Len(t) : r[i] = IF i <= Len(s) THEN s[i] ELSE t[i - Len(s)]
  BY ConcatProperties
<1>2. \A i \in 1..Len(s) : i \in 1..Len(s) + Len(t) /\ i <= Len(s)
  BY <1>1
<1>3. \A i \in 1..Len(s) : s[i] = r[i]
  BY <1>1, <1>2
<1>4. t = <<>> => Len(r) = Len(s)
  BY <1>1
<1> QED
  BY <1>3, <1>4

LEMMA FInvInit == Init => FInv
<1> SUFFICES ASSUME Init, LengthsFit PROVE Agrees /\ Follows /\ Whole
  BY DEF FInv
<1>1. IInv
  BY IInvInit
<1>2. AtFirst /\ ~stopped /\ ~thrown /\ bodies = <<>> /\ reports = <<>>
  BY DEF Init, AtFirst
<1>3. Here = 1
  <2>1. pos = 0 /\ Len(buf) = 0
    BY DEF Init
  <2> QED
    BY <2>1 DEF Here
<1>4. IF 1 \in Messages(input, MaxChunk) THEN OnTrack(1) ELSE Left(1) = <<>>
  BY <1>1, <1>2, <1>3, AtStart
<1>5. Ref \in Seq(Seq(Symbol)) /\ Ref = Left(1) /\ Left(1) \in Seq(Seq(Symbol))
  BY <1>1, RefTypes
<1>6. Agrees
  BY <1>2, EmptySeq DEF Agrees
<1>7. Follows
  <2>1. CASE 1 \in Messages(input, MaxChunk)
    <3>1. bodies \o Left(1) = Ref
      BY <1>2, <1>5, ConcatEmptySeq
    <3> QED
      BY <1>4, <2>1, <3>1 DEF Follows
  <2>2. CASE 1 \notin Messages(input, MaxChunk)
    BY <1>2, <1>4, <1>5, <2>2 DEF Follows
  <2> QED
    BY <2>1, <2>2
<1>8. Whole
  BY <1>2, <1>4, MessageInStream DEF Whole, IsOneMessage
<1> QED
  BY <1>6, <1>7, <1>8

(* A failure stays, and nothing is delivered behind it.                      *)
LEMMA StaysFailed ==
  ASSUME IInv, IInv', Grown, Failed
  PROVE  Failed' /\ bodies' = bodies
<1>1. PICK s \in Seq({"ok", "null"}) : s = reports
  BY DEF IInv, History
<1>2. s # <<>> /\ s[Len(s)] = "null"
  BY <1>1 DEF Failed
<1>3. Len(s) \in 1..Len(s) /\ Len(s) \in Nat
  BY ONLY <1>1, <1>2
<1>4. CASE bodies' = bodies /\ reports' = reports
  BY <1>4 DEF Failed
<1>5. CASE bodies' = bodies /\ reports' = Append(reports, "null")
  <2>1. /\ Append(s, "null") # <<>> /\ Len(Append(s, "null")) = Len(s) + 1
        /\ Append(s, "null")[Len(s) + 1] = "null"
    BY AppendProperties
  <2> QED
    BY <1>1, <1>5, <2>1 DEF Failed
<1>6. CASE reports' = Append(reports, "ok")
  <2>1. /\ Len(Append(s, "ok")) = Len(s) + 1
        /\ Append(s, "ok")[Len(s) + 1] = "ok" /\ Append(s, "ok")[Len(s)] = s[Len(s)]
    BY <1>3, AppendProperties
  <2>2. Len(s) \in 1..Len(s) + 1 /\ Len(s) + 1 \in 1..Len(s) + 1 /\ Len(s) < Len(s) + 1
    BY <1>3
  <2>3. reports'[Len(s) + 1] = "null"
    BY <1>1, <1>2, <1>6, <2>1, <2>2 DEF IInv, History
  <2> QED
    BY <1>1, <1>6, <2>1, <2>3
<1> QED
  BY <1>4, <1>5, <1>6 DEF Grown

(* A delivery keeps what was delivered.                                      *)
LEMMA StillAgrees ==
  ASSUME Agrees, Grown, Ref' = Ref, Ref \in Seq(Seq(Symbol)),
         bodies' = bodies \/ Len(Ref) <= Len(bodies)
  PROVE  Agrees' /\ (Len(Ref) <= Len(bodies) => (Len(Ref) <= Len(bodies))')
<1>1. CASE bodies' = bodies
  BY <1>1 DEF Agrees
<1>2. CASE Len(Ref) <= Len(bodies) /\ \E bd \in Seq(Symbol) : bodies' = Append(bodies, bd)
  <2>1. PICK bd \in Seq(Symbol), s \in Seq(Seq(Symbol)) : s = bodies /\ bodies' = Append(s, bd)
    BY <1>2 DEF Agrees
  <2>2. /\ Append(s, bd) \in Seq(Seq(Symbol)) /\ Len(Append(s, bd)) = Len(s) + 1
        /\ \A i \in 1..Len(s) : Append(s, bd)[i] = s[i]
    BY AppendProperties
  <2>3. Len(Ref) \in Nat /\ Len(s) \in Nat
    BY ONLY Ref \in Seq(Seq(Symbol)), <2>1
  <2>4. Len(Ref) <= Len(s) + 1 /\ \A i \in 1..Len(s) + 1 : i <= Len(Ref) => i \in 1..Len(s)
    BY <1>2, <2>1, <2>3
  <2>5. \A i \in 1..Len(s) : i <= Len(Ref) => s[i] = Ref[i]
    BY <2>1 DEF Agrees
  <2> QED
    BY <2>1, <2>2, <2>4, <2>5 DEF Agrees
<1> QED
  BY <1>1, <1>2 DEF Grown

LEMMA WholeStep ==
  ASSUME IInv, LengthsFit, Next, Grown, input' = input, Whole
  PROVE  Whole'
<1> SUFFICES ASSUME IsOneMessage(input, MaxChunk)
             PROVE  /\ reports' = <<>> => OnTrack(1)'
                    /\ reports' # <<>> => reports'[1] = "ok"
  BY DEF Whole
<1>1. PICK s \in Seq({"ok", "null"}) : s = reports
  BY DEF IInv, History
<1>2. CASE reports # <<>>
  <2>1. reports[1] = "ok" /\ 1 \in 1..Len(s)
    BY <1>1, <1>2 DEF Whole
  <2>2. \A r \in {"ok", "null"} : Append(s, r)[1] = s[1] /\ Append(s, r) # <<>>
    BY <2>1, AppendProperties
  <2> QED
    BY <1>1, <1>2, <2>1, <2>2 DEF Grown
<1>3. CASE reports = <<>>
  <2>1. OnTrack(1)
    BY <1>3 DEF Whole
  <2>2. Advance(1) \/ Deliver(1) \/ Overrun(1)
    BY <2>1, TrackStep
  <2>3. ~Overrun(1)
    <3>1. Len(input) \in Nat
      BY DEF IInv, Buffered
    <3>2. Message(input, MaxChunk, 1).next = Len(input) + 1
      BY DEF IsOneMessage
    <3> QED
      BY <3>1, <3>2 DEF Overrun
  <2>4. CASE Advance(1)
    BY <1>3, <2>4 DEF Advance
  <2>5. CASE Deliver(1)
    BY <1>3, <2>5 DEF Deliver
  <2> QED
    BY <2>2, <2>3, <2>4, <2>5
<1> QED
  BY <1>2, <1>3

LEMMA DeliverStep ==
  ASSUME IInv, IInv', Agrees, NEW p \in Nat, OnTrack(p), Ref = bodies \o Left(p), Deliver(p)
  PROVE  Agrees' /\ Follows'
<1>1. input \in Seq(Symbol) /\ MaxChunk \in Nat /\ input' = input
  BY ParserAssumption DEF IInv, Buffered, Deliver
<1>2. p \in Messages(input, MaxChunk) /\ ~stopped /\ ~thrown
  BY DEF OnTrack
<1>3. PICK m, n, bd : m = Message(input, MaxChunk, p) /\ n = m.next /\ bd = m.body
  OBVIOUS
<1>3a. n \in Nat /\ bd \in Seq(Symbol)
  BY <1>1, <1>2, <1>3, MessageTypes
<1>4. PICK s \in Seq(Seq(Symbol)), t \in Seq(Seq(Symbol)) : s = bodies /\ t = Left(n)
  BY <1>3a, RefTypes DEF Agrees
<1>5. Left(p) = <<bd>> \o t
  <2>1. BodiesFrom(input, MaxChunk, p) =
          <<Message(input, MaxChunk, p).body>>
            \o BodiesFrom(input, MaxChunk, Message(input, MaxChunk, p).next)
    BY <1>1, <1>2, BodiesSteps
  <2> QED
    BY ONLY <1>3, <1>4, <2>1 DEF Left
<1>6. bodies' = s \o <<bd>>
  <2>1. bodies' = Append(s, bd)
    BY <1>3, <1>4 DEF Deliver
  <2> QED
    BY <1>3a, <2>1, AppendIsConcat
<1>7. s \o <<bd>> \in Seq(Seq(Symbol)) /\ Ref = (s \o <<bd>>) \o t
  <2>1. <<bd>> \in Seq(Seq(Symbol))
    BY <1>3a
  <2>2. (s \o <<bd>>) \o t = s \o (<<bd>> \o t)
    BY <2>1, ConcatAssociative
  <2>3. s \o <<bd>> \in Seq(Seq(Symbol))
    BY <2>1, ConcatProperties
  <2> QED
    BY <1>4, <1>5, <2>2, <2>3
<1>8. PICK u \in Seq(Seq(Symbol)) : u = bodies' /\ Ref = u \o t
  BY <1>6, <1>7
<1>9. Ref' = Ref /\ Left(n)' = Left(n)
  BY <1>1 DEF Ref, Left
<1>10. (\A i \in 1..Len(u) : u[i] = Ref[i]) /\ (t = <<>> => Len(Ref) = Len(u))
  BY <1>8, Prefix
<1>11. Agrees'
  BY <1>8, <1>9, <1>10 DEF Agrees
<1>12. Follows'
  <2>1. CASE ops' = <<>>
    BY <2>1 DEF Follows
  <2>2. CASE AtFirst' /\ Here' = n
    <3>1. OnTrack(n)' \/ Left(n)' = <<>>
      <4>1. stopped' = stopped /\ thrown' = thrown
        BY DEF Deliver
      <4>2. Doing("first")' /\ attached'
        BY <2>2 DEF AtFirst, Doing, Op
      <4>3. CASE n \in Messages(input, MaxChunk)
        BY <1>1, <1>2, <2>2, <4>1, <4>2, <4>3 DEF OnTrack
      <4>4. CASE n \notin Messages(input, MaxChunk)
        <5>1. Left(n) = <<>>
          BY <1>1, <1>3a, <4>4, BodiesSteps DEF Left
        <5> QED
          BY <1>9, <5>1
      <4> QED
        BY <4>3, <4>4
    <3>2. CASE OnTrack(n)'
      BY <1>3a, <1>4, <1>8, <1>9, <3>2 DEF Follows
    <3>3. CASE Left(n)' = <<>>
      <4>1. Len(Ref) = Len(u) /\ Len(u) \in Nat
        BY <1>4, <1>9, <1>10, <3>3
      <4>2. (Len(Ref) <= Len(bodies))'
        BY <1>8, <1>9, <4>1
      <4> QED
        BY <4>2 DEF Follows
    <3> QED
      BY <3>1, <3>2, <3>3
  <2> QED
    BY <1>3, <2>1, <2>2 DEF Deliver
<1> QED
  BY <1>11, <1>12

(* The step of a parse that stands in the message that comes next.           *)
LEMMA TrackedStep ==
  ASSUME IInv, IInv', LengthsFit, Agrees, Next, input' = input, Grown,
         NEW p \in Nat, OnTrack(p), Ref = bodies \o Left(p)
  PROVE  Agrees' /\ Follows'
<1>1. Ref' = Ref /\ Left(p)' = Left(p) /\ Ref \in Seq(Seq(Symbol))
  BY RefTypes DEF Ref, Left
<1>2. Advance(p) \/ Deliver(p) \/ Overrun(p)
  BY TrackStep
<1>3. CASE Advance(p)
  <2>1. OnTrack(p)' /\ bodies' = bodies
    BY <1>3 DEF Advance
  <2>2. Agrees'
    BY <1>1, <2>1, StillAgrees
  <2> QED
    BY <1>1, <2>1, <2>2 DEF Follows
<1>4. CASE Deliver(p)
  BY <1>4, DeliverStep
<1>5. CASE Overrun(p)
  <2>1. bodies' = bodies /\ ~attached' /\ told' /\ reports' = Append(reports, "null")
    BY <1>5 DEF Overrun, Fail
  <2>2. Failed'
    BY <2>1, NullReported DEF IInv
  <2>3. Agrees'
    BY <1>1, <2>1, StillAgrees
  <2> QED
    BY <2>2, <2>3 DEF Follows
<1> QED
  BY <1>2, <1>3, <1>4, <1>5

LEMMA FInvStutters == ASSUME FInv, UNCHANGED vars PROVE FInv'
<1>1. UNCHANGED <<input, pos, buf, ops, attached, length, coding, body,
                  reports, bodies, stopped, thrown>>
  BY DEF vars
<1>2. \A p : OnTrack(p)' <=> OnTrack(p)
  BY <1>1 DEF OnTrack, Doing, Here, InHead, InBody, ChunksLeft, InChunk, AfterChunk, IsChunked,
       Blank, LengthsAt, CodingsAt, ChunksAt, None, Sym
<1>3. Ref' = Ref /\ \A p : Left(p)' = Left(p)
  BY <1>1 DEF Ref, Left
<1>4. (LengthsFit' <=> LengthsFit) /\ (Failed' <=> Failed)
  BY <1>1 DEF LengthsFit, Failed
<1>5. Agrees => Agrees'
  BY <1>1, <1>3 DEF Agrees
<1>6. Follows => Follows'
  BY <1>1, <1>2, <1>3, <1>4 DEF Follows
<1>7. Whole => Whole'
  BY <1>1, <1>2 DEF Whole
<1> QED
  BY <1>4, <1>5, <1>6, <1>7 DEF FInv

LEMMA FInvStep == IInv /\ FInv /\ [Next]_vars => FInv'
<1> SUFFICES ASSUME IInv, FInv, Next PROVE FInv'
  BY FInvStutters
<1>1. IInv'
  BY IInvStep
<1>2. input' = input /\ Grown
  BY Grows
<1> SUFFICES ASSUME LengthsFit PROVE Agrees' /\ Follows' /\ Whole'
  BY <1>2 DEF FInv, LengthsFit
<1>3. Agrees /\ Follows /\ Whole
  BY DEF FInv
<1>4. Ref' = Ref /\ Ref \in Seq(Seq(Symbol))
  BY <1>2, RefTypes DEF Ref
<1>5. Whole'
  BY <1>2, <1>3, WholeStep
<1>6. Agrees' /\ Follows'
  <2>1. CASE Failed
    <3>1. Failed' /\ bodies' = bodies
      BY <1>1, <1>2, <2>1, StaysFailed
    <3>2. Agrees'
      BY <1>2, <1>3, <1>4, <3>1, StillAgrees
    <3> QED
      BY <3>1, <3>2 DEF Follows
  <2>2. CASE Len(Ref) <= Len(bodies)
    BY <1>2, <1>3, <1>4, <2>2, StillAgrees DEF Follows
  <2>3. CASE ops = <<>>
    BY <2>3, NotOver
  <2>4. ASSUME NEW p \in Nat, OnTrack(p), Ref = bodies \o Left(p)
        PROVE  Agrees' /\ Follows'
    BY <1>1, <1>2, <1>3, <2>4, TrackedStep
  <2> QED
    BY <1>3, <2>1, <2>2, <2>3, <2>4 DEF Follows
<1> QED
  BY <1>5, <1>6

LEMMA FramingHolds == Spec => []FInv
BY FInvInit, FInvStep, InvariantHolds, PTL DEF Spec

(* For any stream, any cut of it into reads and any limit on a chunk, every  *)
(* body the handler gets is the one the reference finds in the stream, as    *)
(* long as the reference finds any (no Content-Length may be followed by     *)
(* more of the stream than an int counts: parser.cc:173 would wrap).         *)
THEOREM BodiesAreFramed == Spec => []FramingMatchesReference
<1>1. FInv => FramingMatchesReference
  <2> SUFFICES ASSUME FInv, LengthsFit, NEW i \in 1..Len(bodies), i <= Len(Ref)
               PROVE  bodies[i] = Ref[i]
    BY DEF FramingMatchesReference, Ref
  <2> QED
    BY DEF FInv, Agrees
<1> QED
  BY <1>1, FramingHolds, PTL

(* A stream that is exactly one well-formed message is delivered when the    *)
(* parse comes to rest, however the stream was cut into reads.               *)
THEOREM WholeMessageDelivered == Spec => []WholeMessageIsDelivered
<1>1. FInv => WholeMessageIsDelivered
  <2> SUFFICES ASSUME FInv, LengthsFit, Idle, IsOneMessage(input, MaxChunk)
               PROVE  reports # <<>> /\ reports[1] = "ok"
    BY DEF WholeMessageIsDelivered
  <2>1. Whole
    BY DEF FInv
  <2>2. reports # <<>>
    BY <2>1 DEF Whole, OnTrack, Doing, Idle
  <2> QED
    BY <2>1, <2>2 DEF Whole
<1> QED
  BY <1>1, FramingHolds, PTL

-----------------------------------------------------------------------------
(* The writer.  What the reference reads does not change when more follows:  *)
(* a walk over the longer stream goes on where the one over the first part   *)
(* ended.                                                                    *)
LEMMA Downwards ==
  ASSUME NEW N \in Nat, NEW T,
         \A i \in Nat : i > N => i \in T,
         \A i \in 0..N : (\A j \in Nat : j > i => j \in T) => i \in T
  PROVE  \A i \in Nat : i \in T
<1> DEFINE Bad == {m \in 0..N : N - m \notin T}
<1>1. ASSUME NEW i \in Nat, i \notin T PROVE FALSE
  <2>1. i \in 0..N
    BY <1>1
  <2>2. PICK m0 \in Nat : m0 = N - i /\ m0 \in 0..N /\ N - m0 = i
    BY <2>1
  <2>3. m0 \in Bad /\ Bad \in SUBSET Nat
    BY <1>1, <2>2
  <2>4. PICK m \in Bad : \A y \in Bad : m <= y
    BY <2>3, LeastNumber
  <2>5. m \in 0..N /\ N - m \in 0..N /\ N - m \notin T
    BY <2>4
  <2>6. ASSUME NEW j \in Nat, j > N - m, j \notin T PROVE FALSE
    <3>1. j \in 0..N
      BY <2>6
    <3>2. PICK y \in Nat : y = N - j /\ y \in 0..N /\ N - y = j /\ y < m
      BY <2>5, <2>6, <3>1
    <3>3. y \in Bad
      BY <2>6, <3>2
    <3>4. m <= y
      BY <2>4, <3>3
    <3> QED
      BY <2>5, <3>2, <3>4
  <2> QED
    BY <2>5, <2>6
<1> QED
  BY <1>1

(* A symbol of the first part and of the second.                             *)
LEMMA Joined ==
  ASSUME NEW s \in Seq(Symbol), NEW t \in Seq(Symbol), NEW u, u = s \o t
  PROVE  /\ u \in Seq(Symbol) /\ Len(u) = Len(s) + Len(t)
         /\ Len(s) \in Nat /\ Len(t) \in Nat /\ Len(u) \in Nat
         /\ \A i \in 1..Len(s) : i \in 1..Len(u) /\ u[i] = s[i]
         /\ \A i \in 1..Len(t) : Len(s) + i \in 1..Len(u) /\ u[Len(s) + i] = t[i]
<1>1. /\ u \in Seq(Symbol) /\ Len(u) = Len(s) + Len(t) /\ Len(s) \in Nat /\ Len(t) \in Nat
      /\ \A i \in 1..Len(s) + Len(t) : u[i] = IF i <= Len(s) THEN s[i] ELSE t[i - Len(s)]
  BY ConcatProperties
<1>2. ASSUME NEW i \in 1..Len(s) PROVE i \in 1..Len(u) /\ u[i] = s[i]
  BY <1>1
<1>3. ASSUME NEW i \in 1..Len(t) PROVE Len(s) + i \in 1..Len(u) /\ u[Len(s) + i] = t[i]
  <2>1. /\ Len(s) + i \in 1..Len(s) + Len(t) /\ ~(Len(s) + i <= Len(s))
        /\ (Len(s) + i) - Len(s) = i
    BY <1>1
  <2> QED
    BY <1>1, <2>1
<1> QED
  BY <1>1, <1>2, <1>3

HeadersGoOn(s, t, field, i) ==
  /\ Headers(s \o t, field, i).end = Headers(s \o t, field, Headers(s, field, i).end).end
  /\ Headers(s \o t, field, i).out =
       Headers(s, field, i).out \o Headers(s \o t, field, Headers(s, field, i).end).out

LEMMA HeadersBehind ==
  ASSUME NEW s \in Seq(Symbol), NEW t \in Seq(Symbol), NEW field
  PROVE  \A i \in Nat : HeadersGoOn(s, t, field, i)
<1>u. PICK u : u = s \o t
  OBVIOUS
<1> DEFINE Good(i) ==
             /\ Headers(u, field, i).end = Headers(u, field, Headers(s, field, i).end).end
             /\ Headers(u, field, i).out =
                  Headers(s, field, i).out \o Headers(u, field, Headers(s, field, i).end).out
           T == {i \in Nat : Good(i)}
<1>0. \A i \in Nat : i \in T <=> Good(i)
  OBVIOUS
<1> HIDE DEF T
<1>1. u \in Seq(Symbol) /\ Len(s) \in Nat /\ \A i \in 1..Len(s) : i \in 1..Len(u) /\ u[i] = s[i]
  BY <1>u, Joined
<1>2. ASSUME NEW i \in Nat, i \notin HeaderLines(s) PROVE i \in T
  <2>1. Headers(s, field, i).end = i /\ Headers(s, field, i).out = <<>>
    BY <1>2, HeadersStop
  <2>2. Headers(u, field, i).out \in Seq(Nat)
    BY <1>1, HeadersTyped
  <2>3. <<>> \o Headers(u, field, i).out = Headers(u, field, i).out
    BY <2>2, ConcatEmptySeq
  <2> QED
    BY <1>0, <2>1, <2>3
<1>3. ASSUME NEW i \in Nat, i > Len(s) PROVE i \in T
  <2>1. i \notin HeaderLines(s)
    BY <1>1, <1>3 DEF HeaderLines
  <2> QED
    BY <1>2, <2>1
<1>4. ASSUME NEW i \in 0..Len(s), \A j \in Nat : j > i => j \in T PROVE i \in T
  <2>0. i \in Nat /\ i + 1 \in Nat /\ i + 1 > i
    OBVIOUS
  <2>1. CASE i \notin HeaderLines(s)
    BY <1>2, <2>0, <2>1
  <2>2. CASE i \in HeaderLines(s)
    <3>1. i + 1 \in T
      BY <1>4, <2>0
    <3>2. i \in HeaderLines(u) /\ u[i] = s[i]
      BY <1>1, <2>2 DEF HeaderLines
    <3>3. PICK e \in Nat, a \in Seq(Nat) :
            e = Headers(s, field, i + 1).end /\ a = Headers(s, field, i + 1).out
      BY <2>0, HeadersTyped
    <3>4. PICK b \in Seq(Nat) : b = Headers(u, field, e).out
      BY <1>1, HeadersTyped
    <3>5. /\ Headers(s, field, i).end = e
          /\ Headers(u, field, i).end = Headers(u, field, i + 1).end
      BY <1>1, <2>0, <2>2, <3>2, <3>3, HeadersNext
    <3>6. /\ Headers(u, field, i + 1).end = Headers(u, field, e).end
          /\ Headers(u, field, i + 1).out = a \o b
      BY <1>0, <2>0, <3>1, <3>3, <3>4
    <3>7. CASE s[i].is = field
      <4>1. PICK n \in Nat : n = s[i].n
        BY <2>2, SymbolAt DEF HeaderLines
      <4>2. Headers(s, field, i).out = <<n>> \o a
        BY <2>0, <2>2, <3>3, <3>7, <4>1, HeadersTake
      <4>5. Headers(u, field, i).out = <<n>> \o (a \o b)
        <5>1. u[i].is = field /\ u[i].n = n
          BY <3>2, <3>7, <4>1
        <5>2. Headers(u, field, i).out = <<u[i].n>> \o Headers(u, field, i + 1).out
          BY <1>1, <2>0, <3>2, <5>1, HeadersTake
        <5> QED
          BY <3>6, <5>1, <5>2
      <4>3. <<n>> \in Seq(Nat)
        OBVIOUS
      <4>4. (<<n>> \o a) \o b = <<n>> \o (a \o b)
        BY <4>3, ConcatAssociative
      <4> QED
        BY <1>0, <2>0, <3>4, <3>5, <3>6, <4>2, <4>4, <4>5
    <3>8. CASE s[i].is # field
      <4>1. Headers(s, field, i).out = a
        BY <2>0, <2>2, <3>3, <3>8, HeadersSkip
      <4>2. Headers(u, field, i).out = a \o b
        BY <1>1, <2>0, <3>2, <3>6, <3>8, HeadersSkip
      <4> QED
        BY <1>0, <2>0, <3>4, <3>5, <3>6, <4>1, <4>2
    <3> QED
      BY <3>7, <3>8
  <2> QED
    BY <2>1, <2>2
<1>5. \A i \in Nat : i \in T
  BY <1>1, <1>3, <1>4, Downwards
<1> QED
  BY <1>u, <1>0, <1>5 DEF HeadersGoOn


ChunksGoOn(s, t, max, i) ==
  /\ Chunks(s \o t, max, i).end = Chunks(s \o t, max, Chunks(s, max, i).end).end
  /\ Chunks(s \o t, max, i).out =
       Chunks(s, max, i).out \o Chunks(s \o t, max, Chunks(s, max, i).end).out

LEMMA ChunksBehind ==
  ASSUME NEW s \in Seq(Symbol), NEW t \in Seq(Symbol), NEW max \in Nat
  PROVE  \A i \in Nat : ChunksGoOn(s, t, max, i)
<1>u. PICK u : u = s \o t
  OBVIOUS
<1> DEFINE Good(i) ==
             /\ Chunks(u, max, i).end = Chunks(u, max, Chunks(s, max, i).end).end
             /\ Chunks(u, max, i).out =
                  Chunks(s, max, i).out \o Chunks(u, max, Chunks(s, max, i).end).out
           T == {i \in Nat : Good(i)}
<1>0. \A i \in Nat : i \in T <=> Good(i)
  OBVIOUS
<1> HIDE DEF T
<1>1. /\ u \in Seq(Symbol) /\ Len(s) \in Nat /\ Len(t) \in Nat /\ Len(u) = Len(s) + Len(t)
      /\ \A i \in 1..Len(s) : i \in 1..Len(u) /\ u[i] = s[i]
  BY <1>u, Joined
<1>2. ASSUME NEW i \in Nat, i \notin FullChunks(s, max) PROVE i \in T
  <2>1. Chunks(s, max, i).end = i /\ Chunks(s, max, i).out = <<>>
    BY <1>2, ChunksStop
  <2>2. Chunks(u, max, i).out \in Seq(Symbol)
    BY <1>1, ChunksTyped
  <2>3. <<>> \o Chunks(u, max, i).out = Chunks(u, max, i).out
    BY <2>2, ConcatEmptySeq
  <2> QED
    BY <1>0, <2>1, <2>3
<1>3. ASSUME NEW i \in Nat, i > Len(s) PROVE i \in T
  <2>1. i \notin FullChunks(s, max)
    BY <1>1, <1>3 DEF FullChunks
  <2> QED
    BY <1>2, <2>1
<1>4. ASSUME NEW i \in 0..Len(s), \A j \in Nat : j > i => j \in T PROVE i \in T
  <2>0. i \in Nat
    OBVIOUS
  <2>1. CASE i \notin FullChunks(s, max)
    BY <1>2, <2>0, <2>1
  <2>2. CASE i \in FullChunks(s, max)
    <3>1. /\ i \in 1..Len(s) /\ s[i].is = "size" /\ s[i].n <= max /\ s[i].n > 0
          /\ i + s[i].n < Len(s) /\ s[i + s[i].n + 1].is = "blank"
      BY <2>2 DEF FullChunks, IsChunk
    <3>2. PICK n \in Nat : n = s[i].n
      BY <3>1, SymbolAt
    <3>3. PICK q \in Nat : q = i + n + 1 /\ q \in 1..Len(s)
      BY <1>1, <2>0, <3>1, <3>2
    <3>4. PICK k \in Nat : k = i + n + 2 /\ k > i
      BY <2>0, <3>2
    <3>5. i \in 1..Len(u) /\ u[i] = s[i] /\ q \in 1..Len(u) /\ u[q] = s[q]
      BY <1>1, <3>1, <3>3
    <3>6. i \in FullChunks(u, max)
      <4>1. i + n < Len(u)
        BY ONLY <1>1, <2>0, <3>1, <3>2
      <4>2. u[i].is = "size" /\ u[i].n = n /\ n <= max /\ n > 0 /\ u[i + n + 1].is = "blank"
        BY <3>1, <3>2, <3>3, <3>5
      <4> QED
        BY <3>5, <4>1, <4>2 DEF FullChunks, IsChunk
    <3>7. PICK e \in Nat, a \in Seq(Symbol) : e = Chunks(s, max, k).end /\ a = Chunks(s, max, k).out
      BY ChunksTyped
    <3>8. PICK b \in Seq(Symbol) : b = Chunks(u, max, e).out
      BY <1>1, ChunksTyped
    <3>9. Chunks(u, max, k).end = Chunks(u, max, e).end /\ Chunks(u, max, k).out = a \o b
      BY <1>0, <1>4, <3>4, <3>7, <3>8
    <3>f. Len(s) \in Nat /\ i + n < Len(s) /\ n > 0
      BY ONLY <1>1, <3>1, <3>2
    <3>10. PICK d \in Seq(Symbol) : d = SubSeq(s, i + 1, i + n)
      <4>3. i + 1 \in Nat /\ i + n \in Nat /\ 1 <= i + 1 /\ i + n <= Len(s)
        BY ONLY <2>0, <3>f, n \in Nat
      <4>1. PICK f \in Nat, l \in Nat : f = i + 1 /\ l = i + n /\ 1 <= f /\ l <= Len(s)
        BY ONLY <4>3
      <4>2. SubSeq(s, f, l) \in Seq(Symbol)
        BY <4>1, SubSeqProperties
      <4> QED
        BY <4>1, <4>2
    <3>11. SubSeq(u, i + 1, i + n) = d
      <4>1. i + 1 \in 1..Len(s) /\ i + n \in 1..Len(s)
        BY ONLY <2>0, <3>f, n \in Nat
      <4> QED
        BY <1>u, <3>10, <4>1, SubSeqOfConcat1
    <3>12. Chunks(s, max, i).end = e /\ Chunks(s, max, i).out = d \o a
      <4>1. /\ Chunks(s, max, i).end = Chunks(s, max, k).end
            /\ Chunks(s, max, i).out = SubSeq(s, i + 1, i + n) \o Chunks(s, max, k).out
        <5>1. /\ Chunks(s, max, i).end = Chunks(s, max, i + s[i].n + 2).end
              /\ Chunks(s, max, i).out =
                   SubSeq(s, i + 1, i + s[i].n) \o Chunks(s, max, i + s[i].n + 2).out
          BY <2>0, <2>2, ChunksTake
        <5> QED
          BY ONLY <3>2, <3>4, <5>1
      <4> QED
        BY <3>7, <3>10, <4>1
    <3>13. Chunks(u, max, i).end = Chunks(u, max, e).end /\ Chunks(u, max, i).out = d \o (a \o b)
      <4>1. u[i].n = n /\ i + n + 2 = k
        BY <3>2, <3>4, <3>5
      <4>2. /\ Chunks(u, max, i).end = Chunks(u, max, k).end
            /\ Chunks(u, max, i).out = SubSeq(u, i + 1, i + n) \o Chunks(u, max, k).out
        <5>1. /\ Chunks(u, max, i).end = Chunks(u, max, i + u[i].n + 2).end
              /\ Chunks(u, max, i).out =
                   SubSeq(u, i + 1, i + u[i].n) \o Chunks(u, max, i + u[i].n + 2).out
          BY <1>1, <2>0, <3>6, ChunksTake
        <5> QED
          BY ONLY <4>1, <5>1
      <4> QED
        BY <3>9, <3>11, <4>2
    <3>14. (d \o a) \o b = d \o (a \o b)
      BY ConcatAssociative, Z3
    <3> QED
      BY <1>0, <2>0, <3>8, <3>12, <3>13, <3>14
  <2> QED
    BY <2>1, <2>2
<1>5. \A i \in Nat : i \in T
  BY <1>1, <1>3, <1>4, Downwards
<1> QED
  BY <1>u, <1>0, <1>5 DEF ChunksGoOn

-----------------------------------------------------------------------------
(* The inductive invariant of the writer.  A message that was flushed and    *)
(* whose framing is the library's reads as a head and chunks, as far as it   *)
(* was sent; what is still in the body belongs behind the last of them.      *)
HeadLine == [is : {"host", "length", "chunked"}, n : Nat]
WrittenByte == [is : {"byte"}, n : 1..MaxBody]
PageByte == [is : {"byte"}, n : Nat]

WriterTypes ==
  /\ kind \in {"request", "response"}
  /\ written \in Seq(PageByte) /\ unsent \in Seq(WrittenByte) /\ Len(unsent) <= Len(written)
  /\ headers \in Seq(HeadLine) /\ sent \in Seq(Symbol)
  /\ chunked \in BOOLEAN /\ started \in BOOLEAN /\ connected \in BOOLEAN
  /\ status \in Statuses /\ named \in BOOLEAN /\ alive \in BOOLEAN /\ calls \in 0..MaxCalls

HeadEndsAt(s, z) ==
  /\ z \in 1..Len(s) /\ s[z].is = "blank"
  /\ \A k \in {"length", "chunked"} : Headers(s, k, 2).end = z
OpenAt(s, z, out) ==
  /\ s[1].is = "request" /\ HeadEndsAt(s, z)
  /\ Headers(s, "length", 2).out = <<>> /\ Headers(s, "chunked", 2).out # <<>>
  /\ Chunks(s, MaxBody, z + 1).end = Len(s) + 1
  /\ Chunks(s, MaxBody, z + 1).out = out
Open(s, u, w) == \E z \in Nat, out \in Seq(Symbol) : OpenAt(s, z, out) /\ w = out \o u

BeingWritten ==
  /\ written \in Seq(WrittenByte) /\ Len(written) <= MaxBody /\ (started <=> chunked)
  /\ ~chunked => sent = <<>> /\ unsent = written
  /\ chunked /\ ~HasLength(headers) => Open(sent, unsent, written)

WriterInv == WriterTypes /\ (alive => BeingWritten) /\ RoundTrip

(* What the headers of a message are where they stand in it.                 *)
LEMMA LinesAreSymbols ==
  /\ \A h \in Seq(HeadLine) : h \in Seq(Symbol) /\ \A i \in 1..Len(h) : i \in HeaderLines(h)
  /\ \A b \in Seq(WrittenByte) : b \in Seq(PageByte)
  /\ \A b \in Seq(PageByte) : b \in Seq(Symbol)
<1>1. HeadLine \subseteq Symbol /\ PageByte \subseteq Symbol /\ WrittenByte \subseteq PageByte
  BY PackageAssumption DEF HeadLine, PageByte, WrittenByte, Symbol
<1>2. ASSUME NEW h \in Seq(HeadLine), NEW i \in 1..Len(h) PROVE i \in HeaderLines(h)
  <2>1. h[i] \in HeadLine
    BY ElementOfSeq
  <2> QED
    BY <2>1 DEF HeadLine, HeaderLines
<1> QED
  BY <1>1, <1>2

(* A line, what follows it, and another line.                                *)
LEMMA Framed ==
  ASSUME NEW a \in Symbol, NEW c \in Seq(Symbol), NEW e \in Symbol,
         NEW s, s = (<<a>> \o c) \o <<e>>
  PROVE  /\ s \in Seq(Symbol) /\ Len(c) \in Nat /\ Len(s) = Len(c) + 2
         /\ s[1] = a /\ s[Len(c) + 2] = e /\ 1 \in 1..Len(s) /\ Len(c) + 2 \in 1..Len(s)
         /\ \A i \in 1..Len(c) : i + 1 \in 1..Len(s) /\ s[i + 1] = c[i]
<1>1. <<a>> \in Seq(Symbol) /\ <<e>> \in Seq(Symbol) /\ Len(<<a>>) = 1 /\ Len(<<e>>) = 1
      /\ <<a>>[1] = a /\ <<e>>[1] = e /\ 1 \in 1..1
  OBVIOUS
<1>2. PICK d : d = <<a>> \o c
  OBVIOUS
<1>3. /\ d \in Seq(Symbol) /\ Len(d) = 1 + Len(c) /\ Len(c) \in Nat
      /\ \A i \in 1..1 : i \in 1..Len(d) /\ d[i] = <<a>>[i]
      /\ \A i \in 1..Len(c) : 1 + i \in 1..Len(d) /\ d[1 + i] = c[i]
  BY <1>1, <1>2, Joined
<1>4. s = d \o <<e>>
  BY <1>2
<1>5. /\ s \in Seq(Symbol) /\ Len(s) = Len(d) + 1
      /\ \A i \in 1..Len(d) : i \in 1..Len(s) /\ s[i] = d[i]
      /\ \A i \in 1..1 : Len(d) + i \in 1..Len(s) /\ s[Len(d) + i] = <<e>>[i]
  BY <1>1, <1>3, <1>4, Joined
<1>6. s[1] = a /\ 1 \in 1..Len(s)
  BY <1>1, <1>3, <1>5
<1>7. s[Len(d) + 1] = e /\ Len(d) + 1 \in 1..Len(s) /\ Len(d) + 1 = Len(c) + 2
      /\ Len(s) = Len(c) + 2
  BY <1>1, <1>3, <1>5
<1>8. ASSUME NEW i \in 1..Len(c) PROVE i + 1 \in 1..Len(s) /\ s[i + 1] = c[i]
  <2>1. 1 + i = i + 1
    BY <1>3
  <2> QED
    BY <1>3, <1>5, <2>1
<1> QED
  BY <1>3, <1>5, <1>6, <1>7, <1>8

LEMMA BlankIs == Sym("blank") \in Symbol /\ Sym("blank").is = "blank"
BY DEF Sym, Symbol

LEMMA SizeLineIs ==
  ASSUME NEW n \in Nat
  PROVE  SizeLine(n) \in Symbol /\ SizeLine(n).is = "size" /\ SizeLine(n).n = n
BY DEF SizeLine, Symbol

(* The head of a message: the first line, the headers and the blank line.    *)
HeadOf(l, h) == (<<l>> \o h) \o <<Sym("blank")>>

LEMMA HeadReads ==
  ASSUME NEW h \in Seq(HeadLine), NEW l \in Symbol, NEW field
  PROVE  \A i \in 1..Len(h) + 1 :
           /\ Headers(HeadOf(l, h), field, i + 1).end = Len(h) + 2
           /\ Headers(HeadOf(l, h), field, i + 1).out = Headers(h, field, i).out
<1>s. PICK s : s = HeadOf(l, h)
  OBVIOUS
<1> DEFINE Good(i) ==
             /\ Headers(s, field, i + 1).end = Len(h) + 2
             /\ Headers(s, field, i + 1).out = Headers(h, field, i).out
           T == {i \in Nat : i \in 1..Len(h) + 1 => Good(i)}
<1>0. \A i \in Nat : i \in T <=> (i \in 1..Len(h) + 1 => Good(i))
  OBVIOUS
<1> HIDE DEF T
<1>1. h \in Seq(Symbol) /\ Len(h) \in Nat /\ \A i \in 1..Len(h) : i \in HeaderLines(h)
  BY LinesAreSymbols
<1>2. /\ s \in Seq(Symbol) /\ Len(s) = Len(h) + 2 /\ s[Len(h) + 2].is = "blank"
      /\ \A i \in 1..Len(h) : s[i + 1] = h[i]
  BY <1>s, <1>1, BlankIs, Framed DEF HeadOf
<1>3. ASSUME NEW i \in Nat, i > Len(h) PROVE i \in T
  <2>1. CASE i > Len(h) + 1
    BY <1>0, <1>1, <2>1
  <2>2. CASE i = Len(h) + 1
    <3>1. Len(h) + 2 \notin HeaderLines(s) /\ i \notin HeaderLines(h)
      BY <1>1, <1>2, <2>2 DEF HeaderLines
    <3>2. Len(h) + 2 \in Nat /\ i + 1 = Len(h) + 2
      BY <1>1, <2>2
    <3>3. /\ Headers(s, field, Len(h) + 2).end = Len(h) + 2
          /\ Headers(s, field, Len(h) + 2).out = <<>>
      BY <1>2, <3>1, <3>2, HeadersStop
    <3>4. Headers(h, field, i).out = <<>>
      BY <1>1, <3>1, HeadersStop
    <3> QED
      BY <1>0, <3>2, <3>3, <3>4
  <2> QED
    BY <1>1, <1>3, <2>1, <2>2
<1>4. ASSUME NEW i \in 0..Len(h), \A j \in Nat : j > i => j \in T PROVE i \in T
  <2>1. CASE i = 0
    <3>1. i \in Nat /\ ~(i \in 1..Len(h) + 1)
      BY <2>1
    <3> QED
      BY <1>0, <3>1
  <2>2. CASE i # 0
    <3>1. PICK k \in Nat : k = i + 1 /\ i \in Nat /\ k \in 1..Len(h) + 1 /\ i \in 1..Len(h) /\ k > i
      BY <1>1, <2>2
    <3>2. Good(k)
      BY <1>0, <1>4, <3>1
    <3>3. i \in HeaderLines(h)
      BY <1>1, <3>1
    <3>4. s[k] = h[i] /\ k \in 1..Len(s)
      <4>1. k \in 1..Len(s)
        BY <1>1, <1>2, <3>1
      <4> QED
        BY <1>2, <3>1, <4>1
    <3>5. k \in HeaderLines(s)
      BY <3>3, <3>4 DEF HeaderLines
    <3>6. Headers(s, field, k).end = Headers(s, field, k + 1).end
      BY <1>2, <3>5, HeadersNext
    <3>7. CASE h[i].is = field
      <4>1. s[k].is = field /\ s[k].n = h[i].n
        BY <3>4, <3>7
      <4>2. Headers(h, field, i).out = <<h[i].n>> \o Headers(h, field, i + 1).out
        BY <1>1, <3>1, <3>3, <3>7, HeadersTake
      <4>3. Headers(s, field, k).out = <<s[k].n>> \o Headers(s, field, k + 1).out
        BY <1>2, <3>5, <4>1, HeadersTake
      <4> QED
        BY <1>0, <3>1, <3>2, <3>6, <4>1, <4>2, <4>3
    <3>8. CASE h[i].is # field
      <4>1. s[k].is # field
        BY <3>4, <3>8
      <4>2. Headers(h, field, i).out = Headers(h, field, i + 1).out
        BY <1>1, <3>1, <3>3, <3>8, HeadersSkip
      <4>3. Headers(s, field, k).out = Headers(s, field, k + 1).out
        BY <1>2, <3>5, <4>1, HeadersSkip
      <4> QED
        BY <1>0, <3>1, <3>2, <3>6, <4>2, <4>3
    <3> QED
      BY <3>7, <3>8
  <2> QED
    BY <2>1, <2>2
<1>5. \A i \in Nat : i \in T
  BY <1>1, <1>3, <1>4, Downwards
<1>6. ASSUME NEW i \in 1..Len(h) + 1 PROVE Good(i)
  <2>1. i \in Nat
    BY <1>1
  <2> QED
    BY <1>0, <1>5, <1>6, <2>1
<1> QED
  BY <1>s, <1>6

(* The headers name a field exactly when the walk collects something.        *)
LEMMA HeadersFind ==
  ASSUME NEW h \in Seq(HeadLine), NEW field
  PROVE  Headers(h, field, 1).out = <<>> <=> \A i \in 1..Len(h) : h[i].is # field
<1> DEFINE Good(i) ==
             Headers(h, field, i).out = <<>> <=> \A j \in 1..Len(h) : j >= i => h[j].is # field
           T == {i \in Nat : i >= 1 => Good(i)}
<1>0. \A i \in Nat : i \in T <=> (i >= 1 => Good(i))
  OBVIOUS
<1> HIDE DEF T
<1>1. h \in Seq(Symbol) /\ Len(h) \in Nat /\ \A i \in 1..Len(h) : i \in HeaderLines(h)
  BY LinesAreSymbols
<1>2. ASSUME NEW i \in Nat, i > Len(h) PROVE i \in T
  <2>1. i \notin HeaderLines(h)
    BY <1>1, <1>2 DEF HeaderLines
  <2>2. Headers(h, field, i).out = <<>>
    BY <1>1, <2>1, HeadersStop
  <2>3. \A j \in 1..Len(h) : ~(j >= i)
    BY <1>1, <1>2
  <2> QED
    BY <1>0, <2>2, <2>3
<1>3. ASSUME NEW i \in 0..Len(h), \A j \in Nat : j > i => j \in T PROVE i \in T
  <2>1. CASE i = 0
    <3>1. i \in Nat /\ ~(i >= 1)
      BY <2>1
    <3> QED
      BY <1>0, <3>1
  <2>2. CASE i # 0
    <3>1. i \in Nat /\ i + 1 \in Nat /\ i + 1 > i /\ i + 1 >= 1 /\ i \in 1..Len(h)
      BY <1>1, <2>2
    <3>2. Good(i + 1)
      BY <1>0, <1>3, <3>1
    <3>3. \A j \in 1..Len(h) : j >= i <=> j = i \/ j >= i + 1
      BY <1>1, <3>1
    <3>4. i \in HeaderLines(h)
      BY <1>1, <3>1
    <3>5. CASE h[i].is = field
      <4>1. PICK a \in Seq(Nat) : a = Headers(h, field, i + 1).out
        BY <1>1, <3>1, HeadersTyped
      <4>2. PICK n \in Nat : n = h[i].n
        BY <1>1, <3>1, SymbolAt
      <4>3. Headers(h, field, i).out = <<n>> \o a
        BY <1>1, <3>1, <3>4, <3>5, <4>1, <4>2, HeadersTake
      <4>4. <<n>> \o a # <<>>
        BY <4>1, <4>2
      <4>5. ~ \A j \in 1..Len(h) : j >= i => h[j].is # field
        BY <3>1, <3>3, <3>5
      <4> QED
        BY <1>0, <3>1, <4>3, <4>4, <4>5
    <3>6. CASE h[i].is # field
      <4>1. Headers(h, field, i).out = Headers(h, field, i + 1).out
        BY <1>1, <3>1, <3>4, <3>6, HeadersSkip
      <4>2. (\A j \in 1..Len(h) : j >= i => h[j].is # field)
              <=> (\A j \in 1..Len(h) : j >= i + 1 => h[j].is # field)
        BY <3>3, <3>6
      <4> QED
        BY <1>0, <3>1, <3>2, <4>1, <4>2
    <3> QED
      BY <3>5, <3>6
  <2> QED
    BY <2>1, <2>2
<1>4. \A i \in Nat : i \in T
  BY <1>1, <1>2, <1>3, Downwards
<1>5. Good(1) /\ \A j \in 1..Len(h) : j >= 1
  BY <1>0, <1>4
<1> QED
  BY <1>5

(* What delHeader leaves.                                                    *)
KeptFrom(hs, name, i) ==
  WalkFrom([j \in 1..Len(hs) |-> j + 1],
           [j \in 1..Len(hs) |-> IF hs[j].is = name THEN <<>> ELSE <<hs[j]>>], i).out

LEMMA KeptSteps ==
  ASSUME NEW hs \in Seq(HeadLine), NEW name, NEW i \in Nat
  PROVE  /\ KeptFrom(hs, name, i) \in Seq(HeadLine)
         /\ i \in 1..Len(hs) /\ hs[i].is = name => KeptFrom(hs, name, i) = KeptFrom(hs, name, i + 1)
         /\ i \in 1..Len(hs) /\ hs[i].is # name =>
              KeptFrom(hs, name, i) = <<hs[i]>> \o KeptFrom(hs, name, i + 1)
<1> DEFINE D == 1..Len(hs)
           next == [j \in D |-> j + 1]
           out == [j \in D |-> IF hs[j].is = name THEN <<>> ELSE <<hs[j]>>]
<1>1. Len(hs) \in Nat /\ D \subseteq 1..Len(hs) /\ \A j \in D : j \in Nat
  OBVIOUS
<1>2. <<>> \in Seq(HeadLine) /\ \A j \in D : <<hs[j]>> \in Seq(HeadLine)
  BY ElementOfSeq
<1>3. next \in [D -> Nat] /\ \A j \in D : next[j] > j /\ next[j] = j + 1
  BY <1>1
<1>4. out \in [D -> Seq(HeadLine)]
  BY <1>2
<1>5. /\ \A j \in D : hs[j].is = name => out[j] = <<>>
      /\ \A j \in D : hs[j].is # name => out[j] = <<hs[j]>>
  OBVIOUS
<1>6. \A j : KeptFrom(hs, name, j) = WalkFrom(next, out, j).out
  BY DEF KeptFrom
<1> HIDE DEF next, out, D
<1>7. GoesOn(D, Len(hs), next, HeadLine, out)
  BY <1>1, <1>3, <1>4 DEF GoesOn
<1>8. \A j \in Nat : Steps(D, next, HeadLine, out, j)
  BY <1>7, WalkSteps
<1>9. \A j \in Nat : KeptFrom(hs, name, j) \in Seq(HeadLine)
  BY <1>6, <1>8 DEF Steps
<1>10. ASSUME i \in D PROVE KeptFrom(hs, name, i) = out[i] \o KeptFrom(hs, name, i + 1)
  <2>1. WalkFrom(next, out, i).out = out[i] \o WalkFrom(next, out, next[i]).out
    BY <1>8, <1>10 DEF Steps
  <2>2. next[i] = i + 1
    BY <1>3, <1>10
  <2>3. /\ KeptFrom(hs, name, i) = WalkFrom(next, out, i).out
        /\ KeptFrom(hs, name, i + 1) = WalkFrom(next, out, i + 1).out
    BY <1>6
  <2> QED
    BY ONLY <2>1, <2>2, <2>3
<1>11. ASSUME i \in D, hs[i].is = name PROVE KeptFrom(hs, name, i) = KeptFrom(hs, name, i + 1)
  <2>1. KeptFrom(hs, name, i + 1) \in Seq(HeadLine)
    BY <1>9
  <2>2. <<>> \o KeptFrom(hs, name, i + 1) = KeptFrom(hs, name, i + 1)
    BY <2>1, ConcatEmptySeq
  <2> QED
    BY <1>5, <1>10, <1>11, <2>2
<1>12. ASSUME i \in D, hs[i].is # name PROVE KeptFrom(hs, name, i) = <<hs[i]>> \o KeptFrom(hs, name, i + 1)
  BY <1>5, <1>10, <1>12
<1> QED
  BY <1>9, <1>11, <1>12 DEF D

(* Another header than the one deleted is still there.                       *)
Has(hs, field) == \E j \in 1..Len(hs) : hs[j].is = field

LEMMA DelHeaderKeeps ==
  ASSUME NEW hs \in Seq(HeadLine), NEW name, NEW field, field # name
  PROVE  /\ DelHeader(hs, name) \in Seq(HeadLine)
         /\ Has(hs, field) => Has(DelHeader(hs, name), field)
<1> DEFINE Good(i) == (\E j \in 1..Len(hs) : j >= i /\ hs[j].is = field) =>
                        \E j \in 1..Len(KeptFrom(hs, name, i)) : KeptFrom(hs, name, i)[j].is = field
           T == {i \in Nat : i >= 1 => Good(i)}
<1>0. \A i \in Nat : i \in T <=> (i >= 1 => Good(i))
  OBVIOUS
<1> HIDE DEF T
<1>1. Len(hs) \in Nat
  OBVIOUS
<1>2. ASSUME NEW i \in Nat, i > Len(hs) PROVE i \in T
  <2>1. \A j \in 1..Len(hs) : ~(j >= i)
    BY <1>1, <1>2
  <2> QED
    BY <1>0, <2>1
<1>3. ASSUME NEW i \in 0..Len(hs), \A j \in Nat : j > i => j \in T PROVE i \in T
  <2>1. CASE i = 0
    <3>1. i \in Nat /\ ~(i >= 1)
      BY <2>1
    <3> QED
      BY <1>0, <3>1
  <2>2. CASE i # 0
    <3>1. i \in Nat /\ i + 1 \in Nat /\ i + 1 > i /\ i + 1 >= 1 /\ i \in 1..Len(hs)
      BY <1>1, <2>2
    <3>2. Good(i + 1)
      BY <1>0, <1>3, <3>1
    <3>3. \A j \in 1..Len(hs) : j >= i <=> j = i \/ j >= i + 1
      BY <1>1, <3>1
    <3>4. PICK a \in Seq(HeadLine) : a = KeptFrom(hs, name, i + 1)
      BY <3>1, KeptSteps
    <3>5. CASE hs[i].is = name
      <4>1. KeptFrom(hs, name, i) = a
        BY <3>1, <3>4, <3>5, KeptSteps
      <4>2. (\E j \in 1..Len(hs) : j >= i /\ hs[j].is = field)
              => \E j \in 1..Len(hs) : j >= i + 1 /\ hs[j].is = field
        BY <3>3, <3>5
      <4> QED
        BY <1>0, <3>1, <3>2, <3>4, <4>1, <4>2
    <3>6. CASE hs[i].is # name
      <4>1. PICK x \in HeadLine : x = hs[i]
        BY <3>1, ElementOfSeq
      <4>2. PICK c \in Seq(HeadLine) : c = KeptFrom(hs, name, i)
        BY <3>1, KeptSteps
      <4>3. c = <<x>> \o a
        BY <3>1, <3>4, <3>6, <4>1, <4>2, KeptSteps
      <4>4. Len(c) = 1 + Len(a) /\ c[1] = x /\ \A j \in 1..Len(a) : c[1 + j] = a[j]
        BY <4>3
      <4>5. 1 \in 1..Len(c) /\ \A j \in 1..Len(a) : 1 + j \in 1..Len(c)
        BY <4>4
      <4>6. CASE hs[i].is = field
        BY <1>0, <3>1, <4>1, <4>2, <4>4, <4>5, <4>6
      <4>7. CASE hs[i].is # field
        <5>1. (\E j \in 1..Len(hs) : j >= i /\ hs[j].is = field)
                => \E j \in 1..Len(a) : a[j].is = field
          BY <3>2, <3>3, <3>4, <4>7
        <5>2. (\E j \in 1..Len(a) : a[j].is = field) => \E j \in 1..Len(c) : c[j].is = field
          BY <4>4, <4>5
        <5> QED
          BY <1>0, <3>1, <4>2, <5>1, <5>2
      <4> QED
        BY <4>6, <4>7
    <3> QED
      BY <3>5, <3>6
  <2> QED
    BY <2>1, <2>2
<1>4. \A i \in Nat : i \in T
  BY <1>1, <1>2, <1>3, Downwards
<1>5. Good(1) /\ \A j \in 1..Len(hs) : j >= 1
  BY <1>0, <1>4
<1>6. DelHeader(hs, name) = KeptFrom(hs, name, 1)
  BY DEF DelHeader, KeptFrom
<1>7. KeptFrom(hs, name, 1) \in Seq(HeadLine)
  BY KeptSteps
<1> QED
  BY <1>5, <1>6, <1>7 DEF Has

(* The head of a message stays what it is when more follows.                 *)
LEMMA HeadStays ==
  ASSUME NEW s \in Seq(Symbol), NEW t \in Seq(Symbol), NEW z, HeadEndsAt(s, z)
  PROVE  /\ HeadEndsAt(s \o t, z) /\ (s \o t)[1] = s[1]
         /\ \A k \in {"length", "chunked"} : Headers(s \o t, k, 2).out = Headers(s, k, 2).out
<1>u. PICK u : u = s \o t
  OBVIOUS
<1>1. /\ u \in Seq(Symbol) /\ Len(s) \in Nat /\ \A i \in 1..Len(s) : i \in 1..Len(u) /\ u[i] = s[i]
  BY <1>u, Joined
<1>2. z \in 1..Len(s) /\ s[z].is = "blank" /\ z \in Nat
      /\ \A k \in {"length", "chunked"} : Headers(s, k, 2).end = z
  BY <1>1 DEF HeadEndsAt
<1>3. z \in 1..Len(u) /\ u[z].is = "blank" /\ z \notin HeaderLines(u)
  BY <1>1, <1>2 DEF HeaderLines
<1>4. 1 \in 1..Len(s)
  BY <1>1, <1>2
<1>5. ASSUME NEW k \in {"length", "chunked"}
      PROVE  Headers(u, k, 2).end = z /\ Headers(u, k, 2).out = Headers(s, k, 2).out
  <2>0. 2 \in Nat
    OBVIOUS
  <2>1. Headers(u, k, z).end = z /\ Headers(u, k, z).out = <<>>
    BY ONLY <1>1, <1>2, <1>3, HeadersStop
  <2>2. PICK a \in Seq(Nat) : a = Headers(s, k, 2).out
    BY HeadersTyped
  <2>3. a \o <<>> = a
    BY <2>2, ConcatEmptySeq
  <2>4. HeadersGoOn(s, t, k, 2)
    BY <2>0, HeadersBehind
  <2>5. Headers(s, k, 2).end = z
    BY <1>2
  <2> QED
    BY ONLY <1>u, <2>1, <2>2, <2>3, <2>4, <2>5 DEF HeadersGoOn
<1> QED
  BY <1>u, <1>1, <1>3, <1>4, <1>5 DEF HeadEndsAt

LEMMA HeadIs ==
  ASSUME NEW h \in Seq(HeadLine), NEW l \in Symbol
  PROVE  /\ HeadOf(l, h) \in Seq(Symbol) /\ HeadOf(l, h)[1] = l
         /\ Len(HeadOf(l, h)) = Len(h) + 2 /\ HeadEndsAt(HeadOf(l, h), Len(HeadOf(l, h)))
         /\ \A k \in {"length", "chunked"} :
              Headers(HeadOf(l, h), k, 2).out = Headers(h, k, 1).out
<1>s. PICK s : s = HeadOf(l, h)
  OBVIOUS
<1>1. h \in Seq(Symbol)
  BY LinesAreSymbols
<1>2. /\ s \in Seq(Symbol) /\ Len(h) \in Nat /\ Len(s) = Len(h) + 2 /\ s[1] = l
      /\ s[Len(h) + 2].is = "blank" /\ Len(h) + 2 \in 1..Len(s)
  BY <1>s, <1>1, BlankIs, Framed DEF HeadOf
<1>3. ASSUME NEW k \in {"length", "chunked"}
      PROVE  Headers(s, k, 2).end = Len(s) /\ Headers(s, k, 2).out = Headers(h, k, 1).out
  <2>1. \A i \in 1..Len(h) + 1 :
           /\ Headers(HeadOf(l, h), k, i + 1).end = Len(h) + 2
           /\ Headers(HeadOf(l, h), k, i + 1).out = Headers(h, k, i).out
    BY HeadReads
  <2>2. 1 \in 1..Len(h) + 1 /\ 1 + 1 = 2
    BY <1>2
  <2> QED
    BY <1>s, <1>2, <2>1, <2>2
<1> QED
  BY <1>s, <1>2, <1>3 DEF HeadEndsAt

(* Behind a head without a length and with a transfer coding, chunks may     *)
(* follow; with the data of a chunk behind it, more of them may.             *)
LEMMA OpenHead ==
  ASSUME NEW h \in Seq(HeadLine), NEW l \in Symbol, l.is = "request",
         \A i \in 1..Len(h) : h[i].is # "length", \E i \in 1..Len(h) : h[i].is = "chunked"
  PROVE  HeadOf(l, h) \in Seq(Symbol) /\ OpenAt(HeadOf(l, h), Len(HeadOf(l, h)), <<>>)
<1>s. PICK s : s = HeadOf(l, h)
  OBVIOUS
<1>1. /\ s \in Seq(Symbol) /\ s[1] = l /\ HeadEndsAt(s, Len(s))
      /\ \A k \in {"length", "chunked"} : Headers(s, k, 2).out = Headers(h, k, 1).out
  BY <1>s, HeadIs
<1>2. Headers(h, "length", 1).out = <<>> /\ Headers(h, "chunked", 1).out # <<>>
  BY HeadersFind
<1>3. MaxBody \in Nat /\ Len(s) + 1 \in Nat /\ Len(s) + 1 \notin FullChunks(s, MaxBody)
  BY <1>1, PackageAssumption DEF FullChunks
<1>4. Chunks(s, MaxBody, Len(s) + 1).end = Len(s) + 1 /\ Chunks(s, MaxBody, Len(s) + 1).out = <<>>
  BY <1>1, <1>3, ChunksStop
<1> QED
  BY <1>s, <1>1, <1>2, <1>4 DEF OpenAt

LEMMA OpenPiece ==
  ASSUME NEW s \in Seq(Symbol), NEW z \in Nat, NEW out \in Seq(Symbol), OpenAt(s, z, out),
         NEW b \in Seq(Symbol), b # <<>>, Len(b) <= MaxBody
  PROVE  /\ s \o Piece(TRUE, b) \in Seq(Symbol)
         /\ OpenAt(s \o Piece(TRUE, b), z, out \o b)
<1>1a. PICK n, p, u, q :
        n = Len(b) /\ p = Piece(TRUE, b) /\ u = s \o p /\ q = Len(s) + 1
  OBVIOUS
<1>1. /\ n = Len(b) /\ p = Piece(TRUE, b) /\ u = s \o p /\ q = Len(s) + 1
      /\ n \in Nat /\ q \in Nat /\ Len(s) \in Nat
  BY <1>1a
<1>n. n \in Nat /\ q \in Nat /\ Len(s) \in Nat /\ n = Len(b) /\ q = Len(s) + 1
  BY <1>1
<1>2. n <= MaxBody /\ n > 0 /\ MaxBody \in Nat
  BY <1>1, PackageAssumption, EmptySeq
<1>3. p = (<<SizeLine(n)>> \o b) \o <<Sym("blank")>>
  BY <1>1 DEF Piece
<1>4. /\ p \in Seq(Symbol) /\ Len(p) = n + 2 /\ p[1] = SizeLine(n) /\ p[n + 2] = Sym("blank")
      /\ 1 \in 1..Len(p) /\ n + 2 \in 1..Len(p)
      /\ \A i \in 1..n : i + 1 \in 1..Len(p) /\ p[i + 1] = b[i]
  <2>1. PICK a, e : a = SizeLine(n) /\ e = Sym("blank")
    OBVIOUS
  <2>2. a \in Symbol /\ e \in Symbol /\ p = (<<a>> \o b) \o <<e>>
    BY <1>1, <1>3, <2>1, BlankIs, SizeLineIs
  <2>3. /\ p \in Seq(Symbol) /\ Len(p) = Len(b) + 2 /\ p[1] = a /\ p[Len(b) + 2] = e
        /\ 1 \in 1..Len(p) /\ Len(b) + 2 \in 1..Len(p)
        /\ \A i \in 1..Len(b) : i + 1 \in 1..Len(p) /\ p[i + 1] = b[i]
    BY <2>2, Framed
  <2> QED
    BY ONLY <1>1, <2>1, <2>3
<1>5. /\ u \in Seq(Symbol) /\ Len(u) = Len(s) + (n + 2) /\ Len(s) \in Nat
      /\ \A i \in 1..Len(p) : Len(s) + i \in 1..Len(u) /\ u[Len(s) + i] = p[i]
  <2>2. u = s \o p /\ p \in Seq(Symbol)
    BY <1>1, <1>4
  <2>1. /\ u \in Seq(Symbol) /\ Len(u) = Len(s) + Len(p)
        /\ \A i \in 1..Len(p) : Len(s) + i \in 1..Len(u) /\ u[Len(s) + i] = p[i]
    BY <2>2, Joined
  <2> QED
    BY ONLY <1>1, <1>4, <2>1
<1>m. Len(u) = Len(s) + (n + 2)
  BY ONLY <1>5
<1>6. q \in 1..Len(u) /\ u[q].is = "size" /\ u[q].n = n
  <2>1. u[Len(s) + 1] = SizeLine(n) /\ Len(s) + 1 \in 1..Len(u)
    BY <1>4, <1>5
  <2> QED
    BY <1>1, <2>1, SizeLineIs
<1>7. u[q + n + 1].is = "blank"
  <2>1. u[Len(s) + (n + 2)] = Sym("blank")
    BY <1>4, <1>5
  <2>2. q + n + 1 = Len(s) + (n + 2)
    BY <1>1, <1>5
  <2> QED
    BY <2>1, <2>2, BlankIs
<1>8. q \in FullChunks(u, MaxBody)
  <2>1. q + n < Len(u)
    BY ONLY <1>n, <1>m
  <2> QED
    BY <1>2, <1>6, <1>7, <2>1 DEF FullChunks, IsChunk
<1>9. PICK r \in Nat : r = q + n + 2
  BY <1>1
<1>10. r \notin FullChunks(u, MaxBody) /\ r = Len(u) + 1
  <2>1. r = Len(u) + 1
    BY ONLY <1>n, <1>m, <1>9
  <2> QED
    BY <1>5, <2>1 DEF FullChunks
<1>11. Chunks(u, MaxBody, r).end = r /\ Chunks(u, MaxBody, r).out = <<>>
  BY <1>2, <1>5, <1>10, ChunksStop
<1>12. SubSeq(u, q + 1, q + n) = b
  <2>1. \A i \in 1..Len(b) : b[i] = u[q + i]
    <3>1. ASSUME NEW i \in 1..n PROVE b[i] = u[q + i]
      <4>1. i + 1 \in 1..Len(p) /\ p[i + 1] = b[i]
        BY <1>4
      <4>2. u[Len(s) + (i + 1)] = p[i + 1]
        BY <1>5, <4>1
      <4>3. Len(s) + (i + 1) = q + i
        BY <1>1, <1>5
      <4> QED
        BY <4>1, <4>2, <4>3
    <3> QED
      BY <1>1, <3>1
  <2>2. q + Len(b) <= Len(u) /\ Len(b) \in 0..Len(b)
    BY ONLY <1>n, <1>m
  <2>3. SubSeq(b, 1, Len(b)) = SubSeq(u, q + 1, q + Len(b))
    <3>1. q \in Nat /\ u \in Seq(Symbol)
      BY ONLY <1>n, <1>5
    <3> QED
      BY ONLY <2>1, <2>2, <3>1, b \in Seq(Symbol), SamePiece
  <2>4. SubSeq(b, 1, Len(b)) = b
    BY SubSeqFull
  <2> QED
    BY <1>1, <2>3, <2>4
<1>13. Chunks(u, MaxBody, q).end = r /\ Chunks(u, MaxBody, q).out = b
  <2>1. /\ Chunks(u, MaxBody, q).end = Chunks(u, MaxBody, q + u[q].n + 2).end
        /\ Chunks(u, MaxBody, q).out =
             SubSeq(u, q + 1, q + u[q].n) \o Chunks(u, MaxBody, q + u[q].n + 2).out
    BY ONLY <1>n, <1>2, <1>5, <1>8, ChunksTake
  <2>2. u[q].n = n
    BY <1>6
  <2>3. /\ Chunks(u, MaxBody, q).end = Chunks(u, MaxBody, r).end
        /\ Chunks(u, MaxBody, q).out = SubSeq(u, q + 1, q + n) \o Chunks(u, MaxBody, r).out
    BY ONLY <1>9, <2>1, <2>2
  <2>4. b \o <<>> = b
    BY ConcatEmptySeq
  <2> QED
    BY ONLY <1>11, <1>12, <2>3, <2>4
<1>14. /\ s[1].is = "request" /\ HeadEndsAt(s, z)
       /\ Headers(s, "length", 2).out = <<>> /\ Headers(s, "chunked", 2).out # <<>>
       /\ Chunks(s, MaxBody, z + 1).end = q /\ Chunks(s, MaxBody, z + 1).out = out
  BY <1>1 DEF OpenAt
<1>15. HeadEndsAt(u, z) /\ u[1] = s[1]
       /\ \A k \in {"length", "chunked"} : Headers(u, k, 2).out = Headers(s, k, 2).out
  BY <1>1, <1>4, <1>14, HeadStays
<1>16. Chunks(u, MaxBody, z + 1).end = r /\ Chunks(u, MaxBody, z + 1).out = out \o b
  <2>1. z + 1 \in Nat
    OBVIOUS
  <2>2. ChunksGoOn(s, p, MaxBody, z + 1)
    BY <1>2, <1>4, <2>1, ChunksBehind
  <2> QED
    BY ONLY <1>1, <1>13, <1>14, <2>2 DEF ChunksGoOn
<1>17. OpenAt(u, z, out \o b)
  BY ONLY <1>10, <1>14, <1>15, <1>16 DEF OpenAt
<1> QED
  BY ONLY <1>1, <1>5, <1>17

(* With or without data.                                                     *)
LEMMA OpenSends ==
  ASSUME NEW s \in Seq(Symbol), NEW z \in Nat, NEW out \in Seq(Symbol), OpenAt(s, z, out),
         NEW b \in Seq(Symbol), Len(b) <= MaxBody
  PROVE  /\ s \o Piece(TRUE, b) \in Seq(Symbol)
         /\ OpenAt(s \o Piece(TRUE, b), z, out \o b)
<1>1. CASE b = <<>>
  <2>1. s \o <<>> = s /\ out \o <<>> = out
    BY ConcatEmptySeq
  <2>2. Piece(TRUE, b) = <<>>
    BY <1>1 DEF Piece
  <2> QED
    BY <1>1, <2>1, <2>2
<1>2. CASE b # <<>>
  BY <1>2, OpenPiece
<1> QED
  BY <1>1, <1>2

(* As long as the message is open it is no message, and with the last chunk  *)
(* it is one with what was sent.                                             *)
LEMMA MessageIs ==
  ASSUME NEW s \in Seq(Symbol), NEW z \in Nat, s[1].is = "request", HeadEndsAt(s, z),
         NEW max, NEW m, m = Message(s, max, 1),
         NEW L, L = Headers(s, "length", 2).out, NEW C, C = Headers(s, "chunked", 2).out,
         NEW K, K = Chunks(s, max, z + 1)
  PROVE  /\ L = <<>> /\ C # <<>> /\ IsChunk(s, max, K.end) => m = WellFormed(K.out, K.end + 2)
         /\ L = <<>> /\ C # <<>> /\ ~IsChunk(s, max, K.end) => m = Malformed
<1>1. Len(s) \in Nat /\ 1 + 1 = 2
  OBVIOUS
<1>2. /\ z \in 1..Len(s) /\ s[z].is = "blank" /\ Headers(s, "length", 2).end = z
  BY DEF HeadEndsAt
<1>3. 1 \in 1..Len(s) /\ ~(z > Len(s))
  BY <1>1, <1>2
<1>4. PICK e, W1, W2, W3 :
        /\ e = z + L[1] /\ W1 = WellFormed(SubSeq(s, z + 1, e), e + 1)
        /\ W2 = WellFormed(<<>>, z + 1) /\ W3 = WellFormed(K.out, K.end + 2)
  OBVIOUS
<1>5. m = IF 1 \notin 1..Len(s) \/ s[1].is # "request" \/ z > Len(s) \/ s[z].is # "blank"
          THEN Malformed
          ELSE IF L # <<>> THEN IF e <= Len(s) THEN W1 ELSE Malformed
          ELSE IF C = <<>> THEN W2
          ELSE IF IsChunk(s, max, K.end) THEN W3 ELSE Malformed
  BY <1>1, <1>2, <1>4 DEF Message
<1>6. /\ L = <<>> /\ C # <<>> /\ IsChunk(s, max, K.end) => m = W3
      /\ L = <<>> /\ C # <<>> /\ ~IsChunk(s, max, K.end) => m = Malformed
  BY <1>2, <1>3, <1>5, Zenon
<1> QED
  BY ONLY <1>4, <1>6

LEMMA SizedMessageIs ==
  ASSUME NEW s \in Seq(Symbol), NEW z \in Nat, s[1].is = "request", HeadEndsAt(s, z),
         NEW max, NEW m, m = Message(s, max, 1),
         NEW e, e = z + Headers(s, "length", 2).out[1],
         Headers(s, "length", 2).out # <<>>, e <= Len(s)
  PROVE  m = WellFormed(SubSeq(s, z + 1, e), e + 1)
<1>1. Len(s) \in Nat /\ 1 + 1 = 2
  OBVIOUS
<1>2. /\ z \in 1..Len(s) /\ s[z].is = "blank" /\ Headers(s, "length", 2).end = z
  BY DEF HeadEndsAt
<1>3. 1 \in 1..Len(s) /\ ~(z > Len(s))
  BY <1>1, <1>2
<1>4. PICK L, W, X :
        /\ L = Headers(s, "length", 2).out /\ W = WellFormed(SubSeq(s, z + 1, e), e + 1)
        /\ X = IF Headers(s, "chunked", 2).out = <<>> THEN WellFormed(<<>>, z + 1)
               ELSE IF IsChunk(s, max, Chunks(s, max, z + 1).end)
               THEN WellFormed(Chunks(s, max, z + 1).out, Chunks(s, max, z + 1).end + 2)
               ELSE Malformed
  OBVIOUS
<1>5. m = IF 1 \notin 1..Len(s) \/ s[1].is # "request" \/ z > Len(s) \/ s[z].is # "blank"
          THEN Malformed
          ELSE IF L # <<>> THEN IF e <= Len(s) THEN W ELSE Malformed
          ELSE X
  BY <1>1, <1>2, <1>4 DEF Message
<1>6. L # <<>> /\ e <= Len(s)
  BY <1>4
<1>7. m = W
  BY <1>2, <1>3, <1>5, <1>6, Zenon
<1> QED
  BY ONLY <1>4, <1>7

LEMMA OpenNotOk ==
  ASSUME NEW s \in Seq(Symbol), NEW z \in Nat, NEW out, OpenAt(s, z, out)
  PROVE  ~Message(s, MaxBody, 1).ok
<1>1. PICK m, L, C, K :
        /\ m = Message(s, MaxBody, 1) /\ K = Chunks(s, MaxBody, z + 1)
        /\ L = Headers(s, "length", 2).out /\ C = Headers(s, "chunked", 2).out
  OBVIOUS
<1>2. /\ s[1].is = "request" /\ HeadEndsAt(s, z)
      /\ L = <<>> /\ C # <<>> /\ K.end = Len(s) + 1
  BY <1>1 DEF OpenAt
<1>3. ~IsChunk(s, MaxBody, K.end)
  <2>1. Len(s) + 1 \notin 1..Len(s)
    OBVIOUS
  <2> QED
    BY <1>2, <2>1 DEF IsChunk
<1>4. m = Malformed
  BY <1>1, <1>2, <1>3, MessageIs
<1> QED
  BY <1>1, <1>4 DEF Malformed

LEMMA OpenEnds ==
  ASSUME NEW s \in Seq(Symbol), NEW z \in Nat, NEW out \in Seq(Symbol), OpenAt(s, z, out)
  PROVE  /\ s \o LastChunk \in Seq(Symbol) /\ Len(s \o LastChunk) \in Nat
         /\ Message(s \o LastChunk, MaxBody, 1) = WellFormed(out, Len(s \o LastChunk) + 1)
<1>1. PICK u, q : u = s \o LastChunk /\ q = Len(s) + 1
  OBVIOUS
<1>n. q \in Nat /\ Len(s) \in Nat /\ q = Len(s) + 1
  BY <1>1
<1>2. /\ LastChunk \in Seq(Symbol) /\ Len(LastChunk) = 2
      /\ LastChunk[1] = SizeLine(0) /\ LastChunk[2] = Sym("blank")
  BY BlankIs, SizeLineIs DEF LastChunk
<1>3. /\ u \in Seq(Symbol) /\ Len(u) = Len(s) + 2
      /\ u[q] = SizeLine(0) /\ u[q + 1] = Sym("blank")
  <2>1. PICK p : p = LastChunk
    OBVIOUS
  <2>4. u = s \o p /\ p \in Seq(Symbol)
    BY <1>1, <1>2, <2>1
  <2>5. /\ u \in Seq(Symbol) /\ Len(u) = Len(s) + Len(p)
        /\ \A i \in 1..Len(p) : u[Len(s) + i] = p[i]
    BY <2>4, Joined
  <2>2. /\ u \in Seq(Symbol) /\ Len(u) = Len(s) + Len(LastChunk)
        /\ \A i \in 1..Len(LastChunk) : u[Len(s) + i] = LastChunk[i]
    BY ONLY <2>1, <2>5
  <2>3. 1 \in 1..Len(LastChunk) /\ 2 \in 1..Len(LastChunk) /\ q + 1 = Len(s) + 2
    BY ONLY <1>n, <1>2
  <2> QED
    BY ONLY <1>n, <1>2, <2>2, <2>3
<1>4. u[q].is = "size" /\ u[q].n = 0 /\ u[q + 1].is = "blank" /\ MaxBody \in Nat
  BY <1>3, BlankIs, SizeLineIs, PackageAssumption
<1>5. q \notin FullChunks(u, MaxBody)
  BY <1>4 DEF FullChunks
<1>6. IsChunk(u, MaxBody, q)
  <2>1. q \in 1..Len(u) /\ q + 0 < Len(u) /\ q + 0 + 1 = q + 1
    BY ONLY <1>n, <1>3
  <2> QED
    BY <1>4, <2>1 DEF IsChunk
<1>7. Chunks(u, MaxBody, q).end = q /\ Chunks(u, MaxBody, q).out = <<>>
  BY ONLY <1>n, <1>3, <1>4, <1>5, ChunksStop
<1>8. /\ s[1].is = "request" /\ HeadEndsAt(s, z)
      /\ Headers(s, "length", 2).out = <<>> /\ Headers(s, "chunked", 2).out # <<>>
      /\ Chunks(s, MaxBody, z + 1).end = q /\ Chunks(s, MaxBody, z + 1).out = out
  BY <1>1 DEF OpenAt
<1>9. HeadEndsAt(u, z) /\ u[1] = s[1]
      /\ \A k \in {"length", "chunked"} : Headers(u, k, 2).out = Headers(s, k, 2).out
  BY <1>1, <1>2, <1>8, HeadStays
<1>10. PICK m, L, C, K :
        /\ m = Message(u, MaxBody, 1) /\ K = Chunks(u, MaxBody, z + 1)
        /\ L = Headers(u, "length", 2).out /\ C = Headers(u, "chunked", 2).out
  OBVIOUS
<1>11. K.end = q /\ K.out = out
  <2>1. z + 1 \in Nat
    OBVIOUS
  <2>2. ChunksGoOn(s, LastChunk, MaxBody, z + 1)
    BY <1>2, <1>4, <2>1, ChunksBehind
  <2>3. out \o <<>> = out
    BY ConcatEmptySeq
  <2> QED
    BY ONLY <1>1, <1>7, <1>8, <1>10, <2>2, <2>3 DEF ChunksGoOn
<1>12. /\ u[1].is = "request" /\ L = <<>> /\ C # <<>> /\ IsChunk(u, MaxBody, K.end)
  BY <1>6, <1>8, <1>9, <1>10, <1>11
<1>13. m = WellFormed(K.out, K.end + 2)
  BY <1>3, <1>9, <1>10, <1>12, MessageIs
<1>14. q + 2 = Len(u) + 1 /\ Len(u) \in Nat
  BY ONLY <1>n, <1>3
<1> QED
  BY ONLY <1>1, <1>3, <1>10, <1>11, <1>13, <1>14

(* A whole message with the right length first: u is read back as b.         *)
ReadAs(u, b) == Message(u, MaxBody, 1) = WellFormed(b, Len(u) + 1)

LEMMA WholeReads ==
  ASSUME NEW h \in Seq(HeadLine), NEW l \in Symbol, l.is = "request", NEW b \in Seq(Symbol),
         Headers(h, "length", 1).out # <<>>, Headers(h, "length", 1).out[1] = Len(b)
  PROVE  ReadAs(HeadOf(l, h) \o b, b)
<1>1. PICK s, u : s = HeadOf(l, h) /\ u = s \o b
  OBVIOUS
<1>2. /\ s \in Seq(Symbol) /\ s[1] = l /\ HeadEndsAt(s, Len(s))
      /\ Headers(s, "length", 2).out = Headers(h, "length", 1).out
  BY <1>1, HeadIs
<1>3. /\ u \in Seq(Symbol) /\ Len(u) = Len(s) + Len(b) /\ Len(s) \in Nat /\ Len(b) \in Nat
      /\ \A i \in 1..Len(b) : u[Len(s) + i] = b[i]
  <2>1. u = s \o b
    BY <1>1
  <2> QED
    BY <1>2, <2>1, Joined
<1>4. HeadEndsAt(u, Len(s)) /\ u[1] = l
      /\ Headers(u, "length", 2).out = Headers(s, "length", 2).out
  BY <1>1, <1>2, HeadStays
<1>5. PICK z, n, m, L, C, K :
        /\ z = Len(s) /\ n = Len(b) /\ m = Message(u, MaxBody, 1) /\ K = Chunks(u, MaxBody, z + 1)
        /\ L = Headers(u, "length", 2).out /\ C = Headers(u, "chunked", 2).out
  OBVIOUS
<1>6. z \in Nat /\ n \in Nat /\ Len(u) = z + n /\ L # <<>> /\ L[1] = n
  BY <1>2, <1>3, <1>4, <1>5
<1>7. m = WellFormed(SubSeq(u, z + 1, z + n), (z + n) + 1)
  <2>1. u[1].is = "request" /\ HeadEndsAt(u, z) /\ u \in Seq(Symbol)
    BY <1>3, <1>4, <1>5
  <2>2. PICK e : e = z + n
    OBVIOUS
  <2>3. e = z + Headers(u, "length", 2).out[1] /\ Headers(u, "length", 2).out # <<>> /\ e <= Len(u)
    BY ONLY <1>5, <1>6, <2>2
  <2>4. m = WellFormed(SubSeq(u, z + 1, e), e + 1)
    BY <1>5, <1>6, <2>1, <2>3, SizedMessageIs
  <2> QED
    BY ONLY <2>2, <2>4
<1>8. SubSeq(u, z + 1, z + n) = b
  <2>1. SubSeq(b, 1, Len(b)) = SubSeq(u, z + 1, z + Len(b))
    <3>1. \A i \in 1..Len(b) : b[i] = u[z + i]
      BY <1>3, <1>5
    <3>2. z + Len(b) <= Len(u) /\ Len(b) \in 0..Len(b)
      BY ONLY <1>3, <1>5
    <3> QED
      BY <1>3, <1>6, <3>1, <3>2, SamePiece
  <2>2. SubSeq(b, 1, Len(b)) = b
    BY SubSeqFull
  <2> QED
    BY ONLY <1>5, <2>1, <2>2
<1>9. Len(u) \in Nat /\ (z + n) + 1 = Len(u) + 1
  BY ONLY <1>6
<1>10. ReadAs(u, b)
  BY ONLY <1>5, <1>7, <1>8, <1>9 DEF ReadAs
<1> QED
  BY ONLY <1>1, <1>10

-----------------------------------------------------------------------------
(* The invariant holds from the start and through every operation.           *)
LEMMA StartLineIs ==
  ASSUME WriterTypes
  PROVE  \E l \in Symbol :
           /\ StartLine = <<l>> /\ l.is = "request"
           /\ kind = "response" =>
                l.n = IF named /\ status # NoStatus THEN status ELSE StatusHead(status)
<1>1. status \in Nat /\ StatusHead(status) \in Nat
  BY DEF WriterTypes, Statuses, StatusHead, Listed, Ok, Not_Found, Method_Not_Allowed,
         NoStatus, Internal_Server_Error
<1>2. PICK n \in Nat : n = IF named /\ status # NoStatus THEN status ELSE StatusHead(status)
  BY <1>1
<1>3. CASE kind = "response"
  <2>1. PICK l : l = StatusLine
    OBVIOUS
  <2>2. l.n = n /\ l.is = "request" /\ l \in Symbol
    BY <1>2, <2>1 DEF StatusLine, Symbol
  <2>3. StartLine = <<l>>
    BY <1>3, <2>1 DEF StartLine
  <2> QED
    BY <1>2, <2>2, <2>3
<1>4. CASE kind # "response"
  <2>1. PICK l : l = RequestLine
    OBVIOUS
  <2>2. l.is = "request" /\ l \in Symbol
    BY <2>1 DEF RequestLine, Sym, Symbol
  <2>3. StartLine = <<l>>
    BY <1>4, <2>1 DEF StartLine
  <2> QED
    BY <1>4, <2>2, <2>3
<1> QED
  BY <1>3, <1>4

(* What a flush sends first, as a head and what follows it.                  *)
LEMMA SentIs ==
  ASSUME NEW l \in Symbol, NEW h \in Seq(Symbol), NEW p \in Seq(Symbol)
  PROVE  (<<>> \o <<l>>) \o ((h \o <<Sym("blank")>>) \o p) = HeadOf(l, h) \o p
<1>1. PICK a, b : a = <<l>> /\ b = <<Sym("blank")>>
  OBVIOUS
<1>2. a \in Seq(Symbol) /\ b \in Seq(Symbol)
  BY <1>1, BlankIs
<1>3. <<>> \o a = a
  BY <1>2, ConcatEmptySeq
<1>4. h \o b \in Seq(Symbol)
  BY <1>2, ConcatProperties
<1>5. a \o ((h \o b) \o p) = (a \o (h \o b)) \o p
  BY <1>2, <1>4, ConcatAssociative
<1>6. a \o (h \o b) = (a \o h) \o b
  BY <1>2, ConcatAssociative, Z3
<1> QED
  BY ONLY <1>1, <1>3, <1>5, <1>6 DEF HeadOf

LEMMA PieceTypes ==
  ASSUME NEW b \in Seq(Symbol)
  PROVE  Piece(TRUE, b) \in Seq(Symbol) /\ Piece(FALSE, b) = b
<1>1. CASE b = <<>>
  BY <1>1 DEF Piece
<1>2. CASE b # <<>>
  <2>1. PICK n : n = Len(b) /\ n \in Nat
    OBVIOUS
  <2>2. SizeLine(n) \in Symbol /\ Sym("blank") \in Symbol
    BY <2>1, SizeLineIs, BlankIs
  <2>3. (<<SizeLine(n)>> \o b) \o <<Sym("blank")>> \in Seq(Symbol)
    BY <2>2, Framed
  <2> QED
    BY <1>2, <2>1, <2>3 DEF Piece
<1> QED
  BY <1>1, <1>2

LEMMA FramingIs ==
  ASSUME NEW hs \in Seq(HeadLine), NEW b \in Seq(Symbol)
  PROVE  /\ Framing(hs, TRUE, b) \in Seq(HeadLine) /\ Framing(hs, FALSE, b) \in Seq(HeadLine)
         /\ \E i \in 1..Len(Framing(hs, TRUE, b)) : Framing(hs, TRUE, b)[i].is = "chunked"
         /\ HasLength(hs) => HasLength(Framing(hs, TRUE, b))
         /\ HasLength(Framing(hs, FALSE, b))
<1>1. PICK c, l : c = Sym("chunked") /\ l = LengthLine(Len(b))
  OBVIOUS
<1>2. c \in HeadLine /\ c.is = "chunked" /\ l \in HeadLine /\ l.is = "length"
  BY <1>1 DEF Sym, LengthLine, HeadLine
<1>3. /\ Framing(hs, TRUE, b) = Append(hs, c)
      /\ Framing(hs, FALSE, b) = IF HasLength(hs) THEN hs ELSE Append(hs, l)
  BY <1>1 DEF Framing
<1>4. ASSUME NEW x \in HeadLine
      PROVE  /\ Append(hs, x) \in Seq(HeadLine) /\ Len(hs) \in Nat /\ Len(Append(hs, x)) = Len(hs) + 1
             /\ Append(hs, x)[Len(hs) + 1] = x /\ \A i \in 1..Len(hs) : Append(hs, x)[i] = hs[i]
  BY AppendProperties
<1>5. ASSUME NEW x \in HeadLine
      PROVE  /\ Append(hs, x) \in Seq(HeadLine)
             /\ \E i \in 1..Len(Append(hs, x)) : Append(hs, x)[i].is = x.is
             /\ HasLength(hs) => HasLength(Append(hs, x))
             /\ x.is = "length" => HasLength(Append(hs, x))
  <2>1. PICK a : a = Append(hs, x)
    OBVIOUS
  <2>2. /\ a \in Seq(HeadLine) /\ Len(hs) \in Nat /\ Len(a) = Len(hs) + 1
        /\ a[Len(hs) + 1] = x /\ \A i \in 1..Len(hs) : a[i] = hs[i]
    BY <1>4, <2>1
  <2>3. \E i \in 1..Len(a) : a[i].is = x.is
    BY <2>2
  <2>4. HasLength(hs) => HasLength(a)
    BY <2>2 DEF HasLength
  <2>5. x.is = "length" => HasLength(a)
    BY <2>3 DEF HasLength
  <2> QED
    BY ONLY <2>1, <2>2, <2>3, <2>4, <2>5
<1>6. /\ Framing(hs, TRUE, b) \in Seq(HeadLine)
      /\ \E i \in 1..Len(Framing(hs, TRUE, b)) : Framing(hs, TRUE, b)[i].is = "chunked"
      /\ HasLength(hs) => HasLength(Framing(hs, TRUE, b))
  BY <1>2, <1>3, <1>5
<1>7. Framing(hs, FALSE, b) \in Seq(HeadLine) /\ HasLength(Framing(hs, FALSE, b))
  BY <1>2, <1>3, <1>5
<1> QED
  BY ONLY <1>6, <1>7

LEMMA StillWriting == ASSUME alive', WriterTypes', BeingWritten' PROVE WriterInv'
BY DEF WriterInv, RoundTrip

LEMMA WriterInit == PackageInit => WriterInv
<1> SUFFICES ASSUME PackageInit PROVE WriterInv
  OBVIOUS
<1>1. <<>> \in Seq(PageByte) /\ <<>> \in Seq(WrittenByte) /\ <<>> \in Seq(HeadLine) /\ <<>> \in Seq(Symbol)
  BY EmptySeq
<1>2. WriterTypes
  <2>1. 0 \in 0..MaxCalls /\ Ok \in Statuses /\ Len(<<>>) <= Len(<<>>)
    BY PackageAssumption DEF Statuses
  <2> QED
    BY <1>1, <2>1 DEF PackageInit, WriterTypes
<1>3. BeingWritten
  BY <1>1, PackageAssumption DEF PackageInit, BeingWritten
<1> QED
  BY <1>2, <1>3 DEF WriterInv, PackageInit, RoundTrip

LEMMA WriteStep == ASSUME WriterInv, Write PROVE WriterInv'
<1>1. WriterTypes /\ BeingWritten /\ alive
  BY DEF WriterInv, Write
<1>2. PICK b : b = Byte(Len(written) + 1)
  OBVIOUS
<1>3. /\ Len(written) < MaxBody /\ alive' /\ written' = Append(written, b) /\ unsent' = Append(unsent, b)
      /\ UNCHANGED <<kind, headers, chunked, started, connected, status, named, sent, calls>>
  BY <1>1, <1>2 DEF Write
<1>4. /\ written \in Seq(WrittenByte) /\ unsent \in Seq(WrittenByte) /\ MaxBody \in Nat
      /\ Len(written) \in Nat /\ Len(unsent) \in Nat /\ Len(unsent) <= Len(written)
  BY <1>1, PackageAssumption DEF WriterTypes, BeingWritten
<1>5. b \in WrittenByte
  BY <1>2, <1>3, <1>4 DEF Byte, WrittenByte
<1>6. /\ written' \in Seq(WrittenByte) /\ unsent' \in Seq(WrittenByte)
      /\ Len(written') = Len(written) + 1 /\ Len(unsent') = Len(unsent) + 1
  BY <1>3, <1>4, <1>5, AppendProperties
<1>7. Len(unsent') <= Len(written') /\ Len(written') <= MaxBody
  BY <1>3, <1>4, <1>6
<1>8. written' \in Seq(PageByte)
  BY <1>6, LinesAreSymbols
<1>9. WriterTypes'
  BY <1>1, <1>3, <1>6, <1>7, <1>8 DEF WriterTypes
<1>10. ASSUME Open(sent, unsent, written) PROVE Open(sent, Append(unsent, b), Append(written, b))
  <2>1. PICK z \in Nat, out \in Seq(Symbol) : OpenAt(sent, z, out) /\ written = out \o unsent
    BY <1>10 DEF Open
  <2>2. b \in Symbol /\ unsent \in Seq(Symbol)
    <3>1. b \in Symbol
      BY <1>4, <1>5 DEF WrittenByte, Symbol
    <3>2. unsent \in Seq(Symbol)
      BY <1>4, LinesAreSymbols
    <3> QED
      BY <3>1, <3>2
  <2>3. <<b>> \in Seq(Symbol)
    BY <2>2
  <2>4. (out \o unsent) \o <<b>> = out \o (unsent \o <<b>>)
    BY <2>2, <2>3, ConcatAssociative
  <2>5. out \o unsent \in Seq(Symbol)
    BY <2>2, ConcatProperties
  <2>6. Append(out \o unsent, b) = (out \o unsent) \o <<b>> /\ Append(unsent, b) = unsent \o <<b>>
    BY <2>2, <2>5, AppendIsConcat
  <2>7. Append(written, b) = out \o Append(unsent, b)
    BY ONLY <2>1, <2>4, <2>6
  <2> QED
    BY <2>1, <2>7 DEF Open
<1>11. BeingWritten'
  BY <1>1, <1>3, <1>6, <1>7, <1>10 DEF BeingWritten
<1> QED
  BY <1>1, <1>3, <1>9, <1>11, StillWriting

(* The operations that leave the bytes alone, and every header that is a     *)
(* length where it is.                                                       *)
LEMMA HeadersKept ==
  ASSUME WriterInv, alive, alive', headers' \in Seq(HeadLine), HasLength(headers) => HasLength(headers'),
         connected' \in BOOLEAN, status' \in Statuses, named' \in BOOLEAN, calls' \in 0..MaxCalls,
         UNCHANGED <<kind, written, unsent, chunked, started, sent>>
  PROVE  WriterInv'
<1>1. WriterTypes /\ BeingWritten
  BY DEF WriterInv
<1>2. WriterTypes'
  BY <1>1 DEF WriterTypes
<1>3. BeingWritten'
  BY <1>1 DEF BeingWritten
<1> QED
  BY <1>2, <1>3, StillWriting

LEMMA AppHeaderIs == \A h \in AppHeaders : h \in HeadLine /\ h.is \in {"host", "length"}
BY PackageAssumption DEF AppHeaders, HeadLine, Sym, LengthLine

LEMMA HeaderAdded ==
  ASSUME NEW hs \in Seq(HeadLine), NEW h \in HeadLine
  PROVE  /\ Append(hs, h) \in Seq(HeadLine)
         /\ HasLength(hs) \/ h.is = "length" => HasLength(Append(hs, h))
<1>1. PICK a : a = Append(hs, h)
  OBVIOUS
<1>2. /\ a \in Seq(HeadLine) /\ Len(hs) \in Nat /\ Len(a) = Len(hs) + 1
      /\ a[Len(hs) + 1] = h /\ \A i \in 1..Len(hs) : a[i] = hs[i]
  BY <1>1, AppendProperties
<1>3. HasLength(hs) => HasLength(a)
  BY <1>2 DEF HasLength
<1>4. h.is = "length" => HasLength(a)
  BY <1>2 DEF HasLength
<1> QED
  BY <1>1, <1>2, <1>3, <1>4

LEMMA AddHeaderStep == ASSUME WriterInv, NEW h \in AppHeaders, AddHeader(h) PROVE WriterInv'
<1>1. /\ alive /\ calls \in 0..MaxCalls /\ calls < MaxCalls /\ calls' = calls + 1
      /\ headers' = Append(headers, h) /\ headers \in Seq(HeadLine) /\ WriterTypes
      /\ UNCHANGED <<kind, written, unsent, chunked, started, connected, status, named, sent, alive>>
  BY DEF WriterInv, WriterTypes, AddHeader
<1>2. calls' \in 0..MaxCalls
  BY <1>1, PackageAssumption
<1>3. headers' \in Seq(HeadLine) /\ (HasLength(headers) => HasLength(headers'))
  BY <1>1, AppHeaderIs, HeaderAdded
<1> QED
  BY <1>1, <1>2, <1>3, HeadersKept DEF WriterTypes

LEMMA SetHeaderStep == ASSUME WriterInv, NEW h \in AppHeaders, SetHeader(h) PROVE WriterInv'
<1>1. /\ alive /\ calls \in 0..MaxCalls /\ calls < MaxCalls /\ calls' = calls + 1
      /\ headers' = Append(DelHeader(headers, h.is), h) /\ headers \in Seq(HeadLine) /\ WriterTypes
      /\ UNCHANGED <<kind, written, unsent, chunked, started, connected, status, named, sent, alive>>
  BY DEF WriterInv, WriterTypes, SetHeader
<1>2. calls' \in 0..MaxCalls
  BY <1>1, PackageAssumption
<1>3. PICK d, name : d = DelHeader(headers, h.is) /\ name = h.is
  OBVIOUS
<1>4. d \in Seq(HeadLine) /\ (name # "length" /\ HasLength(headers) => HasLength(d))
  <2>1. DelHeader(headers, name) \in Seq(HeadLine)
    <3>1. "chunked" # name
      BY <1>3, AppHeaderIs
    <3> QED
      BY <1>1, <3>1, DelHeaderKeeps
  <2>2. ASSUME name # "length", HasLength(headers) PROVE HasLength(DelHeader(headers, name))
    <3>1. Has(headers, "length")
      BY <2>2 DEF HasLength, Has
    <3>2. Has(DelHeader(headers, name), "length")
      BY <1>1, <2>2, <3>1, DelHeaderKeeps
    <3> QED
      BY <3>2 DEF HasLength, Has
  <2> QED
    BY <1>3, <2>1, <2>2
<1>5. h \in HeadLine
  BY AppHeaderIs
<1>6. headers' = Append(d, h)
  BY <1>1, <1>3
<1>7. headers' \in Seq(HeadLine) /\ (HasLength(d) \/ h.is = "length" => HasLength(headers'))
  BY <1>4, <1>5, <1>6, HeaderAdded
<1>8. HasLength(headers) => HasLength(headers')
  BY ONLY <1>3, <1>4, <1>7
<1> QED
  BY <1>1, <1>2, <1>7, <1>8, HeadersKept DEF WriterTypes

LEMMA PlainStep ==
  ASSUME WriterInv, SetStatus \/ SetMessage \/ Discard
  PROVE  WriterInv'
<1>1. WriterTypes
  BY DEF WriterInv
<1>2. CASE SetStatus
  BY <1>1, <1>2, HeadersKept DEF SetStatus, WriterTypes
<1>3. CASE SetMessage
  BY <1>1, <1>3, HeadersKept DEF SetMessage, WriterTypes
<1>4. CASE Discard
  BY <1>1, <1>4, HeadersKept DEF Discard, WriterTypes
<1> QED
  BY <1>2, <1>3, <1>4

(* The first flush sends the head, and any flush what is in the body.        *)
LEMMA FlushStep == ASSUME WriterInv, Flush PROVE WriterInv'
<1>1. WriterTypes /\ BeingWritten
  BY DEF WriterInv, Flush
<1>2. PICK p, h : p = Piece(TRUE, unsent) /\ h = Framing(headers, TRUE, unsent)
  OBVIOUS
<1>3. /\ alive /\ alive' /\ calls < MaxCalls /\ calls' = calls + 1
      /\ sent' = (sent \o (IF chunked THEN <<>> ELSE StartLine)) \o
                   ((IF started THEN <<>> ELSE h \o <<Sym("blank")>>) \o p)
      /\ headers' = (IF started THEN headers ELSE h) /\ unsent' = <<>>
      /\ chunked' = TRUE /\ started' = TRUE
      /\ UNCHANGED <<kind, written, connected, status, named>>
  BY <1>2 DEF Flush, Flushed
<1>4. /\ written \in Seq(WrittenByte) /\ unsent \in Seq(WrittenByte) /\ written \in Seq(PageByte)
      /\ Len(written) \in Nat /\ Len(unsent) \in Nat /\ Len(unsent) <= Len(written)
      /\ Len(written) <= MaxBody /\ MaxBody \in Nat /\ (started <=> chunked)
      /\ chunked \in BOOLEAN /\ headers \in Seq(HeadLine) /\ sent \in Seq(Symbol)
  BY <1>1, PackageAssumption DEF WriterTypes, BeingWritten
<1>5. unsent \in Seq(Symbol) /\ p \in Seq(Symbol) /\ Len(unsent) <= MaxBody
  <2>1. unsent \in Seq(Symbol)
    BY <1>4, LinesAreSymbols
  <2>2. Piece(TRUE, unsent) \in Seq(Symbol)
    BY <2>1, PieceTypes
  <2>3. Len(unsent) <= MaxBody
    BY <1>4
  <2> QED
    BY ONLY <1>2, <2>1, <2>2, <2>3
<1>6. /\ sent' \in Seq(Symbol) /\ headers' \in Seq(HeadLine)
      /\ ~HasLength(headers') => Open(sent', <<>>, written)
  <2>1. CASE chunked
    <3>1. sent' = (sent \o <<>>) \o (<<>> \o p) /\ headers' = headers
      BY <1>3, <1>4, <2>1
    <3>2. sent \o <<>> = sent /\ <<>> \o p = p
      BY <1>4, <1>5, ConcatEmptySeq
    <3>3. sent' = sent \o p
      BY ONLY <3>1, <3>2
    <3>4. sent \o p \in Seq(Symbol)
      BY <1>4, <1>5, ConcatProperties
    <3>5. ASSUME ~HasLength(headers) PROVE Open(sent \o p, <<>>, written)
      <4>1. Open(sent, unsent, written)
        BY <1>1, <2>1, <3>5 DEF BeingWritten
      <4>2. PICK z \in Nat, out \in Seq(Symbol) : OpenAt(sent, z, out) /\ written = out \o unsent
        BY <4>1 DEF Open
      <4>3. OpenAt(sent \o p, z, out \o unsent)
        BY <1>2, <1>4, <1>5, <4>2, OpenSends
      <4>4. out \o unsent \in Seq(Symbol)
        BY <1>5, ConcatProperties
      <4>5. (out \o unsent) \o <<>> = out \o unsent
        BY <4>4, ConcatEmptySeq
      <4>6. written = (out \o unsent) \o <<>>
        BY ONLY <4>2, <4>5
      <4> QED
        BY <4>3, <4>4, <4>6 DEF Open
    <3> QED
      BY <1>4, <3>1, <3>3, <3>4, <3>5
  <2>2. CASE ~chunked
    <3>1. PICK l \in Symbol : StartLine = <<l>> /\ l.is = "request"
      BY <1>1, StartLineIs
    <3>2. sent = <<>> /\ unsent = written
      BY <1>1, <2>2 DEF BeingWritten
    <3>3. /\ h \in Seq(HeadLine) /\ \E i \in 1..Len(h) : h[i].is = "chunked"
      BY <1>2, <1>4, <1>5, FramingIs
    <3>4. h \in Seq(Symbol)
      BY <3>3, LinesAreSymbols
    <3>5. sent' = (<<>> \o <<l>>) \o ((h \o <<Sym("blank")>>) \o p) /\ headers' = h
      BY ONLY <1>3, <1>4, <2>2, <3>1, <3>2
    <3>6. (<<>> \o <<l>>) \o ((h \o <<Sym("blank")>>) \o p) = HeadOf(l, h) \o p
      BY <1>5, <3>4, SentIs
    <3>7. HeadOf(l, h) \in Seq(Symbol)
      BY <3>3, HeadIs
    <3>8. HeadOf(l, h) \o p \in Seq(Symbol)
      BY <1>5, <3>7, ConcatProperties
    <3>9. ASSUME ~HasLength(h) PROVE Open(HeadOf(l, h) \o p, <<>>, written)
      <4>1. \A i \in 1..Len(h) : h[i].is # "length"
        BY <3>9 DEF HasLength
      <4>2. OpenAt(HeadOf(l, h), Len(HeadOf(l, h)), <<>>)
        BY <3>1, <3>3, <4>1, OpenHead
      <4>3. Len(HeadOf(l, h)) \in Nat /\ <<>> \in Seq(Symbol)
        BY <3>7
      <4>4. PICK s, z : s = HeadOf(l, h) /\ z = Len(HeadOf(l, h))
        OBVIOUS
      <4>5. s \in Seq(Symbol) /\ z \in Nat /\ OpenAt(s, z, <<>>)
        BY ONLY <3>7, <4>2, <4>3, <4>4
      <4>6. OpenAt(s \o p, z, <<>> \o unsent)
        BY <1>2, <1>5, <4>3, <4>5, OpenSends
      <4>7. <<>> \o unsent = unsent /\ unsent \o <<>> = unsent
        BY <1>5, ConcatEmptySeq
      <4>8. OpenAt(s \o p, z, unsent) /\ written = unsent \o <<>>
        BY ONLY <3>2, <4>6, <4>7
      <4>9. Open(s \o p, <<>>, written)
        BY <1>5, <4>5, <4>8 DEF Open
      <4> QED
        BY ONLY <4>4, <4>9
    <3> QED
      BY <3>3, <3>5, <3>6, <3>8, <3>9
  <2> QED
    BY <1>4, <2>1, <2>2
<1>7. calls' \in 0..MaxCalls
  BY <1>1, <1>3, PackageAssumption DEF WriterTypes
<1>8. unsent' \in Seq(WrittenByte) /\ Len(unsent') <= Len(written')
  BY <1>3, <1>4
<1>9. WriterTypes'
  BY <1>1, <1>3, <1>6, <1>7, <1>8 DEF WriterTypes
<1>10. BeingWritten'
  BY <1>3, <1>4, <1>6 DEF BeingWritten
<1> QED
  BY <1>3, <1>9, <1>10, StillWriting

(* The destructors.  What the whole message reads as is what it was written  *)
(* as, the stock page included.                                              *)
LEMMA DestroyWholeStep == ASSUME WriterInv, DestroyWhole PROVE WriterInv'
<1>1. WriterTypes /\ BeingWritten
  BY DEF WriterInv, DestroyWhole
<1>2. /\ kind \in {"request", "response"}
      /\ written \in Seq(WrittenByte) /\ unsent \in Seq(WrittenByte) /\ MaxBody \in Nat
      /\ started = FALSE /\ chunked = FALSE /\ sent = <<>> /\ unsent = written
      /\ headers \in Seq(HeadLine) /\ status \in Statuses
  BY <1>1, PackageAssumption DEF WriterTypes, BeingWritten, DestroyWhole
<1>3. PICK b : b = IF kind = "response" /\ status # Ok /\ unsent = <<>> THEN StatusBody(status) ELSE unsent
  OBVIOUS
<1>4. PICK h : h = Framing(headers, FALSE, b)
  OBVIOUS
<1>5. /\ ~alive' /\ started' = TRUE
      /\ sent' = (sent \o StartLine) \o ((h \o <<Sym("blank")>>) \o Piece(FALSE, b))
      /\ headers' = h /\ unsent' = <<>>
      /\ written' = IF unsent = <<>> THEN b ELSE written
      /\ UNCHANGED <<kind, chunked, connected, status, named, calls>>
  BY <1>2, <1>3, <1>4 DEF DestroyWhole, Flushed
<1>6. PICK l \in Symbol :
        /\ StartLine = <<l>> /\ l.is = "request"
        /\ kind = "response" =>
             l.n = IF named /\ status # NoStatus THEN status ELSE StatusHead(status)
  BY <1>1, StartLineIs
<1>7. /\ b \in Seq(PageByte)
      /\ \A i \in 1..Len(b) : b[i].n > MaxBody =>
           /\ kind = "response" /\ Len(b) = 1 /\ l.n # Ok
           /\ l.n \in Listed => b[1] = Page(l.n)
  <2>1. CASE kind = "response" /\ status # Ok /\ unsent = <<>>
    <3>1. PICK y : y = Page(StatusHead(status)) /\ b = <<y>>
      BY <1>3, <2>1 DEF StatusBody
    <3>2. StatusHead(status) \in Nat /\ y \in PageByte
      <4>1. StatusHead(status) \in Nat
        BY <1>2 DEF StatusHead, Listed, Ok, Not_Found, Internal_Server_Error
      <4> QED
        BY <1>2, <3>1, <4>1 DEF Page, Byte, PageByte
    <3>3. b \in Seq(PageByte) /\ Len(b) = 1 /\ b[1] = y
      BY <3>1, <3>2
    <3>4. l.n # Ok /\ (l.n \in Listed => StatusHead(l.n) = StatusHead(status))
      BY <1>2, <1>6, <2>1
         DEF StatusHead, Listed, Statuses, Ok, Not_Found, Internal_Server_Error, NoStatus,
             Method_Not_Allowed
    <3>5. l.n \in Listed => StatusHead(l.n) = l.n
      BY DEF StatusHead
    <3>6. l.n \in Listed => b[1] = Page(l.n)
      BY <3>1, <3>3, <3>4, <3>5
    <3> QED
      BY <2>1, <3>3, <3>4, <3>6
  <2>2. CASE ~(kind = "response" /\ status # Ok /\ unsent = <<>>)
    <3>1. b \in Seq(WrittenByte)
      BY <1>2, <1>3, <2>2
    <3>2. ASSUME NEW i \in 1..Len(b) PROVE ~(b[i].n > MaxBody)
      <4>1. b[i] \in WrittenByte
        BY <3>1, ElementOfSeq
      <4> QED
        BY <1>2, <4>1 DEF WrittenByte
    <3> QED
      BY <3>1, <3>2, LinesAreSymbols
  <2> QED
    BY <2>1, <2>2
<1>8. b \in Seq(Symbol) /\ written' = b
  <2>1. b \in Seq(Symbol)
    BY <1>7, LinesAreSymbols
  <2>2. CASE unsent = <<>>
    BY <1>5, <2>1, <2>2
  <2>3. CASE unsent # <<>>
    BY <1>2, <1>3, <1>5, <2>1, <2>3
  <2> QED
    BY <2>2, <2>3
<1>9. h \in Seq(HeadLine) /\ HasLength(h) /\ h \in Seq(Symbol)
  <2>1. h \in Seq(HeadLine) /\ HasLength(h)
    BY <1>2, <1>4, <1>8, FramingIs
  <2> QED
    BY <2>1, LinesAreSymbols
<1>10. sent' = HeadOf(l, h) \o b
  <2>1. Piece(FALSE, b) = b
    BY <1>8, PieceTypes
  <2>2. (<<>> \o <<l>>) \o ((h \o <<Sym("blank")>>) \o b) = HeadOf(l, h) \o b
    BY <1>8, <1>9, SentIs
  <2> QED
    BY ONLY <1>2, <1>5, <1>6, <2>1, <2>2
<1>11. sent' \in Seq(Symbol) /\ sent'[1] = l
  <2>1. /\ HeadOf(l, h) \in Seq(Symbol) /\ HeadOf(l, h)[1] = l
        /\ HeadEndsAt(HeadOf(l, h), Len(HeadOf(l, h)))
    BY <1>9, HeadIs
  <2>2. (HeadOf(l, h) \o b)[1] = HeadOf(l, h)[1]
    BY <1>8, <2>1, HeadStays
  <2>3. HeadOf(l, h) \o b \in Seq(Symbol)
    BY <1>8, <2>1, ConcatProperties
  <2> QED
    BY ONLY <1>10, <2>1, <2>2, <2>3
<1>12. Headers(h, "length", 1).out # <<>>
  BY <1>9, HeadersFind DEF HasLength
<1>13. ASSUME Headers(h, "length", 1).out[1] = Len(b)
       PROVE  Message(sent', MaxBody, 1) = WellFormed(b, Len(sent') + 1)
  <2>1. Message(HeadOf(l, h) \o b, MaxBody, 1) = WellFormed(b, Len(HeadOf(l, h) \o b) + 1)
    <3>1. ReadAs(HeadOf(l, h) \o b, b)
      BY ONLY <1>6, <1>8, <1>9, <1>12, <1>13, WholeReads
    <3> QED
      BY <3>1 DEF ReadAs
  <2> QED
    BY ONLY <1>10, <2>1
<1>14. WriterTypes'
  <2>1. unsent' \in Seq(WrittenByte) /\ Len(unsent') <= Len(written')
    BY <1>5, <1>8
  <2>2. alive' \in BOOLEAN
    BY DEF DestroyWhole
  <2> QED
    BY <1>1, <1>5, <1>7, <1>8, <1>9, <1>11, <2>1, <2>2 DEF WriterTypes
<1>15. RoundTrip'
  <2> SUFFICES ASSUME (Lengths = <<>> \/ (~chunked /\ Lengths[1] = Len(written)))'
               PROVE  (AsRead.ok /\ AsRead.body = written /\ AsRead.next = Len(sent) + 1
                        /\ \A i \in 1..Len(AsRead.body) : AsRead.body[i].n > MaxBody =>
                             /\ kind = "response" /\ ~chunked /\ Len(AsRead.body) = 1
                             /\ sent[1].n # Ok
                             /\ sent[1].n \in Listed => AsRead.body[1] = Page(sent[1].n))'
    BY DEF RoundTrip
  <2>1. Lengths' = Headers(h, "length", 1).out
    BY <1>5 DEF Lengths
  <2>2. Headers(h, "length", 1).out[1] = Len(b)
    BY <1>8, <1>12, <2>1
  <2>3. AsRead' = WellFormed(b, Len(sent') + 1)
    BY <1>13, <2>2 DEF AsRead
  <2>4. AsRead'.ok /\ AsRead'.body = b /\ AsRead'.next = Len(sent') + 1
    BY <2>3 DEF WellFormed
  <2> QED
    BY <1>2, <1>5, <1>7, <1>8, <1>11, <2>4
<1> QED
  BY <1>5, <1>14, <1>15 DEF WriterInv

LEMMA DestroyChunkedStep == ASSUME WriterInv, DestroyChunked PROVE WriterInv'
<1>1. WriterTypes /\ BeingWritten
  BY DEF WriterInv, DestroyChunked
<1>2. /\ written \in Seq(WrittenByte) /\ unsent \in Seq(WrittenByte) /\ MaxBody \in Nat
      /\ Len(written) \in Nat /\ Len(unsent) \in Nat /\ Len(unsent) <= Len(written)
      /\ Len(written) <= MaxBody /\ started = TRUE /\ chunked = TRUE
      /\ headers \in Seq(HeadLine) /\ sent \in Seq(Symbol)
  BY <1>1, PackageAssumption DEF WriterTypes, BeingWritten, DestroyChunked
<1>3. PICK p : p = Piece(TRUE, unsent)
  OBVIOUS
<1>4. /\ ~alive' /\ unsent' = <<>>
      /\ sent' = ((sent \o (<<>> \o p)) \o LastChunk) \o (<<>> \o <<>>)
      /\ UNCHANGED <<kind, written, headers, chunked, started, connected, status, named, calls>>
  BY <1>2, <1>3 DEF DestroyChunked, Flushed, Piece
<1>5. unsent \in Seq(Symbol) /\ p \in Seq(Symbol) /\ Len(unsent) <= MaxBody
  <2>1. unsent \in Seq(Symbol)
    BY <1>2, LinesAreSymbols
  <2>2. Piece(TRUE, unsent) \in Seq(Symbol)
    BY <2>1, PieceTypes
  <2>3. Len(unsent) <= MaxBody
    BY <1>2
  <2> QED
    BY ONLY <1>3, <2>1, <2>2, <2>3
<1>6. LastChunk \in Seq(Symbol)
  BY BlankIs, SizeLineIs DEF LastChunk
<1>7. PICK s : s = sent \o p
  OBVIOUS
<1>8. s \in Seq(Symbol)
  BY <1>2, <1>5, <1>7, ConcatProperties
<1>9. sent' = s \o LastChunk /\ sent' \in Seq(Symbol)
  <2>1. <<>> \o p = p
    BY <1>5, ConcatEmptySeq
  <2>2. s \o LastChunk \in Seq(Symbol)
    BY <1>6, <1>8, ConcatProperties
  <2>3. (s \o LastChunk) \o <<>> = s \o LastChunk
    BY <2>2, ConcatEmptySeq
  <2>4. <<>> \o <<>> = <<>>
    BY EmptySeq, ConcatEmptySeq
  <2> QED
    BY ONLY <1>4, <1>7, <2>1, <2>2, <2>3, <2>4
<1>10. ASSUME ~HasLength(headers) PROVE Message(sent', MaxBody, 1) = WellFormed(written, Len(sent') + 1)
  <2>1. Open(sent, unsent, written)
    BY <1>1, <1>2, <1>10 DEF BeingWritten
  <2>2. PICK z \in Nat, out \in Seq(Symbol) : OpenAt(sent, z, out) /\ written = out \o unsent
    BY <2>1 DEF Open
  <2>3. OpenAt(sent \o Piece(TRUE, unsent), z, out \o unsent)
    BY <1>2, <1>5, <2>2, OpenSends
  <2>4. OpenAt(s, z, written)
    BY ONLY <1>3, <1>7, <2>2, <2>3
  <2>5. written \in Seq(Symbol)
    BY <1>2, LinesAreSymbols
  <2>6. Message(s \o LastChunk, MaxBody, 1) = WellFormed(written, Len(s \o LastChunk) + 1)
    BY <1>8, <2>4, <2>5, OpenEnds
  <2> QED
    BY ONLY <1>9, <2>6
<1>11. WriterTypes'
  <2>1. unsent' \in Seq(WrittenByte) /\ Len(unsent') <= Len(written')
    BY <1>2, <1>4
  <2>2. alive' \in BOOLEAN
    BY DEF DestroyChunked
  <2> QED
    BY <1>1, <1>4, <1>9, <2>1, <2>2 DEF WriterTypes
<1>12. \A i \in 1..Len(written) : ~(written[i].n > MaxBody)
  <2>1. ASSUME NEW i \in 1..Len(written) PROVE ~(written[i].n > MaxBody)
    <3>1. written[i] \in WrittenByte
      BY <1>2, ElementOfSeq
    <3> QED
      BY <1>2, <3>1 DEF WrittenByte
  <2> QED
    BY <2>1
<1>13. RoundTrip'
  <2> SUFFICES ASSUME (Lengths = <<>>)'
               PROVE  (AsRead.ok /\ AsRead.body = written /\ AsRead.next = Len(sent) + 1
                        /\ \A i \in 1..Len(AsRead.body) : ~(AsRead.body[i].n > MaxBody))'
    BY <1>2, <1>4 DEF RoundTrip
  <2>1. ~HasLength(headers)
    BY <1>2, <1>4, HeadersFind DEF Lengths, HasLength
  <2>2. AsRead' = WellFormed(written, Len(sent') + 1)
    BY <1>10, <2>1 DEF AsRead
  <2>3. AsRead'.ok /\ AsRead'.body = written /\ AsRead'.next = Len(sent') + 1
    BY <2>2 DEF WellFormed
  <2> QED
    BY <1>4, <1>12, <2>3
<1> QED
  BY <1>4, <1>11, <1>13 DEF WriterInv

LEMMA DestroyDetachedStep == ASSUME WriterInv, DestroyDetached PROVE WriterInv'
<1>1. WriterTypes'
  BY DEF WriterInv, WriterTypes, DestroyDetached
<1>2. ~alive' /\ ~connected'
  BY DEF DestroyDetached
<1> QED
  BY <1>1, <1>2 DEF WriterInv, RoundTrip

LEMMA WriterStutters == ASSUME WriterInv, UNCHANGED packageVars PROVE WriterInv'
BY DEF packageVars, WriterInv, WriterTypes, BeingWritten, RoundTrip, AsRead, Lengths

LEMMA WriterInvStep == WriterInv /\ [PackageNext]_packageVars => WriterInv'
<1> SUFFICES ASSUME WriterInv, [PackageNext]_packageVars PROVE WriterInv'
  OBVIOUS
<1>1. CASE Write
  BY <1>1, WriteStep
<1>2. CASE SetStatus \/ SetMessage \/ Discard
  BY <1>2, PlainStep
<1>3. CASE Flush
  BY <1>3, FlushStep
<1>4. ASSUME NEW h \in AppHeaders, SetHeader(h) PROVE WriterInv'
  BY <1>4, SetHeaderStep
<1>5. ASSUME NEW h \in AppHeaders, AddHeader(h) PROVE WriterInv'
  BY <1>5, AddHeaderStep
<1>6. CASE DestroyWhole
  BY <1>6, DestroyWholeStep
<1>7. CASE DestroyChunked
  BY <1>7, DestroyChunkedStep
<1>8. CASE DestroyDetached
  BY <1>8, DestroyDetachedStep
<1>9. CASE UNCHANGED packageVars
  BY <1>9, WriterStutters
<1> QED
  BY <1>1, <1>2, <1>3, <1>4, <1>5, <1>6, <1>7, <1>8, <1>9 DEF PackageNext

LEMMA WriterHolds == PackageSpec => []WriterInv
BY WriterInit, WriterInvStep, PTL DEF PackageSpec

LEMMA WriterTypesHold == WriterInv => PackageTypeOK
<1> SUFFICES ASSUME WriterInv PROVE PackageTypeOK
  OBVIOUS
<1>1. WriterTypes /\ (alive => (started <=> chunked))
  BY DEF WriterInv, BeingWritten
<1>2. ASSUME NEW i \in 1..Len(written) PROVE written[i].is = "byte"
  <2>1. written[i] \in PageByte
    BY <1>1, ElementOfSeq DEF WriterTypes
  <2> QED
    BY <2>1 DEF PageByte
<1>3. ASSUME NEW i \in 1..Len(headers) PROVE headers[i].is \in {"host", "length", "chunked"}
  <2>1. headers[i] \in HeadLine
    BY <1>1, ElementOfSeq DEF WriterTypes
  <2> QED
    BY <2>1 DEF HeadLine
<1> QED
  BY <1>1, <1>2, <1>3 DEF WriterTypes, PackageTypeOK

LEMMA EndsLast == WriterInv => NoEarlyEnd
<1> SUFFICES ASSUME WriterInv, alive, Lengths = <<>> PROVE ~AsRead.ok
  BY DEF NoEarlyEnd
<1>1. WriterTypes /\ BeingWritten
  BY DEF WriterInv
<1>2. headers \in Seq(HeadLine) /\ sent \in Seq(Symbol)
  BY <1>1 DEF WriterTypes
<1>3. ~HasLength(headers)
  BY <1>2, HeadersFind DEF Lengths, HasLength
<1>4. CASE chunked
  <2>1. Open(sent, unsent, written)
    BY <1>1, <1>3, <1>4 DEF BeingWritten
  <2>2. PICK z \in Nat, out \in Seq(Symbol) : OpenAt(sent, z, out)
    BY <2>1 DEF Open
  <2> QED
    BY <1>2, <2>2, OpenNotOk DEF AsRead
<1>5. CASE ~chunked
  <2>1. sent = <<>>
    BY <1>1, <1>5 DEF BeingWritten
  <2>2. 1 \notin 1..Len(sent)
    BY <2>1
  <2>3. AsRead = Malformed
    BY <2>2 DEF AsRead, Message
  <2> QED
    BY <2>3 DEF Malformed
<1> QED
  BY <1>4, <1>5

(* However a message was written, flushed and given headers, for any number  *)
(* of bytes and calls: what is on the wire when its destructor has run reads *)
(* as that one message with that body, if the framing was left to the        *)
(* library or the first length is right; and before that it does not read as *)
(* a message at all (package.cc:11, response.cc:278).                        *)
THEOREM WrittenReadsBack == PackageSpec => []ReadsAsWritten
<1>1. WriterInv => ReadsAsWritten
  BY WriterTypesHold, EndsLast DEF WriterInv, ReadsAsWritten
<1> QED
  BY <1>1, WriterHolds, PTL
=============================================================================
