------------------------------ MODULE ServerProofs ------------------------------
(***************************************************************************)
(* Theorems about the server (server.cc): Session, the requests and the    *)
(* answers of one connection, for any number of workers, requests and      *)
(* flushes; and at the end Acceptor, how connections come to be served.    *)
(***************************************************************************)
EXTENDS Session, Acceptor, SequenceTheorems, FiniteSetTheorems, TLAPS

(* The inductive invariant.  Requests are taken in the order of their        *)
(* delivery, so those taken are 1..Taken.                                    *)
Taken == parsed - Len(tasks)
Queue ==
  /\ Taken \in Nat
  /\ \A i \in 1..Len(tasks) : tasks[i] = Taken + i

(* What a response in each of its states still has to send, and with it what *)
(* it has sent.                                                              *)
TodoFits(x) ==
  x.todo \in IF ~x.dropping
               THEN IF x.flushes = 0 THEN {<<>>} ELSE {<<>>, <<"more">>, <<"first", "more">>}
               ELSE IF x.flushes = 0
                      THEN {<<>>, <<"last">>, <<"first", "last">>}
                      ELSE {<<>>, <<"empty">>, <<"last", "empty">>, <<"more", "last", "empty">>}
Begun(x) == (x.flushes # 0 \/ x.dropping) /\ (x.todo # <<>> => x.todo[1] # "first")
Ended(x) == x.dropping /\ x.todo \in {<<>>, <<"empty">>}

Lifetimes ==
  \A r \in Req :
    /\ res[r].attached /\ TodoFits(res[r])
    /\ r > Taken => res[r] = NoResponse
    /\ r <= Taken /\ res[r].owner = "none" => Ended(res[r]) /\ res[r].todo = <<>>
    /\ res[r].owner \in Workers => doing[res[r].owner] = r
    /\ res[r].owner = "kept" => kept

(* What was given to the connection, as long as it is not stopped.           *)
Out == wire \o writes
Has(s, p) == \E i \in 1..Len(s) : s[i] = p
Wrote(s, r, x) ==
  /\ Begun(x) => Has(s, Piece(r, "first"))
  /\ ~Begun(x) => \A i \in 1..Len(s) : s[i].of # r
  /\ Ended(x) <=> Has(s, Piece(r, "last"))
Sent == ~stopped => \A r \in Req : Wrote(Out, r, res[r])

(* A client that waits has its answers; a single worker has one response.    *)
Waits == ~hasty => \A r \in 1..sent - 1 : Answered(r)
Single == Cardinality(Workers) = 1 /\ ~kept
Alone == Single => \A r \in Req : res[r].owner # "none" => r = Taken

Ordered == ~hasty \/ Single => InOrder(wire) /\ (~stopped => InOrder(Out))

IInv == TypeOK /\ Queue /\ Lifetimes /\ Sent /\ Waits /\ Alone /\ Ordered


-----------------------------------------------------------------------------
(* Sequences of strings.                                                     *)
LEMMA HasAppend ==
  ASSUME NEW S, NEW s \in Seq(S), NEW p \in S
  PROVE  /\ Append(s, p) \in Seq(S) /\ Len(Append(s, p)) = Len(s) + 1
         /\ Append(s, p)[Len(s) + 1] = p
         /\ \A i \in 1..Len(s) : Append(s, p)[i] = s[i]
         /\ \A q : Has(Append(s, p), q) <=> Has(s, q) \/ q = p
<1>1. /\ Append(s, p) \in Seq(S) /\ Len(Append(s, p)) = Len(s) + 1
      /\ Append(s, p)[Len(s) + 1] = p
      /\ \A i \in 1..Len(s) : Append(s, p)[i] = s[i]
  BY AppendProperties
<1>a. PICK n \in Nat : n = Len(s)
  BY LenProperties
<1>b. PICK t \in Seq(S) : t = Append(s, p)
  BY ONLY <1>1
<1>2. n = Len(s) /\ t = Append(s, p)
  BY ONLY <1>a, <1>b
<1>3. \A q : Has(t, q) <=> Has(s, q) \/ q = p
  <2> SUFFICES ASSUME NEW q PROVE Has(t, q) <=> Has(s, q) \/ q = p
    OBVIOUS
  <2>1. ASSUME Has(t, q) PROVE Has(s, q) \/ q = p
    <3>1. PICK i \in 1..n + 1 : t[i] = q
      BY <1>1, <1>2, <2>1 DEF Has
    <3> QED
      BY <1>1, <1>2, <3>1 DEF Has
  <2>2. ASSUME Has(s, q) PROVE Has(t, q)
    <3>1. PICK i \in 1..n : s[i] = q
      BY <1>2, <2>2 DEF Has
    <3>2. i \in 1..n + 1 /\ t[i] = q
      BY <1>1, <1>2, <3>1
    <3> QED
      BY <1>1, <1>2, <3>2 DEF Has
  <2>3. ASSUME q = p PROVE Has(t, q)
    <3>1. n + 1 \in 1..n + 1 /\ t[n + 1] = q
      BY <1>1, <1>2, <2>3
    <3> QED
      BY <1>1, <1>2, <3>1 DEF Has
  <2> QED
    BY <2>1, <2>2, <2>3
<1> QED
  BY <1>1, <1>2, <1>3

(* A queue is its front and the rest.                                        *)
LEMMA HeadAndTail ==
  ASSUME NEW S, NEW s \in Seq(S), s # <<>>
  PROVE  /\ Head(s) \in S /\ Tail(s) \in Seq(S) /\ Head(s) = s[1] /\ Len(Tail(s)) = Len(s) - 1
         /\ \A i \in 1..Len(s) - 1 : Tail(s)[i] = s[i + 1]
         /\ s = <<Head(s)>> \o Tail(s)
<1>1. /\ Head(s) \in S /\ Tail(s) \in Seq(S) /\ Head(s) = s[1] /\ Len(Tail(s)) = Len(s) - 1
      /\ \A i \in 1..Len(s) - 1 : Tail(s)[i] = s[i + 1]
  BY HeadTailProperties
<1>2. s = <<Head(s)>> \o Tail(s)
  BY HeadTailProperties, ConcatProperties
<1> QED
  BY <1>1, <1>2

(* Writing appends to what is on the wire and queued; sending moves the      *)
(* seam.                                                                     *)
LEMMA OutGrows ==
  ASSUME NEW S, NEW s \in Seq(S), NEW t \in Seq(S), NEW p \in S
  PROVE  s \o Append(t, p) = Append(s \o t, p)
<1>1. Append(t, p) = t \o <<p>>
  BY AppendIsConcat
<1>2. s \o t \in Seq(S)
  BY ConcatProperties
<1>3. Append(s \o t, p) = (s \o t) \o <<p>>
  BY <1>2, AppendIsConcat
<1>4. <<p>> \in Seq(S)
  OBVIOUS
<1>5. (s \o t) \o <<p>> = s \o (t \o <<p>>)
  BY <1>4, ConcatAssociative
<1> QED
  BY ONLY <1>1, <1>3, <1>5

LEMMA OutMoves ==
  ASSUME NEW S, NEW s \in Seq(S), NEW t \in Seq(S), t # <<>>
  PROVE  Append(s, Head(t)) \o Tail(t) = s \o t
<1>0. Head(t) \in S /\ Tail(t) \in Seq(S) /\ t = <<Head(t)>> \o Tail(t)
  BY HeadAndTail
<1>a. PICK h \in S : h = Head(t)
  BY ONLY <1>0
<1>b. PICK r \in Seq(S) : r = Tail(t)
  BY ONLY <1>0
<1>1. h = Head(t) /\ r = Tail(t) /\ t = <<h>> \o r
  BY ONLY <1>0, <1>a, <1>b
<1>2. Append(s, h) = s \o <<h>>
  BY AppendIsConcat
<1>3. <<h>> \in Seq(S)
  OBVIOUS
<1>4. (s \o <<h>>) \o r = s \o (<<h>> \o r)
  BY <1>3, ConcatAssociative
<1> QED
  BY ONLY <1>1, <1>2, <1>4

(* What begins an ordered sequence is ordered.                               *)
LEMMA StartInOrder ==
  ASSUME NEW S, NEW s \in Seq(S), NEW t \in Seq(S), InOrder(s \o t)
  PROVE  InOrder(s)
<1>a. PICK n \in Nat : n = Len(s)
  BY LenProperties
<1>b. PICK m \in Nat : m = Len(t)
  BY LenProperties
<1>c. s \o t \in Seq(S) /\ Len(s \o t) = Len(s) + Len(t)
  BY ConcatProperties
<1>d. \A i \in 1..Len(s) : (s \o t)[i] = s[i]
  BY ConcatProperties
<1>e. PICK u \in Seq(S) : u = s \o t
  BY ONLY <1>c
<1>1. n = Len(s) /\ u = s \o t /\ Len(u) = n + m /\ \A i \in 1..n : u[i] = s[i]
  BY ONLY <1>a, <1>b, <1>c, <1>d, <1>e
<1>2. \A j \in 1..n : j \in 1..n + m /\ (\A i \in 1..j - 1 : i \in 1..n)
  OBVIOUS
<1>3. InOrder(u)
  BY <1>1
<1> QED
  BY ONLY <1>1, <1>2, <1>3 DEF InOrder

(* A string p may follow s when it is of the next answer, or goes on with    *)
(* the one under way.                                                        *)
LEMMA NextInOrder ==
  ASSUME NEW s \in Seq(Pieces), InOrder(s), NEW p \in Pieces,
         p.part # "empty" =>
           /\ ~Has(s, Piece(p.of, "last"))
           /\ \A r \in 1..p.of - 1 : Has(s, Piece(r, "last"))
           /\ p.part = "first" => \A i \in 1..Len(s) : s[i].of # p.of
           /\ p.part # "first" => Has(s, Piece(p.of, "first"))
  PROVE  InOrder(Append(s, p))
<1>a. PICK n \in Nat : n = Len(s)
  BY LenProperties
<1>b. /\ Append(s, p) \in Seq(Pieces) /\ Len(Append(s, p)) = Len(s) + 1
      /\ Append(s, p)[Len(s) + 1] = p
      /\ \A i \in 1..Len(s) : Append(s, p)[i] = s[i]
  BY HasAppend
<1>c. PICK t \in Seq(Pieces) : t = Append(s, p)
  BY ONLY <1>b
<1>1. /\ n = Len(s) /\ t = Append(s, p) /\ Len(t) = n + 1 /\ t[n + 1] = p
      /\ \A i \in 1..n : t[i] = s[i]
  BY ONLY <1>a, <1>b, <1>c
<1>2. \A i \in 1..n : s[i] \in Pieces
  BY <1>1
<1> SUFFICES ASSUME NEW j \in 1..n + 1, t[j].part # "empty"
             PROVE  /\ \A i \in 1..j - 1 : t[i].part # "empty" =>
                         t[i].of < t[j].of
                         \/ (t[i].of = t[j].of /\ t[i].part # "last" /\ t[j].part # "first")
                    /\ \A r \in 1..t[j].of - 1 : \E i \in 1..j - 1 : t[i] = Piece(r, "last")
                    /\ t[j].part # "first" => \E i \in 1..j - 1 : t[i] = Piece(t[j].of, "first")
  BY <1>1 DEF InOrder
<1>3. CASE j \in 1..n
  <2>1. t[j] = s[j] /\ \A i \in 1..j - 1 : i \in 1..n /\ t[i] = s[i]
    BY <1>1, <1>3
  <2>2. /\ \A i \in 1..j - 1 : s[i].part # "empty" =>
             s[i].of < s[j].of
             \/ (s[i].of = s[j].of /\ s[i].part # "last" /\ s[j].part # "first")
        /\ \A r \in 1..s[j].of - 1 : \E i \in 1..j - 1 : s[i] = Piece(r, "last")
        /\ s[j].part # "first" => \E i \in 1..j - 1 : s[i] = Piece(s[j].of, "first")
    BY <1>1, <1>3, <2>1 DEF InOrder
  <2> QED
    BY <2>1, <2>2
<1>4. CASE j = n + 1
  <2>1. t[j] = p /\ p.part # "empty" /\ j - 1 = n
    BY <1>1, <1>4
  <2>2. \A r \in 1..p.of - 1 : \E i \in 1..n : t[i] = Piece(r, "last")
    BY <1>1, <2>1 DEF Has
  <2>3. p.part # "first" => \E i \in 1..n : t[i] = Piece(p.of, "first")
    BY <1>1, <2>1 DEF Has
  <2>4. ASSUME NEW i \in 1..n, s[i].part # "empty"
        PROVE  s[i].of < p.of \/ (s[i].of = p.of /\ s[i].part # "last" /\ p.part # "first")
    <3>0. s[i] \in Pieces /\ s[i].of \in Nat /\ p.of \in Nat /\ p.of >= 1
      BY <1>2, SessionAssumption DEF Pieces, Req
    <3>1. CASE s[i].of = p.of
      <4>1. p.part # "first"
        BY <1>1, <2>1, <3>1
      <4>2. s[i].part = "last" => s[i] = Piece(p.of, "last")
        BY <3>0, <3>1 DEF Pieces, Piece
      <4>3. s[i].part # "last"
        BY <1>1, <2>1, <4>2 DEF Has
      <4> QED
        BY <3>1, <4>1, <4>3
    <3>2. CASE s[i].of > p.of
      <4>1. p.of \in 1..s[i].of - 1
        BY <3>0, <3>2
      <4>2. \E k \in 1..i - 1 : s[k] = Piece(p.of, "last")
        BY <1>1, <2>4, <4>1 DEF InOrder
      <4>3. Has(s, Piece(p.of, "last"))
        BY <1>1, <4>2 DEF Has
      <4> QED
        BY <2>1, <4>3
    <3> QED
      BY <3>0, <3>1, <3>2
  <2> QED
    BY <1>1, <2>1, <2>2, <2>3, <2>4
<1> QED
  BY <1>3, <1>4

-----------------------------------------------------------------------------
(* What a response does with its strings.                                    *)
LEMMA InitialResponse ==
  ASSUME NEW o \in Workers \cup {"kept", "none"}
  PROVE  /\ Response(o) \in Responses /\ Response(o).attached /\ TodoFits(Response(o))
         /\ Response(o).owner = o /\ Response(o).todo = <<>>
         /\ ~Begun(Response(o)) /\ ~Ended(Response(o))
<1>1. Response(o) = [owner |-> o, attached |-> TRUE, flushes |-> 0, dropping |-> FALSE,
                     todo |-> <<>>]
  BY DEF Response
<1>2. <<>> \in Seq(Parts) /\ 0 \in 0..MaxFlush
  BY EmptySeq, SessionAssumption
<1>3. Response(o) \in Responses
  BY <1>1, <1>2 DEF Responses
<1> QED
  BY <1>1, <1>3 DEF TodoFits, Begun, Ended

(* A flush and the destructor decide what is to be sent, but send nothing.   *)
LEMMA FlushKeeps ==
  ASSUME NEW x \in Responses, x.attached, TodoFits(x), x.todo = <<>>, ~x.dropping,
         x.flushes < MaxFlush,
         NEW y, y = [x EXCEPT !.flushes = @ + 1,
                              !.todo = IF x.flushes = 0 THEN <<"first", "more">>
                                                        ELSE <<"more">>]
  PROVE  /\ y \in Responses /\ y.attached /\ TodoFits(y) /\ y.owner = x.owner
         /\ Begun(y) <=> Begun(x)
         /\ Ended(y) <=> Ended(x)
<1>1. x.flushes \in 0..MaxFlush /\ MaxFlush \in Nat
  BY SessionAssumption DEF Responses
<1>2. <<"first", "more">> \in Seq(Parts) /\ <<"more">> \in Seq(Parts)
  BY DEF Parts
<1>3. /\ y.owner = x.owner /\ y.attached = x.attached /\ y.dropping = x.dropping
      /\ y.flushes = x.flushes + 1
      /\ y.todo = IF x.flushes = 0 THEN <<"first", "more">> ELSE <<"more">>
  BY DEF Responses
<1>a. x.flushes + 1 \in 0..MaxFlush
  BY <1>1
<1>4. y \in Responses
  BY <1>a, <1>2 DEF Responses
<1>5. /\ y.todo # <<>>
      /\ y.todo[1] = IF x.flushes = 0 THEN "first" ELSE "more"
  BY <1>3
<1> QED
  BY <1>1, <1>3, <1>4, <1>5 DEF TodoFits, Begun, Ended

(* Destroying a response queues what its answer still lacks, and no more.    *)
LEMMA DropKeeps ==
  ASSUME NEW x \in Responses, x.attached, TodoFits(x), x.todo = <<>>, ~x.dropping,
         NEW y, y = [x EXCEPT !.dropping = TRUE,
                              !.todo = IF x.flushes = 0 THEN <<"first", "last">>
                                                        ELSE <<"more", "last", "empty">>]
  PROVE  /\ y \in Responses /\ y.attached /\ TodoFits(y) /\ y.owner = x.owner
         /\ Begun(y) <=> Begun(x)
         /\ Ended(y) <=> Ended(x)
<1>2. <<"first", "last">> \in Seq(Parts) /\ <<"more", "last", "empty">> \in Seq(Parts)
  BY DEF Parts
<1>3. /\ y.owner = x.owner /\ y.attached = x.attached /\ y.dropping = TRUE
      /\ y.flushes = x.flushes
      /\ y.todo = IF x.flushes = 0 THEN <<"first", "last">> ELSE <<"more", "last", "empty">>
  BY DEF Responses
<1>4. y \in Responses
  BY <1>2 DEF Responses
<1>5. /\ y.todo # <<>> /\ y.todo \notin {<<>>, <<"empty">>}
      /\ y.todo[1] = IF x.flushes = 0 THEN "first" ELSE "more"
  BY <1>3
<1> QED
  BY <1>3, <1>4, <1>5 DEF TodoFits, Begun, Ended

(* The strings of an answer go out from the first to the last, which ends it.*)
LEMMA WriteAdvances ==
  ASSUME NEW x \in Responses, x.attached, TodoFits(x), x.todo # <<>>,
         NEW y, y = [x EXCEPT !.todo = Tail(@)]
  PROVE  /\ y \in Responses /\ y.attached /\ TodoFits(y) /\ y.owner = x.owner
         /\ Head(x.todo) \in Parts
         /\ Begun(y)
         /\ Head(x.todo) = "first" <=> ~Begun(x)
         /\ Ended(y) <=> (Ended(x) \/ Head(x.todo) = "last")
         /\ Ended(x) <=> Head(x.todo) = "empty"
<1>1. x.todo \in Seq(Parts)
  BY DEF Responses
<1>2. Head(x.todo) \in Parts /\ Tail(x.todo) \in Seq(Parts) /\ Head(x.todo) = x.todo[1]
  BY <1>1, HeadAndTail
<1>3. /\ y.owner = x.owner /\ y.attached = x.attached /\ y.dropping = x.dropping
      /\ y.flushes = x.flushes /\ y.todo = Tail(x.todo)
  BY DEF Responses
<1>4. y \in Responses
  BY <1>2 DEF Responses
<1>5. /\ Tail(<<"more">>) = <<>> /\ Tail(<<"first", "more">>) = <<"more">>
      /\ Tail(<<"last">>) = <<>> /\ Tail(<<"first", "last">>) = <<"last">>
      /\ Tail(<<"empty">>) = <<>> /\ Tail(<<"last", "empty">>) = <<"empty">>
      /\ Tail(<<"more", "last", "empty">>) = <<"last", "empty">>
  OBVIOUS
<1>6. /\ <<>> # <<"more">> /\ <<>> # <<"last">> /\ <<>> # <<"empty">> /\ <<>> # <<"last", "empty">>
      /\ <<"empty">> # <<"last">> /\ <<"empty">> # <<"first", "last">>
      /\ <<"empty">> # <<"last", "empty">> /\ <<"empty">> # <<"more", "last", "empty">>
      /\ <<"more">>[1] = "more" /\ <<"last">>[1] = "last" /\ <<"empty">>[1] = "empty"
      /\ <<"last", "empty">>[1] = "last" /\ <<"first", "more">>[1] = "first"
      /\ <<"first", "last">>[1] = "first" /\ <<"more", "last", "empty">>[1] = "more"
  OBVIOUS
<1> DEFINE t == x.todo
           u == y.todo
           h == Head(x.todo)
<1>7. CASE ~x.dropping
  <2>1. x.flushes # 0 /\ (t = <<"more">> \/ t = <<"first", "more">>)
    BY <1>7 DEF TodoFits
  <2>2. (t = <<"more">> /\ u = <<>>) \/ (t = <<"first", "more">> /\ u = <<"more">>)
    BY <1>3, <1>5, <2>1
  <2> QED
    BY ONLY <1>2, <1>3, <1>4, <1>6, x.attached, x.todo # <<>>, <1>7, <2>1, <2>2 DEF TodoFits, Begun, Ended
<1>8. CASE x.dropping /\ x.flushes = 0
  <2>1. t = <<"last">> \/ t = <<"first", "last">>
    BY <1>8 DEF TodoFits
  <2>2. (t = <<"last">> /\ u = <<>>) \/ (t = <<"first", "last">> /\ u = <<"last">>)
    BY <1>3, <1>5, <2>1
  <2> QED
    BY ONLY <1>2, <1>3, <1>4, <1>6, x.attached, x.todo # <<>>, <1>8, <2>2 DEF TodoFits, Begun, Ended
<1>9. CASE x.dropping /\ x.flushes # 0
  <2>1. t = <<"empty">> \/ t = <<"last", "empty">> \/ t = <<"more", "last", "empty">>
    BY <1>9 DEF TodoFits
  <2>2. \/ t = <<"empty">> /\ u = <<>>
        \/ t = <<"last", "empty">> /\ u = <<"empty">>
        \/ t = <<"more", "last", "empty">> /\ u = <<"last", "empty">>
    BY <1>3, <1>5, <2>1
  <2> QED
    BY ONLY <1>2, <1>3, <1>4, <1>6, x.attached, x.todo # <<>>, <1>9, <2>2 DEF TodoFits, Begun, Ended
<1> QED
  BY <1>7, <1>8, <1>9

(* A string that is written keeps what Wrote says of every response.         *)
LEMMA WroteNext ==
  ASSUME NEW s \in Seq(Pieces), NEW r \in Req, NEW q \in Req, NEW x, NEW y, NEW p \in Parts,
         NEW z, Wrote(s, r, x), Wrote(s, q, z),
         Begun(y), p = "first" <=> ~Begun(x),
         Ended(y) <=> (Ended(x) \/ p = "last")
  PROVE  /\ Wrote(Append(s, Piece(r, p)), r, y)
         /\ q # r => Wrote(Append(s, Piece(r, p)), q, z)
<1>1. Piece(r, p) \in Pieces
  BY DEF Piece, Pieces
<1>a. PICK n \in Nat : n = Len(s)
  BY LenProperties
<1>b. /\ Append(s, Piece(r, p)) \in Seq(Pieces) /\ Len(Append(s, Piece(r, p))) = Len(s) + 1
      /\ Append(s, Piece(r, p))[Len(s) + 1] = Piece(r, p)
      /\ \A i \in 1..Len(s) : Append(s, Piece(r, p))[i] = s[i]
      /\ \A u : Has(Append(s, Piece(r, p)), u) <=> Has(s, u) \/ u = Piece(r, p)
  BY <1>1, HasAppend
<1>c. PICK t \in Seq(Pieces) : t = Append(s, Piece(r, p))
  BY ONLY <1>b
<1>2. /\ Len(t) = n + 1 /\ t[n + 1] = Piece(r, p) /\ \A i \in 1..n : t[i] = s[i]
      /\ \A u : Has(t, u) <=> Has(s, u) \/ u = Piece(r, p)
  BY ONLY <1>a, <1>b, <1>c
<1>3. \A k, l : (Piece(k, l) = Piece(r, p)) <=> (k = r /\ l = p)
  BY DEF Piece
<1>4. Wrote(t, r, y)
  <2>1. Has(t, Piece(r, "first"))
    BY <1>2, <1>3 DEF Wrote
  <2>2. Ended(y) <=> Has(t, Piece(r, "last"))
    BY <1>2, <1>3 DEF Wrote
  <2> QED
    BY <2>1, <2>2 DEF Wrote
<1>5. ASSUME q # r PROVE Wrote(t, q, z)
  <2>1. Begun(z) => Has(t, Piece(q, "first"))
    BY <1>2 DEF Wrote
  <2>2. ~Begun(z) => \A i \in 1..n + 1 : t[i].of # q
    <3>1. ~Begun(z) => \A i \in 1..n : t[i].of # q
      BY <1>a, <1>2 DEF Wrote
    <3>2. t[n + 1].of # q
      BY <1>2, <1>5 DEF Piece
    <3> QED
      BY <3>1, <3>2
  <2>3. Ended(z) <=> Has(t, Piece(q, "last"))
    BY <1>2, <1>3, <1>5 DEF Wrote
  <2> QED
    BY <1>2, <2>1, <2>2, <2>3 DEF Wrote
<1> QED
  BY <1>c, <1>4, <1>5

-----------------------------------------------------------------------------
(* The steps of the invariant.                                               *)
LEMMA IInvInit == Init => IInv
<1> SUFFICES ASSUME Init PROVE IInv
  OBVIOUS
<1>1. /\ <<>> \in Seq(Req) /\ <<>> \in Seq(Pieces) /\ Requests \in Nat
      /\ <<>> \o <<>> = <<>> /\ Len(<<>>) = 0
  BY EmptySeq, SessionAssumption
<1>2. /\ NoResponse \in Responses /\ NoResponse.attached /\ TodoFits(NoResponse)
      /\ NoResponse.owner = "none" /\ NoResponse.todo = <<>>
      /\ ~Begun(NoResponse) /\ ~Ended(NoResponse)
  BY InitialResponse DEF NoResponse
<1>a. /\ keep \in [Req -> BOOLEAN] /\ sent = 0 /\ broken = FALSE /\ hasty = FALSE
      /\ kept = FALSE /\ parsing = TRUE /\ parsed = 0 /\ tasks = <<>> /\ writes = <<>>
      /\ wire = <<>> /\ stopped = FALSE /\ wedged = FALSE
  BY DEF Init
<1>b. doing = [w \in Workers |-> 0] /\ res = [r \in Req |-> NoResponse]
  BY DEF Init
<1>c. doing \in [Workers -> 0..Requests] /\ \A w \in Workers : doing[w] = 0
  BY ONLY <1>1, <1>b
<1>d. res \in [Req -> Responses] /\ \A r \in Req : res[r] = NoResponse
  BY ONLY <1>2, <1>b
<1>3. TypeOK
  <2>1. tasks \in Seq(Req) /\ writes \in Seq(Pieces) /\ wire \in Seq(Pieces)
    BY ONLY <1>1, <1>a
  <2>2. sent \in 0..Requests /\ parsed \in 0..sent
    <3>1. Requests \in Nat /\ sent = 0 /\ parsed = 0
      BY ONLY <1>1, <1>a
    <3> QED
      BY ONLY <3>1
  <2>4. /\ keep \in [Req -> BOOLEAN] /\ broken \in BOOLEAN /\ hasty \in BOOLEAN /\ kept \in BOOLEAN
        /\ parsing \in BOOLEAN /\ stopped \in BOOLEAN /\ wedged \in BOOLEAN
    <3>1. /\ keep \in [Req -> BOOLEAN] /\ broken = FALSE /\ hasty = FALSE /\ kept = FALSE
          /\ parsing = TRUE /\ stopped = FALSE /\ wedged = FALSE
      BY ONLY <1>a
    <3> QED
      BY ONLY <3>1
  <2>3. \A w \in Workers : doing[w] # 0 => res[doing[w]].owner = w
    BY ONLY <1>c
  <2> QED
    BY ONLY <1>c, <1>d, <2>1, <2>2, <2>3, <2>4 DEF TypeOK
<1>e. Len(tasks) = 0 /\ parsed = 0
  BY ONLY <1>1, <1>a
<1>4. Taken = 0 /\ Queue
  BY ONLY <1>e DEF Taken, Queue
<1>5. Lifetimes
  <2>1. ASSUME NEW r \in Req
        PROVE  /\ res[r].attached /\ TodoFits(res[r])
               /\ r > 0 /\ res[r] = NoResponse /\ res[r].owner = "none"
    BY <1>2, <1>d, SessionAssumption DEF Req
  <2>2. "none" \notin Workers
    BY SessionAssumption
  <2> QED
    BY <1>4, <2>1, <2>2 DEF Lifetimes, Req
<1>6. Out = <<>>
  BY <1>1 DEF Init, Out
<1>7. Sent
  BY <1>1, <1>2, <1>6 DEF Init, Sent, Wrote, Has
<1>8. Waits /\ Alone
  BY <1>2 DEF Init, Waits, Alone
<1>9. Ordered
  BY <1>1, <1>6 DEF Init, Ordered, InOrder
<1> QED
  BY <1>3, <1>4, <1>5, <1>7, <1>8, <1>9 DEF IInv

(* The request at the head of the pool's queue is the next.                  *)
LEMMA HeadIsNext ==
  ASSUME TypeOK, Queue, tasks # <<>>
  PROVE  /\ Head(tasks) = Taken + 1 /\ Head(tasks) \in Req /\ Taken + 1 <= parsed
         /\ Tail(tasks) \in Seq(Req) /\ Len(Tail(tasks)) = Len(tasks) - 1
         /\ \A i \in 1..Len(tasks) - 1 : Tail(tasks)[i] = Taken + 1 + i
<1>1. tasks \in Seq(Req) /\ parsed \in Nat
  BY SessionAssumption DEF TypeOK
<1>2. /\ Head(tasks) \in Req /\ Tail(tasks) \in Seq(Req) /\ Head(tasks) = tasks[1]
      /\ Len(Tail(tasks)) = Len(tasks) - 1
      /\ \A i \in 1..Len(tasks) - 1 : Tail(tasks)[i] = tasks[i + 1]
  BY <1>1, HeadAndTail
<1>3. Len(tasks) \in Nat /\ Len(tasks) >= 1
  BY <1>1
<1>4. tasks[1] = Taken + 1 /\ \A i \in 1..Len(tasks) - 1 : tasks[i + 1] = Taken + (i + 1)
  BY <1>3 DEF Queue
<1>5. Taken = parsed - Len(tasks)
  BY DEF Taken
<1>6. Taken \in Nat
  BY DEF Queue
<1>7. \A i \in 1..Len(tasks) - 1 : Tail(tasks)[i] = Taken + 1 + i
  BY ONLY <1>2, <1>3, <1>4, <1>6
<1> QED
  BY ONLY <1>1, <1>2, <1>3, <1>4, <1>5, <1>6, <1>7

(* The queue of the pool stays the requests parsed and not taken, in order.  *)
LEMMA QueueStep ==
  ASSUME TypeOK, Queue, [Next]_vars
  PROVE  /\ Queue'
         /\ (\E w \in Workers : Take(w)) \/ Taken' = Taken
         /\ \A w \in Workers : Take(w) => Taken' = Taken + 1
<1>1. CASE Deliver
  <2>1. tasks \in Seq(Req) /\ parsed \in Nat /\ Len(tasks) \in Nat
    BY SessionAssumption DEF TypeOK
  <2>2. parsed' = parsed + 1 /\ tasks' = Append(tasks, parsed + 1)
    BY <1>1 DEF Deliver
  <2>3. parsed + 1 \in Req
    BY <1>1, <2>1, SessionAssumption DEF Deliver, TypeOK, Req
  <2>4. /\ Len(tasks') = Len(tasks) + 1 /\ tasks'[Len(tasks) + 1] = parsed + 1
        /\ \A i \in 1..Len(tasks) : tasks'[i] = tasks[i]
    BY <2>1, <2>2, <2>3, AppendProperties
  <2>5. Taken' = Taken
    BY <2>1, <2>2, <2>4 DEF Taken
  <2>6. Taken = parsed - Len(tasks) /\ Taken \in Nat /\ \A i \in 1..Len(tasks) : tasks[i] = Taken + i
    BY DEF Taken, Queue
  <2>7. \A i \in 1..Len(tasks') : tasks'[i] = Taken + i
    BY ONLY <2>1, <2>4, <2>6
  <2>8. Queue'
    BY <2>5, <2>6, <2>7 DEF Queue
  <2>9. \A w \in Workers : ~Take(w)
    BY <1>1, <2>1, <2>2 DEF Take
  <2> QED
    BY <2>5, <2>8, <2>9
<1>2. ASSUME NEW w \in Workers, Take(w) PROVE Queue' /\ Taken' = Taken + 1
  <2>1. tasks # <<>> /\ tasks' = Tail(tasks) /\ parsed' = parsed
    BY <1>2 DEF Take
  <2>2. /\ Len(tasks') = Len(tasks) - 1 /\ Taken + 1 <= parsed
        /\ \A i \in 1..Len(tasks) - 1 : tasks'[i] = Taken + 1 + i
    BY <2>1, HeadIsNext
  <2>3. Len(tasks) \in Nat /\ parsed \in Nat /\ Taken \in Nat /\ Taken = parsed - Len(tasks)
    BY SessionAssumption DEF TypeOK, Queue, Taken
  <2>4. Taken' = Taken + 1
    BY <2>1, <2>2, <2>3 DEF Taken
  <2> QED
    BY <2>2, <2>3, <2>4 DEF Queue
<1>3. ASSUME UNCHANGED <<parsed, tasks>>
      PROVE  Queue' /\ Taken' = Taken /\ \A w \in Workers : ~Take(w)
  <2>1. ASSUME NEW w \in Workers, Take(w) PROVE FALSE
    BY <1>2, <1>3, <2>1 DEF Taken, Queue
  <2> QED
    BY <1>3, <2>1 DEF Queue, Taken
<1>4. CASE UNCHANGED vars
  BY <1>3, <1>4 DEF vars
<1>5. CASE Send \/ Break \/ ParseEnds \/ WriteDone
  BY <1>3, <1>5 DEF Send, Break, ParseEnds, ParseFails, ParseEndsUnheard, ParseThrows, WriteDone
<1>6. CASE \E w \in Workers : Keep(w)
  BY <1>3, <1>6 DEF Keep
<1>7. CASE \E r \in Req : Respond(r)
  BY <1>3, <1>7 DEF Respond, Flush, Drop, Write, Gone
<1> QED
  BY <1>1, <1>2, <1>4, <1>5, <1>6, <1>7, <1>3 DEF Next

(* A step of one response that stays with its owner.                         *)
LEMMA OneResponse ==
  ASSUME TypeOK, Lifetimes, NEW r \in Req, NEW y \in Responses,
         y.attached, TodoFits(y), y.owner = res[r].owner, y.owner # "none",
         res' = [res EXCEPT ![r] = y], Taken' = Taken, UNCHANGED <<doing, kept>>
  PROVE  /\ res' \in [Req -> Responses] /\ res'[r] = y /\ \A q \in Req : q # r => res'[q] = res[q]
         /\ Lifetimes'
         /\ \A w \in Workers : doing'[w] # 0 => res'[doing'[w]].owner = w
<1>1. res \in [Req -> Responses]
  BY DEF TypeOK
<1>2. res' \in [Req -> Responses] /\ res'[r] = y /\ \A q \in Req : q # r => res'[q] = res[q]
  BY <1>1
<1>3. NoResponse.owner = "none"
  BY DEF NoResponse, Response
<1>4. ASSUME NEW q \in Req
      PROVE  /\ res'[q].attached /\ TodoFits(res'[q])
             /\ q > Taken' => res'[q] = NoResponse
             /\ q <= Taken' /\ res'[q].owner = "none" => Ended(res'[q]) /\ res'[q].todo = <<>>
             /\ res'[q].owner \in Workers => doing'[res'[q].owner] = q
             /\ res'[q].owner = "kept" => kept'
  <2>1. /\ res[q].attached /\ TodoFits(res[q])
        /\ q > Taken => res[q] = NoResponse
        /\ q <= Taken /\ res[q].owner = "none" => Ended(res[q]) /\ res[q].todo = <<>>
        /\ res[q].owner \in Workers => doing[res[q].owner] = q
        /\ res[q].owner = "kept" => kept
    BY DEF Lifetimes
  <2>2. CASE q # r
    <3>1. res'[q] = res[q]
      BY <1>2, <2>2
    <3> QED
      BY <2>1, <3>1
  <2>3. CASE q = r
    BY <1>2, <1>3, <2>1, <2>3
  <2> QED
    BY <2>2, <2>3
<1>5. Lifetimes'
  BY <1>4 DEF Lifetimes
<1>6. ASSUME NEW w \in Workers, doing'[w] # 0 PROVE res'[doing'[w]].owner = w
  <2>1. doing[w] \in Req /\ res[doing[w]].owner = w
    BY <1>6, SessionAssumption DEF TypeOK, Req
  <2> QED
    BY <1>2, <2>1
<1> QED
  BY <1>2, <1>5, <1>6

(* A response with strings to send has an owner, and so was made.            *)
LEMMA HasOwner ==
  ASSUME TypeOK, Lifetimes, NEW r \in Req, res[r].owner # "none" \/ res[r].todo # <<>>
  PROVE  res[r].owner # "none" /\ r <= Taken
<1>1. NoResponse.owner = "none" /\ NoResponse.todo = <<>>
  BY DEF NoResponse, Response
<1>2. r > Taken \/ r <= Taken
  BY SessionAssumption DEF TypeOK, Taken, Req
<1> QED
  BY <1>1, <1>2 DEF Lifetimes

(* One lemma per kind of step for the lifetimes of the responses.            *)
LEMMA RespondStep ==
  ASSUME TypeOK, Queue, Lifetimes, NEW r \in Req, Flush(r) \/ Drop(r)
  PROVE  /\ res' \in [Req -> Responses]
         /\ Lifetimes'
         /\ \A w \in Workers : doing'[w] # 0 => res'[doing'[w]].owner = w
         /\ \A q \in Req : res'[q].owner = res[q].owner
         /\ \A q \in Req : Begun(res'[q]) <=> Begun(res[q])
         /\ \A q \in Req : Ended(res'[q]) <=> Ended(res[q])
<1> DEFINE x == res[r]
           f == [x EXCEPT !.flushes = @ + 1,
                          !.todo = IF x.flushes = 0 THEN <<"first", "more">> ELSE <<"more">>]
           d == [x EXCEPT !.dropping = TRUE,
                          !.todo = IF x.flushes = 0 THEN <<"first", "last">>
                                                    ELSE <<"more", "last", "empty">>]
<1>1. res \in [Req -> Responses] /\ x \in Responses /\ x.attached /\ TodoFits(x)
  BY DEF TypeOK, Lifetimes
<1>2. /\ Ready(r) /\ x.owner # "none" /\ x.todo = <<>> /\ ~x.dropping
      /\ UNCHANGED <<doing, kept>> /\ Taken' = Taken
  BY DEF Flush, Drop, Ready, Taken
<1>3. \E y \in Responses :
        /\ res' = [res EXCEPT ![r] = y]
        /\ y.attached /\ TodoFits(y) /\ y.owner = x.owner
        /\ Begun(y) <=> Begun(x)
        /\ Ended(y) <=> Ended(x)
  <2>1. CASE Flush(r)
    <3>1. res' = [res EXCEPT ![r] = f] /\ x.flushes < MaxFlush
      BY <1>1, <2>1 DEF Flush
    <3>2. /\ f \in Responses /\ f.attached /\ TodoFits(f) /\ f.owner = x.owner
          /\ Begun(f) <=> Begun(x)
          /\ Ended(f) <=> Ended(x)
      <4> HIDE DEF x
      <4> QED
        BY <1>1, <1>2, <3>1, FlushKeeps
    <3> HIDE DEF f
    <3> QED
      BY <3>1, <3>2
  <2>2. CASE Drop(r)
    <3>1. res' = [res EXCEPT ![r] = d]
      BY <1>1, <2>2 DEF Drop
    <3>2. /\ d \in Responses /\ d.attached /\ TodoFits(d) /\ d.owner = x.owner
          /\ Begun(d) <=> Begun(x)
          /\ Ended(d) <=> Ended(x)
      <4> HIDE DEF x
      <4>1. x \in Responses /\ x.attached /\ TodoFits(x) /\ x.todo = <<>> /\ ~x.dropping
        BY <1>1, <1>2
      <4>2. \A y : y = d =>
              /\ y \in Responses /\ y.attached /\ TodoFits(y) /\ y.owner = x.owner
              /\ (Begun(y) <=> Begun(x)) /\ (Ended(y) <=> Ended(x))
        BY ONLY <4>1, DropKeeps
      <4> HIDE DEF d
      <4> QED
        BY ONLY <4>2
    <3> HIDE DEF d
    <3> QED
      BY <3>1, <3>2
  <2> QED
    BY <2>1, <2>2
<1> HIDE DEF f, d
<1>4. PICK y \in Responses :
        /\ res' = [res EXCEPT ![r] = y]
        /\ y.attached /\ TodoFits(y) /\ y.owner = x.owner
        /\ Begun(y) <=> Begun(x)
        /\ Ended(y) <=> Ended(x)
  BY <1>3
<1>5. /\ res' \in [Req -> Responses] /\ res'[r] = y /\ \A q \in Req : q # r => res'[q] = res[q]
      /\ Lifetimes'
      /\ \A w \in Workers : doing'[w] # 0 => res'[doing'[w]].owner = w
  BY <1>2, <1>4, OneResponse
<1> QED
  BY <1>4, <1>5

LEMMA WriteStep ==
  ASSUME TypeOK, Queue, Lifetimes, NEW r \in Req, Write(r)
  PROVE  /\ res' \in [Req -> Responses]
         /\ Lifetimes'
         /\ \A w \in Workers : doing'[w] # 0 => res'[doing'[w]].owner = w
         /\ \A q \in Req : res'[q].owner = res[q].owner
         /\ \A q \in Req : q # r => res'[q] = res[q]
         /\ Head(res[r].todo) \in Parts
         /\ Begun(res'[r])
         /\ Head(res[r].todo) = "first" <=> ~Begun(res[r])
         /\ Ended(res'[r]) <=> (Ended(res[r]) \/ Head(res[r].todo) = "last")
         /\ Ended(res[r]) <=> Head(res[r].todo) = "empty"
<1> DEFINE x == res[r]
           y == [x EXCEPT !.todo = Tail(@)]
<1>1. res \in [Req -> Responses] /\ x \in Responses /\ x.attached /\ TodoFits(x) /\ x.todo # <<>>
  BY DEF TypeOK, Lifetimes, Write
<1>2. x.owner # "none" /\ UNCHANGED <<doing, kept>> /\ Taken' = Taken
  BY <1>1, HasOwner DEF Write, Taken
<1>3. res' = [res EXCEPT ![r] = y]
  BY <1>1 DEF Write
<1> HIDE DEF x
<1>4. /\ y \in Responses /\ y.attached /\ TodoFits(y) /\ y.owner = x.owner
      /\ Head(x.todo) \in Parts
      /\ Begun(y)
      /\ Head(x.todo) = "first" <=> ~Begun(x)
      /\ Ended(y) <=> (Ended(x) \/ Head(x.todo) = "last")
      /\ Ended(x) <=> Head(x.todo) = "empty"
  BY <1>1, WriteAdvances
<1> HIDE DEF y
<1>5. x = res[r]
  BY DEF x
<1>6. /\ res' \in [Req -> Responses] /\ res'[r] = y /\ \A q \in Req : q # r => res'[q] = res[q]
      /\ Lifetimes'
      /\ \A w \in Workers : doing'[w] # 0 => res'[doing'[w]].owner = w
  BY <1>2, <1>3, <1>4, <1>5, OneResponse
<1> QED
  BY <1>4, <1>5, <1>6

(* A response changes hands: it is made, kept, or goes.                      *)
LEMMA NewOwner ==
  ASSUME NEW x \in Responses, NEW o \in Workers \cup {"kept", "none"},
         NEW y, y = [x EXCEPT !.owner = o]
  PROVE  /\ y \in Responses /\ y.owner = o /\ y.attached = x.attached /\ y.todo = x.todo
         /\ TodoFits(x) => TodoFits(y)
         /\ Begun(y) <=> Begun(x)
         /\ Ended(y) <=> Ended(x)
<1>1. /\ y.owner = o /\ y.attached = x.attached /\ y.todo = x.todo
      /\ y.flushes = x.flushes /\ y.dropping = x.dropping
  BY DEF Responses
<1>2. y \in Responses
  BY DEF Responses
<1> QED
  BY <1>1, <1>2 DEF TodoFits, Begun, Ended

LEMMA TakeStep ==
  ASSUME TypeOK, Queue, Lifetimes, NEW w \in Workers, Take(w), Taken' = Taken + 1
  PROVE  /\ res' \in [Req -> Responses] /\ doing' \in [Workers -> 0..Requests]
         /\ Lifetimes'
         /\ \A v \in Workers : doing'[v] # 0 => res'[doing'[v]].owner = v
         /\ \A q \in Req : q # Taken + 1 => res'[q] = res[q]
         /\ \A q \in Req : Begun(res'[q]) <=> Begun(res[q])
         /\ \A q \in Req : Ended(res'[q]) <=> Ended(res[q])
<1> DEFINE r == Head(tasks)
           y == Response(w)
<1>1. r = Taken + 1 /\ r \in Req /\ doing[w] = 0 /\ Taken \in Nat
  BY HeadIsNext DEF Take, Queue
<1>2. res \in [Req -> Responses] /\ doing \in [Workers -> 0..Requests] /\ Req \subseteq 0..Requests
  BY SessionAssumption DEF TypeOK, Req
<1>3. /\ y \in Responses /\ y.attached /\ TodoFits(y) /\ y.owner = w /\ y.todo = <<>>
      /\ ~Begun(y) /\ ~Ended(y)
  BY InitialResponse
<1>4. /\ NoResponse.owner = "none" /\ NoResponse.todo = <<>>
      /\ ~Begun(NoResponse) /\ ~Ended(NoResponse)
  BY InitialResponse DEF NoResponse
<1>5. /\ res' = [res EXCEPT ![r] = y] /\ doing' = [doing EXCEPT ![w] = r] /\ kept' = kept
  BY DEF Take
<1> HIDE DEF r, y
<1>6. /\ res' \in [Req -> Responses] /\ res'[r] = y /\ \A q \in Req : q # r => res'[q] = res[q]
  BY ONLY <1>1, <1>2, <1>3, <1>5
<1>7. /\ doing' \in [Workers -> 0..Requests] /\ doing'[w] = r
      /\ \A v \in Workers : v # w => doing'[v] = doing[v]
  BY ONLY <1>1, <1>2, <1>5
<1>8. res[r] = NoResponse
  BY <1>1 DEF Lifetimes
<1>9. "none" \notin Workers /\ "kept" \notin Workers
  BY SessionAssumption
<1>10. ASSUME NEW q \in Req
       PROVE  /\ res'[q].attached /\ TodoFits(res'[q])
              /\ q > Taken' => res'[q] = NoResponse
              /\ q <= Taken' /\ res'[q].owner = "none" => Ended(res'[q]) /\ res'[q].todo = <<>>
              /\ res'[q].owner \in Workers => doing'[res'[q].owner] = q
              /\ res'[q].owner = "kept" => kept'
  <2>1. /\ res[q].attached /\ TodoFits(res[q])
        /\ q > Taken => res[q] = NoResponse
        /\ q <= Taken /\ res[q].owner = "none" => Ended(res[q]) /\ res[q].todo = <<>>
        /\ res[q].owner \in Workers => doing[res[q].owner] = q
        /\ res[q].owner = "kept" => kept
    BY DEF Lifetimes
  <2>2. CASE q # r
    <3>1. res'[q] = res[q] /\ q \in Nat /\ q # 0
      BY <1>6, <2>2, SessionAssumption DEF Req
    <3>2. (q > Taken' => q > Taken) /\ (q <= Taken' => q <= Taken)
      BY <1>1, <2>2, <3>1
    <3>3. res[q].owner \in Workers => res[q].owner # w
      BY <1>1, <2>1, <3>1
    <3> QED
      BY <1>5, <1>7, <2>1, <3>1, <3>2, <3>3
  <2>3. CASE q = r
    <3>1. res'[q] = y /\ ~(q > Taken')
      BY <1>1, <1>6, <2>3
    <3> QED
      BY <1>3, <1>7, <1>9, <2>3, <3>1
  <2> QED
    BY <2>2, <2>3
<1>11. Lifetimes'
  BY <1>10 DEF Lifetimes
<1>12. ASSUME NEW v \in Workers, doing'[v] # 0 PROVE res'[doing'[v]].owner = v
  <2>1. CASE v = w
    BY <1>3, <1>6, <1>7, <2>1
  <2>2. CASE v # w
    <3>1. doing'[v] = doing[v] /\ doing[v] \in Req /\ res[doing[v]].owner = v
      BY <1>7, <1>12, <2>2, SessionAssumption DEF TypeOK, Req
    <3>2. doing[v] # r
      BY <1>4, <1>8, <1>9, <3>1
    <3> QED
      BY <1>6, <3>1, <3>2
  <2> QED
    BY <2>1, <2>2
<1>13. \A q \in Req : (Begun(res'[q]) <=> Begun(res[q])) /\ (Ended(res'[q]) <=> Ended(res[q]))
  BY <1>3, <1>4, <1>6, <1>8
<1> QED
  BY <1>1, <1>6, <1>7, <1>11, <1>12, <1>13

LEMMA HandOverStep ==
  ASSUME TypeOK, Queue, Lifetimes, NEW r \in Req, Taken' = Taken,
         Gone(r) \/ (\E w \in Workers : doing[w] = r /\ Keep(w))
  PROVE  /\ res' \in [Req -> Responses] /\ doing' \in [Workers -> 0..Requests]
         /\ Lifetimes'
         /\ \A v \in Workers : doing'[v] # 0 => res'[doing'[v]].owner = v
         /\ \A q \in Req : Begun(res'[q]) <=> Begun(res[q])
         /\ \A q \in Req : Ended(res'[q]) <=> Ended(res[q])
         /\ \A q \in Req : res'[q].owner = res[q].owner \/ res'[q].owner = "none" \/ kept'
<1>1. /\ res \in [Req -> Responses] /\ doing \in [Workers -> 0..Requests]
      /\ 0 \in 0..Requests /\ res[r] \in Responses
  BY SessionAssumption DEF TypeOK
<1>9. "none" \notin Workers /\ "kept" \notin Workers /\ r # 0
  BY SessionAssumption DEF Req
<1>2. /\ res[r].owner # "none" /\ r <= Taken /\ res[r].attached /\ TodoFits(res[r])
      /\ res[r].todo = <<>>
  BY HasOwner DEF Lifetimes, Gone, Keep, Ready
<1>3. ~(r > Taken)
  BY <1>2, SessionAssumption DEF Queue, Req
<1>4. PICK o \in {"kept", "none"} :
        /\ res' = [res EXCEPT ![r] = [res[r] EXCEPT !.owner = o]]
        /\ o = "kept" => kept'
        /\ o = "none" => Ended(res[r])
        /\ kept => kept'
        /\ doing' = [w \in Workers |-> IF doing[w] = r THEN 0 ELSE doing[w]]
  <2>1. CASE Gone(r)
    <3>1. /\ res' = [res EXCEPT ![r] = [res[r] EXCEPT !.owner = "none"]]
          /\ Ended(res[r]) /\ kept' = kept
          /\ doing' = [w \in Workers |-> IF doing[w] = r THEN 0 ELSE doing[w]]
      BY <1>1, <2>1 DEF Gone, Ended
    <3> QED
      BY <3>1
  <2>2. ASSUME NEW w \in Workers, doing[w] = r, Keep(w)
        PROVE  /\ res' = [res EXCEPT ![r] = [res[r] EXCEPT !.owner = "kept"]]
               /\ kept'
               /\ doing' = [v \in Workers |-> IF doing[v] = r THEN 0 ELSE doing[v]]
    <3>1. /\ res' = [res EXCEPT ![r] = [res[r] EXCEPT !.owner = "kept"]]
          /\ kept' = TRUE /\ doing' = [doing EXCEPT ![w] = 0] /\ res[r].owner = w
      BY <1>1, <2>2 DEF Keep
    <3>2. \A v \in Workers : doing[v] = r => v = w
      BY <1>9, <3>1 DEF TypeOK
    <3>3. \A v \in Workers : doing'[v] = IF doing[v] = r THEN 0 ELSE doing[v]
      BY <1>1, <2>2, <3>1, <3>2
    <3>4. doing' = [v \in Workers |-> IF doing[v] = r THEN 0 ELSE doing[v]]
      BY <1>1, <3>1, <3>3
    <3> QED
      BY <3>1, <3>4
  <2> QED
    BY <2>1, <2>2
<1> DEFINE y == [res[r] EXCEPT !.owner = o]
<1>5. /\ y \in Responses /\ y.owner = o /\ y.attached = res[r].attached /\ y.todo = res[r].todo
      /\ TodoFits(y) /\ (Begun(y) <=> Begun(res[r])) /\ (Ended(y) <=> Ended(res[r]))
  <2>1. o \in Workers \cup {"kept", "none"} /\ res[r] \in Responses
    BY <1>1
  <2>2. \A z : z = y =>
          /\ z \in Responses /\ z.owner = o /\ z.attached = res[r].attached
          /\ z.todo = res[r].todo /\ (TodoFits(res[r]) => TodoFits(z))
          /\ (Begun(z) <=> Begun(res[r])) /\ (Ended(z) <=> Ended(res[r]))
    BY ONLY <2>1, NewOwner
  <2> HIDE DEF y
  <2> QED
    BY ONLY <1>2, <2>2
<1>a. res' = [res EXCEPT ![r] = y]
  BY <1>4
<1> HIDE DEF y
<1>6. /\ res' \in [Req -> Responses] /\ res'[r] = y /\ \A q \in Req : q # r => res'[q] = res[q]
  BY ONLY <1>1, <1>5, <1>a
<1>7. /\ doing' \in [Workers -> 0..Requests]
      /\ \A v \in Workers : doing'[v] = IF doing[v] = r THEN 0 ELSE doing[v]
  BY <1>1, <1>4
<1>10. ASSUME NEW q \in Req
       PROVE  /\ res'[q].attached /\ TodoFits(res'[q])
              /\ q > Taken' => res'[q] = NoResponse
              /\ q <= Taken' /\ res'[q].owner = "none" => Ended(res'[q]) /\ res'[q].todo = <<>>
              /\ res'[q].owner \in Workers => doing'[res'[q].owner] = q
              /\ res'[q].owner = "kept" => kept'
  <2>1. /\ res[q].attached /\ TodoFits(res[q])
        /\ q > Taken => res[q] = NoResponse
        /\ q <= Taken /\ res[q].owner = "none" => Ended(res[q]) /\ res[q].todo = <<>>
        /\ res[q].owner \in Workers => doing[res[q].owner] = q
        /\ res[q].owner = "kept" => kept
    BY DEF Lifetimes
  <2>2. CASE q # r
    <3>1. res'[q] = res[q]
      BY <1>6, <2>2
    <3>2. res[q].owner \in Workers => doing'[res[q].owner] = q
      BY <1>7, <2>1, <2>2
    <3> QED
      BY <1>4, <2>1, <3>1, <3>2
  <2>3. CASE q = r
    <3>1. res'[q] = y /\ ~(q > Taken')
      BY <1>3, <1>6, <2>3
    <3> QED
      BY <1>2, <1>4, <1>5, <1>9, <2>3, <3>1
  <2> QED
    BY <2>2, <2>3
<1>11. Lifetimes'
  BY <1>10 DEF Lifetimes
<1>12. ASSUME NEW v \in Workers, doing'[v] # 0 PROVE res'[doing'[v]].owner = v
  <2>1. doing[v] # r /\ doing'[v] = doing[v]
    BY <1>7, <1>12
  <2>2. doing[v] \in Req /\ res[doing[v]].owner = v
    BY <1>12, <2>1, SessionAssumption DEF TypeOK, Req
  <2> QED
    BY <1>6, <2>1, <2>2
<1>13. \A q \in Req : (Begun(res'[q]) <=> Begun(res[q])) /\ (Ended(res'[q]) <=> Ended(res[q]))
  BY <1>5, <1>6
<1>14. \A q \in Req : res'[q].owner = res[q].owner \/ res'[q].owner = "none" \/ kept'
  BY <1>4, <1>5, <1>6
<1> QED
  BY <1>6, <1>7, <1>11, <1>12, <1>13, <1>14

(* The write that completes, and the one that is queued.                     *)
LEMMA WriteDoneStep ==
  ASSUME TypeOK, WriteDone
  PROVE  /\ writes' \in Seq(Pieces) /\ wire' \in Seq(Pieces)
         /\ ~stopped => Out' = Out
         /\ \A p : Has(wire, p) => Has(wire', p)
<1>1. wire \in Seq(Pieces) /\ writes \in Seq(Pieces) /\ writes # <<>>
  BY DEF TypeOK, WriteDone
<1>2. writes' = Tail(writes) /\ wire' = IF stopped THEN wire ELSE Append(wire, Head(writes))
  BY DEF WriteDone
<1>3. Head(writes) \in Pieces /\ Tail(writes) \in Seq(Pieces)
  BY ONLY <1>1, HeadAndTail
<1>4. /\ Append(wire, Head(writes)) \in Seq(Pieces)
      /\ \A p : Has(Append(wire, Head(writes)), p) <=> Has(wire, p) \/ p = Head(writes)
  BY ONLY <1>1, <1>3, HasAppend
<1>5. Append(wire, Head(writes)) \o Tail(writes) = wire \o writes
  BY ONLY <1>1, OutMoves
<1>6. ASSUME ~stopped PROVE Out' = Out
  <2>1. wire' = Append(wire, Head(writes))
    BY ONLY <1>2, <1>6
  <2>2. Out' = wire' \o writes'
    BY DEF Out
  <2> QED
    BY ONLY <1>2, <1>5, <2>1, <2>2 DEF Out
<1>7. CASE stopped
  BY ONLY <1>1, <1>2, <1>3, <1>6, <1>7
<1>8. CASE ~stopped
  <2>1. wire' = Append(wire, Head(writes))
    BY ONLY <1>2, <1>8
  <2> QED
    BY ONLY <1>2, <1>3, <1>4, <1>6, <1>8, <2>1
<1> QED
  BY <1>7, <1>8

(* What is on the wire and queued are strings of answers.                    *)
LEMMA OutIs == TypeOK => Out \in Seq(Pieces)
  BY ConcatProperties DEF TypeOK, Out

(* A write adds its string at the end of Out.                                *)
LEMMA WriteQueues ==
  ASSUME TypeOK, NEW r \in Req, Write(r), Head(res[r].todo) \in Parts
  PROVE  /\ writes' \in Seq(Pieces) /\ wire' = wire
         /\ Out' = Append(Out, Piece(r, Head(res[r].todo)))
<1>1. wire \in Seq(Pieces) /\ writes \in Seq(Pieces)
  BY DEF TypeOK
<1>2. Piece(r, Head(res[r].todo)) \in Pieces
  BY DEF Piece, Pieces
<1>a. PICK p \in Pieces : p = Piece(r, Head(res[r].todo))
  BY ONLY <1>2
<1>3. writes' = Append(writes, p) /\ wire' = wire
  BY <1>a DEF Write
<1>4. Append(writes, p) \in Seq(Pieces)
  BY ONLY <1>1, AppendProperties
<1>5. wire \o Append(writes, p) = Append(wire \o writes, p)
  BY ONLY <1>1, OutGrows
<1>6. Out' = wire' \o writes'
  BY DEF Out
<1> QED
  BY ONLY <1>a, <1>3, <1>4, <1>5, <1>6 DEF Out

(* Types and directions of the flags and counters.                           *)
LEMMA ScalarStep ==
  ASSUME TypeOK, [Next]_vars
  PROVE  /\ keep' = keep /\ sent' \in 0..Requests /\ broken' \in BOOLEAN
         /\ hasty' \in BOOLEAN /\ kept' \in BOOLEAN /\ parsing' \in BOOLEAN
         /\ parsed' \in 0..sent' /\ stopped' \in BOOLEAN /\ wedged' \in BOOLEAN
         /\ hasty => hasty'
         /\ kept => kept'
         /\ stopped => stopped'
         /\ Send \/ sent' = sent
<1>1. /\ keep \in [Req -> BOOLEAN] /\ sent \in 0..Requests /\ broken \in BOOLEAN
      /\ hasty \in BOOLEAN /\ kept \in BOOLEAN /\ parsing \in BOOLEAN
      /\ parsed \in 0..sent /\ stopped \in BOOLEAN /\ wedged \in BOOLEAN /\ Requests \in Nat
  BY SessionAssumption DEF TypeOK
<1>2. CASE UNCHANGED <<keep, sent, broken, hasty, kept, parsing, parsed, stopped, wedged>>
  BY ONLY <1>1, <1>2
<1>3. CASE Send
  BY <1>1, <1>3 DEF Send
<1>4. CASE Break
  BY <1>1, <1>4 DEF Break
<1>5. CASE Deliver
  <2>1. parsed < sent /\ parsed' = parsed + 1 /\ parsing' = keep[parsed + 1]
        /\ UNCHANGED <<keep, sent, broken, hasty, kept, stopped, wedged>>
    BY <1>5 DEF Deliver, client
  <2>2. parsed + 1 \in Req /\ parsed + 1 \in 0..sent
    BY <1>1, <2>1 DEF Req
  <2>3. keep[parsed + 1] \in BOOLEAN
    BY ONLY <1>1, <2>2
  <2> QED
    BY ONLY <1>1, <2>1, <2>2, <2>3
<1>6. CASE ParseEnds
  BY <1>1, <1>6 DEF ParseEnds, ParseFails, ParseEndsUnheard, ParseThrows, NoRequest, client
<1>7. CASE WriteDone
  BY <1>2, <1>7 DEF WriteDone, client
<1>8. ASSUME NEW w \in Workers, Take(w)
      PROVE  UNCHANGED <<keep, sent, broken, hasty, kept, parsing, parsed, stopped, wedged>>
  BY <1>8 DEF Take, client
<1>9. ASSUME NEW w \in Workers, Keep(w)
      PROVE  /\ UNCHANGED <<keep, sent, broken, hasty, parsing, parsed, stopped, wedged>>
             /\ kept' = TRUE
  BY <1>9 DEF Keep, client
<1>10. ASSUME NEW r \in Req, Respond(r)
       PROVE  UNCHANGED <<keep, sent, broken, hasty, kept, parsing, parsed, stopped, wedged>>
  BY <1>10 DEF Respond, Flush, Drop, Write, Gone, client
<1>11. CASE UNCHANGED vars
  BY <1>2, <1>11 DEF vars, client
<1>12. CASE \E w \in Workers : Take(w) \/ Keep(w)
  BY <1>1, <1>2, <1>8, <1>9, <1>12
<1>13. CASE \E r \in Req : Respond(r)
  BY <1>2, <1>10, <1>13
<1> QED
  BY <1>3, <1>4, <1>5, <1>6, <1>7, <1>11, <1>12, <1>13 DEF Next

(* Types of the queues; what is on the wire stays there.                     *)
LEMMA SequenceStep ==
  ASSUME TypeOK, Queue, Lifetimes, [Next]_vars
  PROVE  /\ tasks' \in Seq(Req) /\ writes' \in Seq(Pieces) /\ wire' \in Seq(Pieces)
         /\ \A p : Has(wire, p) => Has(wire', p)
<1>1. tasks \in Seq(Req) /\ writes \in Seq(Pieces) /\ wire \in Seq(Pieces)
  BY DEF TypeOK
<1>2. CASE UNCHANGED <<tasks, writes, wire>>
  BY ONLY <1>1, <1>2 DEF Has
<1>3. ASSUME wire' = wire, writes' \in Seq(Pieces), tasks' \in Seq(Req)
      PROVE  /\ tasks' \in Seq(Req) /\ writes' \in Seq(Pieces) /\ wire' \in Seq(Pieces)
             /\ \A p : Has(wire, p) => Has(wire', p)
  BY ONLY <1>1, <1>3 DEF Has
<1>4. CASE Deliver
  <2>1. parsed + 1 \in Req /\ tasks' = Append(tasks, parsed + 1) /\ UNCHANGED <<wire, writes>>
    BY <1>4, SessionAssumption DEF Deliver, TypeOK, Req
  <2>2. tasks' \in Seq(Req)
    BY ONLY <1>1, <2>1, AppendProperties
  <2> QED
    BY <1>1, <1>3, <2>1, <2>2
<1>5. CASE WriteDone
  <2>1. tasks' = tasks
    BY <1>5 DEF WriteDone
  <2> QED
    BY <1>1, <1>5, <2>1, WriteDoneStep
<1>6. ASSUME NEW w \in Workers, Take(w)
      PROVE  wire' = wire /\ writes' \in Seq(Pieces) /\ tasks' \in Seq(Req)
  <2>1. tasks' = Tail(tasks) /\ UNCHANGED <<wire, writes>> /\ tasks # <<>>
    BY <1>6 DEF Take
  <2> QED
    BY <1>1, <2>1, HeadIsNext
<1>7. ASSUME NEW w \in Workers, Keep(w) PROVE UNCHANGED <<tasks, writes, wire>>
  BY <1>7 DEF Keep
<1>8. ASSUME NEW r \in Req, Flush(r) \/ Drop(r) \/ Gone(r)
      PROVE  UNCHANGED <<tasks, writes, wire>>
  BY <1>8 DEF Flush, Drop, Gone
<1>9. ASSUME NEW r \in Req, Write(r)
      PROVE  wire' = wire /\ writes' \in Seq(Pieces) /\ tasks' \in Seq(Req)
  <2>1. tasks' = tasks
    BY <1>9 DEF Write
  <2> QED
    BY <1>1, <1>9, <2>1, WriteStep, WriteQueues
<1>10. CASE Send \/ Break \/ ParseEnds
  BY <1>2, <1>10 DEF Send, Break, ParseEnds, ParseFails, ParseEndsUnheard, ParseThrows
<1>11. CASE UNCHANGED vars
  BY <1>2, <1>11 DEF vars
<1>12. CASE \E w \in Workers : Take(w) \/ Keep(w)
  BY <1>2, <1>3, <1>6, <1>7, <1>12
<1>13. CASE \E r \in Req : Respond(r)
  BY <1>2, <1>3, <1>8, <1>9, <1>13 DEF Respond
<1> QED
  BY <1>4, <1>5, <1>10, <1>11, <1>12, <1>13 DEF Next

(* Types and lifetimes, kept by every step.                                  *)
LEMMA TypeStep ==
  ASSUME TypeOK, Queue, Lifetimes, [Next]_vars
  PROVE  TypeOK' /\ Lifetimes'
<1>1. /\ (\E w \in Workers : Take(w)) \/ Taken' = Taken
      /\ \A w \in Workers : Take(w) => Taken' = Taken + 1
  BY QueueStep
<1> DEFINE Owned == /\ res' \in [Req -> Responses] /\ doing' \in [Workers -> 0..Requests]
                   /\ Lifetimes'
                   /\ \A v \in Workers : doing'[v] # 0 => res'[doing'[v]].owner = v
<1>2. Owned
  <2>1. /\ res \in [Req -> Responses] /\ doing \in [Workers -> 0..Requests]
        /\ \A v \in Workers : doing[v] # 0 => res[doing[v]].owner = v
    BY DEF TypeOK
  <2>2. ASSUME UNCHANGED <<res, doing, kept>>, Taken' = Taken PROVE Owned
    <3>1. Lifetimes'
      BY <2>2 DEF Lifetimes
    <3> QED
      BY <2>1, <2>2, <3>1
  <2>3. CASE Send \/ Break \/ Deliver \/ ParseEnds \/ WriteDone \/ UNCHANGED vars
    <3>1. UNCHANGED <<res, doing, kept>>
      BY <2>3 DEF Send, Break, Deliver, ParseEnds, ParseFails, ParseEndsUnheard, ParseThrows,
            WriteDone, vars
    <3>2. \A w \in Workers : ~Take(w)
      <4>1. SUFFICES ASSUME NEW w \in Workers, Take(w) PROVE FALSE
        OBVIOUS
      <4>2. doing[w] = 0 /\ doing'[w] = Head(tasks)
        BY <2>1, <4>1 DEF Take
      <4>3. Head(tasks) # 0
        BY <4>1, HeadIsNext, SessionAssumption DEF Take, Req
      <4> QED
        BY <3>1, <4>2, <4>3
    <3> QED
      BY <1>1, <2>2, <3>1, <3>2
  <2>4. ASSUME NEW w \in Workers, Take(w) PROVE Owned
    BY <1>1, <2>4, TakeStep
  <2>5. ASSUME NEW w \in Workers, Keep(w) PROVE Owned
    <3>1. doing[w] \in Req
      BY <2>1, <2>5, SessionAssumption DEF Keep, Req
    <3>2. Taken' = Taken
      BY <2>5 DEF Keep, Taken
    <3> QED
      BY <2>5, <3>1, <3>2, HandOverStep
  <2>6. ASSUME NEW r \in Req, Respond(r) PROVE Owned
    <3>1. Taken' = Taken
      BY <2>6 DEF Respond, Flush, Drop, Write, Gone, Taken
    <3>2. CASE Flush(r) \/ Drop(r)
      <4>1. doing' = doing
        BY <3>2 DEF Flush, Drop
      <4> QED
        BY <2>1, <3>2, <4>1, RespondStep
    <3>3. CASE Write(r)
      <4>1. doing' = doing
        BY <3>3 DEF Write
      <4> QED
        BY <2>1, <3>3, <4>1, WriteStep
    <3>4. CASE Gone(r)
      BY <3>1, <3>4, HandOverStep
    <3> QED
      BY <2>6, <3>2, <3>3, <3>4 DEF Respond
  <2> QED
    BY <2>3, <2>4, <2>5, <2>6 DEF Next
<1>3. /\ keep' \in [Req -> BOOLEAN] /\ sent' \in 0..Requests /\ broken' \in BOOLEAN
      /\ hasty' \in BOOLEAN /\ kept' \in BOOLEAN /\ parsing' \in BOOLEAN
      /\ parsed' \in 0..sent' /\ stopped' \in BOOLEAN /\ wedged' \in BOOLEAN
  BY ScalarStep DEF TypeOK
<1>4. tasks' \in Seq(Req) /\ writes' \in Seq(Pieces) /\ wire' \in Seq(Pieces)
  BY SequenceStep
<1> QED
  BY ONLY <1>2, <1>3, <1>4 DEF TypeOK

(* What Out holds is what the responses gave.                                *)
LEMMA SentStays ==
  ASSUME Sent, ~stopped', ~stopped, Out' = Out,
         \A q \in Req : Begun(res'[q]) <=> Begun(res[q]),
         \A q \in Req : Ended(res'[q]) <=> Ended(res[q])
  PROVE  Sent'
<1>1. \A q \in Req : Wrote(Out, q, res[q])
  BY DEF Sent
<1>2. \A q \in Req : Wrote(Out, q, res'[q])
  BY <1>1 DEF Wrote
<1>3. \A q \in Req : Wrote(Out', q, res'[q])
  BY ONLY <1>2, Out' = Out
<1> QED
  BY <1>3 DEF Sent

(* The parts of the invariant that speak of strings, kept by every step.     *)
LEMMA SentStep ==
  ASSUME TypeOK, Queue, Lifetimes, Sent, [Next]_vars
  PROVE  Sent'
<1>1. /\ (\E w \in Workers : Take(w)) \/ Taken' = Taken
      /\ \A w \in Workers : Take(w) => Taken' = Taken + 1
  BY QueueStep
<1>2. CASE stopped'
  BY <1>2 DEF Sent
<1>3. CASE ~stopped'
  <2>1. ~stopped
    BY <1>3, ScalarStep
  <2>2. ASSUME UNCHANGED res, Out' = Out PROVE Sent'
    BY <1>3, <2>1, <2>2, SentStays
  <2>3. CASE Send \/ Break \/ Deliver \/ ParseEnds \/ UNCHANGED vars
    BY <2>2, <2>3 DEF Send, Break, Deliver, ParseEnds, ParseFails, ParseEndsUnheard, ParseThrows, vars, Out
  <2>4. CASE WriteDone
    BY <2>1, <2>2, <2>4, WriteDoneStep DEF WriteDone
  <2>5. ASSUME NEW w \in Workers, Take(w) PROVE Sent'
    <3>1. Out' = Out
      BY <2>5 DEF Take, Out
    <3> QED
      BY <1>1, <1>3, <2>1, <2>5, <3>1, TakeStep, SentStays
  <2>6. ASSUME NEW w \in Workers, Keep(w) PROVE Sent'
    <3>1. doing[w] \in Req
      BY <2>6, SessionAssumption DEF Keep, TypeOK, Req
    <3>2. Taken' = Taken /\ Out' = Out
      BY <2>6 DEF Keep, Taken, Out
    <3> QED
      BY <1>3, <2>1, <2>6, <3>1, <3>2, HandOverStep, SentStays
  <2>7. ASSUME NEW r \in Req, Flush(r) \/ Drop(r) PROVE Sent'
    <3>1. Out' = Out
      BY <2>7 DEF Flush, Drop, Out
    <3> QED
      BY <1>3, <2>1, <2>7, <3>1, RespondStep, SentStays
  <2>8. ASSUME NEW r \in Req, Gone(r) PROVE Sent'
    <3>1. Out' = Out /\ Taken' = Taken
      BY <2>8 DEF Gone, Out, Taken
    <3> QED
      BY <1>3, <2>1, <2>8, <3>1, HandOverStep, SentStays
  <2>9. ASSUME NEW r \in Req, Write(r) PROVE Sent'
    <3> DEFINE p == Head(res[r].todo)
    <3>1. /\ \A q \in Req : q # r => res'[q] = res[q]
          /\ p \in Parts
          /\ Begun(res'[r])
          /\ p = "first" <=> ~Begun(res[r])
          /\ Ended(res'[r]) <=> (Ended(res[r]) \/ p = "last")
      BY <2>9, WriteStep
    <3>2. Out' = Append(Out, Piece(r, p))
      BY <2>9, <3>1, WriteQueues
    <3> HIDE DEF p
    <3>3. Out \in Seq(Pieces) /\ \A q \in Req : Wrote(Out, q, res[q])
      BY <2>1, OutIs DEF Sent
    <3>4. ASSUME NEW q \in Req PROVE Wrote(Append(Out, Piece(r, p)), q, res'[q])
      <4>1. /\ Wrote(Append(Out, Piece(r, p)), r, res'[r])
            /\ q # r => Wrote(Append(Out, Piece(r, p)), q, res[q])
        BY <3>1, <3>3, WroteNext
      <4> QED
        BY ONLY <3>1, <4>1
    <3>5. \A q \in Req : Wrote(Out', q, res'[q])
      BY ONLY <3>2, <3>4
    <3> QED
      BY <3>5 DEF Sent
  <2> QED
    BY <2>3, <2>4, <2>5, <2>6, <2>7, <2>8, <2>9 DEF Next, Respond
<1> QED
  BY <1>2, <1>3

(* A client that waits still has its earlier answers after the step.         *)
LEMMA WaitsStep ==
  ASSUME TypeOK, Queue, Lifetimes, Waits, [Next]_vars
  PROVE  Waits'
<1>1. \A p : Has(wire, p) => Has(wire', p)
  BY SequenceStep
<1>2. \A r : Answered(r) => Answered(r)'
  BY <1>1 DEF Answered, Has
<1>3. sent \in Nat /\ (hasty => hasty') /\ (Send \/ sent' = sent)
  BY ScalarStep, SessionAssumption DEF TypeOK
<1>4. CASE sent' = sent
  BY <1>2, <1>3, <1>4 DEF Waits
<1>5. CASE Send
  <2>1. sent' = sent + 1 /\ hasty' = (hasty \/ (sent > 0 /\ ~Answered(sent)))
    BY <1>5 DEF Send
  <2>2. ASSUME ~hasty', NEW r \in 1..sent' - 1 PROVE Answered(r)'
    <3>1. ~hasty /\ (sent > 0 => Answered(sent))
      BY <2>1, <2>2
    <3>2. r \in 1..sent
      BY <1>3, <2>1, <2>2
    <3>3. Answered(r)
      BY <1>3, <3>1, <3>2 DEF Waits
    <3> QED
      BY <1>2, <3>3
  <2> QED
    BY <2>2 DEF Waits
<1> QED
  BY <1>3, <1>4, <1>5

(* With one worker and nothing kept, a request is taken when no other has an *)
(* owner.                                                                    *)
LEMMA AloneStep ==
  ASSUME TypeOK, Queue, Lifetimes, Alone, [Next]_vars
  PROVE  Alone'
<1> SUFFICES ASSUME Single' PROVE \A r \in Req : res'[r].owner # "none" => r = Taken'
  BY DEF Alone
<1>1. /\ (\E w \in Workers : Take(w)) \/ Taken' = Taken
      /\ \A w \in Workers : Take(w) => Taken' = Taken + 1
  BY QueueStep
<1>2. Single /\ ~kept /\ ~kept'
  BY ScalarStep DEF Single
<1>3. \A r \in Req : res[r].owner # "none" => r = Taken
  BY <1>2 DEF Alone
<1>4. ASSUME \A r \in Req : res'[r].owner = res[r].owner \/ res'[r].owner = "none",
             Taken' = Taken
      PROVE  \A r \in Req : res'[r].owner # "none" => r = Taken'
  BY <1>3, <1>4
<1>5. CASE Send \/ Break \/ Deliver \/ ParseEnds \/ WriteDone \/ UNCHANGED vars
  <2>1. UNCHANGED <<res, doing>>
    BY <1>5 DEF Send, Break, Deliver, ParseEnds, ParseFails, ParseEndsUnheard, ParseThrows,
            WriteDone, vars
  <2>2. \A w \in Workers : ~Take(w)
    <3>1. SUFFICES ASSUME NEW w \in Workers, Take(w) PROVE FALSE
      OBVIOUS
    <3>2. doing[w] = 0 /\ doing'[w] = Head(tasks)
      BY <3>1 DEF Take, TypeOK
    <3>3. Head(tasks) # 0
      BY <3>1, HeadIsNext, SessionAssumption DEF Take, Req
    <3> QED
      BY <2>1, <3>2, <3>3
  <2> QED
    BY <1>1, <1>4, <2>1, <2>2
<1>6. ASSUME NEW w \in Workers, Take(w)
      PROVE  \A r \in Req : res'[r].owner # "none" => r = Taken'
  <2>1. Taken' = Taken + 1 /\ \A q \in Req : q # Taken + 1 => res'[q] = res[q]
    BY <1>1, <1>6, TakeStep
  <2>2. ASSUME NEW r \in Req, r # Taken + 1, res'[r].owner # "none" PROVE FALSE
    <3>1. res[r].owner # "none" /\ res[r] \in Responses
      BY <2>1, <2>2 DEF TypeOK
    <3>2. res[r].owner \in Workers
      BY <1>2, <3>1 DEF Lifetimes, Responses
    <3>3. \A v \in Workers : v = w
      <4>1. IsFiniteSet(Workers) /\ Cardinality(Workers) = 1
        BY <1>2, SessionAssumption DEF Single
      <4>2. PICK v : Workers = {v}
        BY <4>1, FS_Singleton
      <4> QED
        BY <4>2
    <3>4. doing[w] = r
      BY <3>2, <3>3 DEF Lifetimes
    <3>5. doing[w] = 0 /\ r # 0
      BY <1>6, SessionAssumption DEF Take, Req
    <3> QED
      BY <3>4, <3>5
  <2> QED
    BY <2>1, <2>2
<1>7. ASSUME NEW w \in Workers, Keep(w) PROVE FALSE
  BY <1>2, <1>7 DEF Keep
<1>8. ASSUME NEW r \in Req, Respond(r)
      PROVE  \A q \in Req : res'[q].owner # "none" => q = Taken'
  <2>1. Taken' = Taken
    BY <1>8 DEF Respond, Flush, Drop, Write, Gone, Taken
  <2>2. \A q \in Req : res'[q].owner = res[q].owner \/ res'[q].owner = "none"
    <3>1. CASE Flush(r) \/ Drop(r)
      BY <3>1, RespondStep
    <3>2. CASE Write(r)
      BY <3>2, WriteStep
    <3>3. CASE Gone(r)
      BY <1>2, <2>1, <3>3, HandOverStep
    <3> QED
      BY <1>8, <3>1, <3>2, <3>3 DEF Respond
  <2> QED
    BY <1>4, <2>1, <2>2
<1> QED
  BY <1>5, <1>6, <1>7, <1>8 DEF Next

(* Every string of an answer follows the ends of all earlier answers.        *)
LEMMA EarlierEnded ==
  ASSUME TypeOK, Queue, Lifetimes, Sent, Waits, Alone, ~stopped, ~hasty \/ Single,
         NEW r \in Req, res[r].todo # <<>>, NEW q \in 1..r - 1
  PROVE  Has(Out, Piece(q, "last"))
<1>1. res[r].owner # "none" /\ r <= Taken
  BY HasOwner
<1>2. /\ q \in Req /\ q >= 1 /\ q < r /\ r <= Taken /\ q <= Taken /\ q \in Nat /\ r \in Nat
      /\ Taken \in Nat
      /\ Taken <= parsed /\ parsed <= sent /\ sent \in Nat /\ parsed \in Nat
  <2>1. Len(tasks) \in Nat /\ Taken = parsed - Len(tasks)
    BY DEF TypeOK, Taken
  <2>2. sent \in Nat /\ parsed \in Nat /\ parsed <= sent
    BY SessionAssumption DEF TypeOK
  <2> QED
    BY <1>1, <2>1, <2>2, SessionAssumption DEF Req
<1>3. CASE ~hasty
  <2>1. q \in 1..sent - 1
    BY ONLY <1>2
  <2>2. Answered(q)
    BY <1>3, <2>1 DEF Waits
  <2>3. PICK i \in 1..Len(wire) : wire[i] = Piece(q, "last")
    BY <2>2 DEF Answered
  <2>4. /\ wire \in Seq(Pieces) /\ writes \in Seq(Pieces)
    BY DEF TypeOK
  <2>5. /\ Len(wire \o writes) = Len(wire) + Len(writes) /\ (wire \o writes)[i] = wire[i]
        /\ Len(wire) \in Nat /\ Len(writes) \in Nat
    BY <2>4, ConcatProperties
  <2>6. i \in 1..Len(wire \o writes) /\ (wire \o writes)[i] = Piece(q, "last")
    BY ONLY <2>3, <2>5
  <2> QED
    BY <2>6 DEF Has, Out
<1>4. CASE Single
  <2>1. r = Taken /\ res[q].owner = "none"
    BY <1>1, <1>2, <1>4 DEF Alone
  <2>2. Ended(res[q])
    BY <1>2, <2>1 DEF Lifetimes
  <2> QED
    BY <1>2, <2>2 DEF Sent, Wrote
<1> QED
  BY <1>3, <1>4

(* Every string that is written is next in the order.                        *)
LEMMA OrderedStep ==
  ASSUME TypeOK, Queue, Lifetimes, Sent, Waits, Alone, Ordered, [Next]_vars
  PROVE  Ordered'
<1> SUFFICES ASSUME ~hasty' \/ Single' PROVE InOrder(wire') /\ (~stopped' => InOrder(Out'))
  BY DEF Ordered
<1>1. (~hasty \/ Single) /\ (stopped => stopped')
  BY ScalarStep DEF Single
<1>2. InOrder(wire) /\ (~stopped => InOrder(Out))
  BY <1>1 DEF Ordered
<1>3. ASSUME wire' = wire, Out' = Out PROVE InOrder(wire') /\ (~stopped' => InOrder(Out'))
  BY <1>1, <1>2, <1>3
<1>4. CASE WriteDone
  <2>1. /\ writes' \in Seq(Pieces) /\ wire' \in Seq(Pieces)
        /\ ~stopped => Out' = Out
    BY <1>4, WriteDoneStep
  <2>2. stopped' = stopped /\ (stopped => wire' = wire)
    BY <1>4 DEF WriteDone
  <2>3. ASSUME ~stopped PROVE InOrder(wire')
    <3>1. Out' = wire' \o writes'
      BY DEF Out
    <3>2. InOrder(wire' \o writes')
      BY <1>2, <2>1, <2>3, <3>1
    <3> QED
      BY <2>1, <3>2, StartInOrder
  <2> QED
    BY <1>2, <2>1, <2>2, <2>3
<1>5. ASSUME NEW r \in Req, Write(r) PROVE InOrder(wire') /\ (~stopped' => InOrder(Out'))
  <2>1. stopped' = stopped /\ res[r].todo # <<>>
    BY <1>5 DEF Write
  <2> DEFINE p == Head(res[r].todo)
             u == Piece(r, p)
  <2>2. /\ p \in Parts
        /\ p = "first" <=> ~Begun(res[r])
        /\ Ended(res[r]) <=> p = "empty"
    BY <1>5, WriteStep
  <2>3. wire' = wire /\ Out' = Append(Out, u)
    BY <1>5, <2>2, WriteQueues
  <2> HIDE DEF p
  <2>4. u \in Pieces /\ u.of = r /\ u.part = p
    BY <2>2 DEF Piece, Pieces
  <2> HIDE DEF u
  <2>5. ASSUME ~stopped PROVE InOrder(Append(Out, u))
    <3>1. Out \in Seq(Pieces) /\ InOrder(Out)
      BY <1>2, <2>5, OutIs
    <3>2. \A q \in 1..r - 1 : Has(Out, Piece(q, "last"))
      BY <1>1, <2>1, <2>5, EarlierEnded
    <3>3. Wrote(Out, r, res[r])
      BY <2>5 DEF Sent
    <3>4. u.part # "empty" =>
           /\ ~Has(Out, Piece(u.of, "last"))
           /\ \A q \in 1..u.of - 1 : Has(Out, Piece(q, "last"))
           /\ u.part = "first" => \A i \in 1..Len(Out) : Out[i].of # u.of
           /\ u.part # "first" => Has(Out, Piece(u.of, "first"))
      BY <2>2, <2>4, <3>2, <3>3 DEF Wrote
    <3> QED
      BY <2>4, <3>1, <3>4, NextInOrder
  <2> QED
    BY <1>2, <2>1, <2>3, <2>5
<1>6. CASE Send \/ Break \/ Deliver \/ ParseEnds \/ UNCHANGED vars
  BY <1>3, <1>6 DEF Send, Break, Deliver, ParseEnds, ParseFails, ParseEndsUnheard, ParseThrows, vars, Out
<1>7. ASSUME NEW w \in Workers, Take(w) \/ Keep(w) PROVE wire' = wire /\ Out' = Out
  BY <1>7 DEF Take, Keep, Out
<1>8. ASSUME NEW r \in Req, Flush(r) \/ Drop(r) \/ Gone(r) PROVE wire' = wire /\ Out' = Out
  BY <1>8 DEF Flush, Drop, Gone, Out
<1> QED
  BY <1>3, <1>4, <1>5, <1>6, <1>7, <1>8 DEF Next, Respond

(* Each part from the lemma of its own.                                      *)
LEMMA IInvStep == IInv /\ [Next]_vars => IInv'
<1> SUFFICES ASSUME IInv, [Next]_vars PROVE IInv'
  OBVIOUS
<1>1. TypeOK /\ Queue /\ Lifetimes /\ Sent /\ Waits /\ Alone /\ Ordered
  BY DEF IInv
<1>2. TypeOK' /\ Lifetimes' /\ Queue'
  BY <1>1, TypeStep, QueueStep
<1>3. Sent' /\ Waits' /\ Alone' /\ Ordered'
  BY <1>1, SentStep, WaitsStep, AloneStep, OrderedStep
<1> QED
  BY <1>2, <1>3 DEF IInv

LEMMA IInvHolds == Spec => []IInv
  BY IInvInit, IInvStep, PTL DEF Spec

(* handleRequest and deliverRequest hand the connection from the parse to    *)
(* the queued request to its response to the write queue, so that it is not  *)
(* destroyed before the last string of every answer is on the wire.          *)
THEOREM HeldUntilAnswered == Spec => []NotReleasedTooEarly
<1>1. IInv => NotReleasedTooEarly
  <2> SUFFICES ASSUME IInv, Released, ~stopped, NEW r \in 1..parsed PROVE Answered(r)
    BY DEF NotReleasedTooEarly, IInv
  <2>1. tasks = <<>> /\ writes = <<>> /\ \A q \in Req : res[q].owner = "none"
    BY DEF Released
  <2>2. parsed \in 0..Requests /\ wire \in Seq(Pieces)
    BY SessionAssumption DEF IInv, TypeOK
  <2>3. Taken = parsed /\ r \in Req /\ r <= Taken
    BY <2>1, <2>2, SessionAssumption DEF Taken, Req
  <2>4. Ended(res[r])
    BY <2>1, <2>3 DEF IInv, Lifetimes
  <2>5. Has(Out, Piece(r, "last"))
    BY <2>3, <2>4 DEF IInv, Sent, Wrote
  <2>6. Out = wire
    BY <2>1, <2>2, ConcatEmptySeq DEF Out
  <2> QED
    BY <2>5, <2>6 DEF Has, Answered
<1> QED
  BY <1>1, IInvHolds, PTL

(* Whatever the threads do, the strings of the answers stand on the wire one *)
(* answer after the other, in the order of the requests, for a client that   *)
(* waits for its answers, and for any client of a pool of one thread whose   *)
(* handlers keep no response.                                                *)
THEOREM AnswersKeepOrder == Spec => []AnswersInOrder
<1>1. IInv => AnswersInOrder
  BY DEF IInv, Ordered, Single, AnswersInOrder
<1> QED
  BY <1>1, IInvHolds, PTL

-----------------------------------------------------------------------------
(***************************************************************************)
(* Accepting, for any number of clients and stops, from the assumption of  *)
(* module Acceptor on its constants.                                       *)
(***************************************************************************)

(* Added to HandedOnceAndSecured to make it inductive: the ports accept into *)
(* objects of their own.                                                     *)
SparesDiffer == \A p, q \in Ports : p # q => spare[p] # spare[q]

(* Nobody replaces the member while a handshake runs on what it points to.   *)
Shaken == \A p \in Ports : state[p] = "handshake" => shaking[p] = spare[p]

AcceptorInv == HandedOnceAndSecured /\ SparesDiffer /\ Shaken

LEMMA InitAcceptorInv ==
  ASSUME AcceptorInit
  PROVE  AcceptorInv
<1>1. Ports \subseteq {"tcp", "ssl"}
  BY AcceptorAssumption
<1>2. /\ Len(peer) = 2 /\ peer \in Seq(Clients \cup {"nobody"})
      /\ handed = <<>> /\ Len(handed) = 0
  BY DEF AcceptorInit
<1>3. AcceptorTypeOK
  <2>1. backlog \in [Ports -> Seq(Clients)]
    BY DEF AcceptorInit
  <2>2. spare \in [Ports -> Objects]
    BY <1>2 DEF AcceptorInit, Objects
  <2>3. handed \in Seq([conn : Objects, port : Ports])
    BY <1>2
  <2> QED
    <3>1. /\ state \in [Ports -> {"armed", "handshake", "dead"}]
          /\ shaking \in [Ports -> Objects \cup {0}]
      BY DEF AcceptorInit
    <3>2. secured \in SUBSET Objects
      BY DEF AcceptorInit
    <3>3. running \in BOOLEAN /\ halted \in BOOLEAN
      BY DEF AcceptorInit
    <3>4. stops \in 0..MaxStops
      BY AcceptorAssumption DEF AcceptorInit
    <3> QED
      BY <1>2, <2>1, <2>2, <2>3, <3>1, <3>2, <3>3, <3>4 DEF AcceptorTypeOK
<1>4. SparesDiffer
  BY <1>1 DEF AcceptorInit, SparesDiffer
<1>5. Shaken
  BY DEF AcceptorInit, Shaken
<1> QED
  BY <1>2, <1>3, <1>4, <1>5 DEF AcceptorInv, HandedOnceAndSecured

(* The socket a client gets changes none of the objects.                     *)
LEMMA PeersKept ==
  ASSUME AcceptorTypeOK, NEW p \in Ports, backlog[p] # <<>>
  PROVE  /\ PeersWith(p, Head(backlog[p])) \in Seq(Clients \cup {"nobody"})
         /\ Len(PeersWith(p, Head(backlog[p]))) = Len(peer)
         /\ [backlog EXCEPT ![p] = Tail(@)] \in [Ports -> Seq(Clients)]
<1>1. backlog[p] \in Seq(Clients) /\ spare[p] \in 1..Len(peer)
      /\ peer \in Seq(Clients \cup {"nobody"})
  BY DEF AcceptorTypeOK, Objects
<1>2. Head(backlog[p]) \in Clients \cup {"nobody"} /\ Tail(backlog[p]) \in Seq(Clients)
  BY <1>1, HeadTailProperties
<1> QED
  BY <1>1, <1>2, ExceptSeq DEF PeersWith, AcceptorTypeOK

(* A port's object is handed on, or given up, and replaced by a new one.     *)
LEMMA ReplaceKeeps ==
  ASSUME AcceptorInv, NEW p \in Ports, NEW peers \in Seq(Clients \cup {"nobody"}),
         Len(peers) = Len(peer), Replace(p, peers),
         handed' \in {handed, Append(handed, [conn |-> spare[p], port |-> p])},
         handed' # handed /\ p = "ssl" => spare[p] \in secured',
         secured \subseteq secured', secured' \subseteq secured \cup {spare[p]},
         backlog' \in [Ports -> Seq(Clients)],
         state' \in [Ports -> {"armed", "handshake", "dead"}],
         shaking' \in [Ports -> Objects \cup {0}],
         \A q \in Ports : state'[q] = "handshake" =>
           q # p /\ state[q] = "handshake" /\ shaking'[q] = shaking[q],
         UNCHANGED <<running, halted, stops>>
  PROVE  AcceptorInv'
<1>1. /\ AcceptorTypeOK /\ SparesDiffer
      /\ spare \in [Ports -> 1..Len(peer)]
      /\ handed \in Seq([conn : Objects, port : Ports])
  BY DEF AcceptorInv, HandedOnceAndSecured, AcceptorTypeOK, Objects
<1>2. Len(peer') = Len(peer) + 1 /\ Len(peer) \in Nat /\ peer' \in Seq(Clients \cup {"nobody"})
  BY <1>1 DEF Replace, AcceptorTypeOK
<1>3. Objects \subseteq Objects'
  BY <1>2 DEF Objects
<1>4. spare' = [spare EXCEPT ![p] = Len(peer) + 1]
  BY DEF Replace
<1>5. spare' \in [Ports -> Objects']
  BY <1>1, <1>2, <1>4 DEF Objects
<1>6. spare[p] \in Objects /\ spare[p] \in Objects'
  BY <1>1, <1>3 DEF Objects
<1>7. /\ \A i \in 1..Len(handed) :
           handed[i] \in [conn : Objects, port : Ports] /\ handed'[i] = handed[i]
      /\ Len(handed) \in Nat /\ Len(handed') \in Nat
      /\ \A i \in 1..Len(handed') : i \in 1..Len(handed) \/
           (i = Len(handed) + 1 /\ handed' # handed
              /\ handed'[i] = [conn |-> spare[p], port |-> p])
      /\ handed' \in Seq([conn : Objects', port : Ports])
  <2>1. handed \in Seq([conn : Objects', port : Ports])
    <3>1. [conn : Objects, port : Ports] \subseteq [conn : Objects', port : Ports]
      BY <1>3
    <3> QED
      BY <1>1, <3>1, SeqMonotonic
  <2>2. Len(handed) \in Nat
        /\ \A i \in 1..Len(handed) : handed[i] \in [conn : Objects, port : Ports]
    BY <1>1, LenProperties, ElementOfSeq
  <2>3. CASE handed' = handed
    <3>1. Len(handed') = Len(handed) /\ \A i \in 1..Len(handed) : handed'[i] = handed[i]
      BY <2>3
    <3>2. handed' \in Seq([conn : Objects', port : Ports])
      BY <2>1, <2>3
    <3> QED
      BY <2>2, <3>1, <3>2
  <2>4. CASE handed' # handed
    <3>1. handed' = Append(handed, [conn |-> spare[p], port |-> p])
      BY <2>4
    <3>2. [conn |-> spare[p], port |-> p] \in [conn : Objects', port : Ports]
      BY <1>6
    <3>3. /\ handed' \in Seq([conn : Objects', port : Ports])
          /\ Len(handed') = Len(handed) + 1
          /\ \A i \in 1..Len(handed) : handed'[i] = handed[i]
          /\ handed'[Len(handed) + 1] = [conn |-> spare[p], port |-> p]
      BY <2>1, <3>1, <3>2, AppendProperties
    <3>4. \A i \in 1..Len(handed') : i \in 1..Len(handed) \/ i = Len(handed) + 1
      BY <2>2, <3>3
    <3> QED
      BY <2>2, <2>4, <3>3, <3>4
  <2> QED
    BY <2>3, <2>4
<1>8. AcceptorTypeOK'
  <2>1. secured' \in SUBSET Objects'
    <3>1. secured \in SUBSET Objects
      BY <1>1 DEF AcceptorTypeOK
    <3> QED
      BY <1>3, <1>6, <3>1
  <2>2. running \in BOOLEAN /\ halted \in BOOLEAN /\ stops \in 0..MaxStops
    BY <1>1 DEF AcceptorTypeOK
  <2>3. running' \in BOOLEAN /\ halted' \in BOOLEAN /\ stops' \in 0..MaxStops
    BY <2>2
  <2>4. shaking' \in [Ports -> Objects' \cup {0}]
    BY <1>3
  <2> QED
    BY <1>2, <1>5, <1>7, <2>1, <2>3, <2>4 DEF AcceptorTypeOK
<1>9. SparesDiffer'
  BY <1>1, <1>2, <1>4 DEF SparesDiffer
<1>10. \A i, j \in 1..Len(handed) : i # j => handed[i].conn # handed[j].conn
  BY DEF AcceptorInv, HandedOnceAndSecured
<1>11. \A i \in 1..Len(handed), q \in Ports : spare[q] # handed[i].conn
  BY DEF AcceptorInv, HandedOnceAndSecured
<1>12. ASSUME NEW i \in 1..Len(handed'), NEW j \in 1..Len(handed'), i # j
       PROVE  handed'[i].conn # handed'[j].conn
  <2>1. ASSUME NEW k \in 1..Len(handed')
        PROVE  \/ k \in 1..Len(handed) /\ handed'[k].conn = handed[k].conn
               \/ k = Len(handed) + 1 /\ handed'[k].conn = spare[p]
    <3>1. CASE k \in 1..Len(handed)
      <4>1. handed'[k] = handed[k]
        BY ONLY <1>7, <3>1
      <4> QED
        BY ONLY <3>1, <4>1
    <3>2. CASE k = Len(handed) + 1 /\ handed'[k] = [conn |-> spare[p], port |-> p]
      BY ONLY <3>2
    <3> QED
      BY ONLY <1>7, <2>1, <3>1, <3>2
  <2>2. \A k \in 1..Len(handed) : spare[p] # handed[k].conn
    BY <1>11
  <2> QED
    BY ONLY <1>10, <1>12, <2>1, <2>2
<1>13. ASSUME NEW i \in 1..Len(handed'), NEW q \in Ports
       PROVE  spare'[q] # handed'[i].conn
  <2>1. handed'[i].conn \in 1..Len(peer)
    <3>1. CASE i \in 1..Len(handed)
      <4>1. handed'[i] = handed[i] /\ handed[i] \in [conn : Objects, port : Ports]
        BY ONLY <1>7, <3>1
      <4>2. PICK h \in [conn : Objects, port : Ports] : h = handed'[i]
        BY ONLY <4>1
      <4> QED
        BY ONLY <4>2 DEF Objects
    <3>2. CASE handed'[i] = [conn |-> spare[p], port |-> p]
      BY ONLY <1>6, <3>2 DEF Objects
    <3> QED
      BY ONLY <1>7, <1>13, <3>1, <3>2
  <2>2. CASE q = p
    BY <1>1, <1>2, <1>4, <2>1, <2>2
  <2>3. CASE q # p
    <3>1. spare'[q] = spare[q] /\ spare[q] # spare[p]
      BY <1>1, <1>4, <2>3 DEF SparesDiffer
    <3>2. CASE i \in 1..Len(handed)
      <4>1. handed'[i] = handed[i] /\ spare[q] # handed[i].conn
        BY <1>7, <1>11, <3>2
      <4> QED
        BY <3>1, <4>1
    <3>3. CASE handed'[i] = [conn |-> spare[p], port |-> p]
      BY <3>1, <3>3
    <3> QED
      BY <1>7, <3>2, <3>3
  <2> QED
    BY <2>2, <2>3
<1>14. ASSUME NEW i \in 1..Len(handed'), handed'[i].port = "ssl"
       PROVE  handed'[i].conn \in secured'
  <2>1. \A k \in 1..Len(handed) : handed[k].port = "ssl" => handed[k].conn \in secured
    BY DEF AcceptorInv, HandedOnceAndSecured
  <2> QED
    BY <1>7, <1>14, <2>1
<1>15. Shaken'
  <2>1. \A q \in Ports : q # p => spare'[q] = spare[q]
    BY <1>1, <1>4
  <2> QED
    BY <2>1 DEF AcceptorInv, Shaken
<1> QED
  BY <1>8, <1>9, <1>12, <1>13, <1>14, <1>15 DEF AcceptorInv, HandedOnceAndSecured

(* What the invariant says depends on neither who waits nor who serves.      *)
LEMMA OthersKeep ==
  ASSUME AcceptorInv, AcceptorTypeOK', Shaken', UNCHANGED <<spare, secured, handed>>
  PROVE  AcceptorInv'
<1>1. SparesDiffer'
  BY DEF AcceptorInv, SparesDiffer
<1>2. HandedOnceAndSecured'
  BY DEF AcceptorInv, HandedOnceAndSecured
<1> QED
  BY <1>1, <1>2 DEF AcceptorInv

LEMMA StepAcceptorInv ==
  ASSUME AcceptorInv, [AcceptorNext]_acceptorVars
  PROVE  AcceptorInv'
<1>1. AcceptorTypeOK
  BY DEF AcceptorInv, HandedOnceAndSecured
<1>2. ASSUME NEW c \in Clients, NEW p \in Ports, Arrive(c, p) PROVE AcceptorInv'
  <2>1. Append(backlog[p], c) \in Seq(Clients)
    BY <1>1 DEF AcceptorTypeOK
  <2>2. AcceptorTypeOK' /\ UNCHANGED <<spare, secured, handed>>
    BY <1>1, <1>2, <2>1 DEF Arrive, AcceptorTypeOK, Objects
  <2>3. Shaken'
    BY <1>2 DEF Arrive, AcceptorInv, Shaken
  <2> QED
    BY <2>2, <2>3, OthersKeep
<1>3. ASSUME NEW p \in Ports, AcceptTcp(p) PROVE AcceptorInv'
  <2>1. backlog[p] # <<>> /\ p # "ssl"
    BY <1>3 DEF AcceptTcp, Accepts
  <2> DEFINE peers == PeersWith(p, Head(backlog[p]))
  <2>2. peers \in Seq(Clients \cup {"nobody"}) /\ Len(peers) = Len(peer)
        /\ [backlog EXCEPT ![p] = Tail(@)] \in [Ports -> Seq(Clients)]
    BY <1>1, <2>1, PeersKept
  <2>3. Replace(p, peers)
    BY <1>3 DEF AcceptTcp
  <2> HIDE DEF peers
  <2>4. /\ handed' = Append(handed, [conn |-> spare[p], port |-> p])
        /\ secured' = secured /\ state' = state
        /\ backlog' \in [Ports -> Seq(Clients)]
        /\ UNCHANGED <<running, halted, stops>>
    BY <1>3, <2>2 DEF AcceptTcp
  <2>5. state' \in [Ports -> {"armed", "handshake", "dead"}]
    BY <1>1, <2>4 DEF AcceptorTypeOK
  <2>6. /\ shaking' \in [Ports -> Objects \cup {0}]
        /\ \A q \in Ports : state'[q] = "handshake" =>
             q # p /\ state[q] = "handshake" /\ shaking'[q] = shaking[q]
    BY <1>1, <1>3 DEF AcceptTcp, Accepts, AcceptorTypeOK
  <2> QED
    BY <2>1, <2>2, <2>3, <2>4, <2>5, <2>6, ReplaceKeeps
<1>4. ASSUME NEW p \in Ports, AcceptSsl(p) PROVE AcceptorInv'
  <2>1. backlog[p] # <<>>
    BY <1>4 DEF AcceptSsl, Accepts
  <2>2. peer' \in Seq(Clients \cup {"nobody"}) /\ Len(peer') = Len(peer)
        /\ backlog' \in [Ports -> Seq(Clients)]
    BY <1>1, <1>4, <2>1, PeersKept DEF AcceptSsl
  <2>3. AcceptorTypeOK' /\ UNCHANGED <<spare, secured, handed>>
    BY <1>1, <1>4, <2>2 DEF AcceptSsl, AcceptorTypeOK, Objects
  <2>4. Shaken'
    BY <1>1, <1>4 DEF AcceptSsl, AcceptorTypeOK, AcceptorInv, Shaken
  <2> QED
    BY <2>3, <2>4, OthersKeep
<1>5. ASSUME NEW p \in Ports, HandshakeOk(p) \/ HandshakeFails(p) PROVE AcceptorInv'
  <2>1. Replace(p, peer)
    BY <1>5 DEF HandshakeOk, HandshakeFails
  <2>2. /\ peer \in Seq(Clients \cup {"nobody"})
        /\ backlog' \in [Ports -> Seq(Clients)]
        /\ state' \in [Ports -> {"armed", "handshake", "dead"}]
        /\ UNCHANGED <<running, halted, stops>>
    BY <1>1, <1>5 DEF HandshakeOk, HandshakeFails, AcceptorTypeOK
  <2>3. /\ handed' \in {handed, Append(handed, [conn |-> spare[p], port |-> p])}
        /\ handed' # handed => spare[p] \in secured'
        /\ secured \subseteq secured' /\ secured' \subseteq secured \cup {spare[p]}
    BY <1>5 DEF HandshakeOk, HandshakeFails, AcceptorInv, Shaken
  <2>4. /\ shaking' \in [Ports -> Objects \cup {0}]
        /\ \A q \in Ports : state'[q] = "handshake" =>
             q # p /\ state[q] = "handshake" /\ shaking'[q] = shaking[q]
    BY <1>1, <1>5 DEF HandshakeOk, HandshakeFails, AcceptorTypeOK
  <2> QED
    BY <2>1, <2>2, <2>3, <2>4, ReplaceKeeps
<1>6. ASSUME NEW p \in Ports, AcceptFails(p) PROVE AcceptorInv'
  <2>1. AcceptorTypeOK' /\ UNCHANGED <<spare, secured, handed>>
    BY <1>1, <1>6 DEF AcceptFails, AcceptorTypeOK, Objects
  <2>2. Shaken'
    BY <1>1, <1>6 DEF AcceptFails, AcceptorTypeOK, AcceptorInv, Shaken
  <2> QED
    BY <2>1, <2>2, OthersKeep
<1>7. ASSUME Run \/ RunEnds \/ Stop \/ UNCHANGED acceptorVars PROVE AcceptorInv'
  <2>1. UNCHANGED sockets
    BY <1>7 DEF Run, RunEnds, Stop, acceptorVars, sockets
  <2>2. running' \in BOOLEAN /\ halted' \in BOOLEAN
    <3>1. running \in BOOLEAN /\ halted \in BOOLEAN
      BY <1>1 DEF AcceptorTypeOK
    <3> QED
      BY <1>7, <3>1, Zenon DEF Run, RunEnds, Stop, acceptorVars, sockets
  <2>3. stops' \in 0..MaxStops
    <3>1. stops \in 0..MaxStops /\ MaxStops \in Nat
      BY <1>1, AcceptorAssumption DEF AcceptorTypeOK
    <3>2. stops' = stops \/ (stops < MaxStops /\ stops' = stops + 1)
      BY <1>7 DEF Run, RunEnds, Stop, acceptorVars, sockets
    <3> QED
      BY <3>1, <3>2
  <2>4. AcceptorTypeOK' /\ UNCHANGED <<spare, secured, handed>>
    BY <1>1, <2>1, <2>2, <2>3 DEF sockets, AcceptorTypeOK, Objects
  <2>5. Shaken'
    BY <2>1 DEF sockets, AcceptorInv, Shaken
  <2> QED
    BY <2>4, <2>5, OthersKeep
<1> QED
  BY <1>2, <1>3, <1>4, <1>5, <1>6, <1>7 DEF AcceptorNext, Handle

(* For any number of clients, whatever fails and whenever the server stops:  *)
(* no connection object is handed to handleRequest twice or accepted into    *)
(* again, and those of the TLS port are handed on after their handshake      *)
(* (server.cc:91, 118).                                                      *)
THEOREM EveryClientItsOwn == AcceptorSpec => []HandedOnceAndSecured
<1>1. AcceptorInit => AcceptorInv
  BY InitAcceptorInv
<1>2. AcceptorInv /\ [AcceptorNext]_acceptorVars => AcceptorInv'
  BY StepAcceptorInv
<1>3. AcceptorInv => HandedOnceAndSecured
  BY DEF AcceptorInv
<1> QED
  BY <1>1, <1>2, <1>3, PTL DEF AcceptorSpec
=============================================================================
