------------------------------ MODULE HttpFraming ------------------------------
(***************************************************************************)
(* A reference definition of the messages in a stream, against which the   *)
(* parser and the writer are compared: what an ideal reader that sees all  *)
(* the bytes at once makes of the well-formed messages at the front of the *)
(* stream.                                                                 *)
(*                                                                         *)
(* A symbol stands for one byte of the stream, except that the last byte   *)
(* of a line carries what the whole line says (a line is as long as one    *)
(* body byte, which only scales the counts):                               *)
(*   "request"  a good first line      "queryonly" one whose URL is "?"    *)
(*   "length"   Content-Length: n      "badlength" Content-Length: no digit*)
(*   "chunked"  Transfer-Encoding      "host"      any other header line   *)
(*   "size"     a chunk size line, n   "blank"     an empty line           *)
(*   "byte"     a byte that is no newline and no hexadecimal digit         *)
(***************************************************************************)
EXTENDS Integers, Sequences

Symbol == [is : {"request", "queryonly", "length", "badlength", "chunked",
                 "host", "size", "blank", "byte"}, n : Nat]
Sym(s) == [is |-> s, n |-> 0]
LengthLine(k) == [is |-> "length", n |-> k]
SizeLine(k) == [is |-> "size", n |-> k]
Byte(k) == [is |-> "byte", n |-> k]

(* A walk over a stream: from each position that next has it goes on to a    *)
(* later one and collects what out has there, and it ends where next has     *)
(* nothing.                                                                  *)
WalkFrom(next, out, i) ==
  LET walk[j \in Nat] ==
        IF j \in DOMAIN next
        THEN [end |-> walk[next[j]].end, out |-> out[j] \o walk[next[j]].out]
        ELSE [end |-> j, out |-> <<>>]
  IN  walk[i]

(* The header lines from position i: the numbers of those of one kind.       *)
HeaderLines(s) == {i \in 1..Len(s) : s[i].is \in {"length", "chunked", "host"}}
Headers(s, kind, i) ==
  WalkFrom([j \in HeaderLines(s) |-> j + 1],
           [j \in HeaderLines(s) |-> IF s[j].is = kind THEN <<s[j].n>> ELSE <<>>], i)

(* The chunks from position i that are not empty: their data.                *)
IsChunk(s, max, i) ==
  /\ i \in 1..Len(s) /\ s[i].is = "size" /\ s[i].n <= max
  /\ i + s[i].n < Len(s) /\ s[i + s[i].n + 1].is = "blank"
FullChunks(s, max) == {i \in 1..Len(s) : IsChunk(s, max, i) /\ s[i].n > 0}
Chunks(s, max, i) ==
  WalkFrom([j \in FullChunks(s, max) |-> j + s[j].n + 2],
           [j \in FullChunks(s, max) |-> SubSeq(s, j + 1, j + s[j].n)], i)

(* The message at position i: its body, and where the next one starts.  The  *)
(* first Content-Length decides, else the transfer coding.                   *)
Malformed == [ok |-> FALSE]
WellFormed(body, next) == [ok |-> TRUE, body |-> body, next |-> next]

Message(s, max, i) ==
  LET lengths == Headers(s, "length", i + 1)
      blank == lengths.end
      sized == blank + lengths.out[1]
      chunks == Chunks(s, max, blank + 1)
  IN  IF i \notin 1..Len(s) \/ s[i].is # "request" \/ blank > Len(s) \/ s[blank].is # "blank"
      THEN Malformed
      ELSE IF lengths.out # <<>>
      THEN IF sized <= Len(s) THEN WellFormed(SubSeq(s, blank + 1, sized), sized + 1)
                              ELSE Malformed
      ELSE IF Headers(s, "chunked", i + 1).out = <<>> THEN WellFormed(<<>>, blank + 1)
      ELSE IF IsChunk(s, max, chunks.end) THEN WellFormed(chunks.out, chunks.end + 2)
                                          ELSE Malformed

(* The bodies of all the well-formed messages from position i.               *)
Messages(s, max) == {i \in 1..Len(s) : Message(s, max, i).ok}
BodiesFrom(s, max, i) ==
  WalkFrom([j \in Messages(s, max) |-> Message(s, max, j).next],
           [j \in Messages(s, max) |-> <<Message(s, max, j).body>>], i).out
Bodies(s, max) == BodiesFrom(s, max, 1)

(* The stream is one well-formed message and nothing else.                   *)
IsOneMessage(s, max) == Message(s, max, 1).ok /\ Message(s, max, 1).next = Len(s) + 1
=============================================================================
