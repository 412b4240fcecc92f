---------------------------------- MODULE Url ----------------------------------
(***************************************************************************)
(* The texts of a request line: tokens and percent coding (src/utils.cc,   *)
(* inc/utils.hh), the target a Client writes (src/client.cc,               *)
(* src/request.cc) and what the parser (src/parser.cc) and parseParams     *)
(* (inc/request.hh) read in it.                                            *)
(*                                                                         *)
(* A text is a sequence of characters.  The codes are given of those that  *)
(* the code tells from others and of a few it does not; any other byte a   *)
(* target may decode to is Other.                                          *)
(***************************************************************************)
EXTENDS Integers, Sequences, TLC
LOCAL INSTANCE SequencesExt

Code == (" " :> 32) @@ ("%" :> 37) @@ ("&" :> 38) @@ ("+" :> 43) @@ ("/" :> 47)
        @@ ("=" :> 61) @@ ("?" :> 63) @@ ("2" :> 50) @@ ("a" :> 97) @@ ("b" :> 98) @@ ("~" :> 126)
Other == "other"
Character(n) == IF \E c \in DOMAIN Code : Code[c] = n THEN CHOOSE c \in DOMAIN Code : Code[c] = n
                ELSE Other

Unreserved == {"2", "a", "b", "~"} (* letters, digits and "-_.~"              *)
Hex == <<"0", "1", "2", "3", "4", "5", "6", "7", "8", "9", "A", "B", "C", "D", "E", "F">>
SmallHex == [Hex EXCEPT ![11] = "a", ![12] = "b", ![13] = "c", ![14] = "d", ![15] = "e", ![16] = "f"]

(* explode: the non-empty pieces between the delimiters.                     *)
Explode(s, delim) ==
  LET Add(acc, c) ==
        IF c # delim THEN [acc EXCEPT !.buff = Append(@, c)]
        ELSE IF acc.buff = <<>> THEN acc
        ELSE [v |-> Append(acc.v, acc.buff), buff |-> <<>>]
      last == FoldLeft(Add, [v |-> <<>>, buff |-> <<>>], s)
  IN  IF last.buff = <<>> THEN last.v ELSE Append(last.v, last.buff)

UrlEncode(s) ==
  FlattenSeq([i \in 1..Len(s) |->
    IF s[i] \in Unreserved THEN <<s[i]>>
    ELSE IF s[i] = " " THEN <<"+">>
    ELSE <<"%", Hex[(Code[s[i]] \div 16) + 1], Hex[(Code[s[i]] % 16) + 1]>>])

FromHex(c) == (CHOOSE n \in 1..16 : c \in {Hex[n], SmallHex[n]}) - 1
IsHex(c) == \E n \in 1..16 : c \in {Hex[n], SmallHex[n]}

(* urlDecode: its result, and the text it leaves (the old one on failure).   *)
(* Before it a slip: "+" stays as it is.                                     *)
Decoding(s, plus) ==
  LET text[i \in 1..Len(s) + 1] ==
        IF i > Len(s) THEN <<>>
        ELSE IF s[i] = "+" THEN <<plus>> \o text[i + 1]
        ELSE IF s[i] # "%" THEN <<s[i]>> \o text[i + 1]
        ELSE <<Character(FromHex(s[i + 1]) * 16 + FromHex(s[i + 2]))>> \o text[i + 3]
      Escape(i) == s[i] = "%" /\ ~\E k \in {i - 1, i - 2} : k > 0 /\ s[k] = "%"
      good == \A i \in 1..Len(s) :
                Escape(i) => i + 2 <= Len(s) /\ IsHex(s[i + 1]) /\ IsHex(s[i + 2])
  IN  [ok |-> good, text |-> IF good THEN text[1] ELSE s]

DecodePlusAsIs(s) == Decoding(s, "+")
UrlDecode(s) == Decoding(s, " ")

-----------------------------------------------------------------------------
(* What an application gives to the Client: the path with its slashes, the   *)
(* keys and values encoded.                                                  *)
EncodePath(p) ==
  FlattenSeq([i \in 1..Len(p) |-> IF p[i] = "/" THEN <<"/">> ELSE UrlEncode(<<p[i]>>)])
EncodeParams(ps) ==
  FlattenSeq([i \in 1..Len(ps) |->
    (IF i = 1 THEN <<>> ELSE <<"&">>) \o UrlEncode(ps[i].key) \o <<"=">> \o UrlEncode(ps[i].val)])

(* Client::request and Request: the part of a URL after the host, split at   *)
(* the first "?" and put together again.                                     *)
FirstMark(s) ==
  IF Contains(s, "?") THEN CHOOSE i \in 1..Len(s) : s[i] = "?" /\ \A k \in 1..i - 1 : s[k] # "?"
  ELSE Len(s) + 1
ClientPath(s) ==
  LET p == IF s = <<>> \/ s[1] # "/" THEN <<"/">> \o s ELSE s IN SubSeq(p, 1, FirstMark(p) - 1)
ClientQuery(s) == SubSeq(s, FirstMark(s) + 1, Len(s))
ClientTarget(s) ==
  ClientPath(s) \o (IF ClientQuery(s) = <<>> THEN <<>> ELSE <<"?">> \o ClientQuery(s))

(* Method, target and version: here without the method.                      *)
WishLine(w) ==
  ClientTarget(EncodePath(w.path)
               \o (IF w.params = <<>> THEN <<>> ELSE <<"?">> \o EncodeParams(w.params)))
    \o <<" ", "V">>

(* parse_request_first_line, after a method: the tokens after it.  A target  *)
(* of nothing but "?" has no token, and nextToken throws before anything     *)
(* else is looked at.                                                        *)
BadRequest == [is |-> "bad"]
NoPath == [is |-> "throws"]
ReadTarget(line) ==
  LET words == Explode(line, " ")
      parts == Explode(words[1], "?")
      path == UrlDecode(parts[1])
  IN  IF words = <<>> THEN BadRequest
      ELSE IF parts = <<>> THEN NoPath
      ELSE IF ~path.ok \/ Len(words) = 1 THEN BadRequest
      ELSE [is |-> "request", path |-> path.text,
            query |-> IF Len(parts) > 1 THEN parts[2] ELSE <<>>]

(* parseParams: of two parameters of one name the last counts.               *)
ReadParams(query) ==
  LET pairs == SelectSeq([i \in 1..Len(Explode(query, "&")) |-> Explode(Explode(query, "&")[i], "=")],
                         LAMBDA p : p # <<>>)
      Key(p) == UrlDecode(p[1]).text
      Val(p) == IF Len(p) > 1 THEN UrlDecode(p[2]).text ELSE <<>>
      Add(map, p) == (Key(p) :> Val(p)) @@ map
  IN  FoldLeft(Add, <<>>, pairs)
=============================================================================
