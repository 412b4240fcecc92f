------------------------------ MODULE MCRequests ------------------------------
(***************************************************************************)
(* Model checking of Routing under Requests: tables of the bases that      *)
(* differ in what matters (empty, root, with and without a trailing slash, *)
(* a prefix that ends inside a segment), paths of up to three characters   *)
(* with and without what must be encoded, and lines no Client writes.      *)
(***************************************************************************)
EXTENDS Requests

MCBases == {<<>>, <<"/">>, <<"a">>, <<"/", "/">>, <<"/", "a">>, <<"/", "a", "/">>,
            <<"/", "b">>, <<"/", "a", "b">>, <<"/", "a", "/", "b">>, <<"/", "+">>}

(* The parameters are read whatever the path: a few of each with the others. *)
Plain == {<<"/">> \o t : t \in UNION {[1..n -> {"/", "a", "b"}] : n \in 0..2}}
         \cup {<<"/", "a", "/", "b">>, <<"/", "a", "/", "b", "/">>}
Odd == {<<"/", c>> : c \in DOMAIN Code} \cup {<<"/", "a", "/", c>> : c \in DOMAIN Code}
Text == {<<"a">>, <<"&", "=">>, <<"+", " ">>, <<"%", "2", "b">>, <<"?">>}
Params ==
  {<<[key |-> k, val |-> v]>> : k \in Text, v \in Text \cup {<<>>}}
  \cup {<<[key |-> k, val |-> <<"a">>], [key |-> <<"a">>, val |-> v]>> : k \in Text, v \in Text}
MCWishes ==
  {[path |-> p, params |-> <<>>] : p \in Plain \cup Odd}
  \cup {[path |-> <<"/", "a">>, params |-> ps] : ps \in Params}

MCLines ==
  LET V == <<" ", "V">> IN
  {l \o V : l \in UNION {[1..n -> {"/", "a", "%"}] : n \in 1..3}}
  \cup {<<"?">> \o V, <<"?">>, <<"?", "%", "?", "a">> \o V, <<"?", "a">> \o V, <<" ", "/">>}
  \cup {<<"a", "?", "a", "?", "b">> \o V, <<"/", "+">> \o V, <<"/", "%", "2", "b">> \o V,
        <<"/", "a">>, <<"/", "a", " ", "b">> \o V}

MCPaths ==
  {t.path : t \in {t \in {ReadTarget(l) : l \in MCLines \cup {WishLine(w) : w \in MCWishes}} :
                             t.is = "request"}}
MCChar == DOMAIN Code \cup {Other}

Meant(ps) ==
  [k \in {ps[i].key : i \in 1..Len(ps)} |->
     ps[CHOOSE i \in 1..Len(ps) : ps[i].key = k /\ \A j \in i + 1..Len(ps) : ps[j].key # k].val]

(* Reference: where the words of a text are, and when its escapes are whole. *)
FirstWord(s, d, i, j) ==
  /\ i <= j /\ \A k \in 1..i - 1 : s[k] = d
  /\ \A k \in i..j : s[k] # d
  /\ j < Len(s) => s[j + 1] = d
Word(s, d) ==
  LET at == {<<i, j>> \in (1..Len(s)) \X (1..Len(s)) : FirstWord(s, d, i, j)} IN
  {SubSeq(s, w[1], w[2]) : w \in at}
WholeEscapes(s) ==
  \A k \in 1..Len(s) : s[k] = "%" => k + 2 <= Len(s) /\ IsHex(s[k + 1]) /\ IsHex(s[k + 2])

(* Any line of few characters, whatever blanks and marks are in it, is a     *)
(* request just if it has a target whose part before the query has whole     *)
(* escapes, and something behind it; the handler is not called just if the   *)
(* target is made of question marks.                                         *)
AnyLine == UNION {[1..n -> {" ", "?", "%", "a"}] : n \in 1..6}
LinesAreJudged ==
  \A l \in AnyLine :
    /\ ReadTarget(l).is = "request" <=>
         /\ \E t \in Word(l, " ") : \E p \in Word(t, "?") : WholeEscapes(p)
         /\ \E i, j, k \in 1..Len(l) : i < j /\ j < k /\ l[i] # " " /\ l[j] = " " /\ l[k] # " "
    /\ ReadTarget(l).is = "throws" <=> \E t \in Word(l, " ") : \A k \in 1..Len(t) : t[k] = "?"

(* What an application asked for is what the handler sees: the path and, of  *)
(* parameters of one name, the last value, whatever characters are in them;  *)
(* and a line is refused only if it has no target, no version or a bad       *)
(* escape, and passed over in silence only if its target has no path         *)
(* (parser.cc:222, utils.cc:164).  The lines are judged before there is a    *)
(* table, which plays no part in it.                                         *)
ArrivesAsMeant ==
  /\ table = <<>> /\ path = <<>> /\ wish = NoWish => LinesAreJudged
  /\ wish # NoWish => path = wish.path /\ params = Meant(wish.params)
=============================================================================
