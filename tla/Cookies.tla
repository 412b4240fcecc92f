-------------------------------- MODULE Cookies --------------------------------
(***************************************************************************)
(* Cookie headers (inc/cookie.hh; setCookie of inc/response.hh and         *)
(* inc/request.hh).  Keys and values are sequences of characters.  A       *)
(* Set-Cookie header is the text before its first ";" and its attributes   *)
(* in order, their names compared without case and leading blanks; of      *)
(* httponly nothing depends.                                               *)
(***************************************************************************)
EXTENDS Matching, Dates

Nth(S, n) == CHOOSE i \in S : Cardinality({j \in S : j <= i}) = n

(* The tokens between delimiters, a set of characters: none is empty.        *)
Tokens(s, delims) ==
  LET starts == {i \in 1..Len(s) : s[i] \notin delims /\ (i = 1 \/ s[i - 1] \in delims)}
      Token(i) == SubSeq(s, i, CHOOSE j \in i..Len(s) :
                    /\ \A k \in i..j : s[k] \notin delims
                    /\ j = Len(s) \/ s[j + 1] \in delims)
  IN  [n \in 1..Cardinality(starts) |-> Token(Nth(starts, n))]

NthToken(s, delims, n) == IF Len(Tokens(s, delims)) < n THEN <<>> ELSE Tokens(s, delims)[n]

NewCookie == [key |-> <<>>, val |-> <<>>, expires |-> 0, domain |-> <<>>, path |-> <<>>, secure |-> FALSE]

Pair(c) == c.key \o (IF c.val = <<>> THEN <<>> ELSE <<"=">> \o c.val)

(* Response::setCookie.                                                      *)
WriteSetCookie(c) ==
  [pair |-> Pair(c),
   attributes |->
     (IF c.expires = 0 THEN <<>> ELSE <<[name |-> "expires", date |-> GmtTime(c.expires)]>>)
     \o (IF c.domain = <<>> THEN <<>> ELSE <<[name |-> "domain", val |-> c.domain]>>)
     \o (IF c.path = <<>> THEN <<>> ELSE <<[name |-> "path", val |-> c.path]>>)
     \o (IF c.secure THEN <<[name |-> "secure"]>> ELSE <<>>)]

(* parseResponseCookie, at the time now in a zone without summer time.  The  *)
(* age is a number, or something else (NaN).  The last age counts, and a     *)
(* date only when there is none, or when it comes after one that is NaN.     *)
NaN == -999
TimeOf(date, zone) == CHOOSE t \in GmtToTime(date, zone) : TRUE
ParseResponseCookie(header, now, zone) ==
  LET as == header.attributes
      At(name) == {i \in 1..Len(as) : as[i].name = name}
      LastAt(name) == CHOOSE i \in At(name) : \A j \in At(name) : j <= i
      Value(name) == IF At(name) = {} THEN <<>> ELSE as[LastAt(name)].val
      age == IF At("max-age") = {} THEN 0 ELSE LastAt("max-age")
      byAge == IF age = 0 \/ as[age].age = NaN THEN 0 ELSE now + as[age].age
      dates == {i \in At("expires") : i > age /\ TimeOf(as[i].date, zone) # 0}
      byDate == IF dates = {} THEN 0
                ELSE TimeOf(as[CHOOSE i \in dates : \A j \in dates : i <= j].date, zone)
  IN  [key |-> NthToken(header.pair, {"="}, 1), val |-> NthToken(header.pair, {"="}, 2),
       expires |-> IF byAge # 0 THEN byAge ELSE byDate,
       domain |-> Value("domain"), path |-> Value("path"), secure |-> At("secure") # {}]

(* Request::setCookie, once for each.                                        *)
CookieHeader(cs) ==
  LET text[i \in 0..Len(cs)] ==
        IF i = 0 THEN <<>>
        ELSE text[i - 1] \o (IF i = 1 THEN <<>> ELSE <<";", " ">>) \o Pair(cs[i])
  IN  text[Len(cs)]

(* parseRequestCookie.  One record is filled again and again: a token        *)
(* without a value leaves that of the token before.  (First a slip: only     *)
(* blanks separate the pairs.)                                               *)
CookiesAmong(tokens) ==
  LET cookie[i \in 0..Len(tokens)] ==
        IF i = 0 THEN [key |-> <<>>, val |-> <<>>]
        ELSE LET pair == Tokens(tokens[i], {"="}) IN
             [key |-> IF pair = <<>> THEN cookie[i - 1].key ELSE pair[1],
              val |-> IF Len(pair) < 2 THEN cookie[i - 1].val ELSE pair[2]]
  IN  [i \in 1..Len(tokens) |-> cookie[i]]

ParseRequestCookieAtBlanks(text) == CookiesAmong(Tokens(text, {" "}))
ParseRequestCookie(text) == CookiesAmong(Tokens(text, {" ", ";"}))
=============================================================================
