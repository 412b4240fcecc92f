------------------------------- MODULE MCClient -------------------------------
(* Model checking of Client: a plain and a secure request, to one host or to *)
(* two, under way at the same time, in a zone one hour east of Greenwich.    *)
EXTENDS Client, TLC

CONSTANTS r1, r2
MCConns == {r1, r2}
MCSslConns == {r2}

MCCharacters == {"/", ".", "1", "2", "a", "b", "x", "k", "l", "v", "="}
Site == <<"a", ".", "b">>
Parent == <<"b">>
Near == <<"x", "b">>
Address == <<"1", ".", "2", ".", "2", ".", "2">>
MCAddresses == {Address}
Root == <<"/">>
Under == <<"/", "a">>
Beside == <<"/", "a", "b">>
Url(host, path) == [host |-> host, path |-> path]
MCUrlMaps ==
  {[r \in MCConns |-> IF r = r1 THEN Url(u[1], u[2]) ELSE Url(u[3], u[4])] :
     u \in {<<Site, Under \o Root, Near, Under>>, <<Address, Under \o Root, Address, Beside>>}}

MCZone == [offset |-> 3600, summer |-> FALSE]

(* Start is 1 July 2024, 12:00.                                              *)
(* One cookie with a value, one without, one after that; the three together  *)
(* on a request to Site if the other server set them for the domain of both. *)
K == [NewCookie EXCEPT !.key = <<"k">>, !.val = <<"v", "=", "=">>] @@ [age |-> <<>>]
L == [NewCookie EXCEPT !.key = <<"l">>] @@ [age |-> <<>>]
X == [NewCookie EXCEPT !.key = <<"x">>, !.val = <<"k">>] @@ [age |-> <<>>]
MCAnswers ==
  {<<[K EXCEPT !.secure = TRUE, !.age = <<0>>],
     [L EXCEPT !.expires = Start + 5, !.age = <<0 - 1>>]>>,
   <<[K EXCEPT !.expires = Start, !.domain = <<".", "b">>],
     [L EXCEPT !.path = Under, !.domain = Parent], [X EXCEPT !.domain = Parent]>>,
   <<[K EXCEPT !.domain = <<"2", ".", "2">>], [L EXCEPT !.path = Under, !.expires = Start, !.age = <<NaN>>]>>}
=============================================================================
