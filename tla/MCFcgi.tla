-------------------------------- MODULE MCFcgi --------------------------------
(***************************************************************************)
(* Model checking of Fcgi: a FastCGI application that decodes the request  *)
(* by the protocol's rules, and answers in records of any cut.             *)
(***************************************************************************)
EXTENDS Fcgi

Line(is) == Sym(is, 0, 0)
Req(root, slash, query, length, fs, set) ==
  [root |-> root, slash |-> slash, method |-> 3, path |-> 9, query |-> query,
   body |-> length, fields |-> fs, set |-> set]

(* No document root, the root alone without a body, and parts at the edges   *)
(* of the length fields.                                                     *)
Edge(query, cookie, length) ==
  Req(5, FALSE, query, length, [h \in {"Cookie", "Content-Type"} |-> cookie], <<>>)

SomeRequests ==
  { Req(0, FALSE, 0, 0, <<>>, <<>>), Req(1, TRUE, 0, 0, <<>>, <<Line("field")>>),
    Edge(127, 128, 65535), Edge(256, 65000, 65536) }

SomeScripts ==
  { <<Line("nocolon"), Sym("status", 0, 0)>>,
    <<Sym("status", 404, 0), Line("field"), Line("blank"), Sym("byte", 1, 0)>> }

-----------------------------------------------------------------------------
(* Once the application has ended the request or closed the connection, the  *)
(* response is sent: a closure that keeps it on every path (fcgi.cc:213).    *)
AnswerIsReleased == (ended # -1 \/ gone) ~> released
=============================================================================
