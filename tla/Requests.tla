------------------------------- MODULE Requests -------------------------------
(***************************************************************************)
(* From a URL to its handler: the application of a Client percent-encodes  *)
(* a path and parameters, the Client writes them into a request line, the  *)
(* server's parser reads them (module Url) and a RequestHandler routes     *)
(* them (module Routing).                                                  *)
(***************************************************************************)
EXTENDS Routing, Url

CONSTANTS
  Wishes, (* what applications ask for: a path and a sequence of parameters *)
  Lines   (* request lines of other clients, after the method               *)

VARIABLES
  wish,   (* what the request was made from, or NoWish                      *)
  params  (* its parameters as the handler reads them                       *)

NoWish == [path |-> <<>>, params |-> <<>>]

RInit == Init /\ wish = NoWish /\ params = <<>>

-----------------------------------------------------------------------------
(* What the parser makes of each line.                                       *)
WishLines == [w \in Wishes |-> WishLine(w)]
Reading ==
  [l \in Lines \cup {WishLines[w] : w \in Wishes} |->
     LET t == ReadTarget(l) IN
     IF t.is = "request" THEN [is |-> "request", path |-> t.path, params |-> ReadParams(t.query)]
     ELSE t]

(* A request leaves nothing behind, so one for each table is enough; a line  *)
(* that is refused, or that the parser throws on, is not routed at all (what *)
(* it does to its connection: modules Parser and Session).                   *)
Arrive(line) ==
  /\ outcome = "none"
  /\ IF Reading[line].is = "request"
       THEN Start(Reading[line].path) /\ params' = Reading[line].params
       ELSE params' = <<>> /\ UNCHANGED vars

Ask(w) == wish' = w /\ Arrive(WishLines[w])
AskRaw(line) == wish' = NoWish /\ Arrive(line)

RNext ==
  \/ \E w \in Wishes : Ask(w)
  \/ \E l \in Lines : AskRaw(l)
  \/ (Look \/ Deliver) /\ UNCHANGED <<wish, params>>
  \/ \E b \in Bases : AddSubHandler(b) /\ wish' = NoWish /\ params' = <<>>
  \/ \E p \in Paths : outcome = "none" /\ Refuse(p) /\ wish' = NoWish /\ params' = <<>>

RSpec == RInit /\ [][RNext]_<<vars, wish, params>>
=============================================================================
