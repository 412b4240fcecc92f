------------------------------- MODULE Routing -------------------------------
(***************************************************************************)
(* Which handler answers a request (src/RequestHandler.cc; isPathMatch in  *)
(* module Matching).  Handlers are registered under base paths and asked   *)
(* to route paths, in any order; a registered handler may itself route     *)
(* what is left of the path, so a table is one level of the tree.          *)
(*                                                                         *)
(* A path is a sequence of characters; only "/" is told from the others.   *)
(***************************************************************************)
EXTENDS Matching

CONSTANTS
  Char,     (* characters; one of them is "/"                               *)
  Bases,    (* the base paths handlers are registered under                 *)
  Paths,    (* the paths of requests                                        *)
  MaxTable  (* bound: handlers registered                                   *)

ASSUME RoutingAssumption ==
  /\ Bases \subseteq Seq(Char) /\ Paths \subseteq Seq(Char)
  /\ <<>> \notin Paths   (* isPathMatch reads the last character of a path  *)
  /\ MaxTable \in Nat

NoHandler == 0

VARIABLES
  table,   (* sub_handlers_: base paths; the handler is its index           *)
  path,    (* the request being answered                                    *)
  next,    (* deliverRequest: the entry it looks at                         *)
  best,    (* its best entry so far, or NoHandler                           *)
  outcome  (* what became of the request                                    *)

vars == <<table, path, next, best, outcome>>

Init ==
  /\ table = <<>> /\ path = <<>> /\ next = 1 /\ best = NoHandler
  /\ outcome = "none"

-----------------------------------------------------------------------------
BestSize == IF best = NoHandler THEN 0 ELSE Len(table[best])

(* Slip: the length of the best so far is not compared.                      *)
BetterIfMatches(i) == IsPathMatch(path, table[i])
Better(i) == Len(table[i]) >= BestSize /\ IsPathMatch(path, table[i])

-----------------------------------------------------------------------------
AddSubHandler(b) ==
  /\ outcome # "routing" /\ Len(table) < MaxTable
  /\ table' = Append(table, b)
  /\ path' = <<>> /\ next' = 1 /\ best' = NoHandler /\ outcome' = "none"

(* handleRequest: a method that is not implemented is not routed.            *)
Refuse(p) ==
  /\ outcome # "routing"
  /\ path' = p /\ outcome' = "refused"
  /\ next' = 1 /\ best' = NoHandler
  /\ UNCHANGED table

Start(p) ==
  /\ outcome # "routing"
  /\ path' = p /\ outcome' = "routing"
  /\ next' = 1 /\ best' = NoHandler
  /\ UNCHANGED table

(* deliverRequest: one round of its loop.                                    *)
Look ==
  /\ outcome = "routing" /\ next <= Len(table)
  /\ best' = IF Better(next) THEN next ELSE best
  /\ next' = next + 1
  /\ UNCHANGED <<table, path, outcome>>

(* deliverRequest: call the best one, or answer not found.                   *)
Deliver ==
  /\ outcome = "routing" /\ next > Len(table)
  /\ outcome' = IF best = NoHandler THEN "unmatched" ELSE "delivered"
  /\ UNCHANGED <<table, path, next, best>>

Next ==
  \/ \E b \in Bases : AddSubHandler(b)
  \/ \E p \in Paths : Refuse(p) \/ Start(p)
  \/ Look \/ Deliver

Spec == Init /\ [][Next]_vars

-----------------------------------------------------------------------------
(* The variables take values of their types.                                 *)
TypeOK ==
  /\ table \in Seq(Bases) /\ Len(table) <= MaxTable
  /\ path \in Paths \cup {<<>>}
  /\ next \in 1..Len(table) + 1
  /\ best \in 0..next - 1
  /\ outcome \in {"none", "routing", "delivered", "unmatched", "refused"}

Matching(n) == {i \in 1..n : IsPathMatch(path, table[i])}

(* The loop's invariant: after n rounds the best entry is the last of the    *)
(* longest that match among the first n.                                     *)
BestSoFar ==
  outcome \in {"routing", "delivered", "unmatched"} =>
    IF Matching(next - 1) = {} THEN best = NoHandler
    ELSE /\ best \in Matching(next - 1)
         /\ \A i \in Matching(next - 1) :
              /\ Len(table[i]) <= Len(table[best])
              /\ Len(table[i]) = Len(table[best]) => i <= best

(* A request is answered by the longest matching base registered last, and   *)
(* not found only when none matches (RequestHandler.cc:66).                  *)
MostSpecificAnswers ==
  outcome \in {"delivered", "unmatched"} =>
    /\ outcome = "unmatched" <=> Matching(Len(table)) = {}
    /\ outcome = "delivered" =>
         /\ IsPathMatch(path, table[best])
         /\ \A i \in Matching(Len(table)) :
              Len(table[i]) < Len(table[best])
                \/ (Len(table[i]) = Len(table[best]) /\ i <= best)

(* Two handlers of equal standing were registered under the same base: the   *)
(* answer depends on the order of registration only for equal bases.         *)
NoAmbiguity ==
  outcome = "routing" =>
    \A i, j \in Matching(Len(table)) :
       Len(table[i]) = Len(table[j]) => table[i] = table[j]

(* Reference: a clean absolute base covers a path when its segments are the  *)
(* first segments of the path; so with a slash at the end of both, one is a  *)
(* prefix of the other.                                                      *)
Clean(s) ==
  /\ s # <<>> /\ s[1] = "/"
  /\ \A i \in 1..Len(s) - 1 : ~(s[i] = "/" /\ s[i + 1] = "/")
WithSlash(s) == IF Last(s) = "/" THEN s ELSE Append(s, "/")
Covers(b, p) ==
  LET bs == WithSlash(b)  ps == WithSlash(p) IN
  Len(bs) <= Len(ps) /\ SubSeq(ps, 1, Len(bs)) = bs

(* Matching is by whole segments, a trailing slash does not matter, and so   *)
(* "/a" answers "/a", "/a/" and "/a/b" but never "/ab" (utils.cc:288).       *)
MatchIsBySegments ==
  \A i \in 1..Len(table) :
     Clean(path) /\ Clean(table[i]) =>
       (IsPathMatch(path, table[i]) <=> Covers(table[i], path))
=============================================================================
