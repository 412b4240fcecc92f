------------------------------ MODULE SerialQueue ------------------------------
(***************************************************************************)
(* What one direction of a Connection promises: items are accepted in some *)
(* order, and processed strictly one after the other in that order.        *)
(***************************************************************************)
EXTENDS Naturals, Sequences

CONSTANT Items

VARIABLES
  accepted,  (* the items accepted so far, in order                         *)
  begun,     (* the items begun so far, in the order they were begun        *)
  done       (* the items done so far, in the order they were finished      *)

vars == <<accepted, begun, done>>

Init == accepted = <<>> /\ begun = <<>> /\ done = <<>>

Accept(i) ==
  /\ accepted' = Append(accepted, i)
  /\ UNCHANGED <<begun, done>>

(* Nothing is under way: the oldest item not yet begun is next.              *)
Begin ==
  /\ begun = done
  /\ Len(begun) < Len(accepted)
  /\ begun' = Append(begun, accepted[Len(begun) + 1])
  /\ UNCHANGED <<accepted, done>>

Finish ==
  /\ Len(done) < Len(begun)
  /\ done' = begun
  /\ UNCHANGED <<accepted, begun>>

Next == (\E i \in Items : Accept(i)) \/ Begin \/ Finish

Spec == Init /\ [][Next]_vars
=============================================================================
