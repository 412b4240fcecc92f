------------------------------- MODULE MCParser -------------------------------
(***************************************************************************)
(* Model checking of Parser against the reference framing.  Inputs are     *)
(* streams over few symbols, cut anywhere: every truncation is a peer that *)
(* closes in the middle.                                                   *)
(***************************************************************************)
EXTENDS Parser, FiniteSets

Words(S, n) == UNION {[1..k -> S] : k \in 0..n}

(* Chunked messages, well-formed or not, with whatever may follow.           *)
ChunkedStart == <<Sym("request"), Sym("chunked"), Sym("blank")>>
ChunkedTails == Words({SizeLine(0), SizeLine(1), SizeLine(2), Sym("blank"), Sym("byte")}, 6)
CutInputs == {ChunkedStart \o <<SizeLine(4)>> \o w : w \in Words({SizeLine(0), Sym("blank"), Sym("byte")}, 3)}
ChunkedInputs == {ChunkedStart \o w : w \in ChunkedTails} \cup CutInputs

(* (CutInputs: a chunk that ends early, where what is left still reads like   *)
(* the end of a message.)                                                     *)
(* Head lines of every kind, then a body with a length or none.              *)
HeadWords == Words({Sym("request"), LengthLine(0), LengthLine(1), LengthLine(2), Sym("badlength"),
                    Sym("host"), Sym("blank"), Sym("byte")}, 5)
HeadInputs == HeadWords \cup {<<Sym("request")>> \o w : w \in HeadWords}
              \cup {h \o <<Sym("queryonly"), Sym("blank")>> : h \in {<<>>, <<Sym("request"), Sym("blank")>>}}
              \cup {<<Sym("request"), Sym("chunked"), LengthLine(1), Sym("blank"), Sym("byte")>>,
                    <<Sym("request"), Sym("chunked"), Sym("blank"), SizeLine(5)>>}
              \cup {<<Sym("request"), LengthLine(n), Sym("blank"), Sym("byte")>> : n \in {4, 9, 17}}

AllInputs == ChunkedInputs \cup HeadInputs
=============================================================================
