----------------------------- MODULE Selection -----------------------------
(***************************************************************************)
(* What Vec::retain leaves of a vector and Iterator::filter yields: the    *)
(* elements that are in a set, in their order.  SelectSeq would say the    *)
(* same, but is built into the tools: nothing could be proved of it.       *)
(***************************************************************************)
EXTENDS SequencesExt

Selected(q, S) ==
    FoldLeft(LAMBDA kept, e : IF e \in S THEN Append(kept, e) ELSE kept, <<>>, q)
=============================================================================
