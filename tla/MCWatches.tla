------------------------------- MODULE MCWatches -------------------------------
(* Small instances of Watches for TLC. *)
EXTENDS Watches, TLC

CONSTANTS p, q, g, h, a, w1

\* g is listed by p at a but comes from q; h is named by its GUID on q and comes
\* from p.
Named == {[peer |-> p, path |-> a, guid |-> g], [peer |-> q, path |-> NoPath, guid |-> h]}
FromTheOther == [x \in Guids |-> IF x = g THEN q ELSE p]
OnQ == w1 :> [guid |-> g, sources |-> <<[peer |-> q, path |-> NoPath]>>, origin |-> p, dest |-> NoPath]
=============================================================================
