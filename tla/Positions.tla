------------------------------ MODULE Positions ------------------------------
(* The part of a sequence that is at some of its positions: what SelectSeq  *)
(* selects by a test, in a form that theorems can be proved about.          *)
EXTENDS Naturals, Sequences, FiniteSets

\* The k-th of a set of positions.
Position(at, k) == CHOOSE i \in at : Cardinality({ j \in at : j <= i }) = k

\* The elements at these positions, in their order.
ElementsAt(seq, at) == [k \in 1 .. Cardinality(at) |-> seq[Position(at, k)]]

=============================================================================
