------------------------------ MODULE MCPagify ------------------------------
(* Documents for TLC. *)
EXTENDS Pagify, SequencesExt

CONSTANT MaxPages

Text(h) == [kind |-> "text", holds |-> h]
Blank(h) == [kind |-> "blank", holds |-> h]

\* What may follow a break: nothing; text in an element of its own; text of a
\* paragraph that began before the break; and the same with text of a longer
\* paragraph, or white space, at the end.
Bodies == {<<>>, <<Text(0)>>, <<Text(1)>>, <<Text(0), Text(2)>>, <<Text(1), Blank(1)>>}

\* The j-th break of its type is on the j-th surface.
Break(types, j) ==
  [kind |-> "pb", tr |-> types[j], surface |-> Cardinality({k \in 1..j : types[k] = types[j]})]

MCDocs ==
  UNION {
    { FlattenSeq([j \in 1..n |-> <<Break(types, j)>> \o bodies[j]]) :
        types \in [1..n -> BOOLEAN], bodies \in [1..n -> Bodies] } : n \in 1..MaxPages }
=============================================================================
