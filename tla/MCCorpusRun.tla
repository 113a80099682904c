---------------------------- MODULE MCCorpusRun ----------------------------
(* A source with tasks of the equivalence lane, e1 with two pairs, e2 with  *)
(* one and n1 without validators, and a task d1 of another lane.            *)
EXTENDS CorpusRun

CONSTANTS s1, e1, e2, n1, d1, p1, p2, p3

MCSourceOf == [t \in Task |-> s1]
MCPairs == [t \in Equivalence |-> CASE t = e1 -> {p1, p2} [] t = e2 -> {p3} [] OTHER -> {}]
MCSelections == {Task} \cup {{t} : t \in Task}
=============================================================================
