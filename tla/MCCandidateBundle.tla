------------------------- MODULE MCCandidateBundle -------------------------
(* A package with a changed and an unchanged pair, one whose equivalence is *)
(* not required, and a task that only compiles.                             *)
EXTENDS CandidateBundle, TLC

CONSTANTS tRequired, tOptional, p1, p2, h1, h2

MCPairsOf == [t \in Task |-> CASE t = tRequired -> <<p1, p2>>
                              [] t = tOptional -> <<p2>>
                              [] OTHER -> <<>>]
MCHandlersOf == [t \in Task |-> CASE t = tRequired -> {h1}
                                 [] t = tOptional -> {h2}
                                 [] OTHER -> {}]
MCPairOf == [h \in Handler |-> IF h = h1 THEN p1 ELSE p2]
MCModelsOf == [p \in Pair |-> {p}]

AllRan == [t \in Task |-> "ran"]
\* One task goes wrong, each in its way.
OneOff == {[AllRan EXCEPT ![t] = CASE t = tRequired -> "mutated"
                                   [] t = tOptional -> "failed"
                                   [] OTHER -> "build_failed"] : t \in Task}
Made(resume, trusted, policy, ends) ==
  [resume : resume, trusted : trusted, policy : policy, outcome : ends]
Policy == {"strict", "screening"}

\* A call without --resume, local or trusted ones with it, all ways to end.
MCMayCall == Made({FALSE}, {FALSE}, {"strict"}, {AllRan})
             \cup Made({TRUE}, BOOLEAN, Policy, {AllRan})
             \cup Made({TRUE}, BOOLEAN, {"strict"}, OneOff)
\* Resumed calls whose tasks all run, find their sources edited, or do not build.
MCRacing == Made({TRUE}, {FALSE}, {"strict"}, {AllRan} \cup OneOff)
MCOneFails == Made({TRUE}, BOOLEAN, Policy, {[AllRan EXCEPT ![tOptional] = "runner_error"]})
MCGates == Permutations(Gate)
=============================================================================
