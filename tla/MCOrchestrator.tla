---------------------------- MODULE MCOrchestrator ----------------------------
(***************************************************************************)
(* Small instances of Orchestrator for TLC.  The order of the group names  *)
(* disagrees with the order their `requires` lists ask for.                *)
(***************************************************************************)
EXTENDS Orchestrator

\* 1 and 2 depend on 4, and 3 depends on 1
Tree == [nodes |-> {1, 2, 3, 4},
         depends |-> [n \in Node |-> CASE n \in {1, 2} -> {4} [] n = 3 -> {1} [] OTHER -> {}]]

Listing(n1, n2, n3, r1, r2, r3, w1, w2, w3) ==
    [nodes |-> <<n1, n2, n3>>, requires |-> <<r1, r2, r3>>, width |-> <<w1, w2, w3>>]

\* group 3, then group 2, then group 1, which requires both
Phases == Listing(<<3>>, <<1, 2>>, <<4>>, {2, 3}, {3}, {}, 1, 2, 1)
\* group 2 is one sequence, group 1 has the leaf, group 3 repeats a node
OneSequence == Listing(<<3>>, <<4, 1, 2>>, <<2>>, {2}, {}, {2}, 2, 1, 2)
\* a parallel group with a dependency between its chunks: not well grouped
TwoChunks == Listing(<<4, 1, 3>>, <<2>>, <<2, 2>>, {}, {1}, {}, 2, 1, 2)
\* groups that wait for each other, which validation reports
Circular == Listing(<<4>>, <<1>>, <<2>>, {}, {3}, {2}, 1, 1, 1)

SomeGroupings == {Phases, OneSequence, TwoChunks, Circular}

\* what `agm run --group` can ask for, and what the unit tests ask for as well
NamedTarget == {{g} : g \in Groups}
AnyTarget == NamedTarget \cup {Groups}
===============================================================================
