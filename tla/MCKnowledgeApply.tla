-------------------------- MODULE MCKnowledgeApply ---------------------------
(* A small instance of KnowledgeApply for TLC. *)
EXTENDS KnowledgeApply, TLC

\* Two files, one beside a decision to be revised, none, an open decision.
MCSelections == {<<"yes", "yes">>, <<"yes", "other">>, <<"no", "other">>, <<"no", "none">>}

\* New files alone, and an updated page before a new file.
MCOperations == {<<"create", "create">>, <<"update", "create">>}

\* What two calls do that both hold the locks is not explored.
NotDoubled == ~doubled

Symmetry == Permutations(Calls)
=============================================================================
