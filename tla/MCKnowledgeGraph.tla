-------------------------- MODULE MCKnowledgeGraph --------------------------
EXTENDS KnowledgeGraph, TLC

(* Replicas and incidents are interchangeable; row ids are not, because    *)
(* the next unused one is chosen.                                          *)
Symmetry == Permutations(Replica) \cup Permutations(Incident)
============================================================================
