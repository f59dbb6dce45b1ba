---------------------------- MODULE MCEscalation ----------------------------
EXTENDS Escalation, TLC

(* Two layers once; two layers and one repeat; one layer repeated forever. *)
Once     == [layers |-> <<0, 1>>, repeat |-> 0, max |-> 3]
Repeated == [layers |-> <<0, 1>>, repeat |-> 1, max |-> 1]
Forever  == [layers |-> <<1>>, repeat |-> 1, max |-> 0]

AllPolicies == {Once, Repeated, Forever}
Repeating   == {Repeated}

Symmetry == Permutations(Incident) \cup Permutations(Replica)
============================================================================
