-------------------------- MODULE MCAlertPipeline --------------------------
EXTENDS AlertPipeline, TLC

(* Requests, replicas, incident ids and row ids are interchangeable. *)
Symmetry == Permutations(Incident) \cup Permutations(Request)
              \cup Permutations(Replica) \cup Permutations(Notification)
============================================================================
