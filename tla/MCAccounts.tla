----------------------------- MODULE MCAccounts -----------------------------
EXTENDS Accounts, TLC

(* Ids, tokens, requests and replicas are interchangeable. *)
Symmetry == Permutations(User) \cup Permutations(Session) \cup Permutations(Request)
              \cup Permutations(Server)
============================================================================
