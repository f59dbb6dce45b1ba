---------------------------- MODULE MCTeamAccess ----------------------------
EXTENDS TeamAccess, TLC

(* Identities, groups, teams, roles and requests are interchangeable;      *)
(* FirstOf tells providers apart.                                          *)
Symmetry == Permutations(Identity) \cup Permutations(Group) \cup Permutations(Team)
              \cup Permutations(Role) \cup Permutations(Request)
============================================================================
