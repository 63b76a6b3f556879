------------------------------ MODULE MCEdgeCloud ------------------------------
(* Vehicles, instances and tokens are interchangeable: the balancer decides  *)
(* by counts and by the order of its list, never by name.                    *)
EXTENDS EdgeCloud, TLC

Symmetry == Permutations(Clients) \cup Permutations(Endpoints) \cup Permutations(Tokens)

================================================================================
