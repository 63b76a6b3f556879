--------------------------- MODULE MCWebappDispatch ---------------------------
(* Two requests that share a connection, and a caller that wants no answer.  *)
EXTENDS WebappDispatch

CONSTANTS r1, r2, c1, c2, c3, s1, s2

OneSocket == [r \in Reqs |-> s1]

================================================================================
