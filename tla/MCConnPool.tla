------------------------------ MODULE MCConnPool ------------------------------
(* Small instances of ConnPool for TLC. *)
EXTENDS ConnPool, TLC

RequestSymmetry == Permutations(Requests) \cup Permutations(Deals)
=============================================================================
