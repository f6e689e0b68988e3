------------------------------- MODULE MCEndpoints -------------------------------
(***************************************************************************)
(* Endpoints on small instances; dials and contexts are interchangeable.   *)
(***************************************************************************)
EXTENDS Endpoints, TLC

Symmetry == Permutations(Dial) \cup Permutations(Context \ UserContext)

==================================================================================
