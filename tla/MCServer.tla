------------------------------- MODULE MCServer -------------------------------
(***************************************************************************)
(* Server on small instances, without symmetry: the runs check liveness.   *)
(***************************************************************************)
EXTENDS Server, TLC

=============================================================================
