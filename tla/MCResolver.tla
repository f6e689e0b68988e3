------------------------------ MODULE MCResolver ------------------------------
(***************************************************************************)
(* Resolver on small instances, without symmetry: the runs check liveness. *)
(***************************************************************************)
EXTENDS Resolver, TLC

=============================================================================
