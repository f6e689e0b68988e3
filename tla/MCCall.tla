--------------------------------- MODULE MCCall ---------------------------------
(***************************************************************************)
(* Call on small instances; the addresses are interchangeable.             *)
(***************************************************************************)
EXTENDS Call, TLC

Symmetry == Permutations(Addr)

=================================================================================
