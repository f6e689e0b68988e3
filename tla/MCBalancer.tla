------------------------------ MODULE MCBalancer ------------------------------
(***************************************************************************)
(* Balancer on small instances: the SubConn identities are interchangeable *)
(* (no operator chooses among them), and so are the addresses.             *)
(***************************************************************************)
EXTENDS Balancer, TLC

Symmetry == Permutations(SubConn) \cup Permutations(Addr)

=============================================================================
