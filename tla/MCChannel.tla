------------------------------- MODULE MCChannel -------------------------------
(***************************************************************************)
(* Channel on small instances; addresses and SubConns are interchange-     *)
(* able.                                                                   *)
(***************************************************************************)
EXTENDS Channel, TLC

Symmetry == Permutations(Addr) \cup Permutations(SubConn)

\* Bound: the RPC begins once the channel was shown the last version.  It only
\* reads what it is routed by; all RPCs of a channel are those of Client.
RpcBeginsLate == RpcStep => view = MaxVersion
================================================================================
