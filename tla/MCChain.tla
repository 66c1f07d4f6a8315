------------------------------- MODULE MCChain -------------------------------
(***************************************************************************)
(* Three contracts; the last one needs an output of the first.  The second *)
(* stands between them and feeds nobody, so that both ways of accepting a  *)
(* result occur and a handoff can go stale before it is used.              *)
(***************************************************************************)
EXTENDS ChainPromise

MCEdges == {<<1, 3>>}
=============================================================================
