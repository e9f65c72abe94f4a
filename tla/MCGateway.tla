----------------------------- MODULE MCGateway -----------------------------
(* Symmetry for the run of Gateway.                                        *)
EXTENDS Gateway, TLC

Symmetry == Permutations(Upstreams) \cup Permutations(Requests)
=============================================================================
