----------------------------- MODULE MCGateway ------------------------------
(***************************************************************************)
(* Gateway for TLC.                                                        *)
(***************************************************************************)
EXTENDS Gateway

MCValues == {<<>>, <<"sp">>, <<"open", "hash", "comma">>, <<"close">>}
Symmetry == Permutations(Models) \cup Permutations(Ports) \cup Permutations(Instances)
=============================================================================
