------------------------ MODULE MC_ProfilePublishing ------------------------
(***************************************************************************)
(* Requests are model values nothing tells apart.                          *)
(***************************************************************************)
EXTENDS ProfilePublishing, TLC

Symmetry == Permutations(Requests)
=============================================================================
