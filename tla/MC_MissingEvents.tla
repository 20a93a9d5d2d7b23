-------------------------- MODULE MC_MissingEvents --------------------------
(***************************************************************************)
(* The messages of MC_IsoIngestion, with sweeps for missing events.        *)
(***************************************************************************)
EXTENDS MC_IsoIngestion, MissingEvents

\* Sweeps have no identity that anything depends on.
SweepSymmetry == Permutations(Sweeps)
=============================================================================
