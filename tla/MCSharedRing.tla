----------------------------- MODULE MCSharedRing -----------------------------
(***************************************************************************)
(* Two consumers of SharedRing that are interchangeable.                   *)
(***************************************************************************)
EXTENDS SharedRing, TLC

CONSTANTS zoom, teams

Symmetry == Permutations(Readers)
=============================================================================
