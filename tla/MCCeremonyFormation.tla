------------------------ MODULE MCCeremonyFormation -------------------------
(* Small instances of CeremonyFormation for TLC. *)
EXTENDS CeremonyFormation, TLC

CONSTANTS ana, bo, cy, di, olga

\* Candidates are interchangeable; the operator is not one of them.
CandidateSymmetry == Permutations(People \ Operators)
=============================================================================
