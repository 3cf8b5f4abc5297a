--------------------------- MODULE MCLocalVault -----------------------------
(* Small instances of LocalVault for TLC. *)
EXTENDS LocalVault, TLC

CONSTANTS ash, birch

\* Nothing tells one codeword from another.
WordSymmetry == Permutations(Words)
=============================================================================
