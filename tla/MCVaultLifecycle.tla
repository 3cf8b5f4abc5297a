------------------------- MODULE MCVaultLifecycle ---------------------------
(* Small instances of VaultLifecycle for TLC. *)
EXTENDS VaultLifecycle, TLC

CONSTANTS prime, pool1, pool2

\* do_create_vault treats every trustee of the committee alike here.
CommitteeSymmetry == Permutations(Committee)
=============================================================================
