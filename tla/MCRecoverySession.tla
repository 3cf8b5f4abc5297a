------------------------- MODULE MCRecoverySession --------------------------
(***************************************************************************)
(* Small instances of RecoverySession for TLC.  The shards of a recovery   *)
(* are shards over the field of the code: that one is an instance of       *)
(* GF256Sharing, so FieldAssumption is evaluated for it.                   *)
(***************************************************************************)
EXTENDS RecoverySession, GF256Sharing, TLC

CONSTANTS prime, pool1, pool2, pool3
=============================================================================
