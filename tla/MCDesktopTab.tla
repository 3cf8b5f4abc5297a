---------------------------- MODULE MCDesktopTab ----------------------------
(* Small instances of DesktopTab for TLC. *)
EXTENDS DesktopTab, TLC

CONSTANTS pbkdf2_vault, argon2_vault
=============================================================================
