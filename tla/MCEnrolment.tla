---------------------------- MODULE MCEnrolment -----------------------------
(* Small instances of Enrolment for TLC. *)
EXTENDS Enrolment, TLC

CONSTANTS ana, bo

\* A trustee may die twice and one of them once; so may the combiner.
Launches == (ana :> 3 @@ bo :> 1 @@ Combiner :> 2)
=============================================================================
