-------------------------- MODULE FormationPromise --------------------------
(***************************************************************************)
(* What forming a ceremony promises to the people it names, whatever the   *)
(* slots, the backup queue and the clock do.  A ceremony needs `need`      *)
(* people.  Each person it names is asked until they consent or are ruled  *)
(* out, and no person who was ruled out is asked again.  The ceremony is   *)
(* formed as soon as enough people have consented, it fails only when too  *)
(* few people remain who could, and it does not stay undecided.            *)
(***************************************************************************)
EXTENDS Naturals, FiniteSets

CONSTANT People

VARIABLES
    phase,      \* "idle", "forming", "formed" or "failed"
    need,       \* how many people must consent
    consenting, \* who has consented to this ceremony
    hopeful     \* who was named and has neither consented nor been ruled out

vars == <<phase, need, consenting, hopeful>>

Init ==
    /\ phase = "idle"
    /\ need = 0
    /\ consenting = {}
    /\ hopeful = {}

\* A ceremony may start whenever none is forming.
Start(named, n) ==
    /\ phase # "forming"
    /\ n > 0 /\ n <= Cardinality(named)
    /\ phase' = "forming"
    /\ need' = n
    /\ consenting' = {}
    /\ hopeful' = named

Consent(p) ==
    /\ phase = "forming"
    /\ p \in hopeful
    /\ consenting' = consenting \cup {p}
    /\ hopeful' = hopeful \ {p}
    /\ phase' = IF Cardinality(consenting') = need THEN "formed" ELSE "forming"
    /\ UNCHANGED need

\* Several invitations may run out in one sweep.
RuleOut(refusing) ==
    /\ phase = "forming"
    /\ refusing # {}
    /\ hopeful' = hopeful \ refusing
    /\ phase' = IF Cardinality(consenting) + Cardinality(hopeful') < need
                THEN "failed" ELSE "forming"
    /\ UNCHANGED <<need, consenting>>

\* The ceremony is consumed by a vault, or lost with the process.
Forget ==
    /\ phase # "idle"
    /\ phase' = "idle"
    /\ need' = 0
    /\ consenting' = {}
    /\ hopeful' = {}

Decide ==
    \/ \E p \in hopeful : Consent(p)
    \/ \E refusing \in SUBSET hopeful : RuleOut(refusing)

Next ==
    \/ \E named \in SUBSET People, n \in 1..Cardinality(People) : Start(named, n)
    \/ Decide
    \/ Forget

Spec == Init /\ [][Next]_vars /\ WF_vars(Decide)
=============================================================================
