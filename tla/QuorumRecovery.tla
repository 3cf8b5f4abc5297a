--------------------------- MODULE QuorumRecovery ---------------------------
(***************************************************************************)
(* What a recovery promises, whatever becomes of the requests, the trustee *)
(* processes and the combiner: each trustee answers a recovery at most     *)
(* once, a recovery opens the vault only with the answers of the prime     *)
(* trustee and of PoolThreshold others given to that very recovery, and    *)
(* with those answers it never fails to.                                   *)
(***************************************************************************)
EXTENDS Naturals, FiniteSets

CONSTANTS Committee, Prime, PoolThreshold

VARIABLES
    session,  \* the recovery under way, 0 when there is none
    answered, \* who has answered it
    opened,   \* the recoveries that opened the vault
    failed    \* the recoveries that did not although they were tried

vars == <<session, answered, opened, failed>>

Quorum(S) == Prime \in S /\ Cardinality(S \ {Prime}) >= PoolThreshold

Init == session = 0 /\ answered = {} /\ opened = {} /\ failed = {}

\* Recoveries are numbered as they are started.
Start ==
    /\ session' > session
    /\ session' \notin opened \cup failed
    /\ answered' = {}
    /\ UNCHANGED <<opened, failed>>

Answer(t) ==
    /\ session # 0
    /\ t \notin answered
    /\ answered' = answered \cup {t}
    /\ UNCHANGED <<session, opened, failed>>

Recover ==
    /\ session # 0
    /\ Quorum(answered)
    /\ opened' = opened \cup {session}
    /\ UNCHANGED <<session, answered, failed>>

Lose ==
    /\ session' = 0
    /\ answered' = {}
    /\ UNCHANGED <<opened, failed>>

Next ==
    \/ Start
    \/ \E t \in Committee : Answer(t)
    \/ Recover
    \/ Lose

Spec == Init /\ [][Next]_vars
=============================================================================
