------------------------------ MODULE Enrolment ------------------------------
(***************************************************************************)
(* How a process comes by its key pair and a trustee into the directory.   *)
(* Every process, a trustee's or the combiner's, first loads or creates    *)
(* its key pair (shardic_envelope_crypto.load_or_create_keypair); a        *)
(* trustee then signs in once, registers until the combiner says 200, and  *)
(* from then on polls (demo/trustee/app.py, demo/combiner/app.py).  Each   *)
(* may be killed at any point and started again on the same volume.        *)
(*                                                                         *)
(* A trustee's first sign-in fails as if it were killed; what a registered *)
(* trustee does is RecoverySession's and Heartbeat's.                      *)
(***************************************************************************)
EXTENDS Naturals

CONSTANTS
    Trustees,
    Combiner,
    MaxLaunches, \* bound: processes of each trustee and of the combiner
    MaxFaults,   \* bound: registrations answered by nothing or by an error
    Absent,      \* no such file, no such entry
    Empty        \* a file that was opened for writing and never written

ASSUME EnrolmentAssumption ==
    /\ Combiner \notin Trustees
    /\ MaxLaunches \in [Trustees \cup {Combiner} -> Nat] /\ MaxFaults \in Nat
    /\ Absent \notin Nat /\ Empty \notin Nat /\ Absent # Empty

Owners == Trustees \cup {Combiner}

VARIABLES
    files,     \* private.key and public.key on each volume
    holds,     \* private_key and public_key in each process's memory
    launches,  \* how often each was started; also names the key that process would make
    at,        \* where each process is
    expired,   \* the token a registering trustee holds has expired
    faults,    \* how many registrations went wrong
    directory, \* STATE["trustee_pubkeys"]
    saved      \* trustee_pubkeys in state.json

process == <<files, holds, launches, at>>
registration == <<expired, faults, directory, saved>>
vars == <<process, registration>>

Places == {"down", "keys", "private", "public", "signin", "register", "polling", "serving"}
Keys == Nat \ {0}
Contents == Keys \cup {Absent, Empty}
Pair(priv, pub) == [private |-> priv, public |-> pub]

Serving == at[Combiner] = "serving"

Init ==
    /\ files = [o \in Owners |-> Pair(Absent, Absent)]
    /\ holds = [o \in Owners |-> Pair(Absent, Absent)]
    /\ launches = [o \in Owners |-> 0]
    /\ at = [o \in Owners |-> "down"]
    /\ expired = [t \in Trustees |-> FALSE]
    /\ faults = 0
    /\ directory = [t \in Trustees |-> Absent]
    /\ saved = [t \in Trustees |-> Absent]

MoveTo(o, place) == at' = [at EXCEPT ![o] = place]

-----------------------------------------------------------------------------
(* A process starts: load_or_create_keypair *)

Launch(o) ==
    /\ at[o] = "down" /\ launches[o] < MaxLaunches[o]
    /\ launches' = [launches EXCEPT ![o] = @ + 1]
    /\ MoveTo(o, "keys")
    /\ UNCHANGED <<files, holds, registration>>

\* Mutant: a key pair is made at every start.
NeverExist(o) == FALSE

BothExist(o) == files[o].private # Absent /\ files[o].public # Absent

\* Mutant: the combiner goes on as its trustees do.
AllSignIn(o) == MoveTo(o, "signin")

WithKeys(o) == MoveTo(o, IF o = Combiner THEN "serving" ELSE "signin")

LoadKeys(o) ==
    /\ at[o] = "keys" /\ BothExist(o)
    /\ holds' = [holds EXCEPT ![o] = files[o]]
    /\ WithKeys(o)
    /\ UNCHANGED <<files, launches, registration>>

\* generate_keypair, and private.key written.
CreateKeys(o) ==
    /\ at[o] = "keys" /\ ~BothExist(o)
    /\ holds' = [holds EXCEPT ![o] = Pair(launches[o], launches[o])]
    /\ files' = [files EXCEPT ![o].private = launches[o]]
    /\ MoveTo(o, "private")
    /\ UNCHANGED <<launches, registration>>

\* open(pub_path, "wb").
OpenPublic(o) ==
    /\ at[o] = "private"
    /\ files' = [files EXCEPT ![o].public = Empty]
    /\ MoveTo(o, "public")
    /\ UNCHANGED <<holds, launches, registration>>

\* The bytes get there when the file is closed.
WritePublic(o) ==
    /\ at[o] = "public"
    /\ files' = [files EXCEPT ![o].public = holds[o].public]
    /\ WithKeys(o)
    /\ UNCHANGED <<holds, launches, registration>>

-----------------------------------------------------------------------------
(* A trustee signs in and registers *)

SignIn(t) ==
    /\ at[t] = "signin"
    /\ expired' = [expired EXCEPT ![t] = FALSE]
    /\ MoveTo(t, "register")
    /\ UNCHANGED <<files, holds, launches, faults, directory, saved>>

\* The token outlives its lifespan while register() retries.
Expire(t) ==
    /\ at[t] = "register" /\ ~expired[t]
    /\ expired' = [expired EXCEPT ![t] = TRUE]
    /\ UNCHANGED <<process, faults, directory, saved>>

\* Mutant: the file still has the directory that is being replaced.
SavedBefore == directory

\* _save_state_locked writes all of STATE, also what an earlier save failed to.
SavedState == directory'

\* Mutant: whoever is in the directory is refused.
EnterOnce(t) ==
    /\ at[t] = "register" /\ ~expired[t] /\ Serving /\ directory[t] = Absent
    /\ directory' = [directory EXCEPT ![t] = holds[t].public]

\* do_register_trustee, reached while the token lasts; the combiner answers any
\* other request with a 401.
Enter(t) ==
    /\ at[t] = "register" /\ ~expired[t] /\ Serving
    /\ directory' = [directory EXCEPT ![t] = holds[t].public]

\* Registered, and the answer gets there.
Register(t) ==
    /\ Enter(t)
    /\ saved' = SavedState
    /\ MoveTo(t, "polling")
    /\ UNCHANGED <<files, holds, launches, expired, faults>>

\* Registered, and the trustee has timed out: it will try again.
RegisterUnheard(t) ==
    /\ faults < MaxFaults
    /\ Enter(t)
    /\ saved' = SavedState
    /\ faults' = faults + 1
    /\ UNCHANGED <<process, expired>>

\* _save_state_locked raises: STATE is changed, and the trustee gets a 500.
RegisterUnsaved(t) ==
    /\ faults < MaxFaults
    /\ Enter(t)
    /\ faults' = faults + 1
    /\ UNCHANGED <<process, expired, saved>>

\* register sends its request once more, whatever comes of it.
Attempt(t) == Register(t) \/ RegisterUnheard(t) \/ RegisterUnsaved(t)

-----------------------------------------------------------------------------
(* A process ends *)

\* Mutant: trustees are to register again, as a session is to be started again.
NothingRestored == [t \in Trustees |-> Absent]

\* STATE is what _load_state will find.
Restored == saved

Die(o) ==
    /\ at[o] # "down"
    /\ MoveTo(o, "down")
    /\ holds' = [holds EXCEPT ![o] = Pair(Absent, Absent)]
    /\ directory' = IF o = Combiner THEN Restored ELSE directory
    /\ UNCHANGED <<files, launches, expired, faults, saved>>

Starting(o) == LoadKeys(o) \/ CreateKeys(o) \/ OpenPublic(o) \/ WritePublic(o)

Next ==
    \/ \E o \in Owners : Launch(o) \/ Starting(o) \/ Die(o)
    \/ \E t \in Trustees : SignIn(t) \/ Expire(t) \/ Attempt(t)

Spec == Init /\ [][Next]_vars

\* A process that runs goes on, and register sends its request again every
\* _REGISTER_RETRY_S; how it is answered is nobody's duty, and neither is the start of
\* a process.
FairSpec ==
    /\ Spec
    /\ \A o \in Owners : WF_vars(Starting(o))
    /\ \A t \in Trustees : WF_vars(SignIn(t)) /\ WF_vars(Attempt(t))

-----------------------------------------------------------------------------
(* Properties *)

TypeOK ==
    /\ files \in [Owners -> [private : Contents, public : Contents]]
    /\ holds \in [Owners -> [private : Contents, public : Contents]]
    /\ launches \in [Owners -> Nat] /\ \A o \in Owners : launches[o] <= MaxLaunches[o]
    /\ at \in [Owners -> Places]
    /\ \A t \in Trustees : at[t] # "serving" /\ at[Combiner] \notin {"signin", "register", "polling"}
    /\ expired \in [Trustees -> BOOLEAN] /\ faults \in 0..MaxFaults
    /\ directory \in [Trustees -> Contents] /\ saved \in [Trustees -> Contents]

Running(o) == at[o] \in {"signin", "register", "polling", "serving"}

\* What is sealed to a registered key can be opened for good: whichever processes a
\* trustee is, was and will be, they hold the private half of it
\* (shardic_envelope_crypto.py:62-85, app.py:221, 487).
KeyOpensEnvelopes ==
    \A t \in Trustees : \A key \in {directory[t], saved[t]} \ {Absent, Empty} :
        /\ files[t] = Pair(key, key)
        /\ Running(t) => holds[t] = Pair(key, key)

\* A trustee that has stopped trying to register is registered, with the key it
\* holds, and stays so through every crash of the combiner (app.py:224,
\* trustee/app.py:82-83).
PollersAreRegistered ==
    \A t \in Trustees : at[t] = "polling" => directory[t] = holds[t].public /\ saved[t] = holds[t].public

\* The combiner opens with today's key what was sealed to the key it gave out
\* yesterday, and a key the directory was saved with is never replaced by another
\* (app.py:147, 622; shardic_envelope_crypto.py:64-67).
IdentitiesStay ==
    [][/\ \A t \in Trustees : saved[t] # Absent => saved'[t] = saved[t]
       /\ Serving => files'[Combiner] = holds[Combiner]]_vars

\* A trustee process that goes on beside a combiner that does gets from its key files
\* to polling, past answers that are lost and saves that raise, unless the token it
\* signed in with has expired: register is then refused for ever, as the sign-in is
\* not repeated (trustee/app.py:73-87, 221-224).
TrusteesGetToPolling ==
    \A t \in Trustees :
        <>[](at[t] # "down" /\ Serving)
            => <>[](at[t] = "polling" \/ (at[t] = "register" /\ expired[t]))
=============================================================================
