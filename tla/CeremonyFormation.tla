-------------------------- MODULE CeremonyFormation -------------------------
(***************************************************************************)
(* Ceremony formation in the combiner (demo/combiner/app.py): an operator  *)
(* names the primaries and an ordered list of backups, every primary gets  *)
(* an invitation, and a slot whose occupant declines or does not answer    *)
(* within the TTL goes to the next backup.  Every handler runs under the   *)
(* combiner's one lock, so a handler is one action.  What interleaves is   *)
(* the handlers of different people, the scan thread, the clock, and the   *)
(* answers a client sends long after it read its invitation.               *)
(***************************************************************************)
EXTENDS Naturals, FiniteSets, Sequences, Functions

CONSTANTS
    People,        \* the subs of everyone Keycloak can authenticate
    Operators,     \* the people who hold the shardic-operator role
    TTL,           \* CEREMONY_INVITE_TTL_S, in clock ticks
    MaxSlots,      \* bound: most slots an operator asks for
    MaxBackups,    \* bound: longest backup list an operator gives
    MaxCeremonies, \* bound: ceremonies initiated in one behaviour
    NoOne,         \* no operator: there is no ceremony
    NoVault        \* no vault has been created

ASSUME FormationAssumption ==
    /\ Operators \subseteq People
    /\ TTL \in Nat
    /\ MaxSlots \in Nat /\ MaxBackups \in Nat /\ MaxCeremonies \in Nat
    /\ NoOne \notin People

VARIABLES
    registered,  \* STATE["trustee_pubkeys"]: who has registered a key (on disk)
    vault,       \* STATE["vault_assignment"] and the threshold (on disk)
    status,      \* STATE["ceremony"]["status"]; "none" when STATE["ceremony"] is None
    ceremony_id, \* the id of the last ceremony initiated; 0 before the first
    operator,    \* ceremony["operator_sub"]
    threshold_d, \* ceremony["threshold_d"]
    trustees_t,  \* ceremony["trustees_t"]
    slots,       \* ceremony["slots"]: who sits where, the slot's status, the invitation's age
    backup_queue,\* ceremony["backup_queue"]
    seen,        \* which invitations each client has read: <<person, ceremony id>>
    consented    \* who got a 200 for their accept in the current ceremony

ceremony == <<status, ceremony_id, operator, threshold_d, trustees_t, slots, backup_queue>>
vars == <<registered, vault, ceremony, seen, consented>>

SlotStatus == {"invited", "accepted", "open"}
Slot == [sub : People, status : SlotStatus, age : 0..(TTL + 1)]
Vault == [prime : People, pool : SUBSET People, threshold : Nat]

-----------------------------------------------------------------------------
(* The ceremony's record *)

\* _slot_role: the first slot is the prime, whoever sits in it.
PrimeSlot == 1
Pool(T) == 2..T

Occupants(state) == {slots[i].sub : i \in {j \in DOMAIN slots : slots[j].status = state}}

\* Mutant: a response finds the slot whatever its status.
PendingSlotsAnyStatus(p) == {i \in DOMAIN slots : slots[i].sub = p}

PendingSlots(p) == {i \in DOMAIN slots : slots[i].sub = p /\ slots[i].status = "invited"}

\* Mutant: the sweep looks at the age alone.
ExpiredAnyStatus == {i \in DOMAIN slots : slots[i].age > TTL}

Expired == {i \in DOMAIN slots : slots[i].status = "invited" /\ slots[i].age > TTL}

\* How many slots of S the loop over the slots has reached when it is at i.
Rank(i, S) == Cardinality({j \in S : j <= i})

\* Mutant: the last backup is taken instead of the first.
HeirFromTail(k) == backup_queue[Len(backup_queue) + 1 - k]

\* The k-th backup to be invited from now.
Heir(k) == backup_queue[k]

\* Mutant: the backup is read from the queue and stays in it.
QueueKept(k) == backup_queue

\* What is left of the queue when k slots have asked it for a backup.
QueueAfter(k) == SubSeq(backup_queue, k + 1, Len(backup_queue))

\* Mutant: an exhausted queue is not noticed.
StatusKept(k) == status

\* The first slot the queue cannot serve fails the ceremony.
StatusAfter(k) == IF k > Len(backup_queue) THEN "failed" ELSE status

\* _lapse_slot_locked on each slot of S in slot order: the k-th of them goes to
\* the k-th backup, freshly invited, and the ones the queue cannot serve stay open.
Lapse(S) ==
    /\ slots' = [i \in DOMAIN slots |->
          IF i \notin S THEN slots[i]
          ELSE IF Rank(i, S) <= Len(backup_queue)
               THEN [sub |-> Heir(Rank(i, S)), status |-> "invited", age |-> 0]
               ELSE [slots[i] EXCEPT !.status = "open"]]
    /\ backup_queue' = QueueAfter(Cardinality(S))
    /\ status' = StatusAfter(Cardinality(S))
    /\ UNCHANGED <<ceremony_id, operator, threshold_d, trustees_t>>

\* Mutant: the record is dropped but its slots are not.
KeepSlots ==
    /\ status' = "none"
    /\ operator' = NoOne
    /\ threshold_d' = 0
    /\ trustees_t' = 0
    /\ backup_queue' = << >>
    /\ consented' = {}
    /\ UNCHANGED <<ceremony_id, slots>>

\* STATE["ceremony"] = None, which a fresh process starts with too.
ForgetCeremony ==
    /\ status' = "none"
    /\ operator' = NoOne
    /\ threshold_d' = 0
    /\ trustees_t' = 0
    /\ slots' = << >>
    /\ backup_queue' = << >>
    /\ consented' = {}
    /\ UNCHANGED ceremony_id

-----------------------------------------------------------------------------
Init ==
    /\ registered = {}
    /\ vault = NoVault
    /\ status = "none"
    /\ ceremony_id = 0
    /\ operator = NoOne
    /\ threshold_d = 0
    /\ trustees_t = 0
    /\ slots = << >>
    /\ backup_queue = << >>
    /\ seen = {}
    /\ consented = {}

\* do_register_trustee: saved to disk before the handler answers.
RegisterTrustee(p) ==
    /\ registered' = registered \cup {p}
    /\ UNCHANGED <<vault, ceremony, seen, consented>>

\* Mutant: the operator is looked for among the primaries alone.
OperatorNotPrimary(op, primaries, backups) == op \notin Range(primaries)

\* The operator is looked for among everyone named, backups included.
OperatorNotNamed(op, primaries, backups) == op \notin Range(primaries \o backups)

\* initiate_ceremony's 409s: a vault exists, or a ceremony is forming.
NoConflict ==
    /\ vault = NoVault
    /\ status # "forming"

\* initiate_ceremony's other guards, in the order of the code, and the new record.
InitiateCeremony(op, d, primaries, backups) ==
    LET T == Len(primaries)
        named == primaries \o backups
    IN  /\ NoConflict
        /\ d >= 2 /\ T >= 2 /\ d <= T
        /\ IsInjective(named)
        /\ Range(named) \subseteq registered
        /\ OperatorNotNamed(op, primaries, backups)
        /\ status' = "forming"
        /\ ceremony_id' = ceremony_id + 1
        /\ operator' = op
        /\ threshold_d' = d
        /\ trustees_t' = T
        /\ slots' = [i \in 1..T |-> [sub |-> primaries[i], status |-> "invited", age |-> 0]]
        /\ backup_queue' = backups
        /\ consented' = {}
        /\ UNCHANGED <<registered, vault, seen>>

\* get_pending_invitation: the client keeps what it read for as long as it likes.
ReadInvitation(p) ==
    /\ status = "forming"
    /\ PendingSlots(p) # {}
    /\ seen' = seen \cup {<<p, ceremony_id>>}
    /\ UNCHANGED <<registered, vault, ceremony, consented>>

\* respond_to_invitation refuses with 409: another ceremony, one no longer
\* forming, or no invited slot for this person.  Nothing moves.
DeadLink(p, c) ==
    /\ <<p, c>> \in seen
    /\ c # ceremony_id \/ status # "forming" \/ PendingSlots(p) = {}
    /\ UNCHANGED vars

LiveInvitation(p, c) ==
    /\ <<p, c>> \in seen
    /\ c = ceremony_id
    /\ status = "forming"

\* respond_to_invitation(accept=True), and _maybe_finalize_formation_locked.
Accept(p, c) ==
    /\ LiveInvitation(p, c)
    /\ \E i \in PendingSlots(p) :
          /\ slots' = [slots EXCEPT ![i].status = "accepted"]
          /\ status' = IF \A j \in DOMAIN slots : slots'[j].status = "accepted"
                       THEN "formed" ELSE "forming"
    /\ consented' = consented \cup {p}
    /\ UNCHANGED <<registered, vault, ceremony_id, operator, threshold_d, trustees_t, backup_queue, seen>>

\* respond_to_invitation(accept=False): a decline does not wait for the scan.
Decline(p, c) ==
    /\ LiveInvitation(p, c)
    /\ \E i \in PendingSlots(p) : Lapse({i})
    /\ UNCHANGED <<registered, vault, seen, consented>>

\* Mutant: the sweep waits until somebody can take over.
ScanWithBackups ==
    /\ status = "forming"
    /\ Expired # {}
    /\ backup_queue # << >>
    /\ Lapse(Expired)
    /\ UNCHANGED <<registered, vault, seen, consented>>

\* One sweep of _ceremony_scan_loop; a sweep that finds nothing changes nothing.
Scan ==
    /\ status = "forming"
    /\ Expired # {}
    /\ Lapse(Expired)
    /\ UNCHANGED <<registered, vault, seen, consented>>

\* time.time() advances; only the scan looks at it, and only for this.
Tick ==
    /\ status = "forming"
    /\ \E i \in DOMAIN slots : slots[i].status = "invited" /\ slots[i].age <= TTL
    /\ slots' = [i \in DOMAIN slots |->
          [slots[i] EXCEPT !.age = IF @ > TTL THEN @ ELSE @ + 1]]
    /\ UNCHANGED <<registered, vault, status, ceremony_id, operator, threshold_d,
                   trustees_t, backup_queue, seen, consented>>

\* Mutant: the pool is whoever is registered by now.
PoolFromDirectory == registered \ {slots[PrimeSlot].sub}

\* pool_subs: the occupants of every slot but the first.
PoolSubs == {slots[i].sub : i \in Pool(trustees_t)}

\* do_create_vault when it succeeds: the ceremony is consumed by the vault.
\* (Its own steps, and how it fails between them, are VaultLifecycle's.)
CreateVault ==
    /\ vault = NoVault
    /\ status = "formed"
    /\ vault' = [prime |-> slots[PrimeSlot].sub,
                 pool |-> PoolSubs,
                 threshold |-> threshold_d]
    /\ ForgetCeremony
    /\ UNCHANGED <<registered, seen>>

\* The process dies and starts again: _load_state restores what was saved.
Restart ==
    /\ status # "none"
    /\ ForgetCeremony
    /\ UNCHANGED <<registered, vault, seen>>

\* The lists of at most m people an operator may type in.
Lists(m) == UNION {[1..n -> People] : n \in 0..m}

Next ==
    \/ \E p \in People : RegisterTrustee(p) \/ ReadInvitation(p)
    \/ /\ ceremony_id < MaxCeremonies
       /\ NoConflict \* said here too, so that TLC need not try the lists in vain
       /\ \E op \in Operators, d \in 1..(MaxSlots + 1),
             primaries \in Lists(MaxSlots), backups \in Lists(MaxBackups) :
             InitiateCeremony(op, d, primaries, backups)
    \/ \E p \in People, c \in 1..MaxCeremonies :
          Accept(p, c) \/ Decline(p, c) \/ DeadLink(p, c)
    \/ Scan
    \/ Tick
    \/ CreateVault
    \/ Restart

Spec == Init /\ [][Next]_vars

\* The scan thread and the clock never stop while the process lives; nobody is
\* obliged to answer an invitation.
FairSpec == Spec /\ WF_vars(Scan) /\ WF_vars(Tick)
-----------------------------------------------------------------------------
(* Properties *)

\* Every variable has the shape the code gives it; there are as many slots as
\* initiate_ceremony was asked for, and with no ceremony there is nothing left of one.
TypeOK ==
    /\ registered \subseteq People
    /\ vault \in Vault \cup {NoVault}
    /\ status \in {"none", "forming", "formed", "failed"}
    /\ ceremony_id \in Nat
    /\ operator \in People \cup {NoOne}
    /\ threshold_d \in Nat
    /\ trustees_t \in Nat
    /\ slots \in [1..trustees_t -> Slot]
    /\ backup_queue \in Seq(People)
    /\ seen \subseteq People \X Nat
    /\ consented \subseteq People

Named == {slots[i].sub : i \in DOMAIN slots} \cup Range(backup_queue)

\* Separation of duties: from initiation to the end of the ceremony, through
\* every decline, expiry and backfill, its operator sits in no slot and waits in
\* no place of the backup queue (app.py:267-276).
SeparationOfDuties == operator \notin Named

\* One person, one seat: nobody holds two slots, nobody who holds a slot also
\* waits in the queue, nobody waits twice.  A person with two slots would hold
\* two of the vault's shards.
OnePersonOneSeat ==
    /\ \A i, j \in DOMAIN slots : slots[i].sub = slots[j].sub => i = j
    /\ IsInjective(backup_queue)
    /\ \A i \in DOMAIN slots : slots[i].sub \notin Range(backup_queue)

\* The status never lies about the slots: a forming ceremony still waits for
\* somebody and has lost no slot; a formed one has every acceptance; a failed one
\* lost a slot with nobody left to offer it to.
StatusTellsSlots ==
    /\ status = "forming" =>
          /\ \E i \in DOMAIN slots : slots[i].status = "invited"
          /\ \A i \in DOMAIN slots : slots[i].status # "open"
    /\ status = "formed" => \A i \in DOMAIN slots : slots[i].status = "accepted"
    /\ status = "failed" =>
          /\ \E i \in DOMAIN slots : slots[i].status = "open"
          /\ backup_queue = << >>

\* A 200 for an accept is binding: as long as the ceremony exists, exactly the
\* people who were told "accepted" hold an accepted slot -- no sweep, decline of
\* somebody else or late answer takes the seat away (app.py:383-394, 430).
ConsentIsBinding == Occupants("accepted") = consented

\* Backfill follows the operator's ranking: while a ceremony is forming the queue
\* only loses people from its head, and everyone who leaves it gets, in that
\* order, a slot whose invitation was still unanswered (app.py:346-355).
BackfillInRankOrder ==
    [][ status = "forming" /\ ceremony_id' = ceremony_id /\ status' # "none" =>
          \E k \in 0..Len(backup_queue) :
             /\ backup_queue' = SubSeq(backup_queue, k + 1, Len(backup_queue))
             /\ LET moved == {i \in DOMAIN slots : slots'[i].sub # slots[i].sub}
                IN  /\ Cardinality(moved) = k
                    /\ \A i \in moved :
                          /\ slots[i].status = "invited"
                          /\ slots'[i].sub = backup_queue[Rank(i, moved)] ]_vars

\* A vault is made of consent: its prime and its pool are exactly the people who
\* accepted the ceremony it consumes, as many as the ceremony had slots, and
\* never the operator (app.py:457-460, 530-539).
VaultFromConsent ==
    [][ vault' # vault =>
          /\ {vault'.prime} \cup vault'.pool = consented
          /\ vault'.prime \notin vault'.pool
          /\ Cardinality(vault'.pool) + 1 = trustees_t
          /\ vault'.threshold \in 2..trustees_t
          /\ operator \notin consented ]_vars

\* Formation is decided: a forming ceremony ends up formed or failed even if
\* nobody ever answers, because every lapse uses up a backup.
FormationIsDecided == status = "forming" ~> status # "forming"

\* The abstract promise: people are asked until they consent or are ruled out.
Promise == INSTANCE FormationPromise WITH
    phase <- IF status = "none" THEN "idle" ELSE status,
    need <- trustees_t,
    consenting <- Occupants("accepted"),
    hopeful <- Occupants("invited") \cup Range(backup_queue)

\* Formation keeps the promise of FormationPromise, liveness included.
KeepsPromise == Promise!Spec
=============================================================================
