----------------------- MODULE CeremonyFormationProofs ----------------------
(***************************************************************************)
(* The safety of ceremony formation for every set of people, every TTL and *)
(* every bound.  Its five invariants are inductive together with the       *)
(* bounds on D: IInv is their conjunction.  They are not inductive one by  *)
(* one, because backfill moves a person from the queue into a slot, so     *)
(* what is true of the slots after it rests on what was true of the queue  *)
(* before.                                                                 *)
(* From IInv follow the action properties: what a vault is made of and the *)
(* order of backfill; and that each handler is a step of FormationPromise. *)
(***************************************************************************)
EXTENDS CeremonyFormation, FiniteSetTheorems, FunctionTheorems, SequenceTheorems, TLAPS

\* initiate_ceremony's bounds on D hold as long as there is a ceremony.
QuorumOK == status # "none" => threshold_d \in 2..trustees_t

\* The inductive invariant.
IInv ==
    /\ TypeOK
    /\ SeparationOfDuties
    /\ OnePersonOneSeat
    /\ StatusTellsSlots
    /\ ConsentIsBinding
    /\ QuorumOK

-----------------------------------------------------------------------------
(* Lemmas about the operators of the model *)

\* The loop of a sweep numbers the slots it lapses 1, 2, ..., with no number
\* given twice.
LEMMA RankNumbers ==
    ASSUME NEW T \in Nat, NEW S \in SUBSET (1..T)
    PROVE  /\ IsFiniteSet(S)
           /\ Cardinality(S) \in Nat
           /\ S # {} => Cardinality(S) > 0
           /\ \A i \in S : Rank(i, S) \in 1..Cardinality(S)
           /\ \A i, j \in S : Rank(i, S) = Rank(j, S) => i = j
<1>1. IsFiniteSet(1..T)
  BY FS_Interval
<1>2. IsFiniteSet(S) /\ Cardinality(S) \in Nat
  BY <1>1, FS_Subset, FS_CardinalityType
<1>3. S # {} => Cardinality(S) > 0
  BY <1>2, FS_EmptySet
<1>4. ASSUME NEW i \in S
      PROVE  Rank(i, S) \in 1..Cardinality(S)
  <2> DEFINE below == {j \in S : j <= i}
  <2>0. S \subseteq Int
    OBVIOUS
  <2>1. below \in SUBSET S /\ i \in below
    BY <1>4, <2>0
  <2>2. IsFiniteSet(below) /\ Cardinality(below) <= Cardinality(S)
    BY <1>2, <2>1, FS_Subset
  <2>3. Cardinality(below) \in Nat /\ Cardinality(below) # 0
    BY <2>1, <2>2, FS_CardinalityType, FS_EmptySet
  <2> QED
    BY <1>2, <2>2, <2>3 DEF Rank
<1>5. ASSUME NEW i \in S, NEW j \in S, i < j
      PROVE  Rank(i, S) # Rank(j, S)
  <2> DEFINE low  == {m \in S : m <= i}
             high == {m \in S : m <= j}
  <2>0. S \subseteq Int
    OBVIOUS
  <2>a. i \in Int /\ j \in Int /\ i < j
    BY <1>5, <2>0
  <2>b. \A m \in S : m <= i => m <= j
    BY <2>0, <2>a
  <2>c. j <= j /\ ~(j <= i)
    BY <2>a
  <2>1. low \in SUBSET high /\ j \in high /\ j \notin low
    BY <2>b, <2>c
  <2>2. high \in SUBSET S
    OBVIOUS
  <2>3. IsFiniteSet(high)
    BY <1>2, <2>2, FS_Subset
  <2>4. Cardinality(high) = Cardinality(low) => high = low
    BY <2>1, <2>3, FS_Subset
  <2> QED
    BY <2>1, <2>4 DEF Rank
<1>6. \A i, j \in S : Rank(i, S) = Rank(j, S) => i = j
  <2>1. \A i, j \in S : i < j \/ j < i \/ i = j
    OBVIOUS
  <2> QED
    BY <1>5, <2>1
<1> QED
  BY <1>2, <1>3, <1>4, <1>6

\* The last slot of a sweep has the highest number, so a sweep of more slots
\* than the queue has backups leaves at least one of them unserved.
LEMMA RankReachesAll ==
    ASSUME NEW T \in Nat, NEW S \in SUBSET (1..T), S # {}, NEW n \in Nat,
           \A i \in S : Rank(i, S) <= n
    PROVE  Cardinality(S) <= n
<1> DEFINE number == [i \in S |-> Rank(i, S)]
<1>0. /\ Cardinality(S) \in Nat
      /\ \A i \in S : Rank(i, S) \in 1..Cardinality(S)
  BY RankNumbers
<1>1. \A i \in S : Rank(i, S) \in 1..n
  BY <1>0
<1>2. \A i, j \in S : Rank(i, S) = Rank(j, S) => i = j
  BY RankNumbers
<1>3. number \in Injection(S, 1..n)
  BY <1>1, <1>2 DEF Injection, IsInjective
<1>4. IsFiniteSet(1..n) /\ Cardinality(1..n) = n
  BY FS_Interval
<1> QED
  BY <1>3, <1>4, FS_Injection

\* What the queue holds once k slots have asked it: its tail, which stays free
\* of repetitions and of whoever left it.
LEMMA QueueTail ==
    ASSUME NEW k \in Nat, backup_queue \in Seq(People), IsInjective(backup_queue)
    PROVE  /\ QueueAfter(k) \in Seq(People)
           /\ IsInjective(QueueAfter(k))
           /\ Range(QueueAfter(k)) \subseteq Range(backup_queue)
           /\ \A m \in 1..k : m <= Len(backup_queue) =>
                 Heir(m) \in Range(backup_queue) /\ Heir(m) \notin Range(QueueAfter(k))
           /\ k >= Len(backup_queue) => QueueAfter(k) = << >>
<1> DEFINE n == Len(backup_queue)
           tail == SubSeq(backup_queue, k + 1, n)
<1>1. n \in Nat /\ DOMAIN backup_queue = 1..n /\ \A m \in 1..n : backup_queue[m] \in People
  BY LenProperties, ElementOfSeq
<1>2. /\ tail \in Seq(People)
      /\ Len(tail) = IF k + 1 <= n THEN n - (k + 1) + 1 ELSE 0
      /\ \A m \in 1 .. n - (k + 1) + 1 : tail[m] = backup_queue[k + 1 + m - 1]
  <2>1. k + 1 \in Int /\ n \in Int /\ \A m \in (k + 1)..n : backup_queue[m] \in People
    BY <1>1
  <2> QED
    BY <2>1, SubSeqProperties
<1>3. DOMAIN tail = 1..Len(tail) /\ Len(tail) \in Nat
  BY <1>2, LenProperties
<1>4. \A m \in DOMAIN tail : k + m \in 1..n /\ tail[m] = backup_queue[k + m]
  <2> SUFFICES ASSUME NEW m \in DOMAIN tail
               PROVE  k + m \in 1..n /\ tail[m] = backup_queue[k + m]
    OBVIOUS
  <2> HIDE DEF tail, n
  <2>1. Len(tail) = IF k + 1 <= n THEN n - (k + 1) + 1 ELSE 0
    BY <1>2
  <2>2. m \in 1..Len(tail)
    BY <1>3
  <2>3. m \in 1 .. n - (k + 1) + 1 /\ k + 1 + m - 1 = k + m /\ k + m \in 1..n
    BY <1>1, <2>1, <2>2
  <2> QED
    BY <1>2, <2>3
<1>5. IsInjective(tail)
  <2> HIDE DEF tail, n
  <2>1. SUFFICES ASSUME NEW a \in DOMAIN tail, NEW b \in DOMAIN tail, tail[a] = tail[b]
                 PROVE  a = b
    BY DEF IsInjective
  <2>2. backup_queue[k + a] = backup_queue[k + b] /\ k + a \in 1..n /\ k + b \in 1..n
    BY <1>4, <2>1
  <2>3. k + a = k + b
    BY <1>1, <2>2 DEF IsInjective
  <2>4. a \in Nat /\ b \in Nat
    BY <1>3
  <2> QED
    BY <2>3, <2>4
<1>6. Range(tail) \subseteq Range(backup_queue)
  BY <1>1, <1>4 DEF Range
<1>7. ASSUME NEW m \in 1..k, m <= n
      PROVE  backup_queue[m] \in Range(backup_queue) /\ backup_queue[m] \notin Range(tail)
  <2>1. m \in DOMAIN backup_queue
    BY <1>1, <1>7
  <2>2. ASSUME NEW l \in DOMAIN tail
        PROVE  tail[l] # backup_queue[m]
    <3> HIDE DEF tail, n
    <3>1. tail[l] = backup_queue[k + l] /\ k + l \in 1..n
      BY <1>4
    <3>2. l \in Nat /\ l > 0 /\ m \in Nat /\ m <= k
      BY <1>3
    <3>3. k + l # m
      BY <3>2
    <3> QED
      BY <1>1, <2>1, <3>1, <3>3 DEF IsInjective
  <2> QED
    BY <2>1, <2>2 DEF Range
<1>8. k >= n => tail = << >>
  BY <1>1, SubSeqEmpty
<1> QED
  BY <1>2, <1>5, <1>6, <1>7, <1>8 DEF QueueAfter, Heir

\* Lapsing slots whose invitations are pending keeps the whole invariant:
\* the heirs come from the queue, in rank order, each to a slot of its own.
LEMMA LapseKeeps ==
    ASSUME IInv, status = "forming",
           NEW S \in SUBSET DOMAIN slots, S # {}, \A i \in S : slots[i].status = "invited",
           Lapse(S), UNCHANGED <<registered, vault, seen, consented>>
    PROVE  IInv'
<1> DEFINE n == Len(backup_queue)
           k == Cardinality(S)
<1>1. /\ DOMAIN slots = 1..trustees_t /\ trustees_t \in Nat
      /\ \A i \in DOMAIN slots : slots[i] \in Slot
  BY DEF IInv, TypeOK
<1>2. /\ k \in Nat /\ k > 0
      /\ \A i \in S : Rank(i, S) \in 1..k
      /\ \A i, j \in S : Rank(i, S) = Rank(j, S) => i = j
  BY <1>1, RankNumbers
<1>3. n \in Nat /\ DOMAIN backup_queue = 1..n /\ \A m \in 1..n : backup_queue[m] \in People
  BY LenProperties, ElementOfSeq DEF IInv, TypeOK
<1>4. /\ QueueAfter(k) \in Seq(People)
      /\ IsInjective(QueueAfter(k))
      /\ Range(QueueAfter(k)) \subseteq Range(backup_queue)
      /\ \A m \in 1..k : m <= n =>
            Heir(m) \in Range(backup_queue) /\ Heir(m) \notin Range(QueueAfter(k))
      /\ k >= n => QueueAfter(k) = << >>
  BY <1>2, QueueTail DEF IInv, TypeOK, OnePersonOneSeat
<1> DEFINE served == {i \in S : Rank(i, S) <= n}
           heir == [i \in S |-> Heir(Rank(i, S))]
<1> HIDE DEF n, k
<1>5. /\ DOMAIN slots' = DOMAIN slots
      /\ \A i \in DOMAIN slots \ S : slots'[i] = slots[i]
      /\ \A i \in served : slots'[i] = [sub |-> heir[i], status |-> "invited", age |-> 0]
      /\ \A i \in S \ served : slots'[i] = [slots[i] EXCEPT !.status = "open"]
  BY DEF Lapse, n
<1>6. /\ backup_queue' = QueueAfter(k)
      /\ status' = IF k > n THEN "failed" ELSE "forming"
      /\ UNCHANGED <<ceremony_id, operator, threshold_d, trustees_t>>
  BY DEF Lapse, StatusAfter, k, n
<1>7. \A i \in served : /\ heir[i] \in People
                        /\ heir[i] \in Range(backup_queue)
                        /\ heir[i] \notin Range(QueueAfter(k))
  BY <1>2, <1>3, <1>4 DEF Heir
<1>8. \A i, j \in served : heir[i] = heir[j] => i = j
  BY <1>2, <1>3 DEF Heir, IInv, OnePersonOneSeat, IsInjective
<1>0. served \subseteq S /\ S \subseteq DOMAIN slots
  OBVIOUS
<1> HIDE DEF heir, served
<1>9. ASSUME NEW i \in DOMAIN slots
      PROVE  /\ slots'[i] \in Slot
             /\ slots'[i].sub = IF i \in served THEN heir[i] ELSE slots[i].sub
             /\ slots'[i].status = IF i \in served THEN "invited"
                                   ELSE IF i \in S THEN "open" ELSE slots[i].status
  <2>1. slots[i] \in Slot
    BY <1>1
  <2>2. CASE i \in served
    <3>1. slots'[i] = [sub |-> heir[i], status |-> "invited", age |-> 0]
      BY <1>5, <2>2
    <3>2. heir[i] \in People /\ 0 \in 0..(TTL + 1)
      BY <1>7, <2>2, FormationAssumption
    <3> QED
      BY <2>2, <3>1, <3>2 DEF Slot, SlotStatus
  <2>3. CASE i \in S \ served
    <3>1. slots'[i] = [slots[i] EXCEPT !.status = "open"]
      BY <1>5, <2>3
    <3> QED
      BY <2>1, <2>3, <3>1 DEF Slot, SlotStatus
  <2>4. CASE i \notin S
    BY <1>0, <1>5, <2>1, <2>4
  <2> QED
    BY <2>2, <2>3, <2>4
<1>10. TypeOK'
  <2>1. \A i \in DOMAIN slots : slots'[i] \in Slot
    BY <1>9
  <2>2. slots' \in [1..trustees_t' -> Slot]
    <3>1. slots' = [i \in DOMAIN slots' |-> slots'[i]]
      BY DEF Lapse
    <3> QED
      BY <1>1, <1>5, <1>6, <2>1, <3>1
  <2> QED
    BY <1>4, <1>6, <2>2 DEF IInv, TypeOK
<1>11. SeparationOfDuties'
  <2>1. Range(backup_queue') \subseteq Range(backup_queue)
    BY <1>4, <1>6
  <2>2. \A i \in DOMAIN slots' : slots'[i].sub \in Named
    <3> SUFFICES ASSUME NEW i \in DOMAIN slots
                 PROVE  slots'[i].sub \in Named
      BY <1>5
    <3>1. slots[i].sub \in Named
      BY DEF Named
    <3>2. i \in served => heir[i] \in Named
      BY <1>7 DEF Named
    <3> QED
      BY <1>9, <3>1, <3>2
  <2>3. operator \notin Named /\ operator' = operator
    BY <1>6 DEF IInv, SeparationOfDuties
  <2> QED
    BY <2>1, <2>2, <2>3 DEF SeparationOfDuties, Named
<1>12. OnePersonOneSeat'
  <2>1. \A i \in DOMAIN slots \ served : slots'[i].sub = slots[i].sub
    BY <1>9
  <2>2. \A i \in served : slots'[i].sub = heir[i]
    BY <1>0, <1>9
  <2>3. \A i \in DOMAIN slots : slots[i].sub \notin Range(backup_queue)
    BY DEF IInv, OnePersonOneSeat
  <2>4. \A i, j \in DOMAIN slots : slots[i].sub = slots[j].sub => i = j
    BY DEF IInv, OnePersonOneSeat
  <2>5. \A i, j \in DOMAIN slots' : slots'[i].sub = slots'[j].sub => i = j
    BY <1>5, <1>7, <1>8, <2>1, <2>2, <2>3, <2>4
  <2>6. \A i \in DOMAIN slots' : slots'[i].sub \notin Range(backup_queue')
    BY <1>4, <1>5, <1>6, <1>7, <2>1, <2>2, <2>3
  <2> QED
    BY <1>4, <1>6, <2>5, <2>6 DEF OnePersonOneSeat
<1>13. StatusTellsSlots'
  <2>1. CASE k > n
    <3>1. PICK i \in S : Rank(i, S) > n
      <4> SUFFICES ASSUME \A i \in S : Rank(i, S) <= n
                   PROVE  FALSE
        BY <1>2, <1>3
      <4> QED
        BY <1>1, <1>2, <1>3, <2>1, RankReachesAll DEF k
    <3>2. i \in S \ served
      BY <1>2, <1>3, <3>1 DEF served
    <3>3. slots'[i].status = "open" /\ i \in DOMAIN slots'
      BY <1>5, <1>9, <3>2
    <3>4. status' = "failed" /\ backup_queue' = << >>
      BY <1>2, <1>3, <1>4, <1>6, <2>1
    <3> QED
      BY <3>3, <3>4 DEF StatusTellsSlots
  <2>2. CASE ~(k > n)
    <3>1. served = S
      BY <1>2, <1>3, <2>2 DEF served
    <3>2. \A i \in DOMAIN slots' : slots'[i].status # "open"
      BY <1>5, <1>9, <3>1 DEF IInv, StatusTellsSlots
    <3>3. PICK i \in S : TRUE
      OBVIOUS
    <3>4. slots'[i].status = "invited" /\ i \in DOMAIN slots'
      BY <1>5, <1>9, <3>1
    <3>5. status' = "forming"
      BY <1>6, <2>2
    <3> QED
      BY <3>2, <3>4, <3>5 DEF StatusTellsSlots
  <2> QED
    BY <2>1, <2>2
<1>14. ConsentIsBinding'
  <2>1. \A i \in DOMAIN slots : slots'[i].status = "accepted" <=> slots[i].status = "accepted"
    BY <1>0, <1>9
  <2>2. \A i \in DOMAIN slots : slots[i].status = "accepted" => slots'[i].sub = slots[i].sub
    BY <1>0, <1>9
  <2>3. Occupants("accepted")' = Occupants("accepted")
    BY <1>5, <2>1, <2>2 DEF Occupants
  <2> QED
    BY <2>3 DEF IInv, ConsentIsBinding
<1>15. QuorumOK'
  BY <1>6 DEF IInv, QuorumOK
<1> QED
  BY <1>10, <1>11, <1>12, <1>13, <1>14, <1>15 DEF IInv

\* Dropping the ceremony leaves an empty record, of which everything holds.
LEMMA ForgetKeeps ==
    ASSUME IInv, ForgetCeremony, registered' \subseteq People,
           vault' \in Vault \cup {NoVault}, UNCHANGED seen
    PROVE  IInv'
<1>1. << >> \in Seq(Slot) /\ << >> \in Seq(People) /\ Len(<< >>) = 0
  BY EmptySeq
<1>2. DOMAIN << >> = 1..0 /\ << >> \in [1..0 -> Slot]
  BY <1>1, LenProperties
<1>3. 1..0 = {}
  OBVIOUS
<1>4. DOMAIN slots' = {} /\ Range(backup_queue') = {}
  BY <1>2, <1>3 DEF ForgetCeremony, Range
<1>5. TypeOK'
  BY <1>1, <1>2 DEF ForgetCeremony, IInv, TypeOK
<1>6. SeparationOfDuties'
  BY <1>4 DEF SeparationOfDuties, Named
<1>7. OnePersonOneSeat'
  BY <1>2, <1>3, <1>4 DEF OnePersonOneSeat, IsInjective, ForgetCeremony
<1>8. StatusTellsSlots' /\ QuorumOK'
  BY DEF ForgetCeremony, StatusTellsSlots, QuorumOK
<1>9. ConsentIsBinding'
  BY <1>4 DEF ForgetCeremony, ConsentIsBinding, Occupants
<1> QED
  BY <1>5, <1>6, <1>7, <1>8, <1>9 DEF IInv

\* A new ceremony satisfies the invariant by initiate_ceremony's guards alone.
LEMMA InitiateKeeps ==
    ASSUME IInv, NEW op \in Operators, NEW d \in Nat,
           NEW primaries \in Seq(People), NEW backups \in Seq(People),
           InitiateCeremony(op, d, primaries, backups)
    PROVE  IInv'
<1> DEFINE T == Len(primaries)
           B == Len(backups)
           named == primaries \o backups
<1>1. /\ T \in Nat /\ DOMAIN primaries = 1..T /\ \A i \in 1..T : primaries[i] \in People
      /\ B \in Nat /\ DOMAIN backups = 1..B /\ \A i \in 1..B : backups[i] \in People
  BY LenProperties, ElementOfSeq
<1>2. /\ named \in Seq(People) /\ Len(named) = T + B
      /\ \A i \in 1..(T + B) : named[i] = IF i <= T THEN primaries[i] ELSE backups[i - T]
  BY ConcatProperties
<1>3. DOMAIN named = 1..(T + B)
  BY <1>2, LenProperties
<1>4. T >= 2 /\ d >= 2 /\ d <= T /\ IsInjective(named) /\ op \notin Range(named)
  BY DEF InitiateCeremony, OperatorNotNamed
<1>5. /\ status' = "forming" /\ operator' = op /\ threshold_d' = d /\ trustees_t' = T
      /\ slots' = [i \in 1..T |-> [sub |-> primaries[i], status |-> "invited", age |-> 0]]
      /\ backup_queue' = backups /\ consented' = {}
      /\ ceremony_id' = ceremony_id + 1 /\ UNCHANGED <<registered, vault, seen>>
  BY DEF InitiateCeremony
<1> HIDE DEF T, B, named
<1>6. /\ DOMAIN slots' = 1..T
      /\ \A i \in 1..T : slots'[i] = [sub |-> primaries[i], status |-> "invited", age |-> 0]
  BY <1>5
<1>7. ASSUME NEW i \in 1..T
      PROVE  /\ slots'[i] \in Slot
             /\ slots'[i].sub = named[i] /\ i \in 1..(T + B)
             /\ slots'[i].status = "invited"
  <2>1. slots'[i] = [sub |-> primaries[i], status |-> "invited", age |-> 0]
    BY <1>6
  <2>2. primaries[i] \in People /\ primaries[i] = named[i] /\ i \in 1..(T + B)
    BY <1>1, <1>2
  <2>3. 0 \in 0..(TTL + 1)
    BY FormationAssumption
  <2> QED
    BY <2>1, <2>2, <2>3 DEF Slot, SlotStatus
<1>8. \A j \in 1..B : backups[j] = named[T + j] /\ T + j \in 1..(T + B)
  <2> SUFFICES ASSUME NEW j \in 1..B
               PROVE  backups[j] = named[T + j] /\ T + j \in 1..(T + B)
    OBVIOUS
  <2>1. T + j \in 1..(T + B) /\ ~(T + j <= T) /\ (T + j) - T = j
    BY <1>1
  <2>2. named[T + j] = backups[(T + j) - T]
    BY <1>2, <2>1
  <2> QED
    BY <2>1, <2>2
<1>9. TypeOK'
  <2>1. slots' \in [1..trustees_t' -> Slot]
    BY <1>5, <1>6, <1>7
  <2>2. op \in People /\ ceremony_id + 1 \in Nat
    BY FormationAssumption DEF IInv, TypeOK
  <2> QED
    BY <1>1, <1>5, <2>1, <2>2 DEF IInv, TypeOK
<1>10. SeparationOfDuties'
  <2>1. \A i \in 1..T : slots'[i].sub \in Range(named)
    BY <1>3, <1>7 DEF Range
  <2>2. Range(backups) \subseteq Range(named)
    BY <1>1, <1>3, <1>8 DEF Range
  <2> QED
    BY <1>4, <1>5, <1>6, <2>1, <2>2 DEF SeparationOfDuties, Named
<1>11. OnePersonOneSeat'
  <2>1. \A i, j \in 1..T : slots'[i].sub = slots'[j].sub => i = j
    BY <1>3, <1>4, <1>7 DEF IsInjective
  <2>2. ASSUME NEW i \in 1..B, NEW j \in 1..B, backups[i] = backups[j]
        PROVE  i = j
    <3>1. T + i = T + j
      BY <1>3, <1>4, <1>8, <2>2 DEF IsInjective
    <3> QED
      BY <1>1, <3>1
  <2>3. ASSUME NEW i \in 1..T, NEW j \in 1..B
        PROVE  slots'[i].sub # backups[j]
    <3>1. i # T + j
      BY <1>1
    <3> QED
      BY <1>3, <1>4, <1>7, <1>8, <3>1 DEF IsInjective
  <2>4. IsInjective(backups)
    BY <1>1, <2>2 DEF IsInjective
  <2>5. \A i \in 1..T : slots'[i].sub \notin Range(backups)
    BY <1>1, <2>3 DEF Range
  <2> QED
    BY <1>5, <1>6, <2>1, <2>4, <2>5 DEF OnePersonOneSeat
<1>12. StatusTellsSlots'
  <2>1. 1 \in 1..T
    BY <1>1, <1>4
  <2> QED
    BY <1>5, <1>6, <1>7, <2>1 DEF StatusTellsSlots
<1>13. ConsentIsBinding'
  <2>1. \A i \in DOMAIN slots' : slots'[i].status # "accepted"
    BY <1>6, <1>7
  <2> QED
    BY <1>5, <2>1 DEF ConsentIsBinding, Occupants
<1>14. QuorumOK'
  BY <1>1, <1>4, <1>5 DEF QuorumOK
<1> QED
  BY <1>9, <1>10, <1>11, <1>12, <1>13, <1>14 DEF IInv

\* An accept turns one pending slot into an accepted one and nothing else.
LEMMA AcceptKeeps ==
    ASSUME IInv, NEW p \in People, NEW c \in Nat, Accept(p, c)
    PROVE  IInv'
<1>1. PICK i \in PendingSlots(p) :
         /\ slots' = [slots EXCEPT ![i].status = "accepted"]
         /\ status' = IF \A j \in DOMAIN slots : slots'[j].status = "accepted"
                      THEN "formed" ELSE "forming"
  BY DEF Accept
<1>2. i \in DOMAIN slots /\ slots[i].sub = p /\ slots[i].status = "invited"
  BY <1>1 DEF PendingSlots
<1>3. /\ status = "forming" /\ consented' = consented \cup {p}
      /\ UNCHANGED <<registered, vault, ceremony_id, operator, threshold_d, trustees_t, backup_queue, seen>>
  BY DEF Accept, LiveInvitation
<1>4. DOMAIN slots = 1..trustees_t /\ \A j \in DOMAIN slots : slots[j] \in Slot
  BY DEF IInv, TypeOK
<1>5. DOMAIN slots' = DOMAIN slots /\ slots'[i] = [slots[i] EXCEPT !.status = "accepted"]
  BY <1>1, <1>2
<1>6. ASSUME NEW j \in DOMAIN slots
      PROVE  /\ slots'[j] \in Slot
             /\ slots'[j].sub = slots[j].sub
             /\ slots'[j].status = IF j = i THEN "accepted" ELSE slots[j].status
  <2>1. slots[j] \in Slot
    BY <1>4
  <2>2. CASE j = i
    <3>1. slots'[j] = [slots[j] EXCEPT !.status = "accepted"]
      BY <1>5, <2>2
    <3> QED
      BY <2>1, <2>2, <3>1 DEF Slot, SlotStatus
  <2>3. CASE j # i
    <3>1. slots'[j] = slots[j]
      BY <1>1, <2>3
    <3> QED
      BY <2>1, <2>3, <3>1
  <2> QED
    BY <2>2, <2>3
<1>7. TypeOK'
  <2>1. slots' \in [1..trustees_t' -> Slot]
    <3>1. slots' = [j \in DOMAIN slots |-> slots'[j]]
      BY <1>1
    <3>2. \A j \in DOMAIN slots : slots'[j] \in Slot
      BY <1>6
    <3> QED
      BY <1>3, <1>4, <3>1, <3>2
  <2>2. status' \in {"none", "forming", "formed", "failed"}
    BY <1>1
  <2> QED
    BY <1>3, <2>1, <2>2 DEF IInv, TypeOK
<1>8. {slots'[j].sub : j \in DOMAIN slots'} = {slots[j].sub : j \in DOMAIN slots}
  BY <1>5, <1>6
<1>9. SeparationOfDuties'
  BY <1>3, <1>8 DEF IInv, SeparationOfDuties, Named
<1>10. OnePersonOneSeat'
  BY <1>3, <1>5, <1>6 DEF IInv, OnePersonOneSeat
<1>11. StatusTellsSlots'
  <2>1. \A j \in DOMAIN slots' : slots'[j].status # "open"
    BY <1>3, <1>5, <1>6 DEF IInv, StatusTellsSlots
  <2>2. CASE \A j \in DOMAIN slots : slots'[j].status = "accepted"
    BY <1>1, <1>5, <2>2 DEF StatusTellsSlots
  <2>3. CASE \E j \in DOMAIN slots : slots'[j].status # "accepted"
    <3>1. PICK j \in DOMAIN slots : slots'[j].status # "accepted"
      BY <2>3
    <3>2. slots'[j].status \in SlotStatus
      BY <1>6 DEF Slot
    <3>3. slots'[j].status = "invited"
      BY <1>5, <2>1, <3>1, <3>2 DEF SlotStatus
    <3>4. status' = "forming"
      BY <1>1, <2>3
    <3> QED
      BY <1>5, <2>1, <3>3, <3>4 DEF StatusTellsSlots
  <2> QED
    BY <2>2, <2>3
<1>12. ConsentIsBinding'
  <2>1. \A q : q \in Occupants("accepted")' <=>
                  \E j \in DOMAIN slots : slots'[j].status = "accepted" /\ slots'[j].sub = q
    BY <1>5 DEF Occupants
  <2>2. \A q : q \in Occupants("accepted") <=>
                  \E j \in DOMAIN slots : slots[j].status = "accepted" /\ slots[j].sub = q
    BY DEF Occupants
  <2>3. \A q : q \in Occupants("accepted")' <=> q \in Occupants("accepted") \cup {p}
    BY <1>2, <1>6, <2>1, <2>2
  <2> QED
    BY <1>3, <2>3 DEF IInv, ConsentIsBinding
<1>13. QuorumOK'
  BY <1>3 DEF IInv, QuorumOK
<1> QED
  BY <1>7, <1>9, <1>10, <1>11, <1>12, <1>13 DEF IInv

\* The clock ages invitations and touches nothing the invariant speaks of.
LEMMA TickKeeps ==
    ASSUME IInv, Tick
    PROVE  IInv'
<1>1. DOMAIN slots = 1..trustees_t /\ \A i \in DOMAIN slots : slots[i] \in Slot
  BY DEF IInv, TypeOK
<1>2. /\ slots' = [i \in DOMAIN slots |-> [slots[i] EXCEPT !.age = IF @ > TTL THEN @ ELSE @ + 1]]
      /\ UNCHANGED <<registered, vault, status, ceremony_id, operator, threshold_d,
                     trustees_t, backup_queue, seen, consented>>
  BY DEF Tick
<1>3. DOMAIN slots' = DOMAIN slots
  BY <1>2
<1>4. ASSUME NEW i \in DOMAIN slots
      PROVE  /\ slots'[i] \in Slot
             /\ slots'[i].sub = slots[i].sub
             /\ slots'[i].status = slots[i].status
  <2>1. slots[i] \in Slot
    BY <1>1
  <2>2. slots'[i] = [slots[i] EXCEPT !.age = IF slots[i].age > TTL THEN slots[i].age ELSE slots[i].age + 1]
    BY <1>2
  <2>3. slots[i].age \in 0..(TTL + 1)
    BY <2>1 DEF Slot
  <2>4. (IF slots[i].age > TTL THEN slots[i].age ELSE slots[i].age + 1) \in 0..(TTL + 1)
    BY <2>3, FormationAssumption
  <2> QED
    BY <2>1, <2>2, <2>4 DEF Slot
<1>5. TypeOK'
  <2>1. \A i \in DOMAIN slots : slots'[i] \in Slot
    BY <1>4
  <2>2. slots' = [i \in DOMAIN slots |-> slots'[i]]
    BY <1>2
  <2>3. slots' \in [1..trustees_t' -> Slot]
    BY <1>1, <1>2, <2>1, <2>2
  <2> QED
    BY <1>2, <2>3 DEF IInv, TypeOK
<1>6. {slots'[j].sub : j \in DOMAIN slots'} = {slots[j].sub : j \in DOMAIN slots}
  BY <1>3, <1>4
<1>7. SeparationOfDuties'
  BY <1>2, <1>6 DEF IInv, SeparationOfDuties, Named
<1>8. OnePersonOneSeat'
  BY <1>2, <1>3, <1>4 DEF IInv, OnePersonOneSeat
<1>9. StatusTellsSlots'
  BY <1>2, <1>3, <1>4 DEF IInv, StatusTellsSlots
<1>10. ConsentIsBinding'
  <2>1. Occupants("accepted")' = Occupants("accepted")
    BY <1>3, <1>4 DEF Occupants
  <2> QED
    BY <1>2, <2>1 DEF IInv, ConsentIsBinding
<1>11. QuorumOK'
  BY <1>2 DEF IInv, QuorumOK
<1> QED
  BY <1>5, <1>7, <1>8, <1>9, <1>10, <1>11 DEF IInv

-----------------------------------------------------------------------------
(* The theorems *)

LEMMA InitSafe == Init => IInv
<1> SUFFICES ASSUME Init
             PROVE  IInv
  OBVIOUS
<1>1. << >> \in Seq(Slot) /\ << >> \in Seq(People) /\ Len(<< >>) = 0
  BY EmptySeq
<1>2. DOMAIN << >> = 1..0 /\ << >> \in [1..0 -> Slot] /\ 1..0 = {}
  BY <1>1, LenProperties
<1>3. TypeOK
  BY <1>1, <1>2 DEF Init, TypeOK
<1>4. DOMAIN slots = {} /\ Range(backup_queue) = {}
  BY <1>2 DEF Init, Range
<1>5. SeparationOfDuties /\ ConsentIsBinding /\ StatusTellsSlots /\ QuorumOK
  BY <1>4 DEF Init, SeparationOfDuties, Named, ConsentIsBinding, Occupants, StatusTellsSlots, QuorumOK
<1>6. OnePersonOneSeat
  BY <1>2, <1>4 DEF Init, OnePersonOneSeat, IsInjective
<1> QED
  BY <1>3, <1>5, <1>6 DEF IInv

\* The vault a CreateVault step makes: one trustee per slot, all of them consenting.
LEMMA VaultMadeOfConsent ==
    ASSUME IInv, CreateVault
    PROVE  /\ vault' \in Vault
           /\ {vault'.prime} \cup vault'.pool = consented
           /\ vault'.prime \notin vault'.pool
           /\ Cardinality(vault'.pool) + 1 = trustees_t
           /\ vault'.threshold \in 2..trustees_t
           /\ operator \notin consented
<1> DEFINE T == trustees_t
<1>1. /\ T \in Nat /\ DOMAIN slots = 1..T
      /\ \A i \in DOMAIN slots : slots[i] \in Slot
      /\ threshold_d \in Nat
  BY DEF IInv, TypeOK
<1>2. status = "formed" /\ threshold_d \in 2..T
  BY DEF CreateVault, IInv, QuorumOK
<1>3. \A i \in 1..T : slots[i].status = "accepted" /\ slots[i].sub \in People
  BY <1>1, <1>2 DEF IInv, StatusTellsSlots, Slot
<1>4. consented = {slots[i].sub : i \in 1..T}
  BY <1>1, <1>3 DEF IInv, ConsentIsBinding, Occupants
<1>5. T >= 2
  BY <1>1, <1>2
<1>6. 1..T = {1} \cup 2..T /\ 1 \notin 2..T
  BY <1>1, <1>5
<1>7. vault' = [prime |-> slots[1].sub, pool |-> PoolSubs, threshold |-> threshold_d]
  BY DEF CreateVault, PrimeSlot
<1>8. PoolSubs = {slots[i].sub : i \in 2..T}
  BY DEF PoolSubs, Pool
<1>9. {slots[1].sub} \cup PoolSubs = consented
  BY <1>4, <1>6, <1>8
<1>10. \A i, j \in 1..T : slots[i].sub = slots[j].sub => i = j
  BY <1>1 DEF IInv, OnePersonOneSeat
<1>11. slots[1].sub \notin PoolSubs
  BY <1>6, <1>8, <1>10
<1>12. Cardinality(PoolSubs) + 1 = T
  <2> DEFINE sit == [i \in 2..T |-> slots[i].sub]
  <2>1. sit \in Injection(2..T, PoolSubs)
    BY <1>6, <1>8, <1>10 DEF Injection, IsInjective
  <2>2. sit \in Surjection(2..T, PoolSubs)
    BY <1>8 DEF Surjection
  <2>3. ExistsBijection(2..T, PoolSubs)
    BY <2>1, <2>2 DEF ExistsBijection, Bijection
  <2>4. IsFiniteSet(2..T) /\ Cardinality(2..T) = T - 1
    BY <1>1, <1>5, FS_Interval
  <2>5. Cardinality(PoolSubs) = T - 1
    BY <2>3, <2>4, FS_Bijection
  <2> QED
    BY <1>1, <2>5
<1>13. operator \notin consented
  BY <1>1, <1>4 DEF IInv, SeparationOfDuties, Named
<1>14. slots[1].sub \in People /\ PoolSubs \subseteq People
  BY <1>3, <1>6, <1>8
<1> QED
  BY <1>1, <1>2, <1>7, <1>9, <1>11, <1>12, <1>13, <1>14 DEF Vault

\* Every handler keeps the invariant: one case per action of Next.
LEMMA StepSafe == IInv /\ [Next]_vars => IInv'
<1> SUFFICES ASSUME IInv, [Next]_vars
             PROVE  IInv'
  OBVIOUS
<1>1. ASSUME NEW p \in People, RegisterTrustee(p)
      PROVE  IInv'
  BY <1>1 DEF RegisterTrustee, ceremony, IInv, TypeOK, SeparationOfDuties, Named,
              OnePersonOneSeat, StatusTellsSlots, ConsentIsBinding, Occupants, QuorumOK
<1>2. ASSUME NEW p \in People, ReadInvitation(p)
      PROVE  IInv'
  <2>1. seen' \subseteq People \X Nat
    BY <1>2 DEF ReadInvitation, IInv, TypeOK
  <2> QED
    BY <1>2, <2>1 DEF ReadInvitation, ceremony, IInv, TypeOK, SeparationOfDuties, Named,
                OnePersonOneSeat, StatusTellsSlots, ConsentIsBinding, Occupants, QuorumOK
<1>3. ASSUME NEW op \in Operators, NEW d \in 1..(MaxSlots + 1),
             NEW primaries \in Lists(MaxSlots), NEW backups \in Lists(MaxBackups),
             InitiateCeremony(op, d, primaries, backups)
      PROVE  IInv'
  <2>1. primaries \in Seq(People) /\ backups \in Seq(People)
    BY FormationAssumption DEF Lists
  <2>2. d \in Nat
    BY FormationAssumption
  <2> QED
    BY <1>3, <2>1, <2>2, InitiateKeeps
<1>4. ASSUME NEW p \in People, NEW c \in 1..MaxCeremonies, Accept(p, c)
      PROVE  IInv'
  <2>1. c \in Nat
    BY FormationAssumption
  <2> QED
    BY <1>4, <2>1, AcceptKeeps
<1>5. ASSUME NEW p \in People, NEW c \in 1..MaxCeremonies, Decline(p, c)
      PROVE  IInv'
  <2>1. PICK i \in PendingSlots(p) : Lapse({i})
    BY <1>5 DEF Decline
  <2>2. {i} \subseteq DOMAIN slots /\ \A j \in {i} : slots[j].status = "invited"
    BY DEF PendingSlots
  <2>3. status = "forming" /\ UNCHANGED <<registered, vault, seen, consented>>
    BY <1>5 DEF Decline, LiveInvitation
  <2>4. {i} \in SUBSET DOMAIN slots /\ {i} # {}
    BY <2>2
  <2> QED
    BY <2>1, <2>2, <2>3, <2>4, LapseKeeps
<1>6. ASSUME NEW p \in People, NEW c \in 1..MaxCeremonies, DeadLink(p, c)
      PROVE  IInv'
  BY <1>6 DEF DeadLink, vars, ceremony, IInv, TypeOK, SeparationOfDuties, Named,
              OnePersonOneSeat, StatusTellsSlots, ConsentIsBinding, Occupants, QuorumOK
<1>7. CASE Scan
  <2>1. Expired \in SUBSET DOMAIN slots /\ \A i \in Expired : slots[i].status = "invited"
    BY DEF Expired
  <2>2. /\ status = "forming" /\ Expired # {} /\ Lapse(Expired)
        /\ UNCHANGED <<registered, vault, seen, consented>>
    BY <1>7 DEF Scan
  <2> QED
    BY <2>1, <2>2, LapseKeeps
<1>8. CASE Tick
  BY <1>8, TickKeeps
<1>9. CASE CreateVault
  <2>1. vault' \in Vault
    BY <1>9, VaultMadeOfConsent
  <2>2. ForgetCeremony /\ UNCHANGED <<registered, seen>>
    BY <1>9 DEF CreateVault
  <2>3. registered' \subseteq People
    BY <2>2 DEF IInv, TypeOK
  <2> QED
    BY <2>1, <2>2, <2>3, ForgetKeeps
<1>10. CASE Restart
  <2>1. ForgetCeremony /\ UNCHANGED <<registered, vault, seen>>
    BY <1>10 DEF Restart
  <2>2. registered' \subseteq People /\ vault' \in Vault \cup {NoVault}
    BY <2>1 DEF IInv, TypeOK
  <2> QED
    BY <2>1, <2>2, ForgetKeeps
<1>11. CASE UNCHANGED vars
  BY <1>11 DEF vars, ceremony, IInv, TypeOK, SeparationOfDuties, Named,
              OnePersonOneSeat, StatusTellsSlots, ConsentIsBinding, Occupants, QuorumOK
<1> QED
  BY <1>1, <1>2, <1>3, <1>4, <1>5, <1>6, <1>7, <1>8, <1>9, <1>10, <1>11 DEF Next

\* The inductive invariant holds in every reachable state, for all constants.
THEOREM FormationInvariant == Spec => []IInv
BY InitSafe, StepSafe, PTL DEF Spec

\* Every variable keeps its type, for all constants.
THEOREM TypeCorrect == Spec => []TypeOK
<1>1. IInv => TypeOK
  BY DEF IInv
<1> QED
  BY <1>1, FormationInvariant, PTL

\* The operator who initiated a ceremony never gets a seat in it or a place in
\* its queue, however many declines, expiries and backfills happen
\* (initiate_ceremony checks the full backup list, app.py:267-276).
THEOREM DutiesStaySeparated == Spec => []SeparationOfDuties
<1>1. IInv => SeparationOfDuties
  BY DEF IInv
<1> QED
  BY <1>1, FormationInvariant, PTL

\* Nobody holds two slots or holds one and waits for another, however the
\* backfills of a ceremony go (_lapse_slot_locked, app.py:346-355).
THEOREM NobodySitsTwice == Spec => []OnePersonOneSeat
<1>1. IInv => OnePersonOneSeat
  BY DEF IInv
<1> QED
  BY <1>1, FormationInvariant, PTL

\* "formed" means every slot is accepted, "failed" means one was lost with an
\* empty queue, "forming" that somebody is still being asked.
THEOREM StatusIsTruthful == Spec => []StatusTellsSlots
<1>1. IInv => StatusTellsSlots
  BY DEF IInv
<1> QED
  BY <1>1, FormationInvariant, PTL

\* The accepted slots are held by exactly the people whose accept was answered
\* with 200: no sweep, decline or late answer takes one away.
THEOREM ConsentBinds == Spec => []ConsentIsBinding
<1>1. IInv => ConsentIsBinding
  BY DEF IInv
<1> QED
  BY <1>1, FormationInvariant, PTL

\* Whatever happened during formation, the vault is assigned to exactly the
\* people who accepted, one per slot, and never to the operator.
THEOREM VaultsAreConsented == Spec => VaultFromConsent
<1> DEFINE Made == vault' # vault =>
                     /\ {vault'.prime} \cup vault'.pool = consented
                     /\ vault'.prime \notin vault'.pool
                     /\ Cardinality(vault'.pool) + 1 = trustees_t
                     /\ vault'.threshold \in 2..trustees_t
                     /\ operator \notin consented
<1>1. IInv /\ [Next]_vars => [Made]_vars
  <2> SUFFICES ASSUME IInv, Next
               PROVE  Made
    BY DEF vars
  <2>1. CASE CreateVault
    BY <2>1, VaultMadeOfConsent
  <2>2. CASE ~CreateVault
    BY <2>2 DEF Next, RegisterTrustee, ReadInvitation, InitiateCeremony, Accept, Decline, DeadLink,
                Scan, Tick, Restart, vars
  <2> QED
    BY <2>1, <2>2
<1> QED
  BY <1>1, FormationInvariant, PTL DEF Spec, VaultFromConsent

-----------------------------------------------------------------------------
(* Counting people *)

\* Every number up to the last is given to some slot of a sweep.
LEMMA RankIsNumbering ==
    ASSUME NEW T \in Nat, NEW S \in SUBSET (1..T), NEW m \in 1..Cardinality(S)
    PROVE  \E i \in S : Rank(i, S) = m
<1> DEFINE number == [i \in S |-> Rank(i, S)]
<1>1. /\ IsFiniteSet(S) /\ Cardinality(S) \in Nat
      /\ \A i \in S : Rank(i, S) \in 1..Cardinality(S)
      /\ \A i, j \in S : Rank(i, S) = Rank(j, S) => i = j
  BY RankNumbers
<1>2. number \in [S -> 1..Cardinality(S)] /\ \A i, j \in S : number[i] = number[j] => i = j
  BY <1>1
<1> HIDE DEF number
<1>3. number \in Injection(S, 1..Cardinality(S))
  BY <1>2, Fun_IsInj
<1>4. IsFiniteSet(1..Cardinality(S)) /\ Cardinality(1..Cardinality(S)) = Cardinality(S)
  BY <1>1, FS_Interval
<1>5. number \in Surjection(S, 1..Cardinality(S))
  BY <1>3, <1>4, FS_Injection
<1>6. \E i \in S : number[i] = m
  BY <1>5 DEF Surjection
<1> QED
  BY <1>6 DEF number

\* A set of slots with different occupants has as many occupants as slots.
LEMMA OccupantsCounted ==
    ASSUME IInv, NEW S \in SUBSET DOMAIN slots
    PROVE  /\ IsFiniteSet(S) /\ Cardinality(S) \in Nat
           /\ IsFiniteSet({slots[i].sub : i \in S})
           /\ Cardinality({slots[i].sub : i \in S}) = Cardinality(S)
<1> DEFINE who == {slots[i].sub : i \in S}
           seat == [i \in S |-> slots[i].sub]
<1>1. DOMAIN slots = 1..trustees_t /\ trustees_t \in Nat
  BY DEF IInv, TypeOK
<1>2. IsFiniteSet(S) /\ Cardinality(S) \in Nat
  BY <1>1, RankNumbers
<1>3. /\ seat \in [S -> who]
      /\ \A i, j \in S : seat[i] = seat[j] => i = j
      /\ \A p \in who : \E i \in S : seat[i] = p
  BY DEF IInv, OnePersonOneSeat
<1> HIDE DEF who, seat
<1>4. ExistsBijection(S, who)
  <2>1. seat \in Bijection(S, who)
    BY <1>3, Fun_IsBij
  <2> QED
    BY <2>1 DEF ExistsBijection
<1>5. IsFiniteSet(who) /\ Cardinality(who) = Cardinality(S)
  BY <1>2, <1>4, FS_Bijection
<1> QED
  BY <1>2, <1>5 DEF who

\* A list without repetitions names as many people as it is long.
LEMMA ListCounted ==
    ASSUME NEW list \in Seq(People), IsInjective(list)
    PROVE  IsFiniteSet(Range(list)) /\ Cardinality(Range(list)) = Len(list) /\ Len(list) \in Nat
<1>1. Len(list) \in Nat /\ DOMAIN list = 1..Len(list)
  BY LenProperties
<1>2. IsFiniteSet(1..Len(list)) /\ Cardinality(1..Len(list)) = Len(list)
  BY <1>1, FS_Interval
<1>3. list \in Bijection(1..Len(list), Range(list))
  <2>1. list \in [1..Len(list) -> Range(list)]
    BY <1>1 DEF Range
  <2>2. \A i, j \in 1..Len(list) : list[i] = list[j] => i = j
    BY <1>1 DEF IsInjective
  <2>3. \A p \in Range(list) : \E i \in 1..Len(list) : list[i] = p
    BY <1>1 DEF Range
  <2> QED
    BY <2>1, <2>2, <2>3, Fun_IsBij
<1>4. ExistsBijection(1..Len(list), Range(list))
  BY <1>3 DEF ExistsBijection
<1> QED
  BY <1>1, <1>2, <1>4, FS_Bijection

\* The slots of a sweep that the queue can serve.
Served(S) == {i \in S : Rank(i, S) <= Len(backup_queue)}

\* Who sits where after a sweep.
LEMMA LapseServes ==
    ASSUME IInv, NEW S \in SUBSET DOMAIN slots, Lapse(S)
    PROVE  /\ DOMAIN slots' = DOMAIN slots /\ Served(S) \subseteq S
           /\ Len(backup_queue) \in Nat /\ Cardinality(S) \in Nat
           /\ \A i \in S : Rank(i, S) \in 1..Cardinality(S)
           /\ \A i \in Served(S) : /\ Rank(i, S) \in 1..Len(backup_queue)
                                   /\ slots'[i].sub = backup_queue[Rank(i, S)]
                                   /\ slots'[i].sub \in Range(backup_queue)
                                   /\ slots'[i].status = "invited"
           /\ \A i \in DOMAIN slots \ Served(S) : slots'[i].sub = slots[i].sub
           /\ \A i \in S \ Served(S) : slots'[i].status = "open"
           /\ \A i \in DOMAIN slots \ S : slots'[i] = slots[i]
<1>1. /\ DOMAIN slots = 1..trustees_t /\ trustees_t \in Nat
      /\ \A i \in DOMAIN slots : slots[i] \in Slot
  BY DEF IInv, TypeOK
<1>2. Cardinality(S) \in Nat /\ \A i \in S : Rank(i, S) \in 1..Cardinality(S)
  BY <1>1, RankNumbers
<1>3. Len(backup_queue) \in Nat /\ DOMAIN backup_queue = 1..Len(backup_queue)
  BY LenProperties DEF IInv, TypeOK
<1>4. Served(S) \subseteq S /\ \A i \in Served(S) : Rank(i, S) \in 1..Len(backup_queue)
  BY <1>2, <1>3 DEF Served
<1>5. /\ DOMAIN slots' = DOMAIN slots
      /\ \A i \in DOMAIN slots \ S : slots'[i] = slots[i]
      /\ \A i \in Served(S) : slots'[i] = [sub |-> backup_queue[Rank(i, S)], status |-> "invited", age |-> 0]
      /\ \A i \in S \ Served(S) : slots'[i] = [slots[i] EXCEPT !.status = "open"]
  BY DEF Lapse, Served, Heir
<1>6. ASSUME NEW i \in S \ Served(S)
      PROVE  slots'[i].sub = slots[i].sub /\ slots'[i].status = "open"
  <2>1. slots[i] \in [sub : People, status : SlotStatus, age : 0..(TTL + 1)]
    BY <1>1 DEF Slot
  <2>2. slots'[i] = [slots[i] EXCEPT !.status = "open"]
    BY <1>5
  <2> QED
    BY <2>1, <2>2
<1>7. ASSUME NEW i \in Served(S)
      PROVE  /\ slots'[i].sub = backup_queue[Rank(i, S)]
             /\ slots'[i].sub \in Range(backup_queue) /\ slots'[i].status = "invited"
  <2>1. backup_queue[Rank(i, S)] \in Range(backup_queue)
    BY <1>3, <1>4 DEF Range
  <2>2. slots'[i] = [sub |-> backup_queue[Rank(i, S)], status |-> "invited", age |-> 0]
    BY <1>5
  <2> QED
    BY <2>1, <2>2
<1>8. ASSUME NEW i \in DOMAIN slots \ Served(S) PROVE slots'[i].sub = slots[i].sub
  BY <1>5, <1>6
<1> QED
  BY <1>2, <1>3, <1>4, <1>5, <1>6, <1>7, <1>8

\* What is left of the queue, place by place.
LEMMA QueueLeft ==
    ASSUME IInv, NEW k \in Nat
    PROVE  /\ \A m \in 1..Len(backup_queue) : k < m => backup_queue[m] \in Range(QueueAfter(k))
           /\ Range(QueueAfter(k)) \subseteq Range(backup_queue)
           /\ \A m \in 1..k : m <= Len(backup_queue) => backup_queue[m] \notin Range(QueueAfter(k))
<1>1. backup_queue \in Seq(People) /\ Len(backup_queue) \in Nat /\ IsInjective(backup_queue)
  BY LenProperties DEF IInv, TypeOK, OnePersonOneSeat
<1>2. ASSUME NEW m \in 1..Len(backup_queue), k < m PROVE backup_queue[m] \in Range(QueueAfter(k))
  <2>1. /\ QueueAfter(k) \in Seq(People) /\ Len(QueueAfter(k)) = Len(backup_queue) - (k + 1) + 1
        /\ \A j \in 1..Len(backup_queue) - (k + 1) + 1 : QueueAfter(k)[j] = backup_queue[(k + 1) + j - 1]
    <3>1. \A j \in k + 1..Len(backup_queue) : backup_queue[j] \in People
      BY <1>1, ElementOfSeq
    <3>2. k + 1 <= Len(backup_queue) /\ k + 1 \in Int /\ Len(backup_queue) \in Int
      BY <1>1, <1>2
    <3> QED
      BY <3>1, <3>2, SubSeqProperties DEF QueueAfter
  <2>2. m - k \in 1..Len(backup_queue) - (k + 1) + 1 /\ (k + 1) + (m - k) - 1 = m
    BY <1>1, <1>2
  <2>3. QueueAfter(k)[m - k] = backup_queue[m]
    BY <2>1, <2>2
  <2>4. m - k \in DOMAIN QueueAfter(k)
    BY <2>1, <2>2, LenProperties
  <2> QED
    BY <2>3, <2>4 DEF Range
<1>3. /\ Range(QueueAfter(k)) \subseteq Range(backup_queue)
      /\ \A m \in 1..k : m <= Len(backup_queue) => backup_queue[m] \notin Range(QueueAfter(k))
  BY <1>1, QueueTail DEF Heir
<1> QED
  BY <1>2, <1>3

-----------------------------------------------------------------------------
(* Backfill *)

\* A sweep or a decline hands the first backups, in order, to slots nobody answered for.
LEMMA LapseInRankOrder ==
    ASSUME IInv, NEW S \in SUBSET DOMAIN slots, Lapse(S), \A i \in S : slots[i].status = "invited"
    PROVE  \E k \in 0..Len(backup_queue) :
             /\ backup_queue' = SubSeq(backup_queue, k + 1, Len(backup_queue))
             /\ LET moved == {i \in DOMAIN slots : slots'[i].sub # slots[i].sub}
                IN  /\ Cardinality(moved) = k
                    /\ \A i \in moved :
                          /\ slots[i].status = "invited"
                          /\ slots'[i].sub = backup_queue[Rank(i, moved)]
<1> DEFINE n == Len(backup_queue)
           k == IF Cardinality(S) <= n THEN Cardinality(S) ELSE n
           moved == {i \in DOMAIN slots : slots'[i].sub # slots[i].sub}
<1>1. DOMAIN slots = 1..trustees_t /\ trustees_t \in Nat
  BY DEF IInv, TypeOK
<1>2. /\ n \in Nat /\ Cardinality(S) \in Nat /\ k \in 0..n
      /\ \A i \in S : Rank(i, S) \in 1..Cardinality(S)
  BY LapseServes
<1>3. moved = Served(S)
  BY LapseServes DEF IInv, OnePersonOneSeat
<1>4. backup_queue' = SubSeq(backup_queue, k + 1, n)
  <2>1. backup_queue' = SubSeq(backup_queue, Cardinality(S) + 1, n)
    BY DEF Lapse, QueueAfter
  <2>2. CASE Cardinality(S) <= n
    BY <2>1, <2>2
  <2>3. CASE ~(Cardinality(S) <= n)
    <3>1. SubSeq(backup_queue, Cardinality(S) + 1, n) = << >> /\ SubSeq(backup_queue, n + 1, n) = << >>
      BY <1>2, <2>3, SubSeqEmpty
    <3> QED
      BY <2>1, <2>3, <3>1
  <2> QED
    BY <2>2, <2>3
<1> HIDE DEF moved
<1>5. \A i \in moved : Rank(i, moved) = Rank(i, S)
  <2> SUFFICES ASSUME NEW i \in moved PROVE Rank(i, moved) = Rank(i, S)
    OBVIOUS
  <2>1. ASSUME NEW j \in S, j <= i PROVE j \in moved
    <3>1. Rank(j, S) <= Rank(i, S)
      <4> DEFINE low == {m \in S : m <= j}
                 high == {m \in S : m <= i}
      <4>1. i \in Int /\ j \in Int /\ S \subseteq Int
        BY <1>1, <1>3 DEF Served
      <4>2. low \in SUBSET high /\ high \in SUBSET S
        BY <2>1, <4>1
      <4>3. IsFiniteSet(S)
        BY <1>1, RankNumbers
      <4>4. IsFiniteSet(high)
        BY <4>2, <4>3, FS_Subset
      <4> QED
        BY <4>2, <4>4, FS_Subset DEF Rank
    <3>2. i \in S /\ Rank(i, S) <= n
      BY <1>3 DEF Served
    <3>3. Rank(j, S) <= n
      BY <1>2, <3>1, <3>2
    <3> QED
      BY <1>3, <3>3 DEF Served
  <2>2. {j \in moved : j <= i} = {j \in S : j <= i}
    BY <1>3, <2>1 DEF Served
  <2> QED
    BY <2>2 DEF Rank
<1>6. Cardinality(moved) = k
  <2> DEFINE number == [i \in moved |-> Rank(i, S)]
  <2>1. \A i \in moved : Rank(i, S) \in 1..k
    BY <1>2, <1>3 DEF Served
  <2>2. \A i, j \in moved : Rank(i, S) = Rank(j, S) => i = j
    BY <1>1, <1>3, RankNumbers DEF Served
  <2>3. \A m \in 1..k : \E i \in moved : Rank(i, S) = m
    <3> SUFFICES ASSUME NEW m \in 1..k PROVE \E i \in moved : Rank(i, S) = m
      OBVIOUS
    <3>1. m \in 1..Cardinality(S) /\ m <= n
      BY <1>2
    <3>2. PICK i \in S : Rank(i, S) = m
      BY <1>1, <3>1, RankIsNumbering
    <3> QED
      BY <1>3, <3>1, <3>2 DEF Served
  <2>4. number \in [moved -> 1..k] /\ \A i \in moved : number[i] = Rank(i, S)
    BY <2>1
  <2> HIDE DEF number, k
  <2>5. number \in Bijection(moved, 1..k)
    <3>1. \A i, j \in moved : number[i] = number[j] => i = j
      BY <2>2, <2>4
    <3>2. \A m \in 1..k : \E i \in moved : number[i] = m
      BY <2>3, <2>4
    <3> QED
      BY <2>4, <3>1, <3>2, Fun_IsBij
  <2>6. moved \in SUBSET (1..trustees_t)
    BY <1>1, <1>3 DEF Served
  <2>7. IsFiniteSet(moved)
    BY <1>1, <2>6, RankNumbers
  <2>8. ExistsBijection(moved, 1..k)
    BY <2>5 DEF ExistsBijection
  <2>9. Cardinality(1..k) = Cardinality(moved)
    BY <2>7, <2>8, FS_Bijection
  <2>10. Cardinality(1..k) = k
    BY <1>2, FS_Interval
  <2> QED
    BY <2>9, <2>10
<1>7. ASSUME NEW i \in moved PROVE slots[i].status = "invited" /\ slots'[i].sub = backup_queue[Rank(i, moved)]
  BY <1>3, <1>5, LapseServes
<1> QED
  BY <1>2, <1>4, <1>6, <1>7 DEF moved

\* Nobody moves.
LEMMA NobodyMoves ==
    ASSUME IInv, backup_queue' = backup_queue,
           \A i \in DOMAIN slots : slots'[i].sub = slots[i].sub
    PROVE  \E k \in 0..Len(backup_queue) :
             /\ backup_queue' = SubSeq(backup_queue, k + 1, Len(backup_queue))
             /\ LET moved == {i \in DOMAIN slots : slots'[i].sub # slots[i].sub}
                IN  /\ Cardinality(moved) = k
                    /\ \A i \in moved :
                          /\ slots[i].status = "invited"
                          /\ slots'[i].sub = backup_queue[Rank(i, moved)]
<1>1. backup_queue \in Seq(People) /\ Len(backup_queue) \in Nat
  BY LenProperties DEF IInv, TypeOK
<1>2. backup_queue = SubSeq(backup_queue, 0 + 1, Len(backup_queue))
  <2>1. /\ SubSeq(backup_queue, 1, Len(backup_queue)) \in Seq(People)
        /\ Len(SubSeq(backup_queue, 1, Len(backup_queue))) = Len(backup_queue)
        /\ \A i \in 1..Len(backup_queue) : SubSeq(backup_queue, 1, Len(backup_queue))[i] = backup_queue[i]
    <3>1. \A i \in 1..Len(backup_queue) : backup_queue[i] \in People
      BY <1>1, ElementOfSeq
    <3> DEFINE whole == SubSeq(backup_queue, 1, Len(backup_queue))
    <3>2. /\ whole \in Seq(People)
          /\ Len(whole) = IF 1 <= Len(backup_queue) THEN Len(backup_queue) - 1 + 1 ELSE 0
          /\ \A i \in 1..Len(backup_queue) - 1 + 1 : whole[i] = backup_queue[1 + i - 1]
      BY <1>1, <3>1, SubSeqProperties
    <3> HIDE DEF whole
    <3>3. Len(whole) = Len(backup_queue) /\ \A i \in 1..Len(backup_queue) : whole[i] = backup_queue[i]
      BY <1>1, <3>2
    <3> QED
      BY <3>2, <3>3 DEF whole
  <2>2. SubSeq(backup_queue, 1, Len(backup_queue)) = backup_queue
    BY <1>1, <2>1, SeqEqual
  <2> QED
    BY <2>2
<1>3. {i \in DOMAIN slots : slots'[i].sub # slots[i].sub} = {} /\ Cardinality({}) = 0
  BY FS_EmptySet
<1>4. 0 \in 0..Len(backup_queue)
  BY <1>1
<1> QED
  BY <1>2, <1>3, <1>4

\* Slots that keep what they are but for their ages and statuses.
LEMMA SubsStay ==
    ASSUME IInv, Tick \/ (\E p \in People, c \in 1..MaxCeremonies : Accept(p, c))
    PROVE  /\ DOMAIN slots' = DOMAIN slots /\ backup_queue' = backup_queue
           /\ \A i \in DOMAIN slots : slots'[i].sub = slots[i].sub
           /\ UNCHANGED <<trustees_t, operator, threshold_d, ceremony_id>>
<1>1. \A i \in DOMAIN slots : slots[i] \in Slot
  BY DEF IInv, TypeOK
<1>2. CASE Tick
  BY <1>1, <1>2 DEF Tick, Slot
<1>3. CASE \E p \in People, c \in 1..MaxCeremonies : Accept(p, c)
  BY <1>1, <1>3 DEF Accept, Slot
<1> QED
  BY <1>2, <1>3

\* While a ceremony is forming the queue loses people from its head only, and they get,
\* in that order, slots whose invitation was unanswered (_lapse_slot_locked, app.py:346-355).
THEOREM BackfillKeepsRank == Spec => BackfillInRankOrder
<1> DEFINE Ranked ==
      status = "forming" /\ ceremony_id' = ceremony_id /\ status' # "none" =>
          \E k \in 0..Len(backup_queue) :
             /\ backup_queue' = SubSeq(backup_queue, k + 1, Len(backup_queue))
             /\ LET moved == {i \in DOMAIN slots : slots'[i].sub # slots[i].sub}
                IN  /\ Cardinality(moved) = k
                    /\ \A i \in moved :
                          /\ slots[i].status = "invited"
                          /\ slots'[i].sub = backup_queue[Rank(i, moved)]
<1>1. IInv /\ [Next]_vars => [Ranked]_vars
  <2> SUFFICES ASSUME IInv, Next, status = "forming", status' # "none"
               PROVE  Ranked
    BY DEF vars, ceremony
  <2>1. CASE \E p \in People : RegisterTrustee(p) \/ ReadInvitation(p)
    BY <2>1, NobodyMoves DEF RegisterTrustee, ReadInvitation, ceremony
  <2>2. CASE \E p \in People, c \in 1..MaxCeremonies : DeadLink(p, c)
    BY <2>2, NobodyMoves DEF DeadLink, vars, ceremony
  <2>3. CASE Tick \/ \E p \in People, c \in 1..MaxCeremonies : Accept(p, c)
    BY <2>3, SubsStay, NobodyMoves
  <2>4. CASE Scan
    <3>1. Expired \in SUBSET DOMAIN slots /\ \A i \in Expired : slots[i].status = "invited"
      BY DEF Expired
    <3>2. Lapse(Expired)
      BY <2>4 DEF Scan
    <3> QED
      BY <3>1, <3>2, LapseInRankOrder
  <2>5. CASE \E p \in People, c \in 1..MaxCeremonies : Decline(p, c)
    <3>1. PICK p \in People : \E i \in PendingSlots(p) : Lapse({i})
      BY <2>5 DEF Decline
    <3>2. PICK i \in PendingSlots(p) : Lapse({i})
      BY <3>1
    <3>3. {i} \in SUBSET DOMAIN slots /\ \A j \in {i} : slots[j].status = "invited"
      BY DEF PendingSlots
    <3> QED
      BY <3>2, <3>3, LapseInRankOrder
  <2>6. ~NoConflict /\ ~CreateVault /\ ~Restart
    BY DEF NoConflict, CreateVault, Restart, ForgetCeremony
  <2> HIDE DEF Ranked
  <2> QED
    BY <2>1, <2>2, <2>3, <2>4, <2>5, <2>6 DEF Next
<1> QED
  BY <1>1, FormationInvariant, PTL DEF Spec, BackfillInRankOrder
-----------------------------------------------------------------------------
(* The promise *)

\* The promise counts people as the model does.
LEMMA SameCount == \A S : Promise!Cardinality(S) = Cardinality(S)
BY DEF Cardinality, Promise!Cardinality

\* Enough people have consented when every slot is accepted, and not before.
AllConsent ==
    Cardinality(Occupants("accepted")) = trustees_t
        <=> \A j \in DOMAIN slots : slots[j].status = "accepted"

LEMMA EveryoneConsents == IInv => AllConsent
<1> SUFFICES ASSUME IInv
             PROVE  AllConsent
  OBVIOUS
<1> DEFINE taken == {j \in DOMAIN slots : slots[j].status = "accepted"}
<1>1. DOMAIN slots = 1..trustees_t /\ trustees_t \in Nat
  BY DEF IInv, TypeOK
<1>2. Cardinality(Occupants("accepted")) = Cardinality(taken)
  BY OccupantsCounted DEF Occupants
<1>3. IsFiniteSet(1..trustees_t) /\ Cardinality(1..trustees_t) = trustees_t
  BY <1>1, FS_Interval
<1>4. taken \in SUBSET (1..trustees_t)
  BY <1>1
<1>5. Cardinality(1..trustees_t) = Cardinality(taken) => 1..trustees_t = taken
  BY <1>3, <1>4, FS_Subset
<1> QED
  BY <1>1, <1>2, <1>3, <1>5 DEF AllConsent

LEMMA EveryoneConsentsNext == IInv' => AllConsent'
BY EveryoneConsents, PTL

\* initiate_ceremony starts a ceremony of the promise with everyone it names.
LEMMA PromiseStart ==
    ASSUME IsFiniteSet(People), NEW op \in Operators, NEW d \in Nat,
           NEW primaries \in Seq(People), NEW backups \in Seq(People),
           InitiateCeremony(op, d, primaries, backups)
    PROVE  Promise!Next
<1> DEFINE T == Len(primaries)
           B == Len(backups)
           named == primaries \o backups
<1>1. /\ T \in Nat /\ DOMAIN primaries = 1..T /\ B \in Nat /\ DOMAIN backups = 1..B
      /\ \A i \in 1..T : primaries[i] \in People
  BY LenProperties, ElementOfSeq
<1>2. /\ named \in Seq(People) /\ Len(named) = T + B
      /\ \A i \in 1..(T + B) : named[i] = IF i <= T THEN primaries[i] ELSE backups[i - T]
  BY ConcatProperties
<1>3. DOMAIN named = 1..(T + B)
  BY <1>2, LenProperties
<1>4. T >= 2 /\ IsInjective(named) /\ status # "forming"
  BY DEF InitiateCeremony, NoConflict
<1>5. /\ status' = "forming" /\ trustees_t' = T /\ backup_queue' = backups
      /\ slots' = [i \in 1..T |-> [sub |-> primaries[i], status |-> "invited", age |-> 0]]
  BY DEF InitiateCeremony
<1> HIDE DEF T, B, named
<1>6. /\ IsFiniteSet(Range(named)) /\ Cardinality(Range(named)) = T + B
      /\ Range(named) \in SUBSET People
  <2>1. Range(named) \in SUBSET People
    BY <1>2, <1>3, ElementOfSeq DEF Range
  <2> QED
    BY <1>2, <1>4, <2>1, ListCounted
<1>7. T \in 1..Cardinality(People) /\ T <= Cardinality(Range(named))
  BY <1>1, <1>4, <1>6, FS_Subset, FS_CardinalityType
<1>8. \A i \in DOMAIN slots' : i \in 1..T /\ slots'[i].sub = primaries[i] /\ slots'[i].status = "invited"
  BY <1>5
<1>9. DOMAIN slots' = 1..T
  BY <1>5
<1>10. Occupants("accepted")' = {}
  BY <1>8 DEF Occupants
<1>11. Occupants("invited")' = Range(primaries)
  <2>1. Occupants("invited")' = {slots'[i].sub : i \in {j \in DOMAIN slots' : slots'[j].status = "invited"}}
    BY DEF Occupants
  <2>2. {j \in DOMAIN slots' : slots'[j].status = "invited"} = 1..T
    BY <1>8, <1>9
  <2> QED
    BY <1>1, <1>8, <1>9, <2>1, <2>2 DEF Range
<1>12. Range(primaries) \cup Range(backups) = Range(named)
  <2>1. ASSUME NEW i \in 1..T PROVE i \in 1..(T + B) /\ named[i] = primaries[i]
    BY <1>1, <1>2
  <2>2. ASSUME NEW j \in 1..B PROVE T + j \in 1..(T + B) /\ named[T + j] = backups[j]
    <3>1. T + j \in 1..(T + B) /\ ~(T + j <= T) /\ (T + j) - T = j
      BY <1>1
    <3> QED
      BY <1>2, <3>1
  <2>3. ASSUME NEW i \in 1..(T + B) PROVE named[i] \in Range(primaries) \cup Range(backups)
    <3>1. CASE i <= T
      <4>1. i \in 1..T /\ named[i] = primaries[i]
        BY <1>1, <1>2, <3>1
      <4> QED
        BY <1>1, <4>1 DEF Range
    <3>2. CASE ~(i <= T)
      <4>1. i - T \in 1..B /\ named[i] = backups[i - T]
        BY <1>1, <1>2, <3>2
      <4> QED
        BY <1>1, <4>1 DEF Range
    <3> QED
      BY <3>1, <3>2
  <2>4. Range(primaries) \subseteq Range(named)
    BY <1>1, <1>3, <2>1 DEF Range
  <2>5. Range(backups) \subseteq Range(named)
    BY <1>1, <1>3, <2>2 DEF Range
  <2>6. Range(named) \subseteq Range(primaries) \cup Range(backups)
    <3> SUFFICES ASSUME NEW p \in Range(named) PROVE p \in Range(primaries) \cup Range(backups)
      OBVIOUS
    <3>1. PICK i \in 1..(T + B) : p = named[i]
      BY <1>3 DEF Range
    <3> QED
      BY <2>3, <3>1
  <2> QED
    BY <2>4, <2>5, <2>6
<1>13. Promise!Start(Range(named), T)
  <2>1. T > 0
    BY <1>1, <1>4
  <2> QED
    BY <1>4, <1>5, <1>7, <1>10, <1>11, <1>12, <2>1, SameCount DEF Promise!Start
<1>14. Range(named) \in SUBSET People /\ T \in 1..Promise!Cardinality(People)
  BY <1>6, <1>7, SameCount
<1> QED
  BY <1>13, <1>14 DEF Promise!Next

\* An accept is the consent of one who was still hoped for.
LEMMA PromiseConsent ==
    ASSUME IInv, IInv', NEW p \in People, NEW c \in Nat, Accept(p, c)
    PROVE  Promise!Next
<1>1. PICK i \in PendingSlots(p) :
         /\ slots' = [slots EXCEPT ![i].status = "accepted"]
         /\ status' = IF \A j \in DOMAIN slots : slots'[j].status = "accepted"
                      THEN "formed" ELSE "forming"
  BY DEF Accept
<1>2. /\ i \in DOMAIN slots /\ slots[i].sub = p /\ slots[i].status = "invited"
      /\ status = "forming" /\ consented' = consented \cup {p}
      /\ UNCHANGED <<trustees_t, backup_queue>>
  BY <1>1 DEF Accept, LiveInvitation, PendingSlots
<1>3. \A j \in DOMAIN slots : slots[j] \in Slot
  BY DEF IInv, TypeOK
<1>4. /\ DOMAIN slots' = DOMAIN slots
      /\ slots'[i].status = "accepted"
      /\ \A j \in DOMAIN slots : j # i => slots'[j] = slots[j]
  BY <1>1, <1>2, <1>3 DEF Slot
<1>5. Occupants("accepted")' = Occupants("accepted") \cup {p}
  BY <1>2 DEF IInv, ConsentIsBinding
<1>6. p \notin Range(backup_queue) /\ \A j \in DOMAIN slots : slots[j].sub = p => j = i
  BY <1>2 DEF IInv, OnePersonOneSeat
<1>7. Occupants("invited")' = Occupants("invited") \ {p}
  <2>1. \A q : q \in Occupants("invited")' <=>
                  \E j \in DOMAIN slots : slots'[j].status = "invited" /\ slots'[j].sub = q
    BY <1>4 DEF Occupants
  <2>2. \A q : q \in Occupants("invited") <=>
                  \E j \in DOMAIN slots : slots[j].status = "invited" /\ slots[j].sub = q
    BY DEF Occupants
  <2> QED
    BY <1>2, <1>4, <1>6, <2>1, <2>2
<1>8. status' = IF Cardinality(Occupants("accepted")') = trustees_t THEN "formed" ELSE "forming"
  BY <1>1, <1>2, <1>4, EveryoneConsentsNext DEF AllConsent
<1>9. p \in Occupants("invited")
  BY <1>2 DEF Occupants
<1>10. Promise!Consent(p)
  BY <1>2, <1>5, <1>6, <1>7, <1>8, <1>9, SameCount DEF Promise!Consent
<1> QED
  BY <1>9, <1>10 DEF Promise!Next, Promise!Decide

\* A sweep, or a decline, rules out the occupants of the slots it lapses and nobody else.
LEMMA LapseRulesOut ==
    ASSUME IInv, NEW S \in SUBSET DOMAIN slots, Lapse(S), \A i \in S : slots[i].status = "invited"
    PROVE  /\ Occupants("accepted")' = Occupants("accepted")
           /\ Occupants("invited")' \cup Range(backup_queue') =
                 (Occupants("invited") \cup Range(backup_queue)) \ {slots[i].sub : i \in S}
<1> DEFINE k == Cardinality(S)
           refusing == {slots[i].sub : i \in S}
<1>1. DOMAIN slots = 1..trustees_t /\ trustees_t \in Nat
  BY DEF IInv, TypeOK
<1>2. /\ DOMAIN slots' = DOMAIN slots /\ Served(S) \subseteq S
      /\ Len(backup_queue) \in Nat /\ k \in Nat
      /\ \A i \in Served(S) : /\ slots'[i].sub = backup_queue[Rank(i, S)]
                              /\ slots'[i].sub \in Range(backup_queue)
                              /\ slots'[i].status = "invited"
      /\ \A i \in S \ Served(S) : slots'[i].status = "open"
      /\ \A i \in DOMAIN slots \ S : slots'[i] = slots[i]
  BY LapseServes
<1>3. backup_queue' = QueueAfter(k)
  BY DEF Lapse
<1>4. /\ Range(QueueAfter(k)) \subseteq Range(backup_queue)
      /\ \A m \in 1..Len(backup_queue) : k < m => backup_queue[m] \in Range(QueueAfter(k))
  BY <1>2, QueueLeft
<1>5. /\ \A i \in DOMAIN slots : slots[i].sub \notin Range(backup_queue)
      /\ \A i, j \in DOMAIN slots : slots[i].sub = slots[j].sub => i = j
  BY DEF IInv, OnePersonOneSeat
<1>6. \A q, state : q \in Occupants(state)' <=>
                       \E j \in DOMAIN slots : slots'[j].status = state /\ slots'[j].sub = q
  BY <1>2 DEF Occupants
<1>7. \A q, state : q \in Occupants(state) <=>
                       \E j \in DOMAIN slots : slots[j].status = state /\ slots[j].sub = q
  BY DEF Occupants
<1>8. Occupants("accepted")' = Occupants("accepted")
  <2>1. \A j \in S : slots'[j].status # "accepted" /\ slots[j].status # "accepted"
    BY <1>2
  <2>2. \A j \in DOMAIN slots : slots'[j].status = "accepted" \/ slots[j].status = "accepted"
                                   => slots'[j] = slots[j]
    BY <1>2, <2>1
  <2>3. \A q : (\E j \in DOMAIN slots : slots'[j].status = "accepted" /\ slots'[j].sub = q)
                <=> \E j \in DOMAIN slots : slots[j].status = "accepted" /\ slots[j].sub = q
    BY <2>2
  <2>4. \A q : q \in Occupants("accepted")' <=> q \in Occupants("accepted")
    BY <1>6, <1>7, <2>3
  <2> QED
    BY <2>4
<1>9. ASSUME NEW q \in Occupants("invited")' \cup Range(backup_queue')
      PROVE  q \in (Occupants("invited") \cup Range(backup_queue)) \ refusing
  <2>1. CASE q \in Range(backup_queue)
    BY <1>5, <2>1
  <2>2. CASE q \notin Range(backup_queue)
    <3>1. PICK j \in DOMAIN slots : slots'[j].status = "invited" /\ slots'[j].sub = q
      BY <1>3, <1>4, <1>6, <2>2
    <3>2. j \notin S
      BY <1>2, <2>2, <3>1
    <3>3. slots[j].status = "invited" /\ slots[j].sub = q
      BY <1>2, <3>1, <3>2
    <3> QED
      BY <1>5, <1>7, <3>2, <3>3
  <2> QED
    BY <2>1, <2>2
<1>10. ASSUME NEW q \in (Occupants("invited") \cup Range(backup_queue)) \ refusing
       PROVE  q \in Occupants("invited")' \cup Range(backup_queue')
  <2>1. CASE q \in Occupants("invited")
    <3>1. PICK j \in DOMAIN slots : slots[j].status = "invited" /\ slots[j].sub = q
      BY <1>7, <2>1
    <3>2. j \notin S
      BY <3>1
    <3> QED
      BY <1>2, <1>6, <3>1, <3>2
  <2>2. CASE q \in Range(backup_queue)
    <3>1. PICK m \in 1..Len(backup_queue) : backup_queue[m] = q
      BY <2>2, LenProperties DEF IInv, TypeOK, Range
    <3>2. CASE k < m
      BY <1>3, <1>4, <3>1, <3>2
    <3>3. CASE ~(k < m)
      <4>1. m \in 1..k
        BY <1>2, <3>3
      <4>2. PICK i \in S : Rank(i, S) = m
        BY <1>1, <4>1, RankIsNumbering
      <4>3. i \in Served(S)
        BY <3>1, <4>2 DEF Served
      <4> QED
        BY <1>2, <1>6, <3>1, <4>2, <4>3
    <3> QED
      BY <3>2, <3>3
  <2> QED
    BY <2>1, <2>2
<1> QED
  BY <1>8, <1>9, <1>10

\* A forming ceremony has lost no slot: the people who consented and the ones still
\* hoped for are one for every slot and one for every place in the queue.
LEMMA Headcount ==
    ASSUME IInv, status = "forming"
    PROVE  /\ IsFiniteSet(Occupants("invited") \cup Range(backup_queue))
           /\ Cardinality(Occupants("accepted")) \in Nat
           /\ Cardinality(Occupants("invited") \cup Range(backup_queue)) \in Nat
           /\ Cardinality(Occupants("accepted"))
                + Cardinality(Occupants("invited") \cup Range(backup_queue))
              = trustees_t + Len(backup_queue)
<1> DEFINE taken == {j \in DOMAIN slots : slots[j].status = "accepted"}
           asked == {j \in DOMAIN slots : slots[j].status = "invited"}
           inv == Occupants("invited")
           queue == Range(backup_queue)
<1>1. DOMAIN slots = 1..trustees_t /\ trustees_t \in Nat /\ \A j \in DOMAIN slots : slots[j] \in Slot
  BY DEF IInv, TypeOK
<1>2. \A j \in DOMAIN slots : slots[j].status \in {"invited", "accepted"}
  BY <1>1 DEF IInv, StatusTellsSlots, Slot, SlotStatus
<1>3. taken \cup asked = 1..trustees_t /\ taken \cap asked = {}
  BY <1>1, <1>2
<1>4. /\ IsFiniteSet(taken) /\ Cardinality(taken) \in Nat
      /\ Cardinality(Occupants("accepted")) = Cardinality(taken)
  BY OccupantsCounted DEF Occupants
<1>5. /\ IsFiniteSet(asked) /\ Cardinality(asked) \in Nat
      /\ IsFiniteSet(inv) /\ Cardinality(inv) = Cardinality(asked)
  BY OccupantsCounted DEF Occupants
<1>6. IsFiniteSet(queue) /\ Cardinality(queue) = Len(backup_queue) /\ Len(backup_queue) \in Nat
  BY ListCounted DEF IInv, TypeOK, OnePersonOneSeat
<1>7. inv \cap queue = {}
  BY DEF Occupants, IInv, OnePersonOneSeat
<1> HIDE DEF taken, asked, inv, queue
<1>8. Cardinality(taken) + Cardinality(asked) = trustees_t
  <2>1. Cardinality(taken \cup asked) = Cardinality(taken) + Cardinality(asked) - Cardinality({})
    BY <1>3, <1>4, <1>5, FS_Union
  <2>2. Cardinality(1..trustees_t) = trustees_t
    BY <1>1, FS_Interval
  <2>3. Cardinality({}) = 0
    BY FS_EmptySet
  <2>4. Cardinality(taken \cup asked) = trustees_t
    BY <1>3, <2>2
  <2> QED
    BY <1>4, <1>5, <2>1, <2>3, <2>4
<1>9. IsFiniteSet(inv \cup queue) /\ Cardinality(inv \cup queue) = Cardinality(inv) + Cardinality(queue)
  <2>1. /\ IsFiniteSet(inv \cup queue)
        /\ Cardinality(inv \cup queue) = Cardinality(inv) + Cardinality(queue) - Cardinality({})
    BY <1>5, <1>6, <1>7, FS_Union
  <2> QED
    BY <1>5, <1>6, <2>1, FS_EmptySet
<1>10. /\ IsFiniteSet(inv \cup queue) /\ Cardinality(inv \cup queue) \in Nat
       /\ Cardinality(taken) + Cardinality(inv \cup queue) = trustees_t + Len(backup_queue)
  <2>1. Cardinality(inv \cup queue) = Cardinality(asked) + Len(backup_queue)
    BY <1>5, <1>6, <1>9
  <2>2. Cardinality(asked) + Len(backup_queue) \in Nat
    BY <1>5, <1>6
  <2>3. Cardinality(taken) + (Cardinality(asked) + Len(backup_queue)) = trustees_t + Len(backup_queue)
    BY <1>4, <1>5, <1>6, <1>8
  <2> QED
    BY <1>9, <2>1, <2>2, <2>3
<1>11. Cardinality(Occupants("accepted")) + Cardinality(inv \cup queue) = trustees_t + Len(backup_queue)
  BY <1>4, <1>10
<1>12. inv \cup queue = Occupants("invited") \cup Range(backup_queue)
  BY DEF inv, queue
<1> QED
  BY <1>4, <1>10, <1>11, <1>12

\* The ceremony fails when, and only when, fewer people remain than it needs.
LEMMA PromiseRuleOut ==
    ASSUME IInv, status = "forming",
           NEW S \in SUBSET DOMAIN slots, S # {}, Lapse(S), \A i \in S : slots[i].status = "invited"
    PROVE  Promise!Next
<1> DEFINE refusing == {slots[i].sub : i \in S}
           hopeful == Occupants("invited") \cup Range(backup_queue)
           hopeful_next == Occupants("invited")' \cup Range(backup_queue')
           acc == Occupants("accepted")
           k == Cardinality(S)
           n == Len(backup_queue)
<1>1. Occupants("accepted")' = acc /\ hopeful_next = hopeful \ refusing
  BY LapseRulesOut
<1>2. /\ IsFiniteSet(hopeful) /\ Cardinality(acc) \in Nat /\ Cardinality(hopeful) \in Nat
      /\ Cardinality(acc) + Cardinality(hopeful) = trustees_t + n
  BY Headcount
<1>3. k \in Nat /\ Cardinality(refusing) = k
  BY OccupantsCounted
<1>4. n \in Nat /\ trustees_t \in Nat
  BY LenProperties DEF IInv, TypeOK
<1>5. refusing \in SUBSET hopeful /\ refusing # {}
  BY DEF Occupants
<1>6. /\ status' = IF k > n THEN "failed" ELSE "forming"
      /\ UNCHANGED trustees_t
  BY DEF Lapse, StatusAfter
<1> HIDE DEF refusing, hopeful, hopeful_next, acc, k, n
<1>7. Cardinality(hopeful \ refusing) = Cardinality(hopeful) - k
  <2>1. Cardinality(hopeful \ refusing) = Cardinality(hopeful) - Cardinality(hopeful \cap refusing)
    BY <1>2, FS_Difference
  <2>2. hopeful \cap refusing = refusing
    BY <1>5
  <2> QED
    BY <1>3, <2>1, <2>2
<1>8. status' = IF Cardinality(acc) + Cardinality(hopeful_next) < trustees_t THEN "failed" ELSE "forming"
  <2>1. k > n <=> Cardinality(acc) + (Cardinality(hopeful) - k) < trustees_t
    BY <1>2, <1>3, <1>4
  <2> QED
    BY <1>1, <1>6, <1>7, <2>1
<1>9. Promise!RuleOut(refusing)
  BY <1>1, <1>5, <1>6, <1>8, SameCount DEF Promise!RuleOut, hopeful, hopeful_next, acc
<1> QED
  BY <1>5, <1>9 DEF Promise!Next, Promise!Decide, hopeful

\* Dropping the record of a ceremony forgets it.
LEMMA PromiseForget ==
    ASSUME IInv, status # "none", ForgetCeremony
    PROVE  Promise!Next
<1>1. << >> \in Seq(People) /\ Len(<< >>) = 0
  BY EmptySeq
<1>2. DOMAIN << >> = {}
  BY <1>1, LenProperties
<1>3. /\ status' = "none" /\ trustees_t' = 0
      /\ Occupants("accepted")' = {} /\ Occupants("invited")' = {} /\ Range(backup_queue') = {}
  BY <1>2 DEF ForgetCeremony, Occupants, Range
<1>4. status # "idle"
  BY DEF IInv, TypeOK
<1> QED
  BY <1>3, <1>4 DEF Promise!Forget, Promise!Next

LEMMA PromiseInit == Init => Promise!Init
<1>1. << >> \in Seq(People) /\ Len(<< >>) = 0
  BY EmptySeq
<1>2. DOMAIN << >> = {}
  BY <1>1, LenProperties
<1> QED
  BY <1>2 DEF Init, Promise!Init, Occupants, Range

\* Every handler is a step of the promise, or none.
LEMMA PromiseStep ==
    ASSUME IsFiniteSet(People), IInv, IInv', [Next]_vars
    PROVE  [Promise!Next]_(Promise!vars)
<1> USE DEF Promise!vars
<1>1. CASE UNCHANGED <<status, trustees_t, slots, backup_queue>>
  BY <1>1 DEF Occupants
<1>2. ASSUME NEW op \in Operators, NEW d \in 1..(MaxSlots + 1),
             NEW primaries \in Lists(MaxSlots), NEW backups \in Lists(MaxBackups),
             InitiateCeremony(op, d, primaries, backups)
      PROVE  Promise!Next
  <2>1. primaries \in Seq(People) /\ backups \in Seq(People) /\ d \in Nat
    BY FormationAssumption DEF Lists
  <2> QED
    BY <1>2, <2>1, PromiseStart
<1>3. ASSUME NEW p \in People, NEW c \in 1..MaxCeremonies, Accept(p, c)
      PROVE  Promise!Next
  <2>1. c \in Nat
    BY FormationAssumption
  <2> QED
    BY <1>3, <2>1, PromiseConsent
<1>4. ASSUME NEW p \in People, NEW c \in 1..MaxCeremonies, Decline(p, c)
      PROVE  Promise!Next
  <2>1. PICK i \in PendingSlots(p) : Lapse({i})
    BY <1>4 DEF Decline
  <2>2. {i} \in SUBSET DOMAIN slots /\ {i} # {} /\ \A j \in {i} : slots[j].status = "invited"
    BY DEF PendingSlots
  <2>3. status = "forming"
    BY <1>4 DEF Decline, LiveInvitation
  <2> QED
    BY <2>1, <2>2, <2>3, PromiseRuleOut
<1>5. CASE Scan
  <2>1. Expired \in SUBSET DOMAIN slots /\ \A i \in Expired : slots[i].status = "invited"
    BY DEF Expired
  <2>2. status = "forming" /\ Expired # {} /\ Lapse(Expired)
    BY <1>5 DEF Scan
  <2> QED
    BY <2>1, <2>2, PromiseRuleOut
<1>6. CASE Tick
  <2>1. /\ DOMAIN slots' = DOMAIN slots /\ UNCHANGED <<status, trustees_t, backup_queue>>
        /\ \A i \in DOMAIN slots : slots'[i].sub = slots[i].sub
    BY <1>6, SubsStay DEF Tick
  <2>2. \A i \in DOMAIN slots : slots'[i].status = slots[i].status
    <3>1. \A i \in DOMAIN slots : slots[i] \in Slot
      BY DEF IInv, TypeOK
    <3> QED
      BY <1>6, <3>1 DEF Tick, Slot
  <2>3. \A state : Occupants(state)' = Occupants(state)
    BY <2>1, <2>2 DEF Occupants
  <2> QED
    BY <2>1, <2>3
<1>7. CASE CreateVault
  <2>1. status # "none" /\ ForgetCeremony
    BY <1>7 DEF CreateVault
  <2> QED
    BY <2>1, PromiseForget
<1>8. CASE Restart
  <2>1. status # "none" /\ ForgetCeremony
    BY <1>8 DEF Restart
  <2> QED
    BY <2>1, PromiseForget
<1>9. (\E p \in People : RegisterTrustee(p) \/ ReadInvitation(p))
         \/ (\E p \in People, c \in 1..MaxCeremonies : DeadLink(p, c)) \/ UNCHANGED vars
      => UNCHANGED <<status, trustees_t, slots, backup_queue>>
  BY DEF RegisterTrustee, ReadInvitation, DeadLink, vars, ceremony
<1> QED
  BY <1>1, <1>2, <1>3, <1>4, <1>5, <1>6, <1>7, <1>8, <1>9 DEF Next

\* The safety half of KeepsPromise: nobody is asked again who was ruled out, the
\* ceremony is formed by the last consent it needs and fails only when too few people
\* remain, whatever the slots, the queue and the clock do (app.py:346-394).
THEOREM PromiseKeptSafely ==
    ASSUME IsFiniteSet(People)
    PROVE  Spec => Promise!Init /\ [][Promise!Next]_(Promise!vars)
<1>1. IInv /\ IInv' /\ [Next]_vars => [Promise!Next]_(Promise!vars)
  BY PromiseStep
<1> QED
  BY <1>1, PromiseInit, FormationInvariant, PTL DEF Spec
=============================================================================
