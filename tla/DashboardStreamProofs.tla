----------------------- MODULE DashboardStreamProofs ------------------------
(***************************************************************************)
(* A settled dashboard is truthful, for every set of trustees, every       *)
(* number of sessions and every length of the queues.  The argument is     *)
(* about all the events that are still to reach the page, those of its     *)
(* queue before those of the outbox: the last one of each kind says what   *)
(* the combiner has, so a page that has them all is right, whatever the    *)
(* snapshot had already told it.                                           *)
(***************************************************************************)
EXTENDS DashboardStream, FiniteSetTheorems, FunctionTheorems, SequenceTheorems, TLAPS

-----------------------------------------------------------------------------
(* Queues from which any element may leave *)

\* What is left of a queue without its i-th element.
LEMMA Removed ==
    ASSUME NEW S, NEW s \in Seq(S), NEW i \in 1..Len(s)
    PROVE  /\ RemoveAt(s, i) \in Seq(S)
           /\ Len(RemoveAt(s, i)) = Len(s) - 1
           /\ \A j \in 1..Len(s) - 1 : RemoveAt(s, i)[j] = IF j < i THEN s[j] ELSE s[j + 1]
<1> DEFINE before == SubSeq(s, 1, i - 1)
           after == SubSeq(s, i + 1, Len(s))
<1>1. Len(s) \in Nat /\ i \in Int /\ \A j \in 1..Len(s) : s[j] \in S
  OBVIOUS
<1>2. /\ before \in Seq(S) /\ Len(before) = i - 1
      /\ \A j \in 1..i - 1 : before[j] = s[j]
  <2>1. \A j \in 1..i - 1 : s[j] \in S
    BY <1>1
  <2> QED
    BY <1>1, <2>1, SubSeqProperties
<1>3. /\ after \in Seq(S) /\ Len(after) = Len(s) - i
      /\ \A j \in 1..Len(s) - i : after[j] = s[i + j]
  <2>1. \A j \in i + 1..Len(s) : s[j] \in S
    BY <1>1
  <2> QED
    BY <1>1, <2>1, SubSeqProperties
<1>6. RemoveAt(s, i) = before \o after
  BY DEF RemoveAt
<1> HIDE DEF before, after
<1>4. /\ before \o after \in Seq(S)
      /\ Len(before \o after) = Len(s) - 1
      /\ \A j \in 1..Len(s) - 1 : (before \o after)[j] = IF j <= i - 1 THEN before[j] ELSE after[j - (i - 1)]
  <2>1. /\ before \o after \in Seq(S)
        /\ Len(before \o after) = Len(before) + Len(after)
        /\ \A j \in 1..Len(before) + Len(after) :
              (before \o after)[j] = IF j <= Len(before) THEN before[j] ELSE after[j - Len(before)]
    BY <1>2, <1>3, ConcatProperties
  <2>2. Len(before) = i - 1 /\ Len(before) + Len(after) = Len(s) - 1
    BY <1>1, <1>2, <1>3
  <2> QED
    BY <2>1, <2>2
<1>5. ASSUME NEW j \in 1..Len(s) - 1
      PROVE  (before \o after)[j] = IF j < i THEN s[j] ELSE s[j + 1]
  <2>1. CASE j < i
    BY <2>1, <1>1, <1>2, <1>4
  <2>2. CASE ~(j < i)
    <3>1. j - (i - 1) \in 1..Len(s) - i /\ ~(j <= i - 1) /\ i + (j - (i - 1)) = j + 1
      BY <2>2, <1>1
    <3> QED
      BY <2>2, <3>1, <1>3, <1>4
  <2> QED
    BY <2>1, <2>2
<1> QED
  BY <1>4, <1>5, <1>6

\* A queue that gets another's first element, followed by what is left of that other.
LEMMA Handed ==
    ASSUME NEW S, NEW q \in Seq(S), NEW o \in Seq(S), 1 \in 1..Len(o)
    PROVE  Append(q, o[1]) \o RemoveAt(o, 1) = q \o o
<1> DEFINE front == Append(q, o[1])
           rest == RemoveAt(o, 1)
<1>1. Len(q) \in Nat /\ Len(o) \in Nat /\ Len(o) >= 1 /\ o[1] \in S
  OBVIOUS
<1>2. /\ front \in Seq(S) /\ Len(front) = Len(q) + 1
      /\ \A i \in 1..Len(q) : front[i] = q[i]
      /\ front[Len(q) + 1] = o[1]
  BY <1>1, AppendProperties
<1>3. /\ rest \in Seq(S) /\ Len(rest) = Len(o) - 1
      /\ \A j \in 1..Len(o) - 1 : rest[j] = o[j + 1]
  BY <1>1, Removed
<1> HIDE DEF front, rest
<1>4. /\ front \o rest \in Seq(S) /\ Len(front \o rest) = Len(q) + Len(o)
      /\ \A i \in 1..Len(q) + Len(o) :
            (front \o rest)[i] = IF i <= Len(q) + 1 THEN front[i] ELSE rest[i - (Len(q) + 1)]
  <2>1. /\ front \o rest \in Seq(S) /\ Len(front \o rest) = Len(front) + Len(rest)
        /\ \A i \in 1..Len(front) + Len(rest) :
              (front \o rest)[i] = IF i <= Len(front) THEN front[i] ELSE rest[i - Len(front)]
    BY <1>2, <1>3, ConcatProperties
  <2>2. Len(front) + Len(rest) = Len(q) + Len(o)
    BY <1>1, <1>2, <1>3
  <2> QED
    BY <1>2, <2>1, <2>2
<1>5. /\ q \o o \in Seq(S) /\ Len(q \o o) = Len(q) + Len(o)
      /\ \A i \in 1..Len(q) + Len(o) : (q \o o)[i] = IF i <= Len(q) THEN q[i] ELSE o[i - Len(q)]
  BY ConcatProperties
<1>6. ASSUME NEW i \in 1..Len(q) + Len(o) PROVE (front \o rest)[i] = (q \o o)[i]
  <2>1. CASE i <= Len(q)
    BY <2>1, <1>1, <1>2, <1>4, <1>5
  <2>2. CASE i = Len(q) + 1
    <3>1. ~(i <= Len(q)) /\ i <= Len(q) + 1 /\ i - Len(q) = 1
      BY <2>2, <1>1
    <3>2. (front \o rest)[i] = front[i] /\ front[i] = o[1]
      BY <2>2, <3>1, <1>2, <1>4
    <3>3. (q \o o)[i] = o[1]
      BY <3>1, <1>5
    <3> QED
      BY <3>2, <3>3
  <2>3. CASE i > Len(q) + 1
    <3>1. /\ i - (Len(q) + 1) \in 1..Len(o) - 1
          /\ (i - (Len(q) + 1)) + 1 = i - Len(q)
          /\ ~(i <= Len(q)) /\ ~(i <= Len(q) + 1)
      BY <2>3, <1>1
    <3>2. (front \o rest)[i] = rest[i - (Len(q) + 1)]
      BY <3>1, <1>4
    <3>3. rest[i - (Len(q) + 1)] = o[(i - (Len(q) + 1)) + 1]
      BY <3>1, <1>3
    <3>4. (q \o o)[i] = o[i - Len(q)]
      BY <3>1, <1>5
    <3> QED
      BY <3>1, <3>2, <3>3, <3>4
  <2>4. i <= Len(q) \/ i = Len(q) + 1 \/ i > Len(q) + 1
    BY <1>1
  <2> QED
    BY <2>1, <2>2, <2>3, <2>4, Zenon
<1>7. front \o rest = q \o o
  BY <1>1, <1>4, <1>5, <1>6, SeqEqual
<1> QED
  BY <1>7 DEF front, rest

\* Two queues one after the other, the second of which gets an element.
LEMMA Lengthened ==
    ASSUME NEW S, NEW q \in Seq(S), NEW o \in Seq(S), NEW x \in S
    PROVE  q \o Append(o, x) = Append(q \o o, x)
<1>1. q \o o \in Seq(S) /\ <<x>> \in Seq(S)
  BY ConcatProperties
<1>2. Append(o, x) = o \o <<x>> /\ Append(q \o o, x) = (q \o o) \o <<x>>
  BY <1>1, AppendIsConcat
<1>3. (q \o o) \o <<x>> = q \o (o \o <<x>>)
  BY <1>1, ConcatAssociative
<1> QED
  BY <1>2, <1>3

-----------------------------------------------------------------------------
(* The invariant *)

\* What is still to reach the page, as long as no event overtakes another.
Pending == queue \o outbox

Places == 1..Len(Pending)

Of(types) == {k \in Places : Pending[k].type \in types}

Decisions == {"ceremony_formed", "ceremony_failed"}
CeremonyEvents == {"ceremony_initiated", "vault_created"} \cup Decisions

\* The status a page has after an event of the ceremony.
Said(type) ==
    IF type = "ceremony_initiated" THEN "forming"
    ELSE IF type = "ceremony_formed" THEN "formed"
    ELSE IF type = "ceremony_failed" THEN "failed" ELSE "none"

\* The last event of the ceremony tells its status, and a decision comes right after an
\* initiation or is the first of all.
CeremonyTold ==
    /\ \A k \in Of(CeremonyEvents) :
          \E l \in Of(CeremonyEvents) : k <= l /\ Said(Pending[l].type) = ceremony
    /\ \A k \in Of(Decisions) : \A j \in Of(CeremonyEvents) :
          j < k => \E i \in Of({"ceremony_initiated"}) : j <= i /\ i < k

Starts == Of({"recovery_started"})
Shards == Of({"unsealed_shard_received"})
Verifications == Of({"recovery_verified"})

\* A reply that is told of is the session's, and after the session's start every one of
\* its replies is told of.
RepliesTold ==
    /\ \A k \in Shards : Pending[k].data \in replied \/ \E l \in Starts : k < l
    /\ \A k \in Starts :
          \/ \E l \in Starts : k < l
          \/ session # 0 /\ \A t \in replied : \E l \in Shards : k < l /\ Pending[l].data = t

\* The last verification told of is last_verify, and one of this session is told of
\* after the session's start.
VerificationTold ==
    /\ \A k \in Verifications : Pending[k].data = last_verify \/ \E l \in Verifications : k < l
    /\ \A k \in Starts : last_verify # session \/ \E l \in Starts \cup Verifications : k < l

\* The page has the ceremony's status, and a decision alone finds a ceremony there.
CeremonyShown ==
    /\ Of(CeremonyEvents) = {} => shown.ceremony = ceremony
    /\ \A k \in Of(Decisions) : Of(CeremonyEvents) = {k} => shown.ceremony # "none"

\* The page has the session's replies, but for those it is about to be told of.
RepliesShown ==
    Starts = {} =>
        IF session = 0 THEN shown.recovery = None
        ELSE /\ shown.recovery # None /\ shown.recovery \subseteq replied
             /\ \A t \in replied : t \in shown.recovery \/ \E l \in Shards : Pending[l].data = t

VerificationShown ==
    Starts = {} /\ Verifications = {} =>
        \/ shown.lastVerify = last_verify
        \/ shown.lastVerify = None /\ last_verify # session

\* There are replies of a session only, and verifications of no session to come.
SessionsFirst ==
    /\ session = 0 => replied = {}
    /\ last_verify # None => last_verify <= sessions

\* The vault is told of in some event, in whatever order.
VaultOnItsWay ==
    \/ \E k \in 1..Len(queue) : queue[k].type = "vault_created"
    \/ \E k \in 1..Len(outbox) : outbox[k].type = "vault_created"

VaultFollows ==
    /\ VaultOnItsWay => vault
    /\ conn \in {"painted", "open"} =>
          /\ shown.vault => vault
          /\ vault => shown.vault \/ VaultOnItsWay \/ "vault" \in untold

\* A vault whose save raised uses up the ceremony and tells nobody.
CeremonyUntold == "ceremony" \in untold

Told == (CeremonyUntold \/ CeremonyTold) /\ RepliesTold /\ VerificationTold

PageFollows ==
    conn \in {"painted", "open"} =>
        (CeremonyUntold \/ CeremonyShown) /\ RepliesShown /\ VerificationShown

\* The inductive invariant.
IInv ==
    /\ TypeOK
    /\ SessionsFirst
    /\ VaultFollows
    /\ ~overtaken => Told /\ PageFollows

-----------------------------------------------------------------------------
(* The events that are pending *)

LEMMA NoneIsNothing ==
    /\ None \notin Nat
    /\ \A some : some \subseteq Trustees => None # some
BY DashboardAssumption

LEMMA PendingShape ==
    ASSUME TypeOK
    PROVE  /\ Pending \in Seq(Events) /\ Len(Pending) \in Nat
           /\ Len(Pending) = Len(queue) + Len(outbox)
           /\ queue \in Seq(Events) /\ outbox \in Seq(Events)
           /\ \A k \in Places : Pending[k] \in Events
           /\ \A types : Of(types) \subseteq Nat
<1>1. queue \in Seq(Events) /\ outbox \in Seq(Events)
  BY DEF TypeOK
<1>2. Pending \in Seq(Events) /\ Len(Pending) = Len(queue) + Len(outbox)
  BY <1>1, ConcatProperties DEF Pending
<1>3. Len(Pending) \in Nat /\ \A k \in Places : Pending[k] \in Events
  BY <1>2 DEF Places
<1>4. \A types : Of(types) \subseteq Nat
  BY <1>3 DEF Of, Places
<1> QED
  BY <1>1, <1>2, <1>3, <1>4

\* What an event carries.
LEMMA EventData ==
    ASSUME NEW e \in Events
    PROVE  /\ e.type = "unsealed_shard_received" => e.data \in Trustees
           /\ e.type # "unsealed_shard_received" => e.data \in 0..MaxSessions
           /\ e.type \in {"recovery_started", "unsealed_shard_received", "recovery_finalized",
                          "recovery_verified"} \cup CeremonyEvents
BY DEF Events, CeremonyEvents, Decisions

\* One more event is pending.
Grown(e) == Pending' = Append(Pending, e)

LEMMA GrownPlaces ==
    ASSUME TypeOK, NEW e \in Events, Grown(e)
    PROVE  /\ Len(Pending) \in Nat
           /\ Places' = Places \cup {Len(Pending) + 1}
           /\ \A k \in Places : k \in Nat /\ k < Len(Pending) + 1 /\ Pending'[k] = Pending[k]
           /\ Pending'[Len(Pending) + 1] = e
           /\ \A types : Of(types)' = Of(types) \cup (IF e.type \in types THEN {Len(Pending) + 1} ELSE {})
<1> DEFINE n == Len(Pending)
<1>1. Pending \in Seq(Events) /\ n \in Nat
  BY PendingShape
<1>2. Len(Pending') = n + 1 /\ Pending'[n + 1] = e /\ \A k \in 1..n : Pending'[k] = Pending[k]
  BY <1>1, AppendProperties DEF Grown
<1> HIDE DEF n
<1>3. Places = 1..n /\ Places' = 1..n + 1
  BY <1>2 DEF Places, n
<1>4. Places' = Places \cup {n + 1} /\ \A k \in Places : k \in Nat /\ k < n + 1
  BY <1>1, <1>3
<1>5. ASSUME NEW types
      PROVE  Of(types)' = Of(types) \cup (IF e.type \in types THEN {n + 1} ELSE {})
  BY <1>2, <1>3, <1>4 DEF Of
<1> QED
  BY <1>1, <1>2, <1>3, <1>4, <1>5 DEF n

\* The first d pending events are gone.
Shrunk(d) ==
    /\ d \in 0..Len(Pending) /\ Len(Pending') = Len(Pending) - d
    /\ \A k \in 1..Len(Pending) - d : Pending'[k] = Pending[k + d]

LEMMA ShrunkPlaces ==
    ASSUME TypeOK, NEW d, Shrunk(d)
    PROVE  /\ d \in Nat
           /\ \A types : \A k \in Of(types)' :
                 k \in Nat /\ k >= 1 /\ k + d \in Of(types) /\ Pending'[k] = Pending[k + d]
           /\ \A types : \A k \in Of(types) :
                 d < k => k - d \in Of(types)' /\ Pending'[k - d] = Pending[k]
<1>1. Len(Pending) \in Nat /\ d \in Nat
  BY PendingShape DEF Shrunk
<1>2. \A k \in Places' : k \in Nat /\ k >= 1 /\ k + d \in Places /\ Pending'[k] = Pending[k + d]
  BY <1>1 DEF Shrunk, Places
<1>3. \A k \in Places : d < k => k - d \in Places' /\ Pending'[k - d] = Pending[k]
  <2> SUFFICES ASSUME NEW k \in Places, d < k PROVE k - d \in Places' /\ Pending'[k - d] = Pending[k]
    OBVIOUS
  <2>1. k - d \in 1..Len(Pending) - d /\ (k - d) + d = k
    BY <1>1 DEF Places
  <2> QED
    BY <2>1 DEF Shrunk, Places
<1> QED
  BY <1>1, <1>2, <1>3 DEF Of

-----------------------------------------------------------------------------
(* The ceremony *)

LEMMA CeremonyShrinks ==
    ASSUME TypeOK, CeremonyTold, NEW d, Shrunk(d), ceremony' = ceremony
    PROVE  CeremonyTold'
<1>1. d \in Nat /\ \A types : Of(types) \subseteq Nat
  BY ShrunkPlaces, PendingShape
<1>2. ASSUME NEW k \in Of(CeremonyEvents)'
      PROVE  \E l \in Of(CeremonyEvents)' : k <= l /\ Said(Pending'[l].type) = ceremony'
  <2>1. k \in Nat /\ k >= 1 /\ k + d \in Of(CeremonyEvents)
    BY ShrunkPlaces
  <2>2. PICK l \in Of(CeremonyEvents) : k + d <= l /\ Said(Pending[l].type) = ceremony
    BY <2>1 DEF CeremonyTold
  <2>3. l - d \in Of(CeremonyEvents)' /\ Pending'[l - d] = Pending[l] /\ k <= l - d
    BY <1>1, <2>1, <2>2, ShrunkPlaces
  <2> QED
    BY <2>2, <2>3
<1>3. ASSUME NEW k \in Of(Decisions)', NEW j \in Of(CeremonyEvents)', j < k
      PROVE  \E i \in Of({"ceremony_initiated"})' : j <= i /\ i < k
  <2>1. /\ k \in Nat /\ k + d \in Of(Decisions) /\ j \in Nat /\ j >= 1
        /\ j + d \in Of(CeremonyEvents) /\ j + d < k + d
    BY <1>1, <1>3, ShrunkPlaces
  <2>2. PICK i \in Of({"ceremony_initiated"}) : j + d <= i /\ i < k + d
    BY <2>1 DEF CeremonyTold
  <2>3. i - d \in Of({"ceremony_initiated"})' /\ j <= i - d /\ i - d < k
    BY <1>1, <2>1, <2>2, ShrunkPlaces
  <2> QED
    BY <2>3
<1> QED
  BY <1>2, <1>3 DEF CeremonyTold

\* An event that says nothing of the ceremony.
LEMMA CeremonyStays ==
    ASSUME TypeOK, NEW e \in Events, Grown(e), e.type \notin CeremonyEvents, ceremony' = ceremony
    PROVE  /\ CeremonyTold => CeremonyTold'
           /\ shown' = shown /\ CeremonyShown => CeremonyShown'
<1>1. /\ Of(CeremonyEvents)' = Of(CeremonyEvents) /\ Of(Decisions)' = Of(Decisions)
      /\ Of({"ceremony_initiated"})' = Of({"ceremony_initiated"})
  <2>1. e.type \notin Decisions /\ e.type \notin {"ceremony_initiated"}
    BY DEF CeremonyEvents
  <2>2. ASSUME NEW types, e.type \notin types PROVE Of(types)' = Of(types)
    <3>1. Of(types)' = Of(types) \cup (IF e.type \in types THEN {Len(Pending) + 1} ELSE {})
      BY GrownPlaces
    <3> QED
      BY <2>2, <3>1
  <2> QED
    BY <2>1, <2>2
<1>2. \A k \in Of(CeremonyEvents) : Pending'[k] = Pending[k]
  BY GrownPlaces DEF Of
<1> QED
  BY <1>1, <1>2 DEF CeremonyTold, CeremonyShown

\* An event that says what the ceremony has come to.
LEMMA CeremonyMoves ==
    ASSUME TypeOK, CeremonyTold, NEW e \in Events, Grown(e), e.type \in CeremonyEvents,
           Said(e.type) = ceremony', e.type \in Decisions => ceremony = "forming"
    PROVE  /\ CeremonyTold'
           /\ shown' = shown /\ CeremonyShown => CeremonyShown'
<1> DEFINE n == Len(Pending)
<1>1. /\ n \in Nat /\ Pending'[n + 1] = e
      /\ \A k \in Places : k \in Nat /\ k < n + 1 /\ Pending'[k] = Pending[k]
  BY GrownPlaces
<1>2. /\ Of(CeremonyEvents)' = Of(CeremonyEvents) \cup {n + 1}
      /\ Of(Decisions)' = Of(Decisions) \cup (IF e.type \in Decisions THEN {n + 1} ELSE {})
      /\ Of({"ceremony_initiated"}) \subseteq Of({"ceremony_initiated"})'
  BY GrownPlaces
<1>3. \A types : Of(types) \subseteq Places
  BY DEF Of
<1> HIDE DEF n
<1>4. ASSUME NEW k \in Of(CeremonyEvents)'
      PROVE  \E l \in Of(CeremonyEvents)' : k <= l /\ Said(Pending'[l].type) = ceremony'
  <2>1. k <= n + 1
    BY <1>1, <1>2, <1>3
  <2> QED
    BY <1>1, <1>2, <2>1
<1>5. ASSUME NEW k \in Of(Decisions)', NEW j \in Of(CeremonyEvents)', j < k
      PROVE  \E i \in Of({"ceremony_initiated"})' : j <= i /\ i < k
  <2>1. j \in Of(CeremonyEvents)
    BY <1>1, <1>2, <1>3, <1>5
  <2>2. CASE k \in Of(Decisions)
    BY <1>2, <1>5, <2>1, <2>2 DEF CeremonyTold
  <2>3. CASE k = n + 1 /\ e.type \in Decisions
    <3>1. PICK l \in Of(CeremonyEvents) : j <= l /\ Said(Pending[l].type) = "forming"
      BY <2>1, <2>3 DEF CeremonyTold
    <3>2. l \in Of({"ceremony_initiated"}) /\ l < n + 1
      BY <1>1, <1>3, <3>1 DEF Of, Said
    <3> QED
      BY <1>2, <2>3, <3>1, <3>2
  <2> QED
    BY <1>2, <2>2, <2>3
<1>6. ASSUME shown' = shown, CeremonyShown PROVE CeremonyShown'
  <2> SUFFICES ASSUME NEW k \in Of(Decisions)', Of(CeremonyEvents)' = {k} PROVE shown.ceremony # "none"
    BY <1>2, <1>6 DEF CeremonyShown
  <2>1. k = n + 1 /\ n + 1 \notin Of(CeremonyEvents)
    BY <1>1, <1>2, <1>3
  <2>2. Of(CeremonyEvents) = {} /\ n + 1 \notin Of(Decisions)
    BY <1>1, <1>2, <1>3, <2>1
  <2>3. e.type \in Decisions
    BY <1>2, <2>1, <2>2
  <2> QED
    BY <1>6, <2>2, <2>3 DEF CeremonyShown
<1> QED
  BY <1>4, <1>5, <1>6 DEF CeremonyTold

\* The page has as much of the ceremony as the snapshot.
LEMMA CeremonyPainted ==
    ASSUME TypeOK, CeremonyTold, Pending' = Pending, ceremony' = ceremony, shown'.ceremony = ceremony
    PROVE  CeremonyShown'
<1>1. \A types : Of(types)' = Of(types)
  BY DEF Of, Places
<1>2. ASSUME NEW k \in Of(Decisions), Of(CeremonyEvents) = {k} PROVE ceremony # "none"
  <2>1. Said(Pending[k].type) = ceremony
    BY <1>2 DEF CeremonyTold
  <2> QED
    BY <2>1 DEF Said, Of, Decisions
<1> QED
  BY <1>1, <1>2 DEF CeremonyShown

\* What an event does to the page.
LEMMA Repainting ==
    ASSUME TypeOK, NEW e \in Events
    PROVE  /\ Repaint(e) \in [ceremony : Statuses, vault : BOOLEAN,
                              recovery : {None} \cup SUBSET Trustees, lastVerify : 0..MaxSessions \cup {None}]
           /\ Repaint(e).ceremony =
                 IF e.type \in CeremonyEvents /\ ~(e.type \in Decisions /\ shown.ceremony = "none")
                 THEN Said(e.type) ELSE shown.ceremony
           /\ Repaint(e).vault = (shown.vault \/ e.type = "vault_created")
           /\ Repaint(e).recovery =
                 IF e.type = "recovery_started" THEN {}
                 ELSE IF e.type = "unsealed_shard_received" /\ shown.recovery # None
                      THEN shown.recovery \cup {e.data} ELSE shown.recovery
           /\ Repaint(e).lastVerify =
                 IF e.type = "recovery_started" THEN None
                 ELSE IF e.type = "recovery_verified" THEN e.data ELSE shown.lastVerify
<1>1. shown \in [ceremony : Statuses, vault : BOOLEAN,
                 recovery : {None} \cup SUBSET Trustees, lastVerify : 0..MaxSessions \cup {None}]
  BY DEF TypeOK
<1>2. CASE e.type = "ceremony_initiated"
  BY <1>1, <1>2 DEF Repaint, Statuses, CeremonyEvents, Decisions, Said
<1>3. CASE e.type \in Decisions
  BY <1>1, <1>3 DEF Repaint, Statuses, CeremonyEvents, Decisions, Said
<1>4. CASE e.type = "vault_created"
  BY <1>1, <1>4 DEF Repaint, VaultShown, Statuses, CeremonyEvents, Decisions, Said
<1>5. CASE e.type = "recovery_started"
  BY <1>1, <1>5 DEF Repaint, Statuses, CeremonyEvents, Decisions, Said
<1>6. CASE e.type = "unsealed_shard_received"
  <2>1. e.data \in Trustees
    BY <1>6, EventData
  <2>2. shown.recovery # None => shown.recovery \cup {e.data} \in SUBSET Trustees
    BY <1>1, <2>1
  <2>3. Repaint(e) = IF shown.recovery = None THEN shown
                     ELSE [shown EXCEPT !.recovery = shown.recovery \cup {e.data}]
    BY <1>6 DEF Repaint
  <2> QED
    BY <1>1, <1>6, <2>2, <2>3 DEF CeremonyEvents, Decisions
<1>7. CASE e.type = "recovery_finalized"
  BY <1>1, <1>7, EventData DEF Repaint, Statuses, CeremonyEvents, Decisions, Said
<1>8. CASE e.type = "recovery_verified"
  BY <1>1, <1>8, EventData DEF Repaint, Statuses, CeremonyEvents, Decisions, Said
<1> QED
  BY <1>2, <1>3, <1>4, <1>5, <1>6, <1>7, <1>8, EventData DEF CeremonyEvents

\* The first pending event reaches the page.
Taken ==
    /\ 1 \in Places /\ Shrunk(1) /\ shown' = Repaint(Pending[1])
    /\ UNCHANGED server

LEMMA TakenPlaces ==
    ASSUME TypeOK, Taken
    PROVE  /\ Pending[1] \in Events
           /\ \A types : /\ Of(types)' = {} => Of(types) \subseteq {1}
                         /\ 1 \in Of(types) <=> Pending[1].type \in types
                         /\ \A k \in Of(types) : k = 1 \/ k - 1 \in Of(types)'
<1>1. Pending[1] \in Events
  BY PendingShape DEF Taken
<1>2. ASSUME NEW types, NEW k \in Of(types) PROVE k = 1 \/ k - 1 \in Of(types)'
  <2>1. k = 1 \/ 1 < k
    BY DEF Of, Places
  <2> QED
    BY <2>1, ShrunkPlaces DEF Taken
<1>3. \A types : 1 \in Of(types) <=> Pending[1].type \in types
  BY DEF Of, Taken
<1> QED
  BY <1>1, <1>2, <1>3

LEMMA CeremonyTaken ==
    ASSUME TypeOK, CeremonyTold, CeremonyShown, Taken
    PROVE  CeremonyShown'
<1> DEFINE e == Pending[1]
<1>1. /\ e \in Events
      /\ shown'.ceremony =
            IF e.type \in CeremonyEvents /\ ~(e.type \in Decisions /\ shown.ceremony = "none")
            THEN Said(e.type) ELSE shown.ceremony
  BY TakenPlaces, Repainting DEF Taken
<1>2. ceremony' = ceremony
  BY DEF Taken, server
<1> HIDE DEF e
<1>3. ASSUME Of(CeremonyEvents)' = {} PROVE shown'.ceremony = ceremony
  <2>1. Of(CeremonyEvents) \subseteq {1}
    BY <1>3, TakenPlaces
  <2>2. CASE e.type \in CeremonyEvents
    <3>1. Of(CeremonyEvents) = {1}
      BY <2>1, <2>2, TakenPlaces DEF e
    <3>2. Said(e.type) = ceremony
      BY <3>1 DEF CeremonyTold, e
    <3>3. e.type \in Decisions => shown.ceremony # "none"
      BY <3>1, TakenPlaces DEF CeremonyShown, e
    <3> QED
      BY <1>1, <2>2, <3>2, <3>3
  <2>3. CASE e.type \notin CeremonyEvents
    <3>1. Of(CeremonyEvents) = {}
      BY <2>1, <2>3, TakenPlaces DEF e
    <3> QED
      BY <1>1, <2>3, <3>1 DEF CeremonyShown
  <2> QED
    BY <2>2, <2>3
<1>4. ASSUME NEW k \in Of(Decisions)', Of(CeremonyEvents)' = {k} PROVE shown'.ceremony # "none"
  <2>1. k \in Nat /\ k >= 1 /\ k + 1 \in Of(Decisions) /\ k + 1 \in Of(CeremonyEvents)
    BY <1>4, ShrunkPlaces DEF Taken
  <2>2. \A j \in Of(CeremonyEvents) : j = 1 \/ j = k + 1
    <3> SUFFICES ASSUME NEW j \in Of(CeremonyEvents), j # 1 PROVE j = k + 1
      OBVIOUS
    <3>1. j - 1 \in Of(CeremonyEvents)' /\ j \in Nat
      BY TakenPlaces, PendingShape
    <3> QED
      BY <3>1, <2>1, <1>4
  <2>3. CASE e.type \in CeremonyEvents
    <3>1. 1 \in Of(CeremonyEvents) /\ 1 < k + 1
      BY <2>1, <2>3, TakenPlaces DEF e
    <3>2. PICK i \in Of({"ceremony_initiated"}) : 1 <= i /\ i < k + 1
      BY <2>1, <3>1 DEF CeremonyTold
    <3>3. i \in Of(CeremonyEvents)
      BY <3>2 DEF Of, CeremonyEvents
    <3>4. i = 1
      BY <2>1, <2>2, <3>2, <3>3
    <3>5. e.type = "ceremony_initiated"
      BY <3>2, <3>4 DEF Of, e
    <3> QED
      BY <1>1, <3>5 DEF CeremonyEvents, Decisions, Said
  <2>4. CASE e.type \notin CeremonyEvents
    <3>1. Of(CeremonyEvents) = {k + 1}
      BY <2>1, <2>2, <2>4, TakenPlaces DEF e
    <3> QED
      BY <1>1, <2>1, <2>4, <3>1 DEF CeremonyShown
  <2> QED
    BY <2>3, <2>4
<1> QED
  BY <1>2, <1>3, <1>4 DEF CeremonyShown

-----------------------------------------------------------------------------
(* The replies *)

LEMMA RepliesShrink ==
    ASSUME TypeOK, RepliesTold, NEW d, Shrunk(d), UNCHANGED <<session, replied>>
    PROVE  RepliesTold'
<1>1. d \in Nat /\ Starts \subseteq Nat /\ Shards \subseteq Nat
  BY ShrunkPlaces, PendingShape DEF Starts, Shards
<1>2. /\ \A k \in Starts' : k \in Nat /\ k >= 1 /\ k + d \in Starts
      /\ \A k \in Shards' : k \in Nat /\ k >= 1 /\ k + d \in Shards /\ Pending'[k] = Pending[k + d]
      /\ \A k \in Starts : d < k => k - d \in Starts'
      /\ \A k \in Shards : d < k => k - d \in Shards' /\ Pending'[k - d] = Pending[k]
  BY ShrunkPlaces DEF Starts, Shards
<1>3. \A k \in Nat : k >= 1 /\ (\E l \in Starts : k + d < l) => \E l \in Starts' : k < l
  <2> SUFFICES ASSUME NEW k \in Nat, k >= 1, NEW l \in Starts, k + d < l
               PROVE  \E m \in Starts' : k < m
    OBVIOUS
  <2>1. l - d \in Starts' /\ k < l - d
    BY <1>1, <1>2
  <2> QED
    BY <2>1
<1>4. ASSUME NEW k \in Shards' PROVE Pending'[k].data \in replied \/ \E l \in Starts' : k < l
  BY <1>2, <1>3 DEF RepliesTold
<1>5. ASSUME NEW k \in Starts', ~\E l \in Starts' : k < l
      PROVE  session # 0 /\ \A t \in replied : \E l \in Shards' : k < l /\ Pending'[l].data = t
  <2>1. k \in Nat /\ k >= 1 /\ k + d \in Starts
    BY <1>2
  <2>2. session # 0 /\ \A t \in replied : \E l \in Shards : k + d < l /\ Pending[l].data = t
    BY <1>3, <1>5, <2>1 DEF RepliesTold
  <2>3. ASSUME NEW t \in replied PROVE \E l \in Shards' : k < l /\ Pending'[l].data = t
    <3>1. PICK l \in Shards : k + d < l /\ Pending[l].data = t
      BY <2>2
    <3>2. l - d \in Shards' /\ Pending'[l - d] = Pending[l] /\ k < l - d
      BY <1>1, <1>2, <2>1, <3>1
    <3> QED
      BY <3>1, <3>2
  <2> QED
    BY <2>2, <2>3
<1> QED
  BY <1>4, <1>5 DEF RepliesTold

\* Where the pending starts and replies are with one more event.
LEMMA GrownReplies ==
    ASSUME TypeOK, NEW e \in Events, Grown(e)
    PROVE  /\ Starts' = Starts \cup (IF e.type = "recovery_started" THEN {Len(Pending) + 1} ELSE {})
           /\ Shards' = Shards \cup (IF e.type = "unsealed_shard_received" THEN {Len(Pending) + 1} ELSE {})
           /\ Len(Pending) \in Nat /\ Pending'[Len(Pending) + 1] = e
           /\ \A k \in Starts \cup Shards :
                 k \in Nat /\ k < Len(Pending) + 1 /\ Pending'[k] = Pending[k]
<1>1. /\ e.type \in {"recovery_started"} <=> e.type = "recovery_started"
      /\ e.type \in {"unsealed_shard_received"} <=> e.type = "unsealed_shard_received"
  OBVIOUS
<1>2. Starts \cup Shards \subseteq Places
  BY DEF Starts, Shards, Of
<1> QED
  BY <1>1, <1>2, GrownPlaces DEF Starts, Shards

\* An event that says nothing of the replies.
LEMMA RepliesStay ==
    ASSUME TypeOK, NEW e \in Events, Grown(e), UNCHANGED <<session, replied>>,
           e.type \notin {"recovery_started", "unsealed_shard_received"}
    PROVE  /\ RepliesTold => RepliesTold'
           /\ shown' = shown /\ RepliesShown => RepliesShown'
<1>1. Starts' = Starts /\ Shards' = Shards /\ \A k \in Shards : Pending'[k] = Pending[k]
  BY GrownReplies
<1> QED
  BY <1>1 DEF RepliesTold, RepliesShown

LEMMA RepliesStart ==
    ASSUME TypeOK, RepliesTold, NEW e \in Events, Grown(e), e.type = "recovery_started",
           session' # 0, replied' = {}
    PROVE  RepliesTold' /\ RepliesShown'
<1> DEFINE n == Len(Pending)
<1>1. /\ Starts' = Starts \cup {n + 1} /\ Shards' = Shards /\ n \in Nat
      /\ \A k \in Starts \cup Shards : k \in Nat /\ k < n + 1
  BY GrownReplies
<1> HIDE DEF n
<1> QED
  BY <1>1 DEF RepliesTold, RepliesShown

LEMMA RepliesArrive ==
    ASSUME TypeOK, SessionsFirst, RepliesTold, NEW e \in Events, Grown(e), session # 0,
           e.type = "unsealed_shard_received", session' = session, replied' = replied \cup {e.data}
    PROVE  /\ RepliesTold'
           /\ shown' = shown /\ RepliesShown => RepliesShown'
<1> DEFINE n == Len(Pending)
<1>1. /\ Starts' = Starts /\ Shards' = Shards \cup {n + 1} /\ n \in Nat /\ Pending'[n + 1] = e
      /\ \A k \in Starts \cup Shards : k \in Nat /\ k < n + 1 /\ Pending'[k] = Pending[k]
  BY GrownReplies
<1> HIDE DEF n
<1>2. RepliesTold'
  BY <1>1 DEF RepliesTold
<1>3. ASSUME shown' = shown, RepliesShown PROVE RepliesShown'
  BY <1>1, <1>3 DEF RepliesShown
<1> QED
  BY <1>2, <1>3

\* The page has as many replies as the snapshot.
LEMMA RepliesPainted ==
    ASSUME TypeOK, RepliesTold, Pending' = Pending, UNCHANGED <<session, replied>>,
           shown'.recovery = RecoveryRepainted
    PROVE  RepliesShown'
<1>1. Starts' = Starts /\ Shards' = Shards
  BY DEF Starts, Shards, Of, Places
<1>2. None # replied
  BY NoneIsNothing DEF TypeOK
<1> QED
  BY <1>1, <1>2 DEF RepliesShown, RecoveryRepainted

LEMMA RepliesTaken ==
    ASSUME TypeOK, SessionsFirst, RepliesTold, RepliesShown, Taken
    PROVE  RepliesShown'
<1> DEFINE e == Pending[1]
<1>1. /\ e \in Events
      /\ shown'.recovery = IF e.type = "recovery_started" THEN {}
                           ELSE IF e.type = "unsealed_shard_received" /\ shown.recovery # None
                                THEN shown.recovery \cup {e.data} ELSE shown.recovery
  BY TakenPlaces, Repainting DEF Taken
<1>2. session' = session /\ replied' = replied
  BY DEF Taken, server
<1>3. /\ 1 \in Starts <=> e.type = "recovery_started"
      /\ 1 \in Shards <=> e.type = "unsealed_shard_received"
      /\ \A k \in Starts : k = 1 \/ k - 1 \in Starts'
      /\ \A k \in Shards : k # 1 => k - 1 \in Shards' /\ Pending'[k - 1] = Pending[k]
  <2>1. \A k \in Shards : k \in Nat /\ (k # 1 => 1 < k)
    BY PendingShape DEF Shards, Of, Places
  <2>2. /\ 1 \in Starts <=> e.type \in {"recovery_started"}
        /\ 1 \in Shards <=> e.type \in {"unsealed_shard_received"}
    BY TakenPlaces DEF Starts, Shards
  <2>3. \A k \in Starts : k = 1 \/ k - 1 \in Starts'
    BY TakenPlaces DEF Starts
  <2>4. \A k \in Shards : 1 < k => k - 1 \in Shards' /\ Pending'[k - 1] = Pending[k]
    BY ShrunkPlaces DEF Shards, Taken
  <2> QED
    BY <2>1, <2>2, <2>3, <2>4
<1> HIDE DEF e
<1> SUFFICES ASSUME Starts' = {}
             PROVE  IF session = 0 THEN shown'.recovery = None
                    ELSE /\ shown'.recovery # None /\ shown'.recovery \subseteq replied
                         /\ \A t \in replied : t \in shown'.recovery \/ \E l \in Shards' : Pending'[l].data = t
  BY <1>2 DEF RepliesShown
<1>4. CASE e.type = "recovery_started"
  <2>1. Starts = {1}
    BY <1>3, <1>4
  <2>2. session # 0 /\ \A t \in replied : \E l \in Shards : 1 < l /\ Pending[l].data = t
    BY <2>1 DEF RepliesTold
  <2>3. \A t \in replied : \E l \in Shards' : Pending'[l].data = t
    <3> SUFFICES ASSUME NEW t \in replied PROVE \E l \in Shards' : Pending'[l].data = t
      OBVIOUS
    <3>1. PICK l \in Shards : 1 < l /\ Pending[l].data = t
      BY <2>2
    <3>2. l - 1 \in Shards' /\ Pending'[l - 1] = Pending[l]
      BY <1>3, <3>1
    <3> QED
      BY <3>1, <3>2
  <2> QED
    BY <1>1, <1>4, <2>2, <2>3, NoneIsNothing
<1>5. CASE e.type # "recovery_started"
  <2>1. Starts = {}
    BY <1>3, <1>5
  <2>2. 1 \in Shards => e.data \in replied
    BY <2>1 DEF RepliesTold, e
  <2>3. CASE session = 0
    <3>1. 1 \notin Shards
      BY <2>2, <2>3 DEF SessionsFirst
    <3> QED
      BY <1>1, <1>3, <1>5, <2>1, <2>3, <3>1 DEF RepliesShown
  <2>4. CASE session # 0
    <3>1. /\ shown.recovery # None /\ shown.recovery \subseteq replied
          /\ \A t \in replied : t \in shown.recovery \/ \E l \in Shards : Pending[l].data = t
      BY <2>1, <2>4 DEF RepliesShown
    <3>2. shown'.recovery = IF 1 \in Shards THEN shown.recovery \cup {e.data} ELSE shown.recovery
      BY <1>1, <1>3, <1>5, <3>1
    <3>3. shown'.recovery \subseteq replied /\ shown'.recovery # None
      BY <2>2, <3>1, <3>2, NoneIsNothing DEF TypeOK
    <3>4. ASSUME NEW t \in replied, t \notin shown'.recovery PROVE \E l \in Shards' : Pending'[l].data = t
      <4>1. PICK l \in Shards : Pending[l].data = t
        BY <3>1, <3>2, <3>4
      <4>2. l # 1
        BY <3>2, <3>4, <4>1 DEF e
      <4> QED
        BY <1>3, <4>1, <4>2
    <3> QED
      BY <2>4, <3>3, <3>4
  <2> QED
    BY <2>3, <2>4
<1> QED
  BY <1>4, <1>5

-----------------------------------------------------------------------------
(* The verification *)

LEMMA VerificationShrinks ==
    ASSUME TypeOK, VerificationTold, NEW d, Shrunk(d), UNCHANGED <<session, last_verify>>
    PROVE  VerificationTold'
<1>1. d \in Nat /\ Starts \subseteq Nat /\ Verifications \subseteq Nat
  BY ShrunkPlaces, PendingShape DEF Starts, Verifications
<1>2. /\ \A k \in Starts' : k \in Nat /\ k + d \in Starts
      /\ \A k \in Verifications' : k \in Nat /\ k + d \in Verifications /\ Pending'[k] = Pending[k + d]
      /\ \A k \in Starts : d < k => k - d \in Starts'
      /\ \A k \in Verifications : d < k => k - d \in Verifications'
      /\ \A k \in Starts' \cup Verifications' : k >= 1
  BY ShrunkPlaces DEF Starts, Verifications
<1>3. ASSUME NEW k \in Verifications', NEW l \in Verifications, k + d < l
      PROVE  \E m \in Verifications' : k < m
  <2>1. l - d \in Verifications' /\ k < l - d
    BY <1>1, <1>2, <1>3
  <2> QED
    BY <2>1
<1>4. ASSUME NEW k \in Starts', NEW l \in Starts \cup Verifications, k + d < l
      PROVE  \E m \in Starts' \cup Verifications' : k < m
  <2>1. k \in Nat /\ k >= 1 /\ l \in Nat
    BY <1>1, <1>2
  <2>2. d < l /\ k < l - d
    BY <1>1, <1>4, <2>1
  <2>3. l - d \in Starts' \cup Verifications' /\ k < l - d
    BY <1>2, <2>2
  <2> QED
    BY <2>3
<1>5. ASSUME NEW k \in Verifications'
      PROVE  Pending'[k].data = last_verify \/ \E l \in Verifications' : k < l
  BY <1>2, <1>3 DEF VerificationTold
<1>6. ASSUME NEW k \in Starts'
      PROVE  last_verify # session \/ \E l \in Starts' \cup Verifications' : k < l
  BY <1>2, <1>4 DEF VerificationTold
<1> QED
  BY <1>5, <1>6 DEF VerificationTold

LEMMA GrownVerifications ==
    ASSUME TypeOK, NEW e \in Events, Grown(e)
    PROVE  /\ Starts' = Starts \cup (IF e.type = "recovery_started" THEN {Len(Pending) + 1} ELSE {})
           /\ Verifications' = Verifications
                 \cup (IF e.type = "recovery_verified" THEN {Len(Pending) + 1} ELSE {})
           /\ Len(Pending) \in Nat /\ Pending'[Len(Pending) + 1] = e
           /\ \A k \in Starts \cup Verifications :
                 k \in Nat /\ k < Len(Pending) + 1 /\ Pending'[k] = Pending[k]
<1>1. /\ e.type \in {"recovery_started"} <=> e.type = "recovery_started"
      /\ e.type \in {"recovery_verified"} <=> e.type = "recovery_verified"
  OBVIOUS
<1>2. Starts \cup Verifications \subseteq Places
  BY DEF Starts, Verifications, Of
<1> QED
  BY <1>1, <1>2, GrownPlaces DEF Starts, Verifications

\* An event that says nothing of the verification.
LEMMA VerificationStays ==
    ASSUME TypeOK, NEW e \in Events, Grown(e), UNCHANGED <<session, last_verify>>,
           e.type \notin {"recovery_started", "recovery_verified"}
    PROVE  /\ VerificationTold => VerificationTold'
           /\ shown' = shown /\ VerificationShown => VerificationShown'
<1>1. /\ Starts' = Starts /\ Verifications' = Verifications
      /\ \A k \in Verifications : Pending'[k] = Pending[k]
  BY GrownVerifications
<1> QED
  BY <1>1 DEF VerificationTold, VerificationShown

\* A session that starts has not been verified, and a verification is of this session.
LEMMA VerificationMoves ==
    ASSUME TypeOK, VerificationTold, NEW e \in Events, Grown(e),
           \/ e.type = "recovery_started" /\ last_verify' = last_verify /\ last_verify # session'
           \/ e.type = "recovery_verified" /\ last_verify' = e.data /\ session' = session
    PROVE  VerificationTold' /\ VerificationShown'
<1> DEFINE n == Len(Pending)
<1>1. /\ Starts' = Starts \cup (IF e.type = "recovery_started" THEN {n + 1} ELSE {})
      /\ Verifications' = Verifications \cup (IF e.type = "recovery_verified" THEN {n + 1} ELSE {})
      /\ n \in Nat /\ Pending'[n + 1] = e
      /\ \A k \in Starts \cup Verifications : k \in Nat /\ k < n + 1 /\ Pending'[k] = Pending[k]
  BY GrownVerifications
<1> HIDE DEF n
<1>2. CASE e.type = "recovery_started" /\ last_verify' = last_verify /\ last_verify # session'
  <2>1. Starts' = Starts \cup {n + 1} /\ Verifications' = Verifications
    BY <1>1, <1>2
  <2> QED
    BY <1>1, <1>2, <2>1 DEF VerificationTold, VerificationShown
<1>3. CASE e.type = "recovery_verified" /\ last_verify' = e.data /\ session' = session
  <2>1. Starts' = Starts /\ Verifications' = Verifications \cup {n + 1}
    BY <1>1, <1>3
  <2> QED
    BY <1>1, <1>3, <2>1 DEF VerificationTold, VerificationShown
<1> QED
  BY <1>2, <1>3

LEMMA VerificationPainted ==
    ASSUME UNCHANGED <<session, last_verify>>, shown'.lastVerify = last_verify
    PROVE  VerificationShown'
BY DEF VerificationShown

LEMMA VerificationTaken ==
    ASSUME TypeOK, VerificationTold, VerificationShown, Taken
    PROVE  VerificationShown'
<1> DEFINE e == Pending[1]
<1>1. shown'.lastVerify = IF e.type = "recovery_started" THEN None
                          ELSE IF e.type = "recovery_verified" THEN e.data ELSE shown.lastVerify
  BY TakenPlaces, Repainting DEF Taken
<1>2. session' = session /\ last_verify' = last_verify
  BY DEF Taken, server
<1>3. /\ 1 \in Starts <=> e.type = "recovery_started"
      /\ 1 \in Verifications <=> e.type = "recovery_verified"
      /\ Starts' = {} => Starts \subseteq {1}
      /\ Verifications' = {} => Verifications \subseteq {1}
  <2>1. /\ 1 \in Starts <=> e.type \in {"recovery_started"}
        /\ 1 \in Verifications <=> e.type \in {"recovery_verified"}
    BY TakenPlaces DEF Starts, Verifications
  <2>2. /\ Starts' = {} => Starts \subseteq {1}
        /\ Verifications' = {} => Verifications \subseteq {1}
    BY TakenPlaces DEF Starts, Verifications
  <2> QED
    BY <2>1, <2>2
<1> SUFFICES ASSUME Starts' = {}, Verifications' = {}
             PROVE  \/ shown'.lastVerify = last_verify
                    \/ shown'.lastVerify = None /\ last_verify # session
  BY <1>2 DEF VerificationShown
<1>4. CASE e.type = "recovery_started"
  <2>1. 1 \in Starts /\ Starts \subseteq {1} /\ Verifications = {}
    BY <1>3, <1>4
  <2>2. last_verify # session
    BY <2>1 DEF VerificationTold
  <2> QED
    BY <1>1, <1>4, <2>2
<1>5. CASE e.type = "recovery_verified"
  <2>1. 1 \in Verifications /\ Verifications \subseteq {1}
    BY <1>3, <1>5
  <2>2. e.data = last_verify
    BY <2>1 DEF VerificationTold
  <2> QED
    BY <1>1, <1>5, <2>2
<1>6. CASE e.type \notin {"recovery_started", "recovery_verified"}
  <2>1. Starts = {} /\ Verifications = {}
    BY <1>3, <1>6
  <2> QED
    BY <1>1, <1>6, <2>1 DEF VerificationShown
<1> QED
  BY <1>4, <1>5, <1>6

-----------------------------------------------------------------------------
(* The handlers *)

LEMMA InitFine == Init => IInv
<1> SUFFICES ASSUME Init PROVE IInv
  OBVIOUS
<1>1. << >> \in Seq(Events) /\ Len(<< >>) = 0 /\ MaxSessions \in Nat /\ MaxHandlers \in Nat /\ MaxQueue \in Nat
  BY DashboardAssumption
<1>2. TypeOK
  <2>1. shown \in [ceremony : Statuses, vault : BOOLEAN,
                   recovery : {None} \cup SUBSET Trustees, lastVerify : 0..MaxSessions \cup {None}]
    BY DEF Init, BlankPage, Statuses
  <2>2. outbox \in Seq(Events) /\ Len(outbox) <= MaxHandlers /\ queue \in Seq(Events) /\ Len(queue) <= MaxQueue
    BY <1>1 DEF Init
  <2>3. sessions \in 0..MaxSessions /\ session \in 0..sessions
    BY <1>1 DEF Init
  <2> QED
    BY <2>1, <2>2, <2>3 DEF Init, TypeOK, Statuses
<1>3. SessionsFirst /\ VaultFollows
  BY NoneIsNothing DEF Init, BlankPage, SessionsFirst, VaultFollows, VaultOnItsWay
<1>4. Places = {}
  BY <1>1, <1>2, PendingShape DEF Init, Places
<1>5. \A types : Of(types) = {}
  BY <1>4 DEF Of
<1>6. Told
  BY <1>5 DEF Told, CeremonyTold, RepliesTold, VerificationTold, Starts, Shards, Verifications
<1>7. PageFollows
  BY DEF Init, PageFollows
<1> QED
  BY <1>2, <1>3, <1>6, <1>7 DEF IInv

\* What every handler does to the queues and to the page.
LEMMA Leaving ==
    ASSUME IInv, NEW e \in Events, Leaves(e)
    PROVE  /\ Grown(e) /\ outbox' \in Seq(Events) /\ Len(outbox') <= MaxHandlers
           /\ UNCHANGED <<overtaken, untold, CeremonyUntold, conn, queue, shown>>
           /\ VaultOnItsWay' <=> VaultOnItsWay \/ e.type = "vault_created"
<1>1. /\ outbox' = Append(outbox, e) /\ Len(outbox) < MaxHandlers
      /\ UNCHANGED <<overtaken, untold, CeremonyUntold, conn, queue, shown>>
  BY DEF Leaves, client, history, CeremonyUntold
<1>2. queue \in Seq(Events) /\ outbox \in Seq(Events) /\ Len(outbox) \in Nat /\ MaxHandlers \in Nat
  BY DashboardAssumption DEF IInv, TypeOK
<1>3. /\ outbox' \in Seq(Events) /\ Len(outbox') = Len(outbox) + 1
      /\ \A i \in 1..Len(outbox) : outbox'[i] = outbox[i]
      /\ outbox'[Len(outbox) + 1] = e
  BY <1>1, <1>2, AppendProperties
<1>4. Grown(e)
  BY <1>1, <1>2, Lengthened DEF Grown, Pending
<1>5. 1..Len(outbox') = 1..Len(outbox) \cup {Len(outbox) + 1}
  BY <1>2, <1>3
<1>6. VaultOnItsWay' <=> VaultOnItsWay \/ e.type = "vault_created"
  BY <1>1, <1>3, <1>5 DEF VaultOnItsWay
<1>7. Len(outbox') <= MaxHandlers
  BY <1>1, <1>2, <1>3
<1> QED
  BY <1>1, <1>3, <1>4, <1>6, <1>7

\* A handler that changes nothing but the ceremony.
LEMMA CeremonyHandlerKeeps ==
    ASSUME IInv, NEW e \in Events, Leaves(e), e.type \in CeremonyEvents,
           ceremony' = Said(e.type), e.type \in Decisions => ceremony = "forming",
           vault' = (vault \/ e.type = "vault_created"), saved' \in BOOLEAN,
           UNCHANGED <<session, sessions, replied, last_verify>>
    PROVE  IInv'
<1>1. /\ Grown(e) /\ outbox' \in Seq(Events) /\ Len(outbox') <= MaxHandlers
      /\ UNCHANGED <<overtaken, untold, CeremonyUntold, conn, queue, shown>>
      /\ VaultOnItsWay' <=> VaultOnItsWay \/ e.type = "vault_created"
  BY Leaving
<1>2. TypeOK'
  BY <1>1 DEF IInv, TypeOK, Said, Statuses
<1>3. SessionsFirst' /\ VaultFollows'
  BY <1>1 DEF IInv, SessionsFirst, VaultFollows
<1>4. ASSUME ~overtaken PROVE Told' /\ PageFollows'
  <2>1. e.type \notin {"recovery_started", "unsealed_shard_received", "recovery_verified"}
    BY DEF CeremonyEvents, Decisions
  <2>2. TypeOK /\ (CeremonyUntold \/ CeremonyTold) /\ RepliesTold /\ VerificationTold /\ PageFollows
    BY <1>4 DEF IInv, Told
  <2> QED
    BY <1>1, <2>1, <2>2, CeremonyMoves, RepliesStay, VerificationStays DEF Told, PageFollows
<1> QED
  BY <1>1, <1>2, <1>3, <1>4 DEF IInv

\* What carries the session's number is an event.
LEMMA SessionEvents ==
    ASSUME IInv, NEW type \in {"ceremony_initiated", "ceremony_formed", "ceremony_failed", "vault_created",
                               "recovery_started", "recovery_finalized", "recovery_verified"}
    PROVE  /\ Event(type) \in Events /\ Event(type).type = type
           /\ type = "recovery_verified" => Event(type).data = session
           /\ session \in 0..MaxSessions
<1>1. session \in 0..MaxSessions
  BY DashboardAssumption DEF IInv, TypeOK
<1> QED
  BY <1>1, DashboardAssumption DEF Event, Events

LEMMA InitiateCeremonyKeeps == ASSUME IInv, InitiateCeremony PROVE IInv'
<1> DEFINE e == Event("ceremony_initiated")
<1>1. e \in Events /\ e.type = "ceremony_initiated"
  BY SessionEvents
<1>2. /\ Leaves(e) /\ ceremony' = "forming"
      /\ UNCHANGED <<vault, saved, session, sessions, replied, last_verify>>
  BY DEF InitiateCeremony
<1> HIDE DEF e
<1>3. e.type \in CeremonyEvents /\ e.type \notin Decisions /\ Said(e.type) = "forming"
  BY <1>1 DEF CeremonyEvents, Decisions, Said
<1>4. vault' = (vault \/ e.type = "vault_created") /\ saved' \in BOOLEAN
  BY <1>1, <1>2 DEF IInv, TypeOK
<1> QED
  BY <1>1, <1>2, <1>3, <1>4, CeremonyHandlerKeeps

LEMMA DecideCeremonyKeeps == ASSUME IInv, DecideCeremony PROVE IInv'
<1>1. PICK type \in Decisions :
         /\ Leaves(Event(type)) /\ ceremony' = Said(type) /\ ceremony = "forming"
         /\ UNCHANGED <<vault, saved, session, sessions, replied, last_verify>>
  BY DEF DecideCeremony, Decisions, Said
<1> DEFINE e == Event(type)
<1>2. e \in Events /\ e.type = type
  BY SessionEvents DEF Decisions
<1> HIDE DEF e
<1>3. e.type \in CeremonyEvents /\ e.type # "vault_created"
  BY <1>2 DEF CeremonyEvents, Decisions
<1>4. vault' = (vault \/ e.type = "vault_created") /\ saved' \in BOOLEAN
  BY <1>1, <1>3 DEF IInv, TypeOK
<1>5. Leaves(e)
  BY <1>1 DEF e
<1> QED
  BY <1>1, <1>2, <1>3, <1>4, <1>5, CeremonyHandlerKeeps

LEMMA CreateVaultKeeps == ASSUME IInv, CreateVault PROVE IInv'
<1> DEFINE e == Event("vault_created")
<1>1. e \in Events /\ e.type = "vault_created"
  BY SessionEvents
<1>2. /\ Leaves(e) /\ ceremony' = "none" /\ vault' = TRUE /\ saved' = TRUE
      /\ UNCHANGED <<session, sessions, replied, last_verify>>
  BY DEF CreateVault, MakeVault
<1> HIDE DEF e
<1>3. e.type \in CeremonyEvents /\ e.type \notin Decisions /\ Said(e.type) = "none"
  BY <1>1 DEF CeremonyEvents, Decisions, Said
<1>4. vault' = (vault \/ e.type = "vault_created")
  BY <1>1, <1>2
<1> QED
  BY <1>1, <1>2, <1>3, <1>4, CeremonyHandlerKeeps

LEMMA StartRecoveryKeeps == ASSUME IInv, StartRecovery PROVE IInv'
<1> PICK e \in Events : e = Event("recovery_started") /\ e.type = "recovery_started"
  BY SessionEvents
<1>1. /\ Leaves(e) /\ e.type = "recovery_started" /\ sessions < MaxSessions
      /\ session' = sessions + 1 /\ sessions' = sessions + 1 /\ replied' = {}
      /\ UNCHANGED <<ceremony, vault, saved, last_verify>>
  BY DEF StartRecovery
<1>2. /\ Grown(e) /\ outbox' \in Seq(Events) /\ Len(outbox') <= MaxHandlers
      /\ UNCHANGED <<overtaken, untold, CeremonyUntold, conn, queue, shown>>
      /\ VaultOnItsWay' <=> VaultOnItsWay
  BY <1>1, Leaving
<1>3. sessions \in Nat /\ MaxSessions \in Nat
  BY DashboardAssumption DEF IInv, TypeOK
<1>4. TypeOK'
  <2>1. sessions' \in 0..MaxSessions /\ session' \in 0..sessions' /\ session' # 0
    BY <1>1, <1>3
  <2> QED
    BY <1>1, <1>2, <2>1 DEF IInv, TypeOK
<1>5. last_verify # session' /\ SessionsFirst'
  <2>1. last_verify # None => last_verify \in Nat /\ last_verify <= sessions
    BY <1>3, DashboardAssumption DEF IInv, TypeOK, SessionsFirst
  <2>2. session' # None
    BY <1>1, <1>3, NoneIsNothing
  <2>3. last_verify # None => last_verify # session' /\ last_verify <= sessions'
    BY <1>1, <1>3, <2>1
  <2> QED
    BY <1>1, <2>2, <2>3 DEF SessionsFirst
<1>6. VaultFollows'
  BY <1>1, <1>2 DEF IInv, VaultFollows
<1>7. ASSUME ~overtaken PROVE Told' /\ PageFollows'
  <2>1. TypeOK /\ (CeremonyUntold \/ CeremonyTold) /\ RepliesTold /\ VerificationTold /\ PageFollows
    BY <1>7 DEF IInv, Told
  <2>2. e.type \notin CeremonyEvents /\ session' # 0
    BY <1>1, <1>3 DEF CeremonyEvents, Decisions
  <2>3. (CeremonyTold => CeremonyTold') /\ (CeremonyShown => CeremonyShown')
    BY <1>1, <1>2, <2>1, <2>2, CeremonyStays
  <2>4. RepliesTold' /\ RepliesShown'
    BY <1>1, <1>2, <2>1, <2>2, RepliesStart
  <2>5. VerificationTold' /\ VerificationShown'
    BY <1>1, <1>2, <1>5, <2>1, VerificationMoves
  <2> QED
    BY <1>2, <2>1, <2>3, <2>4, <2>5 DEF Told, PageFollows
<1> QED
  BY <1>2, <1>4, <1>5, <1>6, <1>7 DEF IInv

LEMMA ShardReplyKeeps == ASSUME IInv, NEW t \in Trustees, ShardReply(t) PROVE IInv'
<1> PICK e \in Events : e = [type |-> "unsealed_shard_received", data |-> t]
  BY DEF Events
<1>1. /\ Leaves(e) /\ e.type = "unsealed_shard_received" /\ e.data = t /\ session # 0
      /\ replied' = replied \cup {t}
      /\ UNCHANGED <<ceremony, vault, saved, session, sessions, last_verify>>
  BY DEF ShardReply
<1>2. /\ Grown(e) /\ outbox' \in Seq(Events) /\ Len(outbox') <= MaxHandlers
      /\ UNCHANGED <<overtaken, untold, CeremonyUntold, conn, queue, shown>>
      /\ VaultOnItsWay' <=> VaultOnItsWay
  BY <1>1, Leaving
<1>3. TypeOK'
  BY <1>1, <1>2 DEF IInv, TypeOK
<1>4. SessionsFirst' /\ VaultFollows'
  BY <1>1, <1>2 DEF IInv, SessionsFirst, VaultFollows
<1>5. ASSUME ~overtaken PROVE Told' /\ PageFollows'
  <2>1. TypeOK /\ SessionsFirst /\ (CeremonyUntold \/ CeremonyTold) /\ RepliesTold /\ VerificationTold /\ PageFollows
    BY <1>5 DEF IInv, Told
  <2>2. e.type \notin CeremonyEvents
    BY <1>1 DEF CeremonyEvents, Decisions
  <2>3. (CeremonyTold => CeremonyTold') /\ (CeremonyShown => CeremonyShown')
    BY <1>1, <1>2, <2>1, <2>2, CeremonyStays
  <2>4. RepliesTold' /\ (RepliesShown => RepliesShown')
    BY <1>1, <1>2, <2>1, RepliesArrive
  <2>5. VerificationTold' /\ (VerificationShown => VerificationShown')
    BY <1>1, <1>2, <2>1, VerificationStays
  <2> QED
    BY <1>2, <2>1, <2>3, <2>4, <2>5 DEF Told, PageFollows
<1> QED
  BY <1>2, <1>3, <1>4, <1>5 DEF IInv

LEMMA FinalizeRecoveryKeeps == ASSUME IInv, FinalizeRecovery PROVE IInv'
<1> PICK e \in Events : e = Event("recovery_finalized") /\ e.type = "recovery_finalized"
  BY SessionEvents
<1>1. Leaves(e) /\ UNCHANGED <<ceremony, vault, saved, session, sessions, replied, last_verify>>
  BY DEF FinalizeRecovery, server
<1>2. /\ Grown(e) /\ outbox' \in Seq(Events) /\ Len(outbox') <= MaxHandlers
      /\ UNCHANGED <<overtaken, untold, CeremonyUntold, conn, queue, shown>>
      /\ VaultOnItsWay' <=> VaultOnItsWay
  BY <1>1, Leaving
<1>3. TypeOK'
  BY <1>1, <1>2 DEF IInv, TypeOK
<1>4. SessionsFirst' /\ VaultFollows'
  BY <1>1, <1>2 DEF IInv, SessionsFirst, VaultFollows
<1>5. ASSUME ~overtaken PROVE Told' /\ PageFollows'
  <2>1. TypeOK /\ (CeremonyUntold \/ CeremonyTold) /\ RepliesTold /\ VerificationTold /\ PageFollows
    BY <1>5 DEF IInv, Told
  <2>2. e.type \notin CeremonyEvents
    BY DEF CeremonyEvents, Decisions
  <2> QED
    BY <1>1, <1>2, <2>1, <2>2, CeremonyStays, RepliesStay, VerificationStays DEF Told, PageFollows
<1> QED
  BY <1>2, <1>3, <1>4, <1>5 DEF IInv

LEMMA VerifyRecoveryKeeps == ASSUME IInv, VerifyRecovery PROVE IInv'
<1> PICK e \in Events : e = Event("recovery_verified") /\ e.type = "recovery_verified" /\ e.data = session
  BY SessionEvents
<1>1. /\ Leaves(e) /\ last_verify' = session
      /\ UNCHANGED <<ceremony, vault, saved, session, sessions, replied>>
  BY DEF VerifyRecovery
<1>2. /\ Grown(e) /\ outbox' \in Seq(Events) /\ Len(outbox') <= MaxHandlers
      /\ UNCHANGED <<overtaken, untold, CeremonyUntold, conn, queue, shown>>
      /\ VaultOnItsWay' <=> VaultOnItsWay
  BY <1>1, Leaving
<1>3. session \in 0..MaxSessions /\ session <= sessions
  BY DashboardAssumption DEF IInv, TypeOK
<1>4. TypeOK'
  BY <1>1, <1>2, <1>3 DEF IInv, TypeOK
<1>5. SessionsFirst' /\ VaultFollows'
  BY <1>1, <1>2, <1>3 DEF IInv, SessionsFirst, VaultFollows
<1>6. ASSUME ~overtaken PROVE Told' /\ PageFollows'
  <2>1. TypeOK /\ (CeremonyUntold \/ CeremonyTold) /\ RepliesTold /\ VerificationTold /\ PageFollows
    BY <1>6 DEF IInv, Told
  <2>2. e.type \notin CeremonyEvents
    BY DEF CeremonyEvents, Decisions
  <2>3. (CeremonyTold => CeremonyTold') /\ (CeremonyShown => CeremonyShown')
    BY <1>1, <1>2, <2>1, <2>2, CeremonyStays
  <2>4. RepliesTold' /\ (RepliesShown => RepliesShown')
    BY <1>1, <1>2, <2>1, RepliesStay
  <2>5. VerificationTold' /\ VerificationShown'
    BY <1>1, <1>2, <2>1, VerificationMoves
  <2> QED
    BY <1>2, <2>1, <2>3, <2>4, <2>5 DEF Told, PageFollows
<1> QED
  BY <1>2, <1>4, <1>5, <1>6 DEF IInv

-----------------------------------------------------------------------------
(* The stream and the page *)

\* What the server has told stays told when the first events are gone.
LEMMA ToldStays ==
    ASSUME TypeOK, Told, NEW d, Shrunk(d), CeremonyUntold' = CeremonyUntold,
           UNCHANGED <<ceremony, session, replied, last_verify>>
    PROVE  Told'
BY CeremonyShrinks, RepliesShrink, VerificationShrinks DEF Told

LEMMA NothingGone ==
    ASSUME TypeOK, Pending' = Pending
    PROVE  Shrunk(0)
<1>1. Len(Pending) \in Nat
  BY PendingShape
<1> QED
  BY <1>1 DEF Shrunk

LEMMA QueueGone ==
    ASSUME TypeOK, queue' = << >>, outbox' = outbox
    PROVE  Shrunk(Len(queue))
<1>1. queue \in Seq(Events) /\ outbox \in Seq(Events) /\ Len(queue) \in Nat /\ Len(outbox) \in Nat
  BY PendingShape
<1>2. Pending' = outbox
  BY <1>1, ConcatEmptySeq DEF Pending
<1>3. /\ Len(Pending) = Len(queue) + Len(outbox)
      /\ \A k \in 1..Len(queue) + Len(outbox) :
            Pending[k] = IF k <= Len(queue) THEN queue[k] ELSE outbox[k - Len(queue)]
  BY <1>1, ConcatProperties DEF Pending
<1>4. ASSUME NEW k \in 1..Len(Pending) - Len(queue) PROVE Pending'[k] = Pending[k + Len(queue)]
  <2>1. k \in 1..Len(outbox) /\ k + Len(queue) \in 1..Len(queue) + Len(outbox)
    BY <1>1, <1>3
  <2>2. ~(k + Len(queue) <= Len(queue)) /\ (k + Len(queue)) - Len(queue) = k
    BY <1>1, <2>1
  <2>3. Pending[k + Len(queue)] = outbox[(k + Len(queue)) - Len(queue)]
    BY <1>3, <2>1, <2>2
  <2> QED
    BY <1>2, <2>2, <2>3
<1>5. Len(queue) \in 0..Len(Pending) /\ Len(Pending') = Len(Pending) - Len(queue)
  BY <1>1, <1>2, <1>3
<1> QED
  BY <1>4, <1>5 DEF Shrunk

\* A stream that ends, whatever becomes of the page.
LEMMA OffKeeps ==
    ASSUME IInv, conn' = "off", queue' = << >>, UNCHANGED <<server, outbox, history>>,
           shown' = shown \/ shown' = BlankPage
    PROVE  IInv'
<1>1. TypeOK'
  <2>1. << >> \in Seq(Events) /\ Len(<< >>) = 0 /\ MaxQueue \in Nat
    BY DashboardAssumption
  <2>2. BlankPage \in [ceremony : Statuses, vault : BOOLEAN,
                       recovery : {None} \cup SUBSET Trustees, lastVerify : 0..MaxSessions \cup {None}]
    BY DEF BlankPage, Statuses
  <2>3. queue' \in Seq(Events) /\ Len(queue') <= MaxQueue
    BY <2>1
  <2> QED
    BY <2>2, <2>3 DEF IInv, TypeOK, server, history
<1>2. SessionsFirst'
  BY DEF IInv, SessionsFirst, server
<1>3. VaultFollows'
  <2>1. VaultOnItsWay' => VaultOnItsWay
    <3>1. Len(queue') = 0
      OBVIOUS
    <3> QED
      BY <3>1 DEF VaultOnItsWay
  <2> QED
    BY <2>1 DEF IInv, VaultFollows, server
<1>4. ASSUME ~overtaken PROVE Told' /\ PageFollows'
  <2>1. TypeOK /\ Told
    BY <1>4 DEF IInv
  <2>2. Shrunk(Len(queue))
    BY <2>1, QueueGone
  <2>3. CeremonyUntold' = CeremonyUntold /\ UNCHANGED <<ceremony, session, replied, last_verify>>
    BY DEF CeremonyUntold, history, server
  <2> QED
    BY <2>1, <2>2, <2>3, ToldStays DEF PageFollows
<1> QED
  BY <1>1, <1>2, <1>3, <1>4 DEF IInv, history

LEMMA DisconnectKeeps == ASSUME IInv, Disconnect PROVE IInv'
BY OffKeeps DEF Disconnect, FreshQueue

LEMMA ReloadKeeps == ASSUME IInv, Reload PROVE IInv'
BY OffKeeps DEF Reload, FreshQueue

LEMMA RestartKeeps == ASSUME IInv, Restart PROVE IInv'
<1>1. /\ vault' = saved /\ ceremony' = "none" /\ session' = 0 /\ replied' = {} /\ last_verify' = None
      /\ outbox' = << >> /\ conn' = "off" /\ queue' = << >>
      /\ untold' = {} /\ UNCHANGED <<saved, sessions, overtaken, shown>>
  BY DEF Restart, FreshQueue
<1>2. TypeOK'
  <2>1. << >> \in Seq(Events) /\ Len(<< >>) = 0 /\ MaxQueue \in Nat /\ MaxHandlers \in Nat
    BY DashboardAssumption
  <2>2. /\ queue' \in Seq(Events) /\ Len(queue') <= MaxQueue
        /\ outbox' \in Seq(Events) /\ Len(outbox') <= MaxHandlers
    BY <1>1, <2>1
  <2>3. session' \in 0..sessions'
    BY <1>1, DashboardAssumption DEF IInv, TypeOK
  <2> QED
    BY <1>1, <2>2, <2>3 DEF IInv, TypeOK, Statuses
<1>3. SessionsFirst'
  BY <1>1 DEF SessionsFirst
<1>4. Len(queue') = 0 /\ Len(outbox') = 0
  BY <1>1
<1>5. VaultFollows'
  BY <1>1, <1>4 DEF VaultFollows, VaultOnItsWay
<1>6. Len(Pending)' = 0
  <2>1. Pending' = << >>
    BY <1>1, ConcatEmptySeq DEF Pending
  <2> QED
    BY <2>1
<1>7. \A types : Of(types)' = {}
  BY <1>6 DEF Of, Places
<1>8. Told' /\ PageFollows'
  BY <1>1, <1>7
  DEF Told, PageFollows, CeremonyTold, RepliesTold, VerificationTold, Starts, Shards, Verifications
<1> QED
  BY <1>2, <1>3, <1>5, <1>8 DEF IInv

\* A stream that begins has nothing queued; only what is in the outbox can come too late.
LEMMA ConnectKeeps == ASSUME IInv, Connect PROVE IInv'
<1>1. /\ conn = "off" /\ conn' = "registered" /\ queue' = << >> /\ queue = << >>
      /\ overtaken' = (overtaken /\ outbox # << >>)
      /\ UNCHANGED <<server, outbox, untold, shown>>
  BY DEF Connect, FreshQueue, IInv, TypeOK
<1>2. TypeOK'
  BY <1>1 DEF IInv, TypeOK, server
<1>3. SessionsFirst' /\ VaultFollows'
  BY <1>1 DEF IInv, SessionsFirst, VaultFollows, VaultOnItsWay, server
<1>4. /\ Pending' = Pending /\ CeremonyUntold' = CeremonyUntold
      /\ UNCHANGED <<ceremony, session, replied, last_verify>>
  BY <1>1 DEF Pending, CeremonyUntold, server
<1>5. ASSUME ~overtaken' PROVE Told'
  <2>1. CASE ~overtaken
    <3>1. TypeOK /\ Told
      BY <2>1 DEF IInv
    <3> QED
      BY <1>1, <1>4, <3>1, NothingGone, ToldStays
  <2>2. CASE outbox = << >>
    <3>1. Len(Pending) = 0
      BY <1>1, <2>2, PendingShape DEF IInv
    <3>2. \A types : Of(types)' = {}
      BY <1>4, <3>1 DEF Of, Places
    <3> QED
      BY <3>2 DEF Told, CeremonyTold, RepliesTold, VerificationTold, Starts, Shards, Verifications
  <2> QED
    BY <1>1, <1>5, <2>1, <2>2
<1> QED
  BY <1>1, <1>2, <1>3, <1>5 DEF IInv, PageFollows

LEMMA SnapshotKeeps == ASSUME IInv, Snapshot PROVE IInv'
<1>1. /\ conn = "registered" /\ conn' = "painted"
      /\ shown' = [shown EXCEPT !.ceremony = ceremony, !.vault = vault,
                                !.recovery = RecoveryRepainted, !.lastVerify = last_verify]
      /\ untold' = IF queue \o outbox = << >> THEN {} ELSE untold \ {"vault"}
      /\ UNCHANGED <<server, outbox, overtaken, queue>>
  BY DEF Snapshot
<1>2. /\ shown' \in [ceremony : Statuses, vault : BOOLEAN,
                     recovery : {None} \cup SUBSET Trustees, lastVerify : 0..MaxSessions \cup {None}]
      /\ shown'.ceremony = ceremony /\ shown'.vault = vault
      /\ shown'.recovery = RecoveryRepainted /\ shown'.lastVerify = last_verify
  BY <1>1 DEF IInv, TypeOK, RecoveryRepainted
<1>3. TypeOK'
  BY <1>1, <1>2 DEF IInv, TypeOK, server
<1>4. SessionsFirst' /\ VaultFollows'
  BY <1>1, <1>2 DEF IInv, SessionsFirst, VaultFollows, VaultOnItsWay, server
<1>5. /\ Pending' = Pending
      /\ CeremonyUntold' \/ ~CeremonyUntold \/ Pending = << >>
  BY <1>1 DEF Pending, CeremonyUntold
<1>6. ASSUME ~overtaken PROVE Told' /\ PageFollows'
  <2>1. TypeOK /\ Told /\ RepliesTold /\ VerificationTold
    BY <1>6 DEF IInv, Told
  <2>2. UNCHANGED <<ceremony, session, replied, last_verify>>
    BY <1>1 DEF server
  <2>3. CeremonyUntold' \/ CeremonyTold
    <3>1. ASSUME Pending = << >> PROVE CeremonyTold
      <4>1. Len(Pending) = 0
        BY <3>1
      <4>2. \A types : Of(types) = {}
        BY <4>1 DEF Of, Places
      <4> QED
        BY <4>2 DEF CeremonyTold
    <3> QED
      BY <1>5, <2>1, <3>1 DEF Told
  <2>4. RepliesTold' /\ VerificationTold' /\ (CeremonyTold => CeremonyTold')
    BY <1>5, <2>1, <2>2, NothingGone, CeremonyShrinks, RepliesShrink, VerificationShrinks
  <2>5. RepliesShown' /\ VerificationShown' /\ (CeremonyTold => CeremonyShown')
    BY <1>2, <1>5, <2>1, <2>2, CeremonyPainted, RepliesPainted, VerificationPainted
  <2> QED
    BY <2>3, <2>4, <2>5 DEF Told, PageFollows
<1> QED
  BY <1>1, <1>3, <1>4, <1>6 DEF IInv

\* Nothing that is pending comes or goes, and the page stays as it is.
LEMMA RestStays ==
    ASSUME Pending' = Pending, UNCHANGED <<session, replied, last_verify, shown>>
    PROVE  /\ RepliesShown => RepliesShown'
           /\ VerificationShown => VerificationShown'
<1>1. \A types : Of(types)' = Of(types)
  BY DEF Of, Places
<1>2. Starts' = Starts /\ Shards' = Shards /\ Verifications' = Verifications
  BY <1>1 DEF Starts, Shards, Verifications
<1> QED
  BY <1>2 DEF RepliesShown, VerificationShown

LEMMA PageStays ==
    ASSUME PageFollows, Pending' = Pending, CeremonyUntold' = CeremonyUntold,
           conn' \in {"painted", "open"} => conn \in {"painted", "open"},
           UNCHANGED <<ceremony, session, replied, last_verify, shown>>
    PROVE  PageFollows'
<1>1. \A types : Of(types)' = Of(types)
  BY DEF Of, Places
<1>2. CeremonyShown => CeremonyShown'
  BY <1>1 DEF CeremonyShown
<1> QED
  BY <1>2, RestStays DEF PageFollows

\* A vault whose save raised changes the vault and the ceremony alone, of which nothing
\* is claimed until a snapshot is taken.
LEMMA CreateVaultUnsavedKeeps == ASSUME IInv, CreateVaultUnsaved PROVE IInv'
<1>1. /\ vault' = TRUE /\ ceremony' = "none" /\ untold' = {"vault", "ceremony"}
      /\ UNCHANGED <<saved, session, sessions, replied, last_verify>>
      /\ UNCHANGED <<outbox, overtaken, conn, queue, shown>>
  BY DEF CreateVaultUnsaved, MakeVault, client
<1>2. TypeOK' /\ SessionsFirst' /\ VaultFollows'
  BY <1>1 DEF IInv, TypeOK, Statuses, SessionsFirst, VaultFollows
<1>3. Pending' = Pending /\ CeremonyUntold'
  BY <1>1 DEF Pending, CeremonyUntold
<1>4. ASSUME ~overtaken PROVE Told' /\ PageFollows'
  <2>1. TypeOK /\ RepliesTold /\ VerificationTold /\ PageFollows
    BY <1>4 DEF IInv, Told
  <2>2. RepliesTold' /\ VerificationTold'
    BY <1>1, <1>3, <2>1, NothingGone, RepliesShrink, VerificationShrinks
  <2>3. RepliesShown /\ VerificationShown => RepliesShown' /\ VerificationShown'
    BY <1>1, <1>3, RestStays
  <2> QED
    BY <1>1, <1>3, <2>1, <2>2, <2>3 DEF Told, PageFollows
<1> QED
  BY <1>1, <1>2, <1>4 DEF IInv

LEMMA RegisterTrusteeKeeps == ASSUME IInv, RegisterTrustee PROVE IInv'
<1>1. /\ saved' = vault /\ UNCHANGED <<ceremony, vault, session, sessions, replied, last_verify>>
      /\ UNCHANGED <<outbox, overtaken, untold, conn, queue, shown>>
  BY DEF RegisterTrustee, history, client
<1>2. TypeOK' /\ SessionsFirst' /\ VaultFollows'
  BY <1>1 DEF IInv, TypeOK, SessionsFirst, VaultFollows, VaultOnItsWay
<1>3. Pending' = Pending /\ CeremonyUntold' = CeremonyUntold
  BY <1>1 DEF Pending, CeremonyUntold
<1>4. ASSUME ~overtaken PROVE Told' /\ PageFollows'
  <2>1. TypeOK /\ Told /\ PageFollows
    BY <1>4 DEF IInv
  <2>2. Told'
    BY <1>1, <1>3, <2>1, NothingGone, ToldStays
  <2> QED
    BY <1>1, <1>3, <2>1, <2>2, PageStays DEF PageFollows
<1> QED
  BY <1>1, <1>2, <1>4 DEF IInv

LEMMA FollowQueueKeeps == ASSUME IInv, FollowQueue PROVE IInv'
<1>1. conn = "painted" /\ conn' = "open" /\ UNCHANGED <<server, outbox, overtaken, untold, queue, shown>>
  BY DEF FollowQueue, history
<1>2. TypeOK'
  BY <1>1 DEF IInv, TypeOK, server
<1>3. SessionsFirst' /\ VaultFollows'
  BY <1>1 DEF IInv, SessionsFirst, VaultFollows, VaultOnItsWay, server
<1>4. /\ Pending' = Pending /\ CeremonyUntold' = CeremonyUntold
      /\ UNCHANGED <<ceremony, session, replied, last_verify>>
  BY <1>1 DEF Pending, CeremonyUntold, server
<1>5. ASSUME ~overtaken PROVE Told' /\ PageFollows'
  <2>1. TypeOK /\ Told /\ PageFollows
    BY <1>5 DEF IInv
  <2>2. Told'
    BY <1>4, <2>1, NothingGone, ToldStays
  <2> QED
    BY <1>1, <1>4, <2>1, <2>2, PageStays
<1> QED
  BY <1>1, <1>2, <1>3, <1>5 DEF IInv

LEMMA ReceiveTakes ==
    ASSUME TypeOK, Receive
    PROVE  Taken /\ Pending[1] = queue[1] /\ queue[1] \in Events /\ Len(queue) >= 1
<1>1. queue \in Seq(Events) /\ outbox \in Seq(Events) /\ Len(queue) \in Nat /\ Len(outbox) \in Nat
  BY PendingShape
<1>2. /\ Len(queue) >= 1 /\ queue[1] \in Events /\ Head(queue) = queue[1]
      /\ Tail(queue) \in Seq(Events) /\ Len(Tail(queue)) = Len(queue) - 1
      /\ \A i \in 1..Len(queue) - 1 : Tail(queue)[i] = queue[i + 1]
  <2>1. queue # << >>
    BY DEF Receive
  <2>2. Len(queue) >= 1
    BY <1>1, <2>1
  <2>3. Tail(queue) \in Seq(Events) /\ Len(Tail(queue)) = Len(queue) - 1
        /\ \A i \in 1..Len(Tail(queue)) : Tail(queue)[i] = queue[i + 1]
    BY <1>1, <2>1, HeadTailProperties
  <2> QED
    BY <1>1, <2>2, <2>3
<1>3. /\ Len(Pending) = Len(queue) + Len(outbox)
      /\ \A k \in 1..Len(queue) + Len(outbox) :
            Pending[k] = IF k <= Len(queue) THEN queue[k] ELSE outbox[k - Len(queue)]
  BY <1>1, ConcatProperties DEF Pending
<1>4. Pending' = Tail(queue) \o outbox /\ UNCHANGED server
  BY DEF Receive, Pending
<1>5. /\ Len(Pending') = (Len(queue) - 1) + Len(outbox)
      /\ \A k \in 1..(Len(queue) - 1) + Len(outbox) :
            Pending'[k] = IF k <= Len(queue) - 1 THEN Tail(queue)[k] ELSE outbox[k - (Len(queue) - 1)]
  <2>1. /\ Len(Tail(queue) \o outbox) = Len(Tail(queue)) + Len(outbox)
        /\ \A k \in 1..Len(Tail(queue)) + Len(outbox) :
              (Tail(queue) \o outbox)[k] =
                 IF k <= Len(Tail(queue)) THEN Tail(queue)[k] ELSE outbox[k - Len(Tail(queue))]
    BY <1>1, <1>2, ConcatProperties
  <2> QED
    BY <1>2, <1>4, <2>1
<1>6. ASSUME NEW k \in 1..Len(Pending) - 1 PROVE Pending'[k] = Pending[k + 1]
  <2>1. k \in 1..(Len(queue) - 1) + Len(outbox) /\ k + 1 \in 1..Len(queue) + Len(outbox)
    BY <1>1, <1>2, <1>3
  <2>2. CASE k <= Len(queue) - 1
    <3>1. k \in 1..Len(queue) - 1 /\ k + 1 <= Len(queue)
      BY <1>1, <2>1, <2>2
    <3> QED
      BY <1>2, <1>3, <1>5, <2>1, <2>2, <3>1
  <2>3. CASE ~(k <= Len(queue) - 1)
    <3>1. ~(k + 1 <= Len(queue)) /\ k - (Len(queue) - 1) = (k + 1) - Len(queue)
      BY <1>1, <2>1, <2>3
    <3>2. Pending'[k] = outbox[k - (Len(queue) - 1)] /\ Pending[k + 1] = outbox[(k + 1) - Len(queue)]
      BY <1>3, <1>5, <2>1, <2>3, <3>1
    <3> QED
      BY <3>1, <3>2
  <2> QED
    BY <2>2, <2>3
<1>7. Shrunk(1)
  <2>1. 1 \in 0..Len(Pending) /\ Len(Pending') = Len(Pending) - 1
    BY <1>1, <1>2, <1>3, <1>5
  <2> QED
    BY <1>6, <2>1 DEF Shrunk
<1>8. 1 \in Places /\ Pending[1] = queue[1]
  <2>1. 1 \in 1..Len(queue) + Len(outbox) /\ 1 <= Len(queue)
    BY <1>1, <1>2
  <2> QED
    BY <1>3, <2>1 DEF Places
<1>9. shown' = Repaint(Pending[1])
  BY <1>2, <1>8 DEF Receive
<1> QED
  BY <1>2, <1>4, <1>7, <1>8, <1>9 DEF Taken

LEMMA ReceiveKeeps == ASSUME IInv, Receive PROVE IInv'
<1>1. /\ conn = "open" /\ queue # << >> /\ queue' = Tail(queue)
      /\ UNCHANGED <<server, outbox, overtaken, untold, conn>>
  BY DEF Receive, history
<1>2. TypeOK /\ queue \in Seq(Events) /\ Len(queue) \in Nat /\ MaxQueue \in Nat
  BY DashboardAssumption DEF IInv, TypeOK
<1>3. Taken /\ shown' = Repaint(queue[1]) /\ queue[1] \in Events /\ Len(queue) >= 1
  BY <1>2, ReceiveTakes DEF Taken
<1>4. /\ queue' \in Seq(Events) /\ Len(queue') = Len(queue) - 1
      /\ \A i \in 1..Len(queue) - 1 : queue'[i] = queue[i + 1]
  <2>1. /\ Tail(queue) \in Seq(Events) /\ Len(Tail(queue)) = Len(queue) - 1
        /\ \A i \in 1..Len(Tail(queue)) : Tail(queue)[i] = queue[i + 1]
    BY <1>1, <1>2, HeadTailProperties
  <2> QED
    BY <1>1, <2>1
<1>5. TypeOK'
  <2>1. Len(queue') <= MaxQueue
    BY <1>2, <1>4 DEF IInv, TypeOK
  <2>2. shown' \in [ceremony : Statuses, vault : BOOLEAN,
                    recovery : {None} \cup SUBSET Trustees, lastVerify : 0..MaxSessions \cup {None}]
    BY <1>2, <1>3, Repainting
  <2> QED
    BY <1>1, <1>4, <2>1, <2>2 DEF IInv, TypeOK, server
<1>6. VaultFollows'
  <2>1. shown'.vault = (shown.vault \/ queue[1].type = "vault_created")
    BY <1>2, <1>3, Repainting
  <2>2. VaultOnItsWay' => VaultOnItsWay
    BY <1>1, <1>2, <1>4 DEF VaultOnItsWay
  <2>3. VaultOnItsWay => VaultOnItsWay' \/ queue[1].type = "vault_created"
    <3> SUFFICES ASSUME NEW k \in 1..Len(queue), k # 1, queue[k].type = "vault_created"
                 PROVE  \E j \in 1..Len(queue') : queue'[j].type = "vault_created"
      BY <1>1 DEF VaultOnItsWay
    <3>1. k - 1 \in 1..Len(queue) - 1 /\ (k - 1) + 1 = k
      BY <1>2
    <3>2. queue'[k - 1] = queue[k]
      BY <1>4, <3>1
    <3> QED
      BY <1>4, <3>1, <3>2
  <2>4. queue[1].type = "vault_created" => VaultOnItsWay
    BY <1>2, <1>3 DEF VaultOnItsWay
  <2>5. vault' = vault /\ conn' = conn /\ untold' = untold
    BY <1>1 DEF server
  <2>6. shown.vault \in BOOLEAN /\ shown'.vault \in BOOLEAN /\ vault \in BOOLEAN
    BY <1>2, <1>5 DEF TypeOK
  <2> QED
    BY <2>1, <2>2, <2>3, <2>4, <2>5, <2>6, <1>1 DEF IInv, VaultFollows
<1>7. SessionsFirst'
  BY <1>1 DEF IInv, SessionsFirst, server
<1>8. ASSUME ~overtaken PROVE Told' /\ PageFollows'
  <2>1. Told /\ RepliesTold /\ VerificationTold /\ SessionsFirst
    BY <1>8 DEF IInv, Told
  <2>2. (CeremonyUntold \/ CeremonyShown) /\ RepliesShown /\ VerificationShown
    BY <1>1, <1>8 DEF IInv, PageFollows
  <2>3. /\ Shrunk(1) /\ CeremonyUntold' = CeremonyUntold
        /\ UNCHANGED <<ceremony, session, replied, last_verify>>
    BY <1>1, <1>3 DEF Taken, CeremonyUntold, server
  <2>4. Told'
    BY <1>2, <2>1, <2>3, ToldStays
  <2>5. RepliesShown' /\ VerificationShown' /\ (CeremonyTold /\ CeremonyShown => CeremonyShown')
    BY <1>2, <1>3, <2>1, <2>2, CeremonyTaken, RepliesTaken, VerificationTaken
  <2> QED
    BY <2>1, <2>2, <2>3, <2>4, <2>5 DEF Told, PageFollows
<1> QED
  BY <1>1, <1>5, <1>6, <1>7, <1>8 DEF IInv

\* A broadcast hands an event from the outbox to the queue of an open stream, or to
\* nobody; who is not the first to leave has overtaken another.
LEMMA BroadcastKeeps == ASSUME IInv, NEW i \in DOMAIN outbox, Broadcast(i) PROVE IInv'
<1>1. /\ TypeOK /\ outbox \in Seq(Events) /\ Len(outbox) \in Nat /\ i \in 1..Len(outbox)
      /\ queue \in Seq(Events) /\ Len(queue) \in Nat /\ outbox[i] \in Events
      /\ MaxQueue \in Nat /\ MaxHandlers \in Nat
  BY DashboardAssumption DEF IInv, TypeOK
<1>2. /\ outbox' = RemoveAt(outbox, i) /\ UNCHANGED <<server, untold, conn, shown>>
      /\ overtaken' = (overtaken \/ i > 1)
      /\ conn # "off" => Len(queue) < MaxQueue /\ queue' = Append(queue, outbox[i])
      /\ conn = "off" => queue' = queue
  BY DEF Broadcast, Listens
<1>3. /\ outbox' \in Seq(Events) /\ Len(outbox') = Len(outbox) - 1
      /\ \A j \in 1..Len(outbox) - 1 : outbox'[j] = IF j < i THEN outbox[j] ELSE outbox[j + 1]
  BY <1>1, <1>2, Removed
<1>4. conn # "off" => /\ queue' \in Seq(Events) /\ Len(queue') = Len(queue) + 1
                      /\ \A j \in 1..Len(queue) : queue'[j] = queue[j]
                      /\ queue'[Len(queue) + 1] = outbox[i]
  <2> SUFFICES ASSUME conn # "off"
               PROVE  /\ queue' \in Seq(Events) /\ Len(queue') = Len(queue) + 1
                      /\ \A j \in 1..Len(queue) : queue'[j] = queue[j]
                      /\ queue'[Len(queue) + 1] = outbox[i]
    OBVIOUS
  <2>1. queue' = Append(queue, outbox[i])
    BY <1>2
  <2> QED
    BY <1>1, <2>1, AppendProperties
<1>5. TypeOK'
  <2>1. Len(outbox') <= MaxHandlers
    BY <1>1, <1>3 DEF TypeOK
  <2>2. queue' \in Seq(Events) /\ Len(queue') <= MaxQueue
    BY <1>1, <1>2, <1>4 DEF TypeOK
  <2>3. overtaken' \in BOOLEAN
    BY <1>2
  <2> QED
    BY <1>2, <1>3, <2>1, <2>2, <2>3, <1>1 DEF TypeOK, server
<1>6. SessionsFirst'
  BY <1>2 DEF IInv, SessionsFirst, server
<1>7. VaultFollows'
  <2>1. \A j \in 1..Len(outbox') : \E k \in 1..Len(outbox) : outbox'[j] = outbox[k]
    BY <1>1, <1>3
  <2>2. \A k \in 1..Len(outbox) : k # i => \E j \in 1..Len(outbox') : outbox'[j] = outbox[k]
    <3> SUFFICES ASSUME NEW k \in 1..Len(outbox), k # i
                 PROVE  \E j \in 1..Len(outbox) - 1 : outbox'[j] = outbox[k]
      <4>1. 1..Len(outbox') = 1..Len(outbox) - 1
        BY <1>3
      <4> QED
        BY <4>1
    <3>1. CASE k < i
      <4>1. k \in 1..Len(outbox) - 1
        BY <3>1, <1>1
      <4> QED
        BY <3>1, <4>1, <1>3
    <3>2. CASE ~(k < i)
      <4>1. k - 1 \in 1..Len(outbox) - 1 /\ ~(k - 1 < i) /\ (k - 1) + 1 = k
        BY <3>2, <1>1
      <4> QED
        BY <4>1, <1>3
    <3> QED
      BY <3>1, <3>2
  <2>3. conn # "off" => 1..Len(queue') = 1..Len(queue) \cup {Len(queue) + 1}
    BY <1>1, <1>4
  <2>4. ASSUME VaultOnItsWay' PROVE VaultOnItsWay
    <3>1. CASE \E j \in 1..Len(outbox') : outbox'[j].type = "vault_created"
      BY <2>1, <3>1 DEF VaultOnItsWay
    <3>2. CASE conn = "off" /\ \E j \in 1..Len(queue') : queue'[j].type = "vault_created"
      BY <1>2, <3>2 DEF VaultOnItsWay
    <3>3. CASE conn # "off" /\ \E j \in 1..Len(queue') : queue'[j].type = "vault_created"
      <4>1. PICK j \in 1..Len(queue') : queue'[j].type = "vault_created"
        BY <3>3
      <4>2. CASE j \in 1..Len(queue)
        BY <1>4, <3>3, <4>1, <4>2 DEF VaultOnItsWay
      <4>3. CASE j = Len(queue) + 1
        <5>1. outbox[i].type = "vault_created"
          BY <1>4, <3>3, <4>1, <4>3
        <5> QED
          BY <1>1, <5>1 DEF VaultOnItsWay
      <4> QED
        BY <2>3, <3>3, <4>2, <4>3
    <3> QED
      BY <2>4, <3>1, <3>2, <3>3 DEF VaultOnItsWay
  <2>5. ASSUME conn # "off", VaultOnItsWay PROVE VaultOnItsWay'
    <3>1. CASE \E k \in 1..Len(queue) : queue[k].type = "vault_created"
      BY <1>4, <2>3, <2>5, <3>1 DEF VaultOnItsWay
    <3>2. CASE \E k \in 1..Len(outbox) : outbox[k].type = "vault_created"
      <4>1. PICK k \in 1..Len(outbox) : outbox[k].type = "vault_created"
        BY <3>2
      <4>2. CASE k = i
        BY <1>4, <2>3, <2>5, <4>1, <4>2 DEF VaultOnItsWay
      <4>3. CASE k # i
        BY <2>2, <4>1, <4>3 DEF VaultOnItsWay
      <4> QED
        BY <4>2, <4>3
    <3> QED
      BY <2>5, <3>1, <3>2 DEF VaultOnItsWay
  <2> QED
    BY <1>2, <2>4, <2>5 DEF IInv, VaultFollows, server
<1>8. ASSUME ~overtaken' PROVE Told' /\ PageFollows'
  <2>1. i = 1 /\ Told /\ PageFollows
    <3>1. ~overtaken /\ ~(i > 1)
      BY <1>2, <1>8, Zenon
    <3> QED
      BY <1>1, <3>1 DEF IInv
  <2>4. /\ CeremonyUntold' = CeremonyUntold
        /\ UNCHANGED <<ceremony, session, replied, last_verify>>
    BY <1>2 DEF CeremonyUntold, server
  <2>2. CASE conn # "off"
    <3>1. Pending' = Pending
      BY <1>1, <1>2, <2>1, <2>2, Handed DEF Pending
    <3>2. Told'
      BY <1>1, <2>1, <2>4, <3>1, NothingGone, ToldStays
    <3>3. PageFollows'
      BY <1>2, <2>1, <2>4, <3>1, PageStays
    <3> QED
      BY <3>2, <3>3
  <2>3. CASE conn = "off"
    <3>1. queue = << >> /\ queue' = << >>
      BY <1>1, <1>2, <2>3 DEF TypeOK
    <3>2. Pending = outbox /\ Pending' = outbox'
      BY <1>1, <1>3, <3>1, ConcatEmptySeq DEF Pending
    <3>3. Shrunk(1)
      BY <1>1, <1>3, <2>1, <3>2 DEF Shrunk
    <3>4. Told'
      BY <1>1, <2>1, <2>4, <3>3, ToldStays
    <3> QED
      BY <1>2, <2>3, <3>4 DEF PageFollows
  <2> QED
    BY <2>2, <2>3
<1> QED
  BY <1>5, <1>6, <1>7, <1>8 DEF IInv

\* Every step keeps the invariant.
LEMMA StepKeeps == IInv /\ [Next]_vars => IInv'
<1> SUFFICES ASSUME IInv, [Next]_vars PROVE IInv'
  OBVIOUS
<1>1. CASE Handler
  BY <1>1, InitiateCeremonyKeeps, DecideCeremonyKeeps, CreateVaultKeeps, CreateVaultUnsavedKeeps,
     RegisterTrusteeKeeps, StartRecoveryKeeps, ShardReplyKeeps, FinalizeRecoveryKeeps, VerifyRecoveryKeeps DEF Handler
<1>2. CASE \E i \in DOMAIN outbox : Broadcast(i)
  BY <1>2, BroadcastKeeps
<1>3. CASE Restart \/ Connect \/ Snapshot \/ FollowQueue \/ Receive \/ Disconnect \/ Reload
  BY <1>3, RestartKeeps, ConnectKeeps, SnapshotKeeps, FollowQueueKeeps, ReceiveKeeps,
     DisconnectKeeps, ReloadKeeps
<1>4. CASE UNCHANGED vars
  <2>1. /\ UNCHANGED <<ceremony, vault, saved, session, sessions, replied, last_verify>>
        /\ UNCHANGED <<outbox, overtaken, untold, conn, queue, shown>>
    BY <1>4 DEF vars, server, history, client
  <2>2. TypeOK' /\ SessionsFirst' /\ VaultFollows'
    BY <2>1 DEF IInv, TypeOK, SessionsFirst, VaultFollows, VaultOnItsWay
  <2>3. Pending' = Pending /\ CeremonyUntold' = CeremonyUntold
    BY <2>1 DEF Pending, CeremonyUntold
  <2>4. ASSUME ~overtaken PROVE Told' /\ PageFollows'
    <3>1. TypeOK /\ Told /\ PageFollows
      BY <2>4 DEF IInv
    <3>2. Told'
      BY <2>1, <2>3, <3>1, NothingGone, ToldStays
    <3>3. PageFollows'
      BY <2>1, <2>3, <3>1, PageStays
    <3> QED
      BY <3>2, <3>3
  <2> QED
    BY <2>1, <2>2, <2>4 DEF IInv
<1> QED
  BY <1>1, <1>2, <1>3, <1>4 DEF Next

-----------------------------------------------------------------------------
(* Theorems *)

\* What is still to reach the page makes it agree with the combiner, whichever of the
\* handlers' threads, the stream and the page runs next (app.py:967-988).
THEOREM DashboardInvariant == Spec => []IInv
BY InitFine, StepKeeps, PTL DEF Spec

\* Type correctness.
THEOREM TypeCorrect == Spec => []TypeOK
<1>1. IInv => TypeOK
  BY DEF IInv
<1> QED
  BY <1>1, DashboardInvariant, PTL

\* A dashboard with nothing on its way shows the combiner's vault and, unless a
\* broadcast overtook an older one, its ceremony, its replies and the verification of
\* this session, but for the vault and the ceremony of a save that raised
\* (app.py:526-543, 967-988; dashboard.js:262-277, 291-335).
THEOREM SettledDashboardIsTruthful == Spec => []SettledIsTruthful
<1>1. IInv => SettledIsTruthful
  <2> SUFFICES ASSUME IInv, Settled
               PROVE  /\ "vault" \notin untold => shown.vault = vault
                      /\ ~overtaken =>
                            /\ "ceremony" \notin untold => shown.ceremony = ceremony
                            /\ shown.recovery = IF session = 0 THEN None ELSE replied
                            /\ shown.lastVerify \in {last_verify}
                                  \cup (IF last_verify = session THEN {} ELSE {None})
    BY DEF SettledIsTruthful
  <2>1. conn = "open" /\ Len(queue) = 0 /\ Len(outbox) = 0
    BY DEF Settled
  <2>2. "vault" \notin untold => shown.vault = vault
    BY <2>1 DEF IInv, TypeOK, VaultFollows, VaultOnItsWay
  <2>3. Len(Pending) = 0
    BY <2>1, PendingShape DEF IInv
  <2>4. \A types : Of(types) = {}
    BY <2>3 DEF Of, Places
  <2>5. Starts = {} /\ Shards = {} /\ Verifications = {}
    BY <2>4 DEF Starts, Shards, Verifications
  <2>6. ASSUME ~overtaken
        PROVE  /\ "ceremony" \notin untold => shown.ceremony = ceremony
               /\ shown.recovery = IF session = 0 THEN None ELSE replied
               /\ shown.lastVerify \in {last_verify}
                     \cup (IF last_verify = session THEN {} ELSE {None})
    <3>1. (CeremonyUntold \/ CeremonyShown) /\ RepliesShown /\ VerificationShown
      BY <2>1, <2>6 DEF IInv, PageFollows
    <3>2. "ceremony" \notin untold => shown.ceremony = ceremony
      BY <2>4, <3>1 DEF CeremonyShown, CeremonyUntold
    <3>3. shown.recovery = IF session = 0 THEN None ELSE replied
      BY <2>5, <3>1 DEF RepliesShown
    <3>4. shown.lastVerify \in {last_verify} \cup (IF last_verify = session THEN {} ELSE {None})
      BY <2>5, <3>1 DEF VerificationShown
    <3> QED
      BY <3>2, <3>3, <3>4
  <2> QED
    BY <2>2, <2>6
<1> QED
  BY <1>1, DashboardInvariant, PTL
=============================================================================
