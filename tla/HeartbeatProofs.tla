-------------------------- MODULE HeartbeatProofs ---------------------------
(***************************************************************************)
(* A dashboard's cards agree with the combiner, for every set of trustees, *)
(* every timeout and every length of the queue of events, as long as no    *)
(* event of a trustee overtakes an older one of the same trustee and its   *)
(* registrations are saved.                                                *)
(***************************************************************************)
EXTENDS Heartbeat, FiniteSetTheorems, FunctionTheorems, SequenceTheorems, TLAPS

-----------------------------------------------------------------------------
(* Queues from which any element may leave *)

\* What is left of a queue without its i-th element.
LEMMA Removed ==
    ASSUME NEW S, NEW s \in Seq(S), NEW i \in 1..Len(s)
    PROVE  /\ RemoveAt(s, i) \in Seq(S)
           /\ Len(RemoveAt(s, i)) = Len(s) - 1
           /\ \A j \in 1..Len(s) - 1 : RemoveAt(s, i)[j] = IF j < i THEN s[j] ELSE s[j + 1]
<1> DEFINE before == SubSeq(s, 1, i - 1)
           after == SubSeq(s, i + 1, Len(s))
<1>1. Len(s) \in Nat /\ i \in Int /\ \A j \in 1..Len(s) : s[j] \in S
  OBVIOUS
<1>2. /\ before \in Seq(S) /\ Len(before) = i - 1
      /\ \A j \in 1..i - 1 : before[j] = s[j]
  <2>1. \A j \in 1..i - 1 : s[j] \in S
    BY <1>1
  <2> QED
    BY <1>1, <2>1, SubSeqProperties
<1>3. /\ after \in Seq(S) /\ Len(after) = Len(s) - i
      /\ \A j \in 1..Len(s) - i : after[j] = s[i + j]
  <2>1. \A j \in i + 1..Len(s) : s[j] \in S
    BY <1>1
  <2> QED
    BY <1>1, <2>1, SubSeqProperties
<1>6. RemoveAt(s, i) = before \o after
  BY DEF RemoveAt
<1> HIDE DEF before, after
<1>4. /\ before \o after \in Seq(S)
      /\ Len(before \o after) = Len(s) - 1
      /\ \A j \in 1..Len(s) - 1 : (before \o after)[j] = IF j <= i - 1 THEN before[j] ELSE after[j - (i - 1)]
  <2>1. /\ before \o after \in Seq(S)
        /\ Len(before \o after) = Len(before) + Len(after)
        /\ \A j \in 1..Len(before) + Len(after) :
              (before \o after)[j] = IF j <= Len(before) THEN before[j] ELSE after[j - Len(before)]
    BY <1>2, <1>3, ConcatProperties
  <2>2. Len(before) = i - 1 /\ Len(before) + Len(after) = Len(s) - 1
    BY <1>1, <1>2, <1>3
  <2> QED
    BY <2>1, <2>2
<1>5. ASSUME NEW j \in 1..Len(s) - 1
      PROVE  (before \o after)[j] = IF j < i THEN s[j] ELSE s[j + 1]
  <2>1. CASE j < i
    BY <2>1, <1>1, <1>2, <1>4
  <2>2. CASE ~(j < i)
    <3>1. j - (i - 1) \in 1..Len(s) - i /\ ~(j <= i - 1) /\ i + (j - (i - 1)) = j + 1
      BY <2>2, <1>1
    <3> QED
      BY <2>2, <3>1, <1>3, <1>4
  <2> QED
    BY <2>1, <2>2
<1> QED
  BY <1>4, <1>5, <1>6

-----------------------------------------------------------------------------
(* The invariant *)

Places == 1..Len(outbox)

EventsOf(t) == {i \in Places : outbox[i].sub = t}

\* Only registered trustees are told of.
EventsAreOfRegistered == \A i \in Places : outbox[i].sub \in directory

\* The events of t come in order and tell of every change of its status.
Followed(t) == ~astray[t] /\ ~untold[t]

\* The last event of a trustee on its way says what the combiner has.
LastIsTrue(t) ==
    Followed(t) => \A i \in EventsOf(t) : outbox[i].status = status[t] \/ \E j \in EventsOf(t) : j > i

\* With nothing of it on its way a card is true; a registered trustee without a card
\* is about to get one.
CardFollows(t) ==
    connected /\ Followed(t) =>
        /\ EventsOf(t) = {} => cards[t] = Snapshot[t]
        /\ t \in directory /\ cards[t] = None =>
              \E i \in EventsOf(t) : outbox[i].type = "trustee_registered"

\* The inductive invariant.
IInv ==
    /\ TypeOK
    /\ EventsAreOfRegistered
    /\ \A t \in Trustees : LastIsTrue(t) /\ CardFollows(t)

-----------------------------------------------------------------------------
(* Lemmas *)

LEMMA NoneIsNothing ==
    /\ None \notin Nat /\ None \notin Statuses /\ None # "live" /\ None # "paused"
    /\ Timeout \in Nat /\ 0 \in 0..Timeout + 1
    /\ "live" \in Statuses /\ "paused" \in Statuses
BY HeartbeatAssumption DEF Statuses

\* Where the events are and what they are.
LEMMA EventShape ==
    ASSUME IInv
    PROVE  /\ Len(outbox) \in Nat /\ outbox \in [Places -> Events] /\ DOMAIN outbox = Places
           /\ \A i \in Places : outbox[i] \in Events /\ outbox[i].sub \in directory
           /\ \A t \in Trustees : EventsOf(t) \subseteq Nat
BY DEF IInv, TypeOK, Places, EventsOf, EventsAreOfRegistered

\* A registered trustee that is told of nothing has a card on an open dashboard.
LEMMA CardIsThere ==
    ASSUME IInv, NEW t \in directory, connected, Followed(t), EventsOf(t) = {}
    PROVE  cards[t] # None /\ cards[t] = status[t]
BY NoneIsNothing DEF IInv, TypeOK, CardFollows, Snapshot

\* What says nothing of the directory, the statuses, the events and the cards.
LEMMA RestStays ==
    ASSUME IInv, UNCHANGED <<directory, status, outbox, astray, untold, connected, cards>>
    PROVE  EventsAreOfRegistered' /\ \A t \in Trustees : LastIsTrue(t)' /\ CardFollows(t)'
BY DEF IInv, EventsAreOfRegistered, LastIsTrue, CardFollows, Followed, EventsOf, Places, Snapshot

LEMMA InitFine == Init => IInv
<1> SUFFICES ASSUME Init PROVE IInv
  OBVIOUS
<1>1. TypeOK
  <2>1. << >> \in Seq(Events)
    OBVIOUS
  <2> QED
    BY <2>1, NoneIsNothing DEF Init, TypeOK, Unheard, AllLive, Nobody
<1>2. Places = {} /\ \A t : EventsOf(t) = {}
  BY DEF Init, Places, EventsOf
<1> QED
  BY <1>1, <1>2 DEF Init, IInv, EventsAreOfRegistered, LastIsTrue, CardFollows

-----------------------------------------------------------------------------
(* Steps that neither send nor broadcast an event *)

LEMMA PollKeeps == ASSUME IInv, NEW t \in Trustees, Poll(t) PROVE IInv'
<1>1. polled' \in [Trustees -> BOOLEAN]
  BY DEF IInv, TypeOK, Poll
<1>2. age' \in [Trustees -> 0..Timeout + 1 \cup {None}]
  BY NoneIsNothing DEF IInv, TypeOK, Poll, Noted
<1>3. TypeOK'
  BY <1>1, <1>2 DEF IInv, TypeOK, Poll, history, page
<1> QED
  BY <1>3, RestStays DEF Poll, history, page, IInv

LEMMA FallSilentKeeps == ASSUME IInv, NEW t \in Trustees, FallSilent(t) PROVE IInv'
<1>1. TypeOK'
  BY DEF IInv, TypeOK, FallSilent, combiner, history, page
<1> QED
  BY <1>1, RestStays DEF FallSilent, combiner, history, page, IInv

LEMMA UnpauseKeeps == ASSUME IInv, NEW t \in Trustees, Unpause(t) PROVE IInv'
<1>1. TypeOK'
  BY DEF IInv, TypeOK, Unpause, combiner, history, page
<1> QED
  BY <1>1, RestStays DEF Unpause, combiner, history, page, IInv

LEMMA TickKeeps == ASSUME IInv, Tick PROVE IInv'
<1>1. \A t \in Trustees : age[t] \in Nat /\ ~(age[t] > Timeout) => age[t] + 1 \in 0..Timeout + 1
  BY NoneIsNothing
<1>2. age' \in [Trustees -> 0..Timeout + 1 \cup {None}]
  BY <1>1, NoneIsNothing DEF IInv, TypeOK, Tick
<1>3. TypeOK'
  BY <1>2 DEF IInv, TypeOK, Tick, history, page
<1> QED
  BY <1>3, RestStays DEF Tick, history, page, IInv

LEMMA CombinerStartsKeeps == ASSUME IInv, CombinerStarts PROVE IInv'
<1>1. TypeOK'
  BY DEF IInv, TypeOK, CombinerStarts, trustee, history, page
<1> QED
  BY <1>1, RestStays DEF CombinerStarts, history, page, IInv

LEMMA VaultSavedKeeps == ASSUME IInv, VaultSaved PROVE IInv'
<1>1. TypeOK'
  BY DEF IInv, TypeOK, VaultSaved, trustee, history, page
<1> QED
  BY <1>1, RestStays DEF VaultSaved, history, page, IInv

LEMMA CombinerDiesKeeps == ASSUME IInv, CombinerDies PROVE IInv'
<1>1. TypeOK'
  <2>1. << >> \in Seq(Events)
    OBVIOUS
  <2> QED
    BY <2>1, NoneIsNothing DEF IInv, TypeOK, CombinerDies, trustee, Unheard, AllLive, Nobody
<1>2. Places' = {} /\ \A t : EventsOf(t)' = {}
  BY DEF CombinerDies, Places, EventsOf
<1> QED
  BY <1>1, <1>2 DEF CombinerDies, IInv, EventsAreOfRegistered, LastIsTrue, CardFollows

\* A dashboard that closes shows nobody anything.
LEMMA DisconnectKeeps == ASSUME IInv, Disconnect PROVE IInv'
<1>1. TypeOK'
  BY DEF IInv, TypeOK, Disconnect, trustee, combiner, history
<1>2. Places' = Places /\ \A t : EventsOf(t)' = EventsOf(t)
  BY DEF Disconnect, Places, EventsOf
<1> QED
  BY <1>1, <1>2 DEF Disconnect, combiner, history, IInv, EventsAreOfRegistered, LastIsTrue, CardFollows,
                    Followed

\* A snapshot makes every card true.
LEMMA ConnectKeeps == ASSUME IInv, Connect PROVE IInv'
<1>1. TypeOK'
  BY NoneIsNothing DEF IInv, TypeOK, Connect, trustee, combiner, Repainted, Snapshot, Statuses
<1>2. Places' = Places /\ outbox' = outbox /\ directory' = directory /\ status' = status
  BY DEF Connect, Places, combiner
<1>3. \A t : EventsOf(t)' = EventsOf(t)
  BY <1>2 DEF EventsOf
<1>4. EventsAreOfRegistered'
  BY <1>2 DEF IInv, EventsAreOfRegistered
<1>5. ASSUME NEW t \in Trustees PROVE LastIsTrue(t)' /\ CardFollows(t)'
  <2>1. cards'[t] = Snapshot[t] /\ Snapshot' = Snapshot
    BY <1>2 DEF Connect, Repainted, Snapshot
  <2>2. t \in directory => cards'[t] # None
    BY <2>1, NoneIsNothing DEF Snapshot, IInv, TypeOK
  <2>3. CardFollows(t)'
    BY <1>2, <2>1, <2>2 DEF CardFollows
  <2>4. Followed(t)' => Followed(t) \/ EventsOf(t) = {}
    BY EventShape DEF Connect, OnItsWay, Followed, EventsOf, IInv, TypeOK
  <2>5. LastIsTrue(t)'
    BY <1>2, <1>3, <2>4 DEF IInv, LastIsTrue
  <2> QED
    BY <2>3, <2>5
<1> QED
  BY <1>1, <1>4, <1>5 DEF IInv

-----------------------------------------------------------------------------
(* Steps that send events *)

\* Events that follow those on their way.
LEMMA Added ==
    ASSUME IInv, NEW new \in Seq(Events), outbox' = outbox \o new
    PROVE  /\ outbox' \in Seq(Events) /\ Places \subseteq Places'
           /\ \A i \in Places : outbox'[i] = outbox[i]
           /\ \A i \in Places' : i \notin Places => \E k \in 1..Len(new) : i = Len(outbox) + k /\ outbox'[i] = new[k]
           /\ \A k \in 1..Len(new) : /\ Len(outbox) + k \in Places'
                                     /\ outbox'[Len(outbox) + k] = new[k]
                                     /\ \A i \in Places : i < Len(outbox) + k
<1>1. outbox \in Seq(Events) /\ Len(outbox) \in Nat /\ Len(new) \in Nat
  BY DEF IInv, TypeOK
<1>2. /\ outbox' \in Seq(Events) /\ Len(outbox') = Len(outbox) + Len(new)
      /\ \A i \in 1..Len(outbox) + Len(new) : outbox'[i] = IF i <= Len(outbox) THEN outbox[i] ELSE new[i - Len(outbox)]
  BY <1>1, ConcatProperties
<1>3. ASSUME NEW i \in Places', i \notin Places
      PROVE  \E k \in 1..Len(new) : i = Len(outbox) + k /\ outbox'[i] = new[k]
  <2>1. i - Len(outbox) \in 1..Len(new) /\ i = Len(outbox) + (i - Len(outbox)) /\ ~(i <= Len(outbox))
    BY <1>1, <1>2, <1>3 DEF Places
  <2> QED
    BY <1>2, <2>1
<1>4. ASSUME NEW k \in 1..Len(new)
      PROVE  /\ Len(outbox) + k \in Places' /\ outbox'[Len(outbox) + k] = new[k]
             /\ \A i \in Places : i < Len(outbox) + k
  <2>1. Len(outbox) + k \in 1..Len(outbox) + Len(new) /\ ~(Len(outbox) + k <= Len(outbox))
        /\ (Len(outbox) + k) - Len(outbox) = k
    BY <1>1
  <2> QED
    BY <1>1, <1>2, <2>1 DEF Places
<1>5. Places \subseteq Places' /\ \A i \in Places : outbox'[i] = outbox[i]
  BY <1>1, <1>2 DEF Places
<1> QED
  BY <1>2, <1>3, <1>4, <1>5

\* A sequence of all of a finite set leaves nobody out.
LEMMA AllAreNamed ==
    ASSUME NEW S, IsFiniteSet(S), NEW names \in SetToSeqs(S)
    PROVE  /\ names \in Seq(S) /\ DOMAIN names = 1..Len(names) /\ Len(names) \in Nat
           /\ \A x \in S : \E i \in 1..Len(names) : names[i] = x
<1>1. Cardinality(S) \in Nat
  BY FS_CardinalityType
<1>2. names \in [1..Cardinality(S) -> S] /\ \A i, j \in 1..Cardinality(S) : i # j => names[i] # names[j]
  BY DEF SetToSeqs
<1>3. names \in Seq(S) /\ Len(names) = Cardinality(S)
  BY <1>1, <1>2
<1>4. names \in Injection(1..Cardinality(S), S)
  BY <1>2 DEF Injection, IsInjective
<1>5. IsFiniteSet(1..Cardinality(S)) /\ Cardinality(1..Cardinality(S)) = Cardinality(S)
  BY <1>1, FS_Interval
<1>6. names \in Surjection(1..Cardinality(S), S)
  BY <1>4, <1>5, FS_Injection
<1> QED
  BY <1>1, <1>3, <1>6 DEF Surjection

\* A trustee that is told of nothing new, and of whom the combiner thinks as before.
LEMMA OthersStay ==
    ASSUME IInv, NEW new \in Seq(Events), outbox' = outbox \o new,
           NEW t \in Trustees, \A k \in 1..Len(new) : new[k].sub # t,
           status'[t] = status[t], t \in directory' <=> t \in directory,
           astray'[t] = astray[t], untold'[t] = untold[t],
           connected' = connected, cards'[t] = cards[t]
    PROVE  LastIsTrue(t)' /\ CardFollows(t)'
<1>1. EventsOf(t)' = EventsOf(t) /\ \A i \in EventsOf(t) : outbox'[i] = outbox[i]
  <2>1. Places \subseteq Places' /\ \A i \in Places : outbox'[i] = outbox[i]
    BY Added
  <2>2. ASSUME NEW i \in Places', i \notin Places PROVE outbox'[i].sub # t
    <3>1. PICK k \in 1..Len(new) : outbox'[i] = new[k]
      BY <2>2, Added
    <3> QED
      BY <3>1
  <2>3. \A i : i \in EventsOf(t) <=> i \in EventsOf(t)'
    BY <2>1, <2>2 DEF EventsOf
  <2>4. EventsOf(t)' = EventsOf(t)
    BY <2>3
  <2> QED
    BY <2>1, <2>4 DEF EventsOf
<1>2. Snapshot'[t] = Snapshot[t] /\ (Followed(t)' <=> Followed(t))
  BY DEF Snapshot, Followed
<1>3. LastIsTrue(t)'
  BY <1>1, <1>2 DEF IInv, LastIsTrue
<1>4. CardFollows(t)'
  BY <1>1, <1>2 DEF IInv, CardFollows
<1> QED
  BY <1>3, <1>4

\* A trustee whose registration is saved is about to get a card.
LEMMA RegisterKeeps == ASSUME IInv, NEW t \in Trustees, Register(t) PROVE IInv'
<1> DEFINE e == [type |-> "trustee_registered", sub |-> t, status |-> "live"]
           new == << e >>
           n == Len(outbox) + 1
<1>1. e \in Events /\ new \in Seq(Events) /\ Len(new) = 1 /\ new[1] = e
  BY DEF Events, Statuses
<1>2. outbox' = outbox \o new
  BY DEF Register, IInv, TypeOK
<1>3. status' = [status EXCEPT ![t] = "live"] /\ directory' = directory \cup {t}
      /\ saved' = directory' /\ untold' = [untold EXCEPT ![t] = FALSE]
      /\ UNCHANGED <<serving, astray, connected, cards>>
  BY DEF Register, Enter, page
<1>4. /\ outbox' \in Seq(Events) /\ n \in Places' /\ outbox'[n] = e
      /\ Places' = Places \cup {n}
      /\ \A i \in Places : outbox'[i] = outbox[i] /\ i < n
  <2>1. 1 \in 1..Len(new) /\ \A k \in 1..Len(new) : k = 1
    BY <1>1
  <2> HIDE DEF new, e
  <2>2. /\ outbox' \in Seq(Events) /\ Places \subseteq Places'
        /\ \A i \in Places : outbox'[i] = outbox[i]
        /\ \A i \in Places' : i \notin Places => \E k \in 1..Len(new) : i = Len(outbox) + k
    BY <1>1, <1>2, Added
  <2>3. n \in Places' /\ outbox'[n] = e /\ \A i \in Places : i < n
    BY <1>1, <1>2, <2>1, Added
  <2> QED
    BY <2>1, <2>2, <2>3
<1>5. TypeOK'
  <2>1. at' \in [Trustees -> {"down", "polling", "paused"}] /\ polled' \in [Trustees -> BOOLEAN]
    BY DEF IInv, TypeOK, Register, trustee
  <2>2. age' \in [Trustees -> 0..Timeout + 1 \cup {None}] /\ status' \in [Trustees -> Statuses]
    BY <1>3, NoneIsNothing DEF IInv, TypeOK, Register, Enter
  <2> QED
    BY <1>3, <1>4, <2>1, <2>2 DEF IInv, TypeOK
<1>6. EventsAreOfRegistered'
  BY <1>3, <1>4 DEF IInv, EventsAreOfRegistered
<1>7. ASSUME NEW u \in Trustees, u # t PROVE LastIsTrue(u)' /\ CardFollows(u)'
  <2>1. \A k \in 1..Len(new) : new[k].sub # u
    BY <1>1, <1>7
  <2>2. status'[u] = status[u] /\ untold'[u] = untold[u] /\ (u \in directory' <=> u \in directory)
    BY <1>3, <1>7 DEF IInv, TypeOK
  <2> QED
    BY <1>1, <1>2, <1>3, <2>1, <2>2, OthersStay
<1>8. EventsOf(t)' = EventsOf(t) \cup {n} /\ n \notin EventsOf(t)
  <2>1. n \notin Places
    BY <1>4, EventShape
  <2> QED
    BY <1>4, <2>1 DEF EventsOf
<1>9. LastIsTrue(t)'
  <2>1. status'[t] = "live" /\ outbox'[n].status = "live"
    BY <1>3, <1>4 DEF IInv, TypeOK
  <2>2. \A i \in EventsOf(t) : i \in Places /\ n > i
    BY <1>4, EventShape DEF EventsOf
  <2> QED
    BY <1>8, <2>1, <2>2 DEF LastIsTrue
<1>10. CardFollows(t)'
  BY <1>4, <1>8 DEF CardFollows
<1> QED
  BY <1>5, <1>6, <1>7, <1>9, <1>10 DEF IInv

\* Of a trustee whose registration raised in its save nothing is claimed.
LEMMA RegisterUnsavedKeeps == ASSUME IInv, NEW t \in Trustees, RegisterUnsaved(t) PROVE IInv'
<1>1. /\ directory' = directory \cup {t} /\ age' = [age EXCEPT ![t] = 0]
      /\ status' = [status EXCEPT ![t] = "live"] /\ untold' = [untold EXCEPT ![t] = TRUE]
      /\ UNCHANGED <<at, polled, serving, saved, outbox, astray, connected, cards>>
  BY DEF RegisterUnsaved, Enter, trustee, page
<1>2. TypeOK'
  <2>1. age' \in [Trustees -> 0..Timeout + 1 \cup {None}] /\ status' \in [Trustees -> Statuses]
    BY <1>1, NoneIsNothing DEF IInv, TypeOK
  <2> QED
    BY <1>1, <2>1 DEF IInv, TypeOK
<1>3. Places' = Places /\ \A u : EventsOf(u)' = EventsOf(u)
  BY <1>1 DEF Places, EventsOf
<1>4. EventsAreOfRegistered'
  BY <1>1, <1>3 DEF IInv, EventsAreOfRegistered
<1>5. ~Followed(t)'
  BY <1>1 DEF Followed, IInv, TypeOK
<1>6. ASSUME NEW u \in Trustees, u # t PROVE LastIsTrue(u)' /\ CardFollows(u)'
  <2>1. /\ status'[u] = status[u] /\ (u \in directory' <=> u \in directory)
        /\ Snapshot'[u] = Snapshot[u] /\ (Followed(u)' <=> Followed(u))
    BY <1>1, <1>6 DEF IInv, TypeOK, Snapshot, Followed
  <2> QED
    BY <1>1, <1>3, <2>1 DEF IInv, LastIsTrue, CardFollows
<1> QED
  BY <1>2, <1>4, <1>5, <1>6 DEF IInv, LastIsTrue, CardFollows

\* A sweep tells of every transition it makes.
LEMMA ScanKeeps == ASSUME IInv, Scan PROVE IInv'
<1>1. PICK names \in SetToSeqs(Transitions) :
        outbox' = outbox \o [i \in DOMAIN names |->
            [type |-> "trustee_status", sub |-> names[i], status |-> Verdict(names[i])]]
  BY DEF Scan
<1> DEFINE new == [i \in DOMAIN names |->
                     [type |-> "trustee_status", sub |-> names[i], status |-> Verdict(names[i])]]
<1>2. Transitions \in SUBSET Trustees /\ IsFiniteSet(Transitions)
  BY HeartbeatAssumption, FS_Subset DEF Transitions, IInv, TypeOK
<1>3. /\ names \in Seq(Transitions) /\ DOMAIN names = 1..Len(names) /\ Len(names) \in Nat
      /\ \A t \in Transitions : \E k \in 1..Len(names) : names[k] = t
  BY <1>1, <1>2, AllAreNamed
<1>4. \A k \in 1..Len(names) : names[k] \in Transitions /\ new[k] \in Events
  BY <1>2, <1>3 DEF Events, Verdict, Statuses
<1>5. /\ new \in Seq(Events) /\ Len(new) = Len(names)
      /\ \A k \in 1..Len(new) : new[k].sub = names[k] /\ new[k].status = Verdict(names[k])
  BY <1>3, <1>4
<1>6. outbox' = outbox \o new
  BY <1>1
<1> HIDE DEF new
<1>7. /\ status' = StatusAfterScan
      /\ UNCHANGED <<at, polled, serving, directory, saved, age, astray, untold, connected, cards>>
  BY DEF Scan, trustee, history, page
<1>8. TypeOK'
  <2>1. status' \in [Trustees -> Statuses]
    BY <1>7, NoneIsNothing DEF StatusAfterScan, Verdict, IInv, TypeOK
  <2>2. outbox' \in Seq(Events)
    BY <1>5, <1>6, Added
  <2> QED
    BY <1>7, <2>1, <2>2 DEF IInv, TypeOK
<1>9. EventsAreOfRegistered'
  <2> SUFFICES ASSUME NEW i \in Places' PROVE outbox'[i].sub \in directory
    BY <1>7 DEF EventsAreOfRegistered
  <2>1. CASE i \in Places
    BY <2>1, <1>5, <1>6, Added DEF IInv, EventsAreOfRegistered
  <2>2. CASE i \notin Places
    <3>1. PICK k \in 1..Len(new) : outbox'[i] = new[k]
      BY <2>2, <1>5, <1>6, Added
    <3> QED
      BY <3>1, <1>4, <1>5 DEF Transitions
  <2> QED
    BY <2>1, <2>2
<1>10. ASSUME NEW t \in Trustees, t \notin Transitions PROVE LastIsTrue(t)' /\ CardFollows(t)'
  <2>1. \A k \in 1..Len(new) : new[k].sub # t
    BY <1>4, <1>5, <1>10
  <2>2. status'[t] = status[t]
    BY <1>7, <1>10 DEF StatusAfterScan
  <2> QED
    BY <1>5, <1>6, <1>7, <2>1, <2>2, OthersStay
<1>11. ASSUME NEW t \in Transitions PROVE LastIsTrue(t)' /\ CardFollows(t)'
  <2>1. t \in Trustees /\ t \in directory /\ status'[t] = Verdict(t)
    BY <1>2, <1>7, <1>11 DEF StatusAfterScan, Transitions
  <2>2. PICK k \in 1..Len(new) : new[k].sub = t
    BY <1>3, <1>5, <1>11
  <2>3. /\ Len(outbox) + k \in EventsOf(t)'
        /\ \A i \in Places : i < Len(outbox) + k
    BY <1>5, <1>6, <2>2, Added DEF EventsOf
  <2>4. \A i \in Places : i \in Places' /\ outbox'[i] = outbox[i]
    BY <1>5, <1>6, Added
  <2>5. ASSUME NEW i \in EventsOf(t)', i \notin Places
        PROVE  outbox'[i].status = Verdict(t) /\ \A j \in Places : j <= i
    <3>1. i \in Places' /\ outbox'[i].sub = t
      BY <2>5 DEF EventsOf
    <3>2. PICK l \in 1..Len(new) : i = Len(outbox) + l /\ outbox'[i] = new[l]
      BY <1>5, <1>6, <2>5, <3>1, Added
    <3>3. new[l].status = Verdict(t)
      BY <1>5, <3>1, <3>2
    <3>4. \A j \in Places : j < Len(outbox) + l
      BY <1>5, <1>6, Added
    <3>5. \A j \in Places : j \in Nat /\ Len(outbox) + l \in Nat
      BY <1>5, EventShape DEF Places
    <3> QED
      BY <3>2, <3>3, <3>4, <3>5
  <2>6. LastIsTrue(t)'
    <3> SUFFICES ASSUME NEW i \in EventsOf(t)'
                 PROVE  outbox'[i].status = status'[t] \/ \E j \in EventsOf(t)' : j > i
      BY DEF LastIsTrue
    <3>1. CASE i \in Places
      BY <3>1, <2>3
    <3>2. CASE i \notin Places
      BY <3>2, <2>1, <2>5
    <3> QED
      BY <3>1, <3>2
  <2>7. CardFollows(t)'
    <3> SUFFICES ASSUME connected, Followed(t), cards[t] = None
                 PROVE  \E i \in EventsOf(t)' : outbox'[i].type = "trustee_registered"
      BY <1>7, <2>3 DEF CardFollows, Followed
    <3>1. EventsOf(t) # {}
      BY <2>1, CardIsThere
    <3>2. PICK i \in EventsOf(t) : outbox[i].type = "trustee_registered"
      BY <2>1 DEF IInv, CardFollows
    <3> QED
      BY <3>2, <2>4 DEF EventsOf
  <2> QED
    BY <2>6, <2>7
<1> QED
  BY <1>8, <1>9, <1>10, <1>11 DEF IInv

-----------------------------------------------------------------------------
(* A broadcast *)

\* Where the event at place k was before the one at place i left.
Was(k, i) == IF k < i THEN k ELSE k + 1

\* The events of a trustee stay in order and only one leaves.
LEMMA Shifted ==
    ASSUME IInv, NEW i \in Places, outbox' = RemoveAt(outbox, i), NEW t
    PROVE  /\ outbox' \in Seq(Events)
           /\ \A k \in Places' : Was(k, i) \in Places /\ Was(k, i) # i /\ outbox'[k] = outbox[Was(k, i)]
           /\ \A k \in EventsOf(t)' : Was(k, i) \in EventsOf(t) /\ Was(k, i) # i
           /\ \A j \in EventsOf(t) : j # i => \E k \in EventsOf(t)' : Was(k, i) = j
           /\ \A k, l \in Places' : Was(k, i) < Was(l, i) <=> k < l
<1>1. outbox \in Seq(Events) /\ Len(outbox) \in Nat /\ i \in 1..Len(outbox)
  BY DEF IInv, TypeOK, Places
<1>2. /\ outbox' \in Seq(Events) /\ Len(outbox') = Len(outbox) - 1
      /\ \A j \in 1..Len(outbox) - 1 : outbox'[j] = IF j < i THEN outbox[j] ELSE outbox[j + 1]
  BY <1>1, Removed
<1>3. ASSUME NEW k \in Places'
      PROVE  Was(k, i) \in Places /\ Was(k, i) # i /\ outbox'[k] = outbox[Was(k, i)]
  BY <1>1, <1>2 DEF Places, Was
<1>4. ASSUME NEW k \in EventsOf(t)' PROVE Was(k, i) \in EventsOf(t) /\ Was(k, i) # i
  BY <1>3 DEF EventsOf
<1>5. ASSUME NEW j \in EventsOf(t), j # i PROVE \E k \in EventsOf(t)' : Was(k, i) = j
  <2> DEFINE k == IF j < i THEN j ELSE j - 1
  <2>1. j \in 1..Len(outbox) /\ outbox[j].sub = t
    BY DEF EventsOf, Places
  <2>2. k \in Places' /\ Was(k, i) = j
    BY <1>1, <1>2, <1>5, <2>1 DEF Places, Was
  <2>3. k \in EventsOf(t)'
    BY <1>3, <2>1, <2>2 DEF EventsOf
  <2> QED
    BY <2>2, <2>3
<1>6. \A k, l \in Places' : Was(k, i) < Was(l, i) <=> k < l
  BY <1>1, <1>2 DEF Places, Was
<1> QED
  BY <1>2, <1>3, <1>4, <1>5, <1>6

\* As long as the first event of a trustee goes first, the last one stays the last.
LEMMA LastStays ==
    ASSUME IInv, NEW i \in Places, outbox' = RemoveAt(outbox, i), NEW t \in Trustees,
           status' = status,
           Followed(t)' => Followed(t) /\ (i \in EventsOf(t) => \A j \in EventsOf(t) : i <= j)
    PROVE  LastIsTrue(t)'
<1> SUFFICES ASSUME Followed(t), NEW k \in EventsOf(t)',
                    i \in EventsOf(t) => \A j \in EventsOf(t) : i <= j
             PROVE  outbox'[k].status = status[t] \/ \E l \in EventsOf(t)' : l > k
  BY DEF LastIsTrue
<1>1. /\ Was(k, i) \in EventsOf(t) /\ Was(k, i) # i /\ k \in Places'
      /\ outbox'[k] = outbox[Was(k, i)]
  BY Shifted DEF EventsOf
<1>2. CASE outbox[Was(k, i)].status = status[t]
  BY <1>1, <1>2
<1>3. CASE \E j \in EventsOf(t) : j > Was(k, i)
  <2>1. PICK j \in EventsOf(t) : j > Was(k, i)
    BY <1>3
  <2>2. j # i
    <3>1. i \in Nat /\ j \in Nat /\ Was(k, i) \in Nat
      BY <1>1, <2>1, EventShape DEF Places, EventsOf
    <3>2. CASE i \in EventsOf(t)
      BY <1>1, <2>1, <3>1, <3>2
    <3>3. CASE i \notin EventsOf(t)
      BY <3>3
    <3> QED
      BY <3>2, <3>3
  <2>3. PICK l \in EventsOf(t)' : Was(l, i) = j
    BY <2>1, <2>2, Shifted
  <2>4. l \in Places' /\ Was(k, i) < Was(l, i)
    BY <2>1, <2>3, <1>1, EventShape DEF EventsOf, Places
  <2>5. k < l
    BY <1>1, <2>4, Shifted
  <2>6. k \in Nat /\ l \in Nat
    BY <1>1, <2>4 DEF Places
  <2> QED
    BY <2>3, <2>5, <2>6
<1> QED
  BY <1>1, <1>2, <1>3 DEF IInv, LastIsTrue

\* What is shown of the others, and what they are about to be told, stays.
LEMMA OtherCardsStay ==
    ASSUME IInv, NEW i \in Places, outbox' = RemoveAt(outbox, i), NEW t \in Trustees, outbox[i].sub # t,
           UNCHANGED <<directory, status, connected>>, Followed(t)' <=> Followed(t), cards'[t] = cards[t]
    PROVE  CardFollows(t)'
<1>1. i \notin EventsOf(t) /\ Snapshot' = Snapshot
  BY DEF EventsOf, Snapshot
<1>2. CASE connected /\ Followed(t)
  <2>1. EventsOf(t)' = {} => EventsOf(t) = {}
    BY <1>1, Shifted
  <2>2. ASSUME t \in directory, cards[t] = None
        PROVE  \E k \in EventsOf(t)' : outbox'[k].type = "trustee_registered"
    <3>1. PICK j \in EventsOf(t) : outbox[j].type = "trustee_registered"
      BY <1>2, <2>2 DEF IInv, CardFollows
    <3>2. PICK k \in EventsOf(t)' : Was(k, i) = j
      BY <1>1, <3>1, Shifted
    <3> QED
      BY <3>1, <3>2, Shifted DEF EventsOf
  <2> QED
    BY <1>1, <2>1, <2>2, <1>2 DEF IInv, CardFollows
<1> QED
  BY <1>2 DEF CardFollows

\* Who is not astray after a broadcast was not before, and had no older event.
LEMMA NoneBefore ==
    ASSUME IInv, NEW i \in Places,
           astray' = [astray EXCEPT ![outbox[i].sub] = @ \/ \E j \in 1..i - 1 : outbox[j].sub = outbox[i].sub],
           ~astray'[outbox[i].sub]
    PROVE  ~astray[outbox[i].sub] /\ \A j \in EventsOf(outbox[i].sub) : i <= j
<1>1. outbox[i].sub \in Trustees /\ i \in Nat
  BY EventShape DEF Events, Places
<1>2. astray'[outbox[i].sub] = (astray[outbox[i].sub] \/ \E j \in 1..i - 1 : outbox[j].sub = outbox[i].sub)
  <2>1. outbox[i].sub \in DOMAIN astray
    BY <1>1 DEF IInv, TypeOK
  <2> QED
    BY <2>1, Zenon
<1>3. ~astray[outbox[i].sub]
  BY <1>2, Zenon
<1>4. ~\E j \in 1..i - 1 : outbox[j].sub = outbox[i].sub
  BY <1>2, Zenon
<1>5. \A j \in EventsOf(outbox[i].sub) : j \in Nat /\ j >= 1 /\ outbox[j].sub = outbox[i].sub
  BY EventShape DEF EventsOf, Places
<1>6. ASSUME NEW j \in EventsOf(outbox[i].sub) PROVE i <= j
  <2>1. j \notin 1..i - 1
    BY <1>4, <1>5
  <2> QED
    BY <1>1, <1>5, <2>1
<1> QED
  BY <1>3, <1>6

\* The card of the trustee the event is of.
LEMMA CardChanges ==
    ASSUME IInv, NEW i \in Places, Broadcast(i), NEW t \in Trustees, outbox[i].sub = t
    PROVE  CardFollows(t)'
<1> SUFFICES ASSUME connected, Followed(t)'
             PROVE  /\ EventsOf(t)' = {} => cards'[t] = Snapshot[t]
                    /\ t \in directory /\ cards'[t] = None =>
                          \E k \in EventsOf(t)' : outbox'[k].type = "trustee_registered"
  BY DEF CardFollows, Broadcast, combiner, Snapshot
<1>1. /\ i \in EventsOf(t) /\ t \in directory /\ outbox[i] \in Events
      /\ outbox' = RemoveAt(outbox, i)
  BY EventShape DEF EventsOf, Broadcast
<1>2. Followed(t) /\ \A j \in EventsOf(t) : i <= j
  BY NoneBefore DEF Broadcast, Followed
<1>3. /\ cards'[t] = CardAfter(outbox[i]) /\ outbox[i].status \in Statuses
      /\ outbox[i].type = "trustee_registered" \/ cards[t] # None => cards'[t] = outbox[i].status
  BY <1>1 DEF Broadcast, CardAfter, Events, IInv, TypeOK
<1>4. ASSUME cards[t] = None
      PROVE  \E j \in EventsOf(t) : outbox[j].type = "trustee_registered"
  BY <1>1, <1>2, <1>4 DEF IInv, CardFollows
<1>5. ASSUME EventsOf(t)' = {} PROVE cards'[t] = Snapshot[t]
  <2>1. \A j \in EventsOf(t) : j = i
    BY <1>1, <1>5, Shifted
  <2>2. ~\E j \in EventsOf(t) : j > i
    BY <2>1, <1>1, EventShape
  <2>3. outbox[i].status = status[t]
    BY <1>1, <1>2, <2>2 DEF IInv, LastIsTrue
  <2>4. outbox[i].type = "trustee_registered" \/ cards[t] # None
    BY <1>4, <2>1
  <2> QED
    BY <1>1, <1>3, <2>3, <2>4 DEF Snapshot
<1>6. ASSUME cards'[t] = None
      PROVE  \E k \in EventsOf(t)' : outbox'[k].type = "trustee_registered"
  <2>1. outbox[i].type # "trustee_registered" /\ cards[t] = None
    BY <1>3, <1>6, NoneIsNothing
  <2>2. PICK j \in EventsOf(t) : outbox[j].type = "trustee_registered"
    BY <1>4, <2>1
  <2>3. j # i
    BY <2>1, <2>2
  <2>4. PICK k \in EventsOf(t)' : Was(k, i) = j
    BY <1>1, <2>3, Shifted
  <2> QED
    BY <1>1, <2>2, <2>4, Shifted DEF EventsOf
<1> QED
  BY <1>5, <1>6

LEMMA BroadcastKeeps == ASSUME IInv, NEW i \in DOMAIN outbox, Broadcast(i) PROVE IInv'
<1> PICK s \in Trustees : s = outbox[i].sub
  BY EventShape DEF Events
<1>1. i \in Places /\ outbox[i] \in Events /\ s = outbox[i].sub
  BY EventShape
<1>2. /\ outbox' = RemoveAt(outbox, i)
      /\ UNCHANGED <<at, polled, serving, directory, saved, age, status, untold, connected>>
  BY DEF Broadcast, trustee, combiner
<1>3. astray' = [astray EXCEPT ![s] = @ \/ \E j \in 1..i - 1 : outbox[j].sub = s]
  BY <1>1 DEF Broadcast
<1>4. cards' = IF connected THEN [cards EXCEPT ![s] = CardAfter(outbox[i])] ELSE cards
  BY <1>1 DEF Broadcast
<1>5. TypeOK'
  <2>1. outbox' \in Seq(Events)
    BY <1>1, <1>2, Shifted
  <2>2. CardAfter(outbox[i]) \in {None, "live", "paused"}
    BY <1>1 DEF CardAfter, Events, Statuses
  <2>3. cards' \in [Trustees -> {None, "live", "paused"}]
    BY <1>4, <2>2 DEF IInv, TypeOK
  <2>4. astray' \in [Trustees -> BOOLEAN]
    BY <1>3 DEF IInv, TypeOK
  <2> QED
    BY <1>2, <2>1, <2>3, <2>4 DEF IInv, TypeOK
<1>6. EventsAreOfRegistered'
  BY <1>1, <1>2, Shifted DEF IInv, EventsAreOfRegistered
<1>7. ASSUME NEW t \in Trustees, t # s PROVE LastIsTrue(t)' /\ CardFollows(t)'
  <2>1. astray'[t] = astray[t] /\ cards'[t] = cards[t]
    BY <1>3, <1>4, <1>7 DEF IInv, TypeOK
  <2>3. Followed(t)' <=> Followed(t)
    BY <1>2, <2>1 DEF Followed
  <2>2. i \notin EventsOf(t)
    BY <1>7 DEF EventsOf
  <2> QED
    BY <1>1, <1>2, <1>7, <2>1, <2>2, <2>3, LastStays, OtherCardsStay
<1>8. LastIsTrue(s)'
  <2>1. Followed(s)' => Followed(s) /\ \A j \in EventsOf(s) : i <= j
    BY <1>1, <1>2, <1>3, NoneBefore DEF Followed
  <2> QED
    BY <1>1, <1>2, <2>1, LastStays
<1>9. CardFollows(s)'
  BY <1>1, CardChanges
<1> QED
  BY <1>5, <1>6, <1>7, <1>8, <1>9 DEF IInv

\* Every step keeps the invariant.
LEMMA StepKeeps == IInv /\ [Next]_vars => IInv'
<1> SUFFICES ASSUME IInv, [Next]_vars PROVE IInv'
  OBVIOUS
<1>1. CASE \E t \in Trustees : \/ Register(t) \/ RegisterUnsaved(t)
                             \/ Poll(t) \/ FallSilent(t) \/ Unpause(t)
  BY <1>1, RegisterKeeps, RegisterUnsavedKeeps, PollKeeps, FallSilentKeeps, UnpauseKeeps
<1>2. CASE Tick \/ VaultSaved \/ CombinerDies \/ CombinerStarts \/ Scan
  BY <1>2, TickKeeps, VaultSavedKeeps, CombinerDiesKeeps, CombinerStartsKeeps, ScanKeeps
<1>3. CASE \E i \in DOMAIN outbox : Broadcast(i)
  BY <1>3, BroadcastKeeps
<1>4. CASE Connect \/ Disconnect
  BY <1>4, ConnectKeeps, DisconnectKeeps
<1>5. CASE UNCHANGED vars
  <2>1. TypeOK'
    BY <1>5 DEF vars, trustee, combiner, history, page, IInv, TypeOK
  <2> QED
    BY <1>5, <2>1, RestStays DEF vars, combiner, history, page, IInv
<1> QED
  BY <1>1, <1>2, <1>3, <1>4, <1>5 DEF Next

-----------------------------------------------------------------------------
(* Theorems *)

\* The last event of a trustee on its way is true, and a missing card is on its way,
\* through registrations, sweeps, restarts and reconnections (app.py:704-742), but for a
\* trustee one of whose events was overtaken or whose registration raised in its save
\* (app.py:221-225), until the page is repainted or the trustee registers again.
THEOREM HeartbeatInvariant == Spec => []IInv
BY InitFine, StepKeeps, PTL DEF Spec

\* Type correctness.
THEOREM TypeCorrect == Spec => []TypeOK
<1>1. IInv => TypeOK
  BY DEF IInv
<1> QED
  BY <1>1, HeartbeatInvariant, PTL

\* Where no event of a trustee overtook another and its registration was saved, a
\* dashboard with none of its events on the way shows it as the combiner has it
\* (app.py:704-730; dashboard.js:297-306).
THEOREM CardsAreTrue == Spec => []CardsAreTruthful
<1>1. IInv => CardsAreTruthful
  <2> SUFFICES ASSUME IInv, NEW t \in Trustees, connected, ~astray[t], ~untold[t], ~OnItsWay(t)
               PROVE  cards[t] = Snapshot[t]
    BY DEF CardsAreTruthful
  <2>1. EventsOf(t) = {}
    BY EventShape DEF EventsOf, OnItsWay
  <2> QED
    BY <2>1 DEF IInv, CardFollows, Followed
<1> QED
  BY <1>1, HeartbeatInvariant, PTL
=============================================================================
