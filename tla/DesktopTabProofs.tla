-------------------------- MODULE DesktopTabProofs --------------------------
(***************************************************************************)
(* A tab's button and its log box agree with its workers, for any number   *)
(* of clicks and of lines, as long as no vault is loaded beside a worker.  *)
(***************************************************************************)
EXTENDS DesktopTab, FiniteSetTheorems, FunctionTheorems, SequenceTheorems, TLAPS

\* A tab that runs has a worker, and a timer that will take its lines.
RunningIsServed == running => Busy /\ timers > 0

\* One worker at most, and the button says so; what it works on can be worked on.
OneAtATime ==
    ~disturbed =>
        /\ \A q, r \in workers \cup calls : q = r
        /\ Busy => running /\ Usable
        /\ button = "normal" <=> Usable /\ ~Busy

\* Lines come from workers that were started, and those of the last are accounted for.
LinesAreCounted ==
    /\ \A r \in Runs : r > starts => logged[r] = 0
    /\ starts > 0 => LinesOf(starts, box) + LinesOf(starts, queue) = logged[starts]

\* No line stays behind when the timers have stopped.
NothingLeft == ~disturbed /\ timers = 0 => queue = << >>

\* The inductive invariant.
IInv == TypeOK /\ RunningIsServed /\ OneAtATime /\ LinesAreCounted /\ NothingLeft

-----------------------------------------------------------------------------
(* Counting lines *)

\* The places of a worker's lines; LinesOf counts them.
PlacesOf(r, lines) == {i \in DOMAIN lines : lines[i] = r}

LEMMA PlacesAreFinite ==
    ASSUME NEW S, NEW s \in Seq(S), NEW r
    PROVE  /\ IsFiniteSet(PlacesOf(r, s)) /\ LinesOf(r, s) \in Nat
           /\ LinesOf(r, s) = Cardinality(PlacesOf(r, s))
           /\ PlacesOf(r, s) = {i \in 1..Len(s) : s[i] = r}
<1>1. DOMAIN s = 1..Len(s) /\ Len(s) \in Nat
  OBVIOUS
<1>2. IsFiniteSet(1..Len(s))
  BY <1>1, FS_Interval
<1>3. PlacesOf(r, s) \in SUBSET (1..Len(s))
  BY <1>1 DEF PlacesOf
<1>4. IsFiniteSet(PlacesOf(r, s))
  BY <1>2, <1>3, FS_Subset
<1> QED
  BY <1>1, <1>4, FS_CardinalityType DEF LinesOf, PlacesOf

LEMMA NoLines ==
    ASSUME NEW r
    PROVE  LinesOf(r, << >>) = 0
<1>1. PlacesOf(r, << >>) = {}
  BY DEF PlacesOf
<1> QED
  BY <1>1, FS_EmptySet DEF LinesOf, PlacesOf

LEMMA OthersLines ==
    ASSUME NEW S, NEW s \in Seq(S), NEW r, r \notin S
    PROVE  LinesOf(r, s) = 0
<1>1. PlacesOf(r, s) = {}
  BY DEF PlacesOf
<1> QED
  BY <1>1, FS_EmptySet, PlacesAreFinite

\* One line more.
LEMMA LinesAppended ==
    ASSUME NEW S, NEW s \in Seq(S), NEW x \in S, NEW r
    PROVE  LinesOf(r, Append(s, x)) = LinesOf(r, s) + (IF x = r THEN 1 ELSE 0)
<1>1. Append(s, x) \in Seq(S) /\ Len(s) \in Nat /\ Len(Append(s, x)) = Len(s) + 1
  BY AppendProperties
<1>2. PlacesOf(r, Append(s, x)) = PlacesOf(r, s) \cup (IF x = r THEN {Len(s) + 1} ELSE {})
  <2>1. \A i \in 1..Len(s) : Append(s, x)[i] = s[i]
    BY AppendProperties
  <2>2. Append(s, x)[Len(s) + 1] = x
    BY AppendProperties
  <2>3. 1..Len(s) + 1 = (1..Len(s)) \cup {Len(s) + 1}
    BY <1>1
  <2>4. PlacesOf(r, Append(s, x)) = {i \in 1..Len(s) + 1 : Append(s, x)[i] = r}
    BY <1>1, PlacesAreFinite
  <2>5. PlacesOf(r, s) = {i \in 1..Len(s) : s[i] = r}
    BY PlacesAreFinite
  <2> QED
    BY <2>1, <2>2, <2>3, <2>4, <2>5
<1>3. Len(s) + 1 \notin PlacesOf(r, s)
  BY <1>1, PlacesAreFinite
<1>4. IsFiniteSet(PlacesOf(r, s)) /\ LinesOf(r, s) = Cardinality(PlacesOf(r, s)) /\ LinesOf(r, s) \in Nat
  BY PlacesAreFinite
<1>5. LinesOf(r, Append(s, x)) = Cardinality(PlacesOf(r, Append(s, x)))
  BY <1>1, PlacesAreFinite
<1>6. CASE x = r
  <2>1. PlacesOf(r, Append(s, x)) = PlacesOf(r, s) \cup {Len(s) + 1}
    BY <1>2, <1>6
  <2>2. Cardinality(PlacesOf(r, s) \cup {Len(s) + 1}) = Cardinality(PlacesOf(r, s)) + 1
    BY <1>3, <1>4, FS_AddElement
  <2> QED
    BY <1>4, <1>5, <1>6, <2>1, <2>2
<1>7. CASE x # r
  BY <1>2, <1>4, <1>5, <1>7
<1> QED
  BY <1>6, <1>7

\* All of the lines of one queue under those of another.
LEMMA LinesJoined ==
    ASSUME NEW S, NEW s \in Seq(S), NEW t \in Seq(S), NEW r
    PROVE  LinesOf(r, s \o t) = LinesOf(r, s) + LinesOf(r, t)
<1> DEFINE moved == {i \in Len(s) + 1..Len(s) + Len(t) : t[i - Len(s)] = r}
<1>1. /\ Len(s) \in Nat /\ Len(t) \in Nat
      /\ s \o t \in Seq(S) /\ Len(s \o t) = Len(s) + Len(t)
      /\ \A i \in 1..Len(s) + Len(t) : (s \o t)[i] = IF i <= Len(s) THEN s[i] ELSE t[i - Len(s)]
  BY ConcatProperties
<1>2. /\ PlacesOf(r, s) = {i \in 1..Len(s) : s[i] = r}
      /\ PlacesOf(r, t) = {i \in 1..Len(t) : t[i] = r}
      /\ PlacesOf(r, s \o t) = {i \in 1..Len(s) + Len(t) : (s \o t)[i] = r}
  <2>1. PlacesOf(r, s \o t) = {i \in 1..Len(s \o t) : (s \o t)[i] = r}
    BY <1>1, PlacesAreFinite
  <2> QED
    BY <1>1, <2>1, PlacesAreFinite
<1>3. PlacesOf(r, s \o t) = PlacesOf(r, s) \cup moved /\ PlacesOf(r, s) \cap moved = {}
  BY <1>1, <1>2
<1>4. IsFiniteSet(moved) /\ Cardinality(moved) = Cardinality(PlacesOf(r, t))
  <2> DEFINE f == [j \in PlacesOf(r, t) |-> Len(s) + j]
  <2>1. f \in [PlacesOf(r, t) -> moved]
    BY <1>1, <1>2
  <2>2. \A j, k \in PlacesOf(r, t) : f[j] = f[k] => j = k
    BY <1>1, <1>2
  <2>3. \A i \in moved : \E j \in PlacesOf(r, t) : f[j] = i
    <3> SUFFICES ASSUME NEW i \in moved PROVE \E j \in PlacesOf(r, t) : f[j] = i
      OBVIOUS
    <3>1. i \in Len(s) + 1..Len(s) + Len(t) /\ t[i - Len(s)] = r
      OBVIOUS
    <3>2. i - Len(s) \in 1..Len(t) /\ Len(s) + (i - Len(s)) = i
      BY <1>1, <3>1
    <3>3. i - Len(s) \in PlacesOf(r, t)
      BY <1>2, <3>1, <3>2
    <3> QED
      BY <3>2, <3>3
  <2> HIDE DEF f, moved
  <2>4. f \in Bijection(PlacesOf(r, t), moved)
    BY <2>1, <2>2, <2>3, Fun_IsBij
  <2>5. ExistsBijection(PlacesOf(r, t), moved)
    BY <2>4 DEF ExistsBijection
  <2> QED
    BY <2>5, PlacesAreFinite, FS_Bijection
<1> HIDE DEF moved
<1>5. /\ IsFiniteSet(PlacesOf(r, s)) /\ LinesOf(r, s) = Cardinality(PlacesOf(r, s)) /\ LinesOf(r, s) \in Nat
      /\ LinesOf(r, t) = Cardinality(PlacesOf(r, t)) /\ LinesOf(r, t) \in Nat
      /\ LinesOf(r, s \o t) = Cardinality(PlacesOf(r, s \o t))
  BY <1>1, PlacesAreFinite
<1>6. Cardinality(PlacesOf(r, s) \cup moved)
        = Cardinality(PlacesOf(r, s)) + Cardinality(moved) - Cardinality(PlacesOf(r, s) \cap moved)
  BY <1>4, <1>5, FS_Union
<1>7. LinesOf(r, s \o t) = Cardinality(PlacesOf(r, s) \cup moved)
  BY <1>3, <1>5
<1>8. Cardinality(PlacesOf(r, s) \cap moved) = 0
  BY <1>3, FS_EmptySet
<1> QED
  BY <1>4, <1>5, <1>6, <1>7, <1>8

-----------------------------------------------------------------------------
(* Steps *)

\* A sequence of numbers up to a bound is one of numbers up to a higher bound.
LEMMA SeqOfMore ==
    ASSUME NEW n \in Nat, NEW s \in Seq(1..n)
    PROVE  s \in Seq(1..n + 1)
<1>1. Len(s) \in Nat /\ s \in [1..Len(s) -> 1..n]
  OBVIOUS
<1>2. s \in [1..Len(s) -> 1..n + 1]
  BY <1>1
<1> QED
  BY <1>1, <1>2

LEMMA InitFine == Init => IInv
<1> SUFFICES ASSUME Init PROVE IInv
  OBVIOUS
<1>1. << >> \in Seq(1..0) /\ 0 \in 0..MaxLines /\ 0 \in 0..MaxStarts
  BY TabAssumption
<1>2. TypeOK
  <2>1. queue \in Seq(1..starts) /\ box \in Seq(1..starts)
    BY <1>1 DEF Init
  <2>2. logged \in [Runs -> 0..MaxLines]
    BY <1>1 DEF Init
  <2>3. starts \in 0..MaxStarts /\ timers \in 0..starts
    BY <1>1 DEF Init
  <2> QED
    BY <2>1, <2>2, <2>3 DEF Init, TypeOK
<1>3. Usable <=> kind = "create"
  BY TabAssumption DEF Init, Usable
<1>4. ~Busy
  BY DEF Init, Busy
<1>5. OneAtATime
  BY <1>3, <1>4 DEF Init, OneAtATime
<1> QED
  BY <1>2, <1>4, <1>5 DEF Init, IInv, RunningIsServed, LinesAreCounted, NothingLeft

LEMMA LoadKeeps == ASSUME IInv, NEW v \in Vaults, Load(v) PROVE IInv'
<1>1. TypeOK'
  BY DEF IInv, TypeOK, Load, threads
<1>2. Busy' = Busy
  BY DEF Load, threads, Busy
<1>3. RunningIsServed'
  BY <1>2 DEF IInv, RunningIsServed, Load
<1>4. ~disturbed' => ~Busy /\ (~disturbed \/ queue = << >>)
  BY DEF Load
<1>5. OneAtATime'
  <2>1. Usable' <=> v \in Recoverable
    BY DEF Load, Usable
  <2>2. ~Busy => workers' \cup calls' = {}
    BY DEF Busy, Load, threads
  <2>3. button' = "normal" <=> v \in Recoverable
    BY DEF Load
  <2> QED
    BY <1>2, <1>4, <2>1, <2>2, <2>3 DEF OneAtATime
<1>6. LinesAreCounted'
  BY DEF IInv, LinesAreCounted, Load, threads
<1>7. NothingLeft'
  BY <1>4 DEF IInv, NothingLeft, Load, threads
<1> QED
  BY <1>1, <1>3, <1>5, <1>6, <1>7 DEF IInv

LEMMA ClickKeeps == ASSUME IInv, Click PROVE IInv'
<1>1. /\ starts \in Nat /\ timers \in Nat /\ starts' = starts + 1 /\ starts' \in 1..MaxStarts
      /\ timers' = timers + 1 /\ running' = TRUE /\ button' = "disabled" /\ box' = << >>
      /\ workers' = workers \cup {starts + 1}
      /\ UNCHANGED <<kind, loaded, logged, queue, calls, dialogs, disturbed>>
  BY TabAssumption DEF IInv, TypeOK, Click, ButtonOff
<1>2. TypeOK'
  <2>1. queue' \in Seq(1..starts') /\ box' \in Seq(1..starts')
    BY <1>1, SeqOfMore DEF IInv, TypeOK
  <2>2. workers' \subseteq 1..starts' /\ calls' \subseteq 1..starts' /\ dialogs' \subseteq 1..starts'
    BY <1>1 DEF IInv, TypeOK
  <2>3. starts + 1 \notin calls \cup dialogs
    BY <1>1 DEF IInv, TypeOK
  <2>4. workers' \cap calls' = {} /\ (workers' \cup calls') \cap dialogs' = {}
    BY <1>1, <2>3 DEF IInv, TypeOK
  <2>5. starts' \in 0..MaxStarts /\ timers' \in 0..starts'
    BY <1>1 DEF IInv, TypeOK
  <2> QED
    BY <1>1, <2>1, <2>2, <2>4, <2>5 DEF IInv, TypeOK
<1>3. Busy'
  BY <1>1 DEF Busy
<1>4. RunningIsServed'
  BY <1>1, <1>3 DEF RunningIsServed
<1>5. OneAtATime'
  <2> SUFFICES ASSUME ~disturbed
               PROVE  workers' \cup calls' = {starts + 1} /\ Usable'
    BY <1>1, <1>3 DEF OneAtATime
  <2>1. Usable /\ ~Busy
    BY DEF IInv, OneAtATime, Click
  <2> QED
    BY <1>1, <2>1 DEF Busy, Usable
<1>6. LinesAreCounted'
  <2>1. \A r \in Runs : r > starts => logged[r] = 0
    BY DEF IInv, LinesAreCounted
  <2>2. starts + 1 \in Runs /\ starts + 1 > starts
    BY <1>1 DEF Runs
  <2>3. logged'[starts'] = 0
    BY <1>1, <2>1, <2>2
  <2>4. LinesOf(starts', box') = 0
    BY <1>1, NoLines
  <2>5. LinesOf(starts', queue') = 0
    <3>1. queue \in Seq(1..starts) /\ starts + 1 \notin 1..starts
      BY <1>1 DEF IInv, TypeOK
    <3>2. LinesOf(starts + 1, queue) = 0
      BY <3>1, OthersLines
    <3> QED
      BY <1>1, <3>2
  <2>6. \A r \in Runs : r > starts' => logged'[r] = 0
    BY <1>1, <2>1 DEF Runs
  <2> QED
    BY <2>3, <2>4, <2>5, <2>6 DEF LinesAreCounted
<1>7. NothingLeft'
  BY <1>1 DEF NothingLeft
<1> QED
  BY <1>2, <1>4, <1>5, <1>6, <1>7 DEF IInv

LEMMA DismissKeeps == ASSUME IInv, NEW r \in Runs, Dismiss(r) PROVE IInv'
<1>1. TypeOK'
  BY DEF IInv, TypeOK, Dismiss, threads
<1>2. Busy' = Busy /\ Usable' = Usable
  BY DEF Dismiss, threads, Busy, Usable
<1> QED
  BY <1>1, <1>2
  DEF IInv, RunningIsServed, OneAtATime, LinesAreCounted, NothingLeft, Dismiss, threads

LEMMA LogKeeps == ASSUME IInv, NEW r \in Runs, Log(r) PROVE IInv'
<1>1. /\ r \in workers /\ logged[r] < MaxLines /\ queue' = Append(queue, r)
      /\ logged' = [logged EXCEPT ![r] = @ + 1]
      /\ UNCHANGED <<kind, loaded, button, running, timers, box, calls, dialogs, starts, workers, disturbed>>
  BY DEF Log, tk
<1>2. r \in 1..starts /\ starts \in Nat /\ logged[r] \in Nat /\ logged \in [Runs -> 0..MaxLines]
  BY <1>1, TabAssumption DEF IInv, TypeOK
<1>3. queue \in Seq(1..starts) /\ box \in Seq(1..starts)
  BY DEF IInv, TypeOK
<1>4. TypeOK'
  <2>1. queue' \in Seq(1..starts)
    BY <1>1, <1>2, <1>3, AppendProperties
  <2>2. logged' \in [Runs -> 0..MaxLines]
    BY <1>1, <1>2, TabAssumption
  <2> QED
    BY <1>1, <2>1, <2>2 DEF IInv, TypeOK
<1>5. Busy' = Busy /\ Usable' = Usable /\ Busy
  BY <1>1 DEF Busy, Usable
<1>6. RunningIsServed' /\ OneAtATime'
  BY <1>1, <1>5 DEF IInv, RunningIsServed, OneAtATime
<1>7. LinesAreCounted'
  <2>0. \A q \in Runs : q > starts => logged[q] = 0
    BY DEF IInv, LinesAreCounted
  <2>1. \A q \in Runs : q > starts => logged'[q] = 0
    <3> SUFFICES ASSUME NEW q \in Runs, q > starts PROVE logged'[q] = 0
      OBVIOUS
    <3>1. q # r
      BY <1>2
    <3>2. logged'[q] = logged[q]
      BY <1>1, <1>2, <3>1
    <3> QED
      BY <2>0, <3>2
  <2>2. LinesOf(starts, queue') = LinesOf(starts, queue) + (IF r = starts THEN 1 ELSE 0)
    BY <1>1, <1>2, <1>3, LinesAppended
  <2>3. LinesOf(starts, queue) \in Nat /\ LinesOf(starts, box) \in Nat
    BY <1>3, PlacesAreFinite
  <2>4. starts > 0 /\ starts \in Runs
    BY <1>2, TabAssumption DEF IInv, TypeOK, Runs
  <2>5. logged'[starts] = logged[starts] + (IF r = starts THEN 1 ELSE 0)
    BY <1>1, <1>2, <2>4
  <2>6. LinesOf(starts, box) + LinesOf(starts, queue) = logged[starts]
    BY <2>4 DEF IInv, LinesAreCounted
  <2>7. LinesOf(starts, box) + LinesOf(starts, queue') = logged'[starts]
    BY <2>2, <2>3, <2>5, <2>6
  <2> QED
    BY <1>1, <2>1, <2>7 DEF LinesAreCounted
<1>8. NothingLeft'
  BY <1>1, <1>5 DEF IInv, OneAtATime, RunningIsServed, NothingLeft
<1> QED
  BY <1>4, <1>6, <1>7, <1>8 DEF IInv

\* A worker that ends is still to be told of.
LEMMA EndKeeps == ASSUME IInv, NEW r \in Runs, End(r) PROVE IInv'
<1>1. /\ r \in workers /\ workers' = workers \ {r} /\ calls' = calls \cup {r}
      /\ UNCHANGED <<kind, loaded, button, running, timers, box, dialogs, starts, logged, queue, disturbed>>
  BY DEF End, Ended, CallsAfter
<1>2. TypeOK'
  BY <1>1 DEF IInv, TypeOK
<1>3. workers' \cup calls' = workers \cup calls
  BY <1>1
<1>4. Busy' = Busy /\ Usable' = Usable
  BY <1>1, <1>3 DEF Busy, Usable
<1> QED
  BY <1>1, <1>2, <1>3, <1>4
  DEF IInv, RunningIsServed, OneAtATime, LinesAreCounted, NothingLeft

LEMMA PollLogQueueKeeps == ASSUME IInv, PollLogQueue PROVE IInv'
<1>1. /\ timers > 0 /\ box' = box \o queue
      /\ queue' = SubSeq(queue, Len(queue) + 1, Len(queue))
      /\ timers' = IF running THEN timers ELSE timers - 1
      /\ UNCHANGED <<kind, loaded, button, running, calls, dialogs, starts, workers, logged, disturbed>>
  BY DEF PollLogQueue, Drained
<1>2. queue \in Seq(1..starts) /\ box \in Seq(1..starts) /\ starts \in Nat /\ timers \in 0..starts
  BY DEF IInv, TypeOK
<1>3. queue' = << >>
  BY <1>1, <1>2, SubSeqEmpty
<1>4. TypeOK'
  <2>1. box' \in Seq(1..starts)
    BY <1>1, <1>2, ConcatProperties
  <2>2. timers' \in 0..starts
    BY <1>1, <1>2
  <2>3. queue' \in Seq(1..starts)
    BY <1>3
  <2> QED
    BY <1>1, <2>1, <2>2, <2>3 DEF IInv, TypeOK
<1>5. Busy' = Busy /\ Usable' = Usable
  BY <1>1 DEF Busy, Usable
<1>6. RunningIsServed' /\ OneAtATime'
  BY <1>1, <1>5 DEF IInv, RunningIsServed, OneAtATime
<1>7. LinesAreCounted'
  <2>1. LinesOf(starts, box') = LinesOf(starts, box) + LinesOf(starts, queue)
    BY <1>1, <1>2, LinesJoined
  <2>2. LinesOf(starts, queue') = 0
    BY <1>3, NoLines
  <2>3. LinesOf(starts, box) \in Nat /\ LinesOf(starts, queue) \in Nat
    BY <1>2, PlacesAreFinite
  <2> QED
    BY <1>1, <2>1, <2>2, <2>3 DEF IInv, LinesAreCounted
<1>8. NothingLeft'
  BY <1>3 DEF NothingLeft
<1> QED
  BY <1>4, <1>6, <1>7, <1>8 DEF IInv

\* The worker told of was the only one, unless a vault was loaded beside it.
LEMMA FinishKeeps == ASSUME IInv, NEW r \in Runs, Finish(r) PROVE IInv'
<1>1. /\ r \in calls /\ calls' = calls \ {r} /\ running' = FALSE /\ button' = "normal"
      /\ dialogs' = dialogs \cup {r}
      /\ UNCHANGED <<kind, loaded, timers, starts, workers, logged, queue, box, disturbed>>
  BY DEF Finish, threads
<1>2. TypeOK'
  BY <1>1 DEF IInv, TypeOK
<1>3. RunningIsServed'
  BY <1>1 DEF RunningIsServed
<1>4. OneAtATime'
  <2> SUFFICES ASSUME ~disturbed PROVE workers' \cup calls' = {} /\ Usable'
    BY <1>1 DEF OneAtATime, Busy
  <2>1. Usable /\ \A q \in workers \cup calls : q = r
    BY <1>1 DEF IInv, OneAtATime, Busy
  <2>2. r \notin workers
    BY <1>1 DEF IInv, TypeOK
  <2> QED
    BY <1>1, <2>1, <2>2 DEF Usable
<1>5. LinesAreCounted' /\ NothingLeft'
  BY <1>1 DEF IInv, LinesAreCounted, NothingLeft
<1> QED
  BY <1>2, <1>3, <1>4, <1>5 DEF IInv

LEMMA StepKeeps == IInv /\ [Next]_vars => IInv'
<1> SUFFICES ASSUME IInv, [Next]_vars PROVE IInv'
  OBVIOUS
<1>1. CASE \E v \in Vaults : Load(v)
  BY <1>1, LoadKeeps
<1>2. CASE Click \/ PollLogQueue
  BY <1>2, ClickKeeps, PollLogQueueKeeps
<1>3. CASE \E r \in Runs : Dismiss(r) \/ Log(r) \/ End(r) \/ Finish(r)
  BY <1>3, DismissKeeps, LogKeeps, EndKeeps, FinishKeeps
<1>4. CASE UNCHANGED vars
  <2>1. TypeOK'
    BY <1>4 DEF vars, tk, threads, IInv, TypeOK
  <2>2. Busy' = Busy /\ Usable' = Usable
    BY <1>4 DEF vars, tk, threads, Busy, Usable
  <2> QED
    BY <1>4, <2>1, <2>2
    DEF vars, tk, threads, IInv, RunningIsServed, OneAtATime, LinesAreCounted, NothingLeft
<1> QED
  BY <1>1, <1>2, <1>3, <1>4 DEF Next

-----------------------------------------------------------------------------
(* Theorems *)

\* The timer runs as long as the worker does, the button follows the worker, and lines
\* are neither lost nor doubled (vault_gui.py:252-262, 326-339, 394-397).
THEOREM TabInvariant == Spec => []IInv
BY InitFine, StepKeeps, PTL DEF Spec

\* Type correctness.
THEOREM TypeCorrect == Spec => []TypeOK
<1>1. IInv => TypeOK
  BY DEF IInv
<1> QED
  BY <1>1, TabInvariant, PTL

\* With no vault loaded beside a worker, one worker runs at most and the button can be
\* pressed exactly when none does (vault_gui.py:326-339, 394-397, 526-542).
THEOREM ButtonFollowsWorker == Spec => []ButtonIsTruthful
<1>1. IInv => ButtonIsTruthful
  <2> SUFFICES ASSUME IInv, ~disturbed
               PROVE  /\ Cardinality(workers \cup calls) <= 1
                      /\ running <=> Busy
                      /\ button = "normal" <=> Usable /\ ~Busy
    BY DEF ButtonIsTruthful
  <2>1. \A q, r \in workers \cup calls : q = r
    BY DEF IInv, OneAtATime
  <2>2. Cardinality(workers \cup calls) <= 1
    <3>1. CASE workers \cup calls = {}
      BY <3>1, FS_EmptySet
    <3>2. CASE workers \cup calls # {}
      <4>1. PICK r : workers \cup calls = {r}
        BY <2>1, <3>2
      <4>2. Cardinality({r}) = 1
        BY FS_Singleton
      <4> QED
        BY <4>1, <4>2
    <3> QED
      BY <3>1, <3>2
  <2>3. running <=> Busy
    BY DEF IInv, TypeOK, OneAtATime, RunningIsServed
  <2>4. button = "normal" <=> Usable /\ ~Busy
    BY DEF IInv, OneAtATime
  <2> QED
    BY <2>2, <2>3, <2>4
<1> QED
  BY <1>1, TabInvariant, PTL

\* Every line of the last worker is in the box or on its way there, and none stays
\* behind when the timers have stopped (vault_gui.py:252-262, 394-397).
THEOREM LinesArrive == Spec => []LogIsComplete
<1>1. IInv => LogIsComplete
  BY DEF IInv, LinesAreCounted, NothingLeft, LogIsComplete
<1> QED
  BY <1>1, TabInvariant, PTL
=============================================================================
