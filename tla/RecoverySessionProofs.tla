----------------------- MODULE RecoverySessionProofs ------------------------
(***************************************************************************)
(* A recovery session holds exactly what its trustees sent it, each the    *)
(* record its credential of the present vault opens in the vault it has    *)
(* cached, whatever crashes, timeouts, new sessions and new processes come *)
(* between a poll and the reply to it.  With codewords that may be a lost  *)
(* vault's record; with keys it is the trustee's own, and the session      *)
(* keeps the promise of QuorumRecovery.  For every committee, threshold    *)
(* and bound.                                                              *)
(***************************************************************************)
EXTENDS RecoverySession, FiniteSetTheorems, FunctionTheorems, TLAPS

\* The shard is of a record that the credential which the present vault dealt to t
\* is the first to open in the shard's vault.
Opens(t, shard) == finds[shard.vault][dealt[vault][t]] = shard.of

PoolSenders(sent) == {t \in replied : sent[t].of # Prime}

\* No ticket is of a session still to come, one of the present session is for the
\* present vault, and a trustee at work on a ticket has it whole.
TicketsAreDated ==
    \A t \in Committee :
        /\ ticket[t].session <= sessions
        /\ session # 0 /\ ticket[t].session = session => ticket[t].vault = vault
        /\ pc[t] \in {"metadata", "match"} => ticket[t].session # 0 /\ ticket[t].vault # None
        /\ pc[t] = "match" => cached_metadata[t] # None

\* A reply to the present session, however late, carries what its trustee's
\* credential of the present vault opens.
RepliesAreDated ==
    \A r \in inflight :
        /\ r.session <= sessions
        /\ r.session = session => Opens(r.from, r.shard)

\* The session holds what was sent by each trustee that replied: as mask what was
\* said to be the prime's, as pool_shards the others.
Holds(sent) ==
    /\ \A t \in replied : Opens(t, sent[t])
    /\ mask # None => \E t \in replied : sent[t].of = Prime /\ sent[t] = mask
    /\ (\E t \in replied : sent[t].of = Prime) => mask # None
    /\ Len(pool_shards) = Cardinality(PoolSenders(sent))
    /\ {pool_shards[i] : i \in 1..Len(pool_shards)} = {sent[t] : t \in PoolSenders(sent)}

\* What a session holds, whichever credentials the vaults were made with.
SessionHoldsFinds ==
    /\ session = 0 => replied = {}
    /\ session # 0 => vault # None
    /\ \E sent \in [replied -> Shards] : Holds(sent)

\* A key opens the record it was dealt for, and no other.
OwnRecords ==
    ~UseCodewords =>
        \A v, w \in Vaults, t \in Committee :
            /\ dealt[v][t] = <<v, t>>
            /\ finds[w][<<v, t>>] \in {None} \cup (IF v = w THEN {t} ELSE {})

OutcomesAreDated == opened \cup failed \subseteq 1..sessions

\* The inductive invariant.
IInv ==
    /\ TypeOK
    /\ TicketsAreDated
    /\ RepliesAreDated
    /\ SessionHoldsFinds
    /\ OwnRecords
    /\ OutcomesAreDated

-----------------------------------------------------------------------------
(* Lemmas *)

\* Numbers, shards and records are told apart from None.
LEMMA NoneIsNothing ==
    /\ None \notin Vaults /\ None \notin Sessions
    /\ MaxVaults \in Nat /\ MaxSessions \in Nat /\ MaxCrashes \in Nat /\ MaxTimeouts \in Nat
    /\ MaxLives \in Nat /\ 1 \in 1..MaxLives
    /\ None \notin Committee
    /\ IsFiniteSet(Committee) /\ Prime \in Committee
BY RecoveryAssumption DEF Vaults, Sessions

\* A committee's subsets can be counted.
LEMMA SubsetsAreFinite ==
    \A S \in SUBSET Committee : IsFiniteSet(S) /\ Cardinality(S) \in Nat
BY RecoveryAssumption, FS_Subset, FS_CardinalityType

\* A session that holds nothing, holds what nobody sent.
LEMMA NothingIsHeld ==
    replied = {} /\ mask = None /\ pool_shards = << >>
        => \E sent \in [replied -> Shards] : Holds(sent)
<1> SUFFICES ASSUME replied = {}, mask = None, pool_shards = << >>
             PROVE  \E sent \in [replied -> Shards] : Holds(sent)
  OBVIOUS
<1> DEFINE sent == [t \in replied |-> CHOOSE s \in Shards : TRUE]
<1>1. sent \in [replied -> Shards]
  OBVIOUS
<1>2. PoolSenders(sent) = {}
  BY DEF PoolSenders
<1>3. Len(<< >>) = 0 /\ 1..0 = {}
  OBVIOUS
<1>4. Holds(sent)
  <2> HIDE DEF sent
  <2>1. \A t \in replied : Opens(t, sent[t])
    OBVIOUS
  <2>2. {pool_shards[i] : i \in 1..Len(pool_shards)} = {} /\ {sent[t] : t \in PoolSenders(sent)} = {}
    BY <1>2, <1>3
  <2> QED
    BY <2>1, <2>2, <1>2, <1>3, FS_EmptySet DEF Holds
<1> QED
  BY <1>1, <1>4

LEMMA EmptySession ==
    ASSUME replied' = {}, mask' = None, pool_shards' = << >>, session' # 0 => vault' # None
    PROVE  SessionHoldsFinds'
<1>1. (replied = {} /\ mask = None /\ pool_shards = << >>
          => \E sent \in [replied -> Shards] : Holds(sent))'
  BY NothingIsHeld, PTL
<1> QED
  BY <1>1 DEF SessionHoldsFinds

\* Initially.
LEMMA InitFine == Init => IInv
<1> SUFFICES ASSUME Init PROVE IInv
  OBVIOUS
<1>1. TypeOK
  <2>1. NoTicket \in Tickets
    BY NoneIsNothing DEF NoTicket, Tickets
  <2>2. << >> \in Seq(Shards)
    OBVIOUS
  <2>3. /\ dealt \in [Vaults -> [Committee -> Credentials]]
        /\ finds \in [Vaults -> [Credentials -> Committee \cup {None}]]
    BY DEF Init, Credentials
  <2> QED
    BY <2>1, <2>2, <2>3, NoneIsNothing DEF Init, TypeOK
<1>2. TicketsAreDated /\ RepliesAreDated /\ OwnRecords /\ OutcomesAreDated
  BY DEF Init, Credentials, TicketsAreDated, RepliesAreDated, OwnRecords, OutcomesAreDated, NoTicket
<1>3. SessionHoldsFinds
  BY NothingIsHeld DEF Init, SessionHoldsFinds
<1> QED
  BY <1>1, <1>2, <1>3 DEF IInv

-----------------------------------------------------------------------------
(* Steps that leave the session and the vault as they are *)

LEMMA RecordsStay ==
    ASSUME OwnRecords, dealt' = dealt, finds' = finds
    PROVE  OwnRecords'
<1> SUFFICES ASSUME ~UseCodewords, NEW v \in Vaults, NEW w \in Vaults, NEW t \in Committee
             PROVE  (/\ dealt[v][t] = <<v, t>>
                     /\ finds[w][<<v, t>>] \in {None} \cup (IF v = w THEN {t} ELSE {}))'
  BY DEF OwnRecords
<1>1. /\ dealt[v][t] = <<v, t>>
      /\ finds[w][<<v, t>>] \in {None} \cup (IF v = w THEN {t} ELSE {})
  BY DEF OwnRecords
<1> QED
  BY <1>1

\* What the session holds is about the session and the vault alone.
LEMMA SessionStays ==
    ASSUME IInv, UNCHANGED <<the_session, vault, dealt, finds>>
    PROVE  SessionHoldsFinds' /\ OwnRecords'
<1>1. PICK sent \in [replied -> Shards] : Holds(sent)
  BY DEF IInv, SessionHoldsFinds
<1>2. PoolSenders(sent)' = PoolSenders(sent)
  BY DEF the_session, PoolSenders
<1>3. \A t \in replied : Opens(t, sent[t])' <=> Opens(t, sent[t])
  BY DEF Opens
<1>4. Holds(sent)'
  BY <1>1, <1>2, <1>3 DEF Holds, the_session
<1>5. SessionHoldsFinds'
  BY <1>4 DEF IInv, the_session, SessionHoldsFinds
<1> QED
  BY <1>5, RecordsStay DEF IInv

\* Neither are the replies on their way, as long as none is added.
LEMMA RepliesStay ==
    ASSUME IInv, UNCHANGED <<the_session, vault, dealt, finds>>, inflight' \subseteq inflight
    PROVE  RepliesAreDated'
BY DEF IInv, the_session, RepliesAreDated, Opens

LEMMA BootKeeps == ASSUME IInv, Boot PROVE IInv'
<1>1. TypeOK'
  BY DEF IInv, TypeOK, Boot, the_vault, the_session, trustees, outcome, budgets
<1>2. TicketsAreDated' /\ OutcomesAreDated'
  BY DEF IInv, TicketsAreDated, OutcomesAreDated, Boot, the_vault, the_session, trustees, outcome
<1> QED
  BY <1>1, <1>2, SessionStays, RepliesStay DEF Boot, the_vault, IInv

LEMMA FinalizeKeeps == ASSUME IInv, Finalize PROVE IInv'
<1>1. session \in 1..sessions /\ 1..sessions \subseteq Sessions
  BY NoneIsNothing DEF IInv, TypeOK, Finalize, Sessions
<1>2. TypeOK'
  BY <1>1 DEF IInv, TypeOK, Finalize, the_vault, the_session, trustees, budgets
<1>3. TicketsAreDated' /\ OutcomesAreDated'
  BY <1>1 DEF IInv, TicketsAreDated, OutcomesAreDated, Finalize, the_vault, the_session, trustees
<1> QED
  BY <1>2, <1>3, SessionStays, RepliesStay DEF Finalize, the_vault, IInv

\* A trustee takes a ticket for the present session.
LEMMA PollKeeps == ASSUME IInv, NEW t \in Committee, Poll(t) PROVE IInv'
<1>1. vault \in Vaults /\ session \in Nat /\ session <= sessions /\ session \in 0..MaxSessions
  BY NoneIsNothing DEF IInv, TypeOK, SessionHoldsFinds, Poll
<1>2. TypeOK'
  BY <1>1 DEF IInv, TypeOK, Poll, Tickets, the_vault, the_session, outcome, budgets
<1>3. TicketsAreDated'
  <2> SUFFICES ASSUME NEW u \in Committee
               PROVE  /\ ticket'[u].session <= sessions'
                      /\ session' # 0 /\ ticket'[u].session = session' => ticket'[u].vault = vault'
                      /\ pc'[u] \in {"metadata", "match"} => ticket'[u].session # 0 /\ ticket'[u].vault # None
                      /\ pc'[u] = "match" => cached_metadata'[u] # None
    BY DEF TicketsAreDated
  <2>1. CASE u = t
    <3>1. /\ ticket'[u] = [session |-> session, vault |-> vault]
          /\ pc'[u] = "match" => cached_metadata[u] # None
      BY <2>1 DEF IInv, TypeOK, Poll
    <3> QED
      BY <3>1, <1>1, NoneIsNothing DEF Poll, the_vault, the_session
  <2>2. CASE u # t
    <3>1. ticket'[u] = ticket[u] /\ pc'[u] = pc[u]
      BY <2>2 DEF IInv, TypeOK, Poll
    <3> QED
      BY <3>1 DEF IInv, TicketsAreDated, Poll, the_vault, the_session
  <2> QED
    BY <2>1, <2>2
<1>4. OutcomesAreDated'
  BY DEF IInv, OutcomesAreDated, Poll, outcome, the_session
<1> QED
  BY <1>2, <1>3, <1>4, SessionStays, RepliesStay DEF Poll, the_vault, IInv

\* Steps of one trustee that change where it stands and what it has cached, and send
\* nothing.
LEMMA MovesKeep ==
    ASSUME IInv, NEW t \in Committee,
           UNCHANGED <<up, the_vault, the_session, ticket, life, inflight, outcome, crashes>>,
           timeouts' \in 0..MaxTimeouts,
           cached_metadata' \in [Committee -> Vaults \cup {None}],
           NEW place \in {"poll", "match", "dead"}, pc' = [pc EXCEPT ![t] = place],
           place = "match" => pc[t] = "metadata" /\ cached_metadata'[t] # None,
           \A u \in Committee : u # t => cached_metadata'[u] = cached_metadata[u]
    PROVE  IInv'
<1>1. TypeOK'
  BY DEF IInv, TypeOK, the_vault, the_session, outcome
<1>2. TicketsAreDated'
  <2>1. \A u \in Committee : pc'[u] = (IF u = t THEN place ELSE pc[u])
    BY DEF IInv, TypeOK
  <2> QED
    BY <2>1 DEF IInv, TicketsAreDated, the_vault, the_session
<1>3. OutcomesAreDated'
  BY DEF IInv, OutcomesAreDated, outcome, the_session
<1> QED
  BY <1>1, <1>2, <1>3, SessionStays, RepliesStay DEF the_vault, IInv

LEMMA FetchMetadataKeeps == ASSUME IInv, NEW t \in Committee, FetchMetadata(t) PROVE IInv'
<1>1. cached_metadata' \in [Committee -> Vaults \cup {None}] /\ timeouts' \in 0..MaxTimeouts
  BY DEF IInv, TypeOK, FetchMetadata, budgets
<1>2. /\ vault # None => cached_metadata'[t] # None
      /\ \A u \in Committee : u # t => cached_metadata'[u] = cached_metadata[u]
  BY DEF IInv, TypeOK, FetchMetadata
<1>3. CASE vault = None
  BY <1>1, <1>2, <1>3, MovesKeep DEF FetchMetadata, budgets
<1>4. CASE vault # None
  BY <1>1, <1>2, <1>4, MovesKeep DEF FetchMetadata, budgets
<1> QED
  BY <1>3, <1>4

LEMMA NoMatchKeeps == ASSUME IInv, NEW t \in Committee, NoMatch(t) PROVE IInv'
<1>1. cached_metadata' \in [Committee -> Vaults \cup {None}] /\ timeouts' \in 0..MaxTimeouts
  BY DEF IInv, TypeOK, NoMatch, budgets
<1> QED
  BY <1>1, MovesKeep DEF NoMatch, budgets

LEMMA RefusedKeeps == ASSUME IInv, NEW t \in Committee, Refused(t) PROVE IInv'
<1>1. cached_metadata' \in [Committee -> Vaults \cup {None}] /\ timeouts' \in 0..MaxTimeouts
  BY DEF IInv, TypeOK, Refused, budgets
<1> QED
  BY <1>1, MovesKeep DEF Refused, budgets

LEMMA TimeOutKeeps == ASSUME IInv, NEW t \in Committee, TimeOut(t) PROVE IInv'
<1>1. cached_metadata' \in [Committee -> Vaults \cup {None}] /\ timeouts' \in 0..MaxTimeouts
  BY NoneIsNothing DEF IInv, TypeOK, TimeOut
<1> QED
  BY <1>1, MovesKeep DEF TimeOut

\* A new process starts without a ticket.
LEMMA RelaunchKeeps == ASSUME IInv, NEW t \in Committee, Relaunch(t) PROVE IInv'
<1>1. NoTicket \in Tickets
  BY NoneIsNothing DEF NoTicket, Tickets
<1>2. life[t] + 1 \in 1..MaxLives
  BY NoneIsNothing DEF IInv, TypeOK, Relaunch
<1>3. TypeOK'
  BY <1>1, <1>2 DEF IInv, TypeOK, Relaunch, the_session, outcome, budgets
<1>4. TicketsAreDated'
  BY DEF IInv, TypeOK, TicketsAreDated, Relaunch, the_session, NoTicket
<1>5. OutcomesAreDated'
  BY DEF IInv, OutcomesAreDated, Relaunch, outcome, the_session
<1> QED
  BY <1>3, <1>4, <1>5, SessionStays, RepliesStay DEF Relaunch, IInv

-----------------------------------------------------------------------------
(* Steps that change the session, the vault or the requests *)

\* A reply carries the ticket's session, so what it carries was opened by the
\* credential of the vault that session is about.
LEMMA ReplyKeeps == ASSUME IInv, NEW t \in Committee, Reply(t) PROVE IInv'
<1> DEFINE v == ticket[t].vault
           w == cached_metadata[t]
           sent == [from |-> t, life |-> life[t], session |-> ticket[t].session,
                    shard |-> [vault |-> w, of |-> Match(t)]]
<1>1. /\ ticket[t] \in Tickets /\ ticket[t].session # 0 /\ v # None /\ ticket[t].session <= sessions
      /\ w \in Vaults
  BY DEF IInv, TypeOK, TicketsAreDated, Reply
<1>2. v \in Vaults /\ ticket[t].session \in Sessions
  BY <1>1, NoneIsNothing DEF Tickets, Sessions
<1>3. Match(t) \in Committee
  <2>1. dealt[v][t] \in Credentials
    BY <1>2 DEF IInv, TypeOK
  <2> QED
    BY <1>1, <2>1 DEF IInv, TypeOK, Match, Reply
<1>4. sent \in Replies
  BY <1>1, <1>2, <1>3 DEF Replies, Shards, IInv, TypeOK
<1>5. inflight' = inflight \cup {sent}
  BY DEF Reply, ReplySession
<1>6. TypeOK'
  BY <1>4, <1>5 DEF IInv, TypeOK, Reply, the_vault, the_session, outcome, budgets
<1>7. TicketsAreDated'
  BY DEF IInv, TypeOK, TicketsAreDated, Reply, the_vault, the_session
<1>8. RepliesAreDated'
  <2> SUFFICES ASSUME NEW r \in inflight'
               PROVE  r.session <= sessions /\ (r.session = session => Opens(r.from, r.shard))
    BY DEF RepliesAreDated, Reply, the_vault, the_session, Opens
  <2>1. CASE r \in inflight
    BY <2>1 DEF IInv, RepliesAreDated
  <2>2. CASE r = sent
    <3>1. session # 0 /\ ticket[t].session = session => v = vault
      BY DEF IInv, TicketsAreDated
    <3> QED
      BY <2>2, <3>1, <1>1 DEF Opens, Match
  <2> QED
    BY <2>1, <2>2, <1>5
<1>9. OutcomesAreDated'
  BY DEF IInv, OutcomesAreDated, Reply, outcome, the_session
<1> QED
  BY <1>6, <1>7, <1>8, <1>9, SessionStays DEF Reply, the_vault, IInv

\* There is no session while there is no vault: a new vault meets only tickets and
\* replies of sessions that are over.
LEMMA CreateVaultKeeps ==
    ASSUME IInv, NEW d \in Deals(vaults + 1), NEW f \in Findings(d), NEW save_raises \in BOOLEAN,
           CreateVault(d, f, save_raises)
    PROVE  IInv'
<1>1. session = 0 /\ replied = {} /\ vault = None
  BY DEF IInv, SessionHoldsFinds, CreateVault
<1>2. vaults + 1 \in Vaults /\ vaults + 1 \in 0..MaxVaults
  BY NoneIsNothing DEF IInv, TypeOK, CreateVault, Vaults
<1>3. /\ d \in [Committee -> Credentials]
      /\ f \in [Credentials -> Committee \cup {None}]
      /\ \A c \in Credentials : f[c] # None => d[f[c]] = c
  <2>1. d \in [Committee -> Credentials]
    BY <1>2 DEF Deals, Credentials
  <2>2. PICK g \in [{d[t] : t \in Committee} -> Committee] :
          /\ \A c \in {d[t] : t \in Committee} : d[g[c]] = c
          /\ f = [c \in Credentials |-> IF c \in {d[t] : t \in Committee} THEN g[c] ELSE None]
    BY DEF Findings
  <2> QED
    BY <2>1, <2>2
<1>4. TypeOK'
  BY <1>2, <1>3 DEF IInv, TypeOK, CreateVault, the_session, trustees, outcome, budgets
<1>5. TicketsAreDated'
  BY <1>1 DEF IInv, TicketsAreDated, CreateVault, the_session, trustees
<1>6. RepliesAreDated'
  BY <1>1, NoneIsNothing DEF IInv, TypeOK, Replies, Sessions, RepliesAreDated, CreateVault, the_session
<1>7. SessionHoldsFinds'
  <2>1. mask = None /\ Len(pool_shards) = 0
    BY <1>1, FS_EmptySet DEF IInv, SessionHoldsFinds, Holds, PoolSenders
  <2>2. pool_shards = << >>
    BY <2>1 DEF IInv, TypeOK
  <2> QED
    BY <1>1, <2>1, <2>2, EmptySession DEF CreateVault, the_session
<1>8. OwnRecords'
  <2> SUFFICES ASSUME ~UseCodewords, NEW v \in Vaults, NEW w \in Vaults, NEW t \in Committee
               PROVE  /\ dealt'[v][t] = <<v, t>>
                      /\ finds'[w][<<v, t>>] \in {None} \cup (IF v = w THEN {t} ELSE {})
    BY DEF OwnRecords
  <2>1. d = [u \in Committee |-> <<vaults + 1, u>>]
    BY DEF Deals
  <2>2. /\ dealt'[v] = IF v = vaults + 1 THEN d ELSE dealt[v]
        /\ finds'[w] = IF w = vaults + 1 THEN f ELSE finds[w]
    BY <1>2 DEF IInv, TypeOK, CreateVault
  <2>3. dealt'[v][t] = <<v, t>>
    <3>1. dealt[v][t] = <<v, t>>
      BY DEF IInv, OwnRecords
    <3>2. d[t] = <<vaults + 1, t>>
      BY <2>1
    <3> QED
      BY <2>2, <3>1, <3>2
  <2>4. CASE w = vaults + 1
    <3>1. <<v, t>> \in Credentials
      BY DEF Credentials
    <3>2. f[<<v, t>>] \in Committee \cup {None}
      BY <1>3, <3>1
    <3>3. f[<<v, t>>] # None => <<vaults + 1, f[<<v, t>>]>> = <<v, t>>
      BY <1>3, <2>1, <3>1, <3>2
    <3> QED
      BY <2>2, <2>3, <2>4, <3>3
  <2>5. CASE w # vaults + 1
    BY <2>2, <2>3, <2>5 DEF IInv, OwnRecords
  <2> QED
    BY <2>4, <2>5
<1>9. OutcomesAreDated'
  BY DEF IInv, OutcomesAreDated, CreateVault, outcome, the_session
<1> QED
  BY <1>4, <1>5, <1>6, <1>7, <1>8, <1>9 DEF IInv

\* A new session is newer than every ticket and every reply.
LEMMA StartSessionKeeps == ASSUME IInv, StartSession PROVE IInv'
<1>1. /\ sessions \in Nat /\ sessions + 1 \in 0..MaxSessions
      /\ sessions' = sessions + 1 /\ session' = sessions + 1
  BY NoneIsNothing DEF IInv, TypeOK, StartSession
<1>2. replied' = {} /\ mask' = None /\ pool_shards' = << >>
  BY DEF StartSession, ClearSession
<1>3. TypeOK'
  BY <1>1, <1>2 DEF IInv, TypeOK, StartSession, the_vault, trustees, outcome, budgets
<1>4. TicketsAreDated'
  <2>1. \A t \in Committee : ticket[t].session \in Nat
    BY NoneIsNothing DEF IInv, TypeOK, Tickets
  <2> QED
    BY <1>1, <2>1 DEF IInv, TicketsAreDated, StartSession, trustees
<1>5. RepliesAreDated'
  <2>1. \A r \in inflight : r.session \in Nat
    BY NoneIsNothing DEF IInv, TypeOK, Replies, Sessions
  <2> QED
    BY <1>1, <2>1 DEF IInv, RepliesAreDated, StartSession
<1>6. SessionHoldsFinds'
  BY <1>2, EmptySession DEF StartSession, the_vault
<1>7. OutcomesAreDated'
  BY <1>1 DEF IInv, OutcomesAreDated, StartSession, outcome
<1>8. OwnRecords'
  <2>1. dealt' = dealt /\ finds' = finds
    BY DEF StartSession, the_vault
  <2> QED
    BY <2>1, RecordsStay DEF IInv
<1> QED
  BY <1>3, <1>4, <1>5, <1>6, <1>7, <1>8 DEF IInv

\* A crash forgets the session; its number is not given again.
LEMMA CrashKeeps == ASSUME IInv, Crash PROVE IInv'
<1>1. session' = 0 /\ replied' = {} /\ mask' = None /\ pool_shards' = << >> /\ inflight' = {}
  BY DEF Crash, ClearSession
<1>2. TypeOK'
  <2>1. crashes' \in 0..MaxCrashes
    <3>1. crashes \in 0..MaxCrashes /\ crashes < MaxCrashes /\ crashes' = crashes + 1
      BY DEF IInv, TypeOK, Crash
    <3> QED
      BY <3>1, NoneIsNothing
  <2>2. pc' \in [Committee -> {"poll", "metadata", "match", "reply", "dead"}]
    BY DEF IInv, TypeOK, Crash
  <2>3. (/\ session \in 0..sessions /\ sessions \in 0..MaxSessions
         /\ replied \subseteq Committee /\ mask \in Shards \cup {None}
         /\ pool_shards \in Seq(Shards) /\ inflight \subseteq Replies)'
    BY <1>1, NoneIsNothing DEF IInv, TypeOK, Crash
  <2>4. (/\ up \in BOOLEAN /\ vault \in Vaults \cup {None} /\ saved \in Vaults \cup {None}
         /\ vaults \in 0..MaxVaults
         /\ dealt \in [Vaults -> [Committee -> Credentials]]
         /\ finds \in [Vaults -> [Credentials -> Committee \cup {None}]]
         /\ ticket \in [Committee -> Tickets] /\ life \in [Committee -> 1..MaxLives]
         /\ cached_metadata \in [Committee -> Vaults \cup {None}]
         /\ opened \subseteq Sessions /\ failed \subseteq Sessions /\ timeouts \in 0..MaxTimeouts)'
    BY DEF IInv, TypeOK, Crash, outcome
  <2> QED
    BY <2>1, <2>2, <2>3, <2>4 DEF TypeOK
<1>3. TicketsAreDated'
  BY <1>1 DEF IInv, TypeOK, TicketsAreDated, Crash
<1>4. RepliesAreDated' /\ OwnRecords' /\ OutcomesAreDated'
  BY <1>1 DEF IInv, RepliesAreDated, OwnRecords, OutcomesAreDated, Crash, outcome
<1>5. SessionHoldsFinds'
  BY <1>1, EmptySession
<1> QED
  BY <1>2, <1>3, <1>4, <1>5 DEF IInv

\* A reply that counts adds its trustee, and what its trustee sent.
LEMMA CountedReplyKeeps ==
    ASSUME IInv, NEW r \in inflight, ServeReply(r), Counts(r)
    PROVE  SessionHoldsFinds'
<1> DEFINE t == r.from
<1>1. /\ t \in Committee /\ t \notin replied /\ r.shard \in Shards /\ Opens(t, r.shard)
      /\ r.session = session /\ session # 0 /\ vault # None
  BY DEF IInv, TypeOK, Replies, Sessions, RepliesAreDated, Counts, SessionHoldsFinds
<1>2. /\ replied' = replied \cup {t} /\ session' = session
      /\ vault' = vault /\ dealt' = dealt /\ finds' = finds
  BY DEF ServeReply, the_vault
<1>3. PICK sent \in [replied -> Shards] : Holds(sent)
  BY DEF IInv, SessionHoldsFinds
<1> DEFINE R == PoolSenders(sent)
<1>4. PICK now \in [replied \cup {t} -> Shards] :
         now = [u \in replied \cup {t} |-> IF u = t THEN r.shard ELSE sent[u]]
  BY <1>1, <1>3
<1>5. now[t] = r.shard /\ \A u \in replied : now[u] = sent[u] /\ u # t
  BY <1>1, <1>4
<1>6. R \in SUBSET Committee /\ IsFiniteSet(R) /\ t \notin R /\ R \subseteq replied
  BY <1>1, SubsetsAreFinite DEF PoolSenders, IInv, TypeOK
<1>7. \A u \in replied' : Opens(u, now[u])'
  <2>1. \A u \in replied \cup {t} : Opens(u, now[u])
    BY <1>1, <1>3, <1>5 DEF Holds
  <2> QED
    BY <1>2, <2>1 DEF Opens
<1>8. CASE r.shard.of = Prime
  <2>1. mask' = r.shard /\ pool_shards' = pool_shards
    BY <1>8 DEF ServeReply
  <2>2. PoolSenders(now)' = R
    BY <1>1, <1>2, <1>5, <1>8 DEF PoolSenders
  <2>3. {now[u] : u \in R} = {sent[u] : u \in R}
    BY <1>5, <1>6
  <2>4. r.shard # None
    BY <1>1, RecoveryAssumption DEF Shards, Vaults
  <2>5. {pool_shards[i] : i \in 1..Len(pool_shards)}' = {now[u] : u \in PoolSenders(now)}'
    BY <1>3, <2>1, <2>2, <2>3 DEF Holds
  <2>6. Len(pool_shards)' = Cardinality(PoolSenders(now))'
    BY <1>3, <2>1, <2>2 DEF Holds
  <2>7. Holds(now)'
    BY <1>2, <1>5, <1>7, <1>8, <2>1, <2>4, <2>5, <2>6 DEF Holds
  <2> QED
    BY <1>1, <1>2, <1>4, <2>7 DEF SessionHoldsFinds
<1>9. CASE r.shard.of # Prime
  <2>1. mask' = mask /\ pool_shards' = Append(pool_shards, r.shard)
    BY <1>9 DEF ServeReply
  <2>2. PoolSenders(now)' = R \cup {t}
    BY <1>1, <1>2, <1>5, <1>9 DEF PoolSenders
  <2>3. Cardinality(R \cup {t}) = Cardinality(R) + 1
    BY <1>6, FS_AddElement
  <2>4. /\ pool_shards \in Seq(Shards)
        /\ Len(pool_shards') = Len(pool_shards) + 1
        /\ \A i \in 1..Len(pool_shards) : pool_shards'[i] = pool_shards[i]
        /\ pool_shards'[Len(pool_shards) + 1] = r.shard
    BY <1>1, <2>1 DEF IInv, TypeOK
  <2>5. {pool_shards[i] : i \in 1..Len(pool_shards)}'
          = {pool_shards[i] : i \in 1..Len(pool_shards)} \cup {r.shard}
    <3>1. Len(pool_shards) \in Nat /\ 1..Len(pool_shards') = 1..Len(pool_shards) \cup {Len(pool_shards) + 1}
      BY <2>4
    <3> QED
      BY <3>1, <2>4
  <2>6. {now[u] : u \in PoolSenders(now)}' = {sent[u] : u \in R} \cup {r.shard}
    BY <2>2, <1>5, <1>6
  <2>7. {pool_shards[i] : i \in 1..Len(pool_shards)}' = {now[u] : u \in PoolSenders(now)}'
    BY <1>3, <2>5, <2>6 DEF Holds
  <2>8. Len(pool_shards)' = Cardinality(PoolSenders(now))'
    BY <1>3, <2>2, <2>3, <2>4 DEF Holds
  <2>9. Holds(now)'
    BY <1>2, <1>3, <1>5, <1>7, <1>9, <2>1, <2>7, <2>8 DEF Holds
  <2> QED
    BY <1>1, <1>2, <1>4, <2>9 DEF SessionHoldsFinds
<1> QED
  BY <1>8, <1>9

\* A reply that is refused or ignored leaves the session as it is.
LEMMA ServeReplyKeeps == ASSUME IInv, NEW r \in inflight, ServeReply(r) PROVE IInv'
<1>1. r \in Replies /\ r.from \in Committee /\ r.shard \in Shards
  BY DEF IInv, TypeOK, Replies
<1>2. TypeOK'
  <2>1. replied' \subseteq Committee /\ mask' \in Shards \cup {None} /\ pool_shards' \in Seq(Shards)
    <3>1. replied \subseteq Committee /\ mask \in Shards \cup {None} /\ pool_shards \in Seq(Shards)
      BY DEF IInv, TypeOK
    <3>2. Append(pool_shards, r.shard) \in Seq(Shards)
      BY <1>1, <3>1
    <3> QED
      BY <1>1, <3>1, <3>2 DEF ServeReply
  <2>2. pc' \in [Committee -> {"poll", "metadata", "match", "reply", "dead"}]
    BY <1>1 DEF IInv, TypeOK, ServeReply
  <2> QED
    BY <2>1, <2>2 DEF IInv, TypeOK, ServeReply, the_vault, outcome, budgets
<1>3. TicketsAreDated'
  BY DEF IInv, TypeOK, TicketsAreDated, ServeReply, the_vault
<1>4. RepliesAreDated'
  BY DEF IInv, RepliesAreDated, ServeReply, the_vault, Opens
<1>5. SessionHoldsFinds'
  <2>1. CASE Counts(r)
    BY <2>1, CountedReplyKeeps
  <2>2. CASE ~Counts(r)
    BY <2>2, SessionStays DEF ServeReply, the_vault, the_session
  <2> QED
    BY <2>1, <2>2
<1>6. OwnRecords' /\ OutcomesAreDated'
  BY DEF IInv, OwnRecords, OutcomesAreDated, ServeReply, the_vault, outcome
<1> QED
  BY <1>2, <1>3, <1>4, <1>5, <1>6 DEF IInv

\* Every step keeps the invariant.
LEMMA StepKeeps == IInv /\ [Next]_vars => IInv'
<1> SUFFICES ASSUME IInv, [Next]_vars PROVE IInv'
  OBVIOUS
<1>1. CASE Operator
  BY <1>1, CreateVaultKeeps, StartSessionKeeps, FinalizeKeeps DEF Operator
<1>2. CASE \E r \in inflight : ServeReply(r)
  BY <1>2, ServeReplyKeeps
<1>3. CASE \E t \in Committee : Trustee(t) \/ TimeOut(t) \/ Relaunch(t)
  BY <1>3, PollKeeps, FetchMetadataKeeps, NoMatchKeeps, ReplyKeeps, RefusedKeeps, TimeOutKeeps,
     RelaunchKeeps DEF Trustee
<1>4. CASE Crash \/ Boot
  BY <1>4, CrashKeeps, BootKeeps
<1>5. CASE UNCHANGED vars
  <2>1. TypeOK'
    BY <1>5 DEF vars, the_vault, the_session, trustees, outcome, budgets, IInv, TypeOK
  <2>2. TicketsAreDated' /\ OutcomesAreDated'
    BY <1>5 DEF vars, the_vault, the_session, trustees, outcome, IInv, TicketsAreDated, OutcomesAreDated
  <2> QED
    BY <1>5, <2>1, <2>2, SessionStays, RepliesStay DEF vars, the_vault, IInv
<1> QED
  BY <1>1, <1>2, <1>3, <1>4, <1>5 DEF Next

-----------------------------------------------------------------------------
(* What follows for vaults made with keys *)

\* With keys, what everybody sends is their own shard of the present vault.
LEMMA KeysOpenTheirOwn ==
    ASSUME IInv, ~UseCodewords, NEW sent \in [replied -> Shards], Holds(sent), vault # None
    PROVE  /\ \A t \in replied : sent[t] = [vault |-> vault, of |-> t]
           /\ PoolSenders(sent) = replied \ {Prime}
<1>1. \A t \in replied : sent[t] = [vault |-> vault, of |-> t]
  <2> SUFFICES ASSUME NEW t \in replied PROVE sent[t] = [vault |-> vault, of |-> t]
    OBVIOUS
  <2>1. /\ t \in Committee /\ vault \in Vaults
        /\ sent[t] \in Shards /\ Opens(t, sent[t])
    BY DEF IInv, TypeOK, Holds
  <2>2. PICK w \in Vaults, u \in Committee : sent[t] = [vault |-> w, of |-> u]
    BY <2>1 DEF Shards
  <2>3. dealt[vault][t] = <<vault, t>>
    BY <2>1 DEF IInv, OwnRecords
  <2>4. u = finds[w][<<vault, t>>] /\ u # None
    BY <2>1, <2>2, <2>3, NoneIsNothing DEF Opens
  <2>5. finds[w][<<vault, t>>] \in {None} \cup (IF vault = w THEN {t} ELSE {})
    BY <2>1, <2>2 DEF IInv, OwnRecords
  <2>6. vault = w /\ u = t
    BY <2>4, <2>5
  <2> QED
    BY <2>2, <2>6
<1> QED
  BY <1>1 DEF PoolSenders

LEMMA HoldsReplies == IInv /\ ~UseCodewords => SessionHoldsItsReplies
<1> SUFFICES ASSUME IInv, ~UseCodewords PROVE SessionHoldsItsReplies
  OBVIOUS
<1>1. PICK sent \in [replied -> Shards] : Holds(sent)
  BY DEF IInv, SessionHoldsFinds
<1>2. CASE vault = None
  <2>1. session = 0 /\ replied = {}
    BY <1>2 DEF IInv, SessionHoldsFinds
  <2>2. PoolSenders(sent) = {} /\ replied \ {Prime} = {} /\ mask = None
    BY <1>1, <2>1 DEF PoolSenders, Holds
  <2> QED
    BY <1>1, <2>1, <2>2 DEF Holds, SessionHoldsItsReplies
<1>3. CASE vault # None
  <2>1. /\ \A t \in replied : sent[t] = [vault |-> vault, of |-> t]
        /\ PoolSenders(sent) = replied \ {Prime}
    BY <1>1, <1>3, KeysOpenTheirOwn
  <2>2. \A t \in replied : sent[t].of = Prime <=> t = Prime
    BY <2>1
  <2>3. mask = IF Prime \in replied THEN [vault |-> vault, of |-> Prime] ELSE None
    BY <1>1, <2>1, <2>2 DEF Holds
  <2>4. {sent[t] : t \in PoolSenders(sent)} = {[vault |-> vault, of |-> t] : t \in replied \ {Prime}}
    BY <2>1
  <2> QED
    BY <1>1, <1>3, <2>1, <2>3, <2>4 DEF Holds, IInv, SessionHoldsFinds, SessionHoldsItsReplies
<1> QED
  BY <1>2, <1>3

\* As many shards as there are trustees who sent one: no two of them are alike.
LEMMA NoShardTwice ==
    ASSUME IInv, SessionHoldsItsReplies
    PROVE  \A i, j \in 1..Len(pool_shards) : pool_shards[i] = pool_shards[j] => i = j
<1> DEFINE n == Len(pool_shards)
           R == replied \ {Prime}
           D == {[vault |-> vault, of |-> t] : t \in R}
           f == [t \in R |-> [vault |-> vault, of |-> t]]
<1>1. /\ pool_shards \in Seq(Shards) /\ n \in Nat /\ DOMAIN pool_shards = 1..n
      /\ pool_shards \in [1..n -> Shards]
  BY DEF IInv, TypeOK
<1>2. IsFiniteSet(R) /\ n = Cardinality(R) /\ {pool_shards[i] : i \in 1..n} = D
  BY SubsetsAreFinite DEF IInv, TypeOK, SessionHoldsItsReplies
<1>3. f \in Bijection(R, D)
  <2>1. f \in Injection(R, D)
    BY DEF Injection, IsInjective
  <2>2. f \in Surjection(R, D)
    BY DEF Surjection
  <2> QED
    BY <2>1, <2>2 DEF Bijection
<1>4. Cardinality(D) = n
  BY <1>2, <1>3, FS_Bijection DEF ExistsBijection
<1>5. pool_shards \in Surjection(1..n, D)
  <2> HIDE DEF n, D
  <2>1. \A i \in 1..n : pool_shards[i] \in D
    BY <1>2
  <2>2. pool_shards \in [1..n -> D]
    BY <1>1, <2>1
  <2>3. \A d \in D : \E i \in 1..n : pool_shards[i] = d
    BY <1>2
  <2> QED
    BY <2>2, <2>3 DEF Surjection
<1>6. IsFiniteSet(1..n) /\ Cardinality(1..n) = n
  BY <1>1, FS_Interval
<1>7. pool_shards \in Injection(1..n, D)
  BY <1>4, <1>5, <1>6, FS_Surjection
<1> QED
  BY <1>7 DEF Injection, IsInjective

\* A shard is something.
LEMMA ShardsAreSomething == \A v \in Vaults, t \in Committee : [vault |-> v, of |-> t] # None
BY RecoveryAssumption DEF Vaults

\* The gates of finalize pass for nothing but a quorum, and then the vault decrypts.
LEMMA GatesMeanQuorum ==
    ASSUME IInv, SessionHoldsItsReplies
    PROVE  (GatesPass <=> Quorum(replied)) /\ (GatesPass => Decrypts)
<1>1. CASE replied = {}
  BY <1>1 DEF SessionHoldsItsReplies, GatesPass, Quorum
<1>2. CASE replied # {}
  <2>1. vault \in Vaults
    BY <1>2 DEF IInv, TypeOK, SessionHoldsItsReplies
  <2>2. [vault |-> vault, of |-> Prime] # None
    BY <2>1, ShardsAreSomething, NoneIsNothing
  <2>3. GatesPass <=> Quorum(replied)
    BY <2>2 DEF SessionHoldsItsReplies, GatesPass, Quorum
  <2>4. \A i \in 1..Len(pool_shards) : pool_shards[i].vault = vault
    <3> SUFFICES ASSUME NEW i \in 1..Len(pool_shards) PROVE pool_shards[i].vault = vault
      OBVIOUS
    <3>1. pool_shards[i] \in {[vault |-> vault, of |-> t] : t \in replied \ {Prime}}
      BY DEF SessionHoldsItsReplies
    <3> QED
      BY <3>1
  <2>5. GatesPass => mask = [vault |-> vault, of |-> Prime]
    BY DEF SessionHoldsItsReplies, GatesPass
  <2> QED
    BY <2>3, <2>4, <2>5, NoShardTwice DEF GatesPass, Decrypts
<1> QED
  BY <1>1, <1>2

-----------------------------------------------------------------------------
(* The promise *)

LEMMA PromiseInit == Init => Promise!Init
BY DEF Init, Promise!Init

\* Every step of the combiner and its trustees is a step of the recovery as
\* QuorumRecovery has it, or none.
LEMMA PromiseStep ==
    ASSUME IInv, SessionHoldsItsReplies, [Next]_vars
    PROVE  [Promise!Next]_(Promise!vars)
<1> DEFINE Same == UNCHANGED <<session, replied, opened, failed>>
<1>1. CASE StartSession
  <2>1. session' > session /\ session' \notin opened \cup failed
    BY <1>1, NoneIsNothing DEF IInv, TypeOK, OutcomesAreDated, StartSession
  <2> QED
    BY <1>1, <2>1 DEF StartSession, ClearSession, outcome, Promise!Start, Promise!Next
<1>2. CASE Finalize
  <2>1. session # 0 /\ Quorum(replied) /\ Decrypts
    BY <1>2, GatesMeanQuorum DEF Finalize
  <2>2. UNCHANGED <<session, replied, failed>> /\ opened' = opened \cup {session}
    BY <1>2, <2>1 DEF Finalize, the_session
  <2>3. Promise!Quorum(replied)
    BY <2>1 DEF Quorum, Promise!Quorum, Cardinality, Promise!Cardinality
  <2>4. Promise!Recover
    BY <2>1, <2>2, <2>3 DEF Promise!Recover
  <2> QED
    BY <2>4 DEF Promise!Next
<1>3. ASSUME NEW r \in inflight, ServeReply(r) PROVE [Promise!Next]_(Promise!vars)
  <2>1. CASE Counts(r)
    <3>1. session # 0 /\ r.from \in Committee /\ r.from \notin replied
      BY <2>1 DEF IInv, TypeOK, Replies, Sessions, Counts
    <3>2. Promise!Answer(r.from)
      BY <1>3, <2>1, <3>1 DEF ServeReply, outcome, Promise!Answer
    <3> QED
      BY <3>1, <3>2 DEF Promise!Next
  <2>2. CASE ~Counts(r)
    BY <1>3, <2>2 DEF ServeReply, outcome, Promise!vars
  <2> QED
    BY <2>1, <2>2
<1>4. CASE Crash
  BY <1>4 DEF Crash, ClearSession, outcome, Promise!Lose, Promise!Next
<1>5. CASE \E d \in Deals(vaults + 1), save_raises \in BOOLEAN :
             \E f \in Findings(d) : CreateVault(d, f, save_raises)
  BY <1>5 DEF CreateVault, the_session, outcome, Promise!vars
<1>6. CASE Boot \/ UNCHANGED vars
  BY <1>6 DEF Boot, vars, the_session, outcome, Promise!vars
<1>7. CASE \E t \in Committee : Trustee(t) \/ TimeOut(t) \/ Relaunch(t)
  <2>1. Same
    BY <1>7 DEF Trustee, Poll, FetchMetadata, NoMatch, Reply, Refused, TimeOut, Relaunch, the_session, outcome
  <2> QED
    BY <2>1 DEF Promise!vars
<1> QED
  BY <1>1, <1>2, <1>3, <1>4, <1>5, <1>6, <1>7 DEF Next, Operator

-----------------------------------------------------------------------------
(* Theorems *)

\* Tickets, replies and what the session holds stay together, whichever credentials
\* the vaults are made with: every shard a session holds was sent to that session by
\* a trustee of its own, once, and is what that trustee's credential of the present
\* vault opens (app.py:577-636, trustee/app.py:132-205).
THEOREM RecoveryInvariant == Spec => []IInv
BY InitFine, StepKeeps, PTL DEF Spec

\* Type correctness.
THEOREM TypeCorrect == Spec => []TypeOK
<1>1. IInv => TypeOK
  BY DEF IInv
<1> QED
  BY <1>1, RecoveryInvariant, PTL

\* With keys as credentials a session holds exactly one shard of the present vault,
\* its own, for each trustee that replied to it (app.py:609-629).
THEOREM SessionsHoldTheirReplies ==
    ASSUME ~UseCodewords PROVE Spec => []SessionHoldsItsReplies
<1>1. IInv => SessionHoldsItsReplies
  BY HoldsReplies
<1> QED
  BY <1>1, RecoveryInvariant, PTL

\* The replies of the prime and of PoolThreshold others open the vault, whatever
\* happened before they came (app.py:639-668).
THEOREM QuorumsSuffice ==
    ASSUME ~UseCodewords PROVE Spec => []QuorumSuffices
<1>1. IInv => QuorumSuffices
  BY HoldsReplies, GatesMeanQuorum DEF QuorumSuffices
<1> QED
  BY <1>1, RecoveryInvariant, PTL

\* The combiner and its trustees implement QuorumRecovery (app.py:577-668).
THEOREM PromiseKept ==
    ASSUME ~UseCodewords PROVE Spec => KeepsPromise
<1>1. Init => Promise!Init
  BY PromiseInit
<1>2. IInv /\ [Next]_vars => [Promise!Next]_(Promise!vars)
  BY HoldsReplies, PromiseStep
<1> QED
  BY <1>1, <1>2, RecoveryInvariant, PTL DEF Spec, KeepsPromise, Promise!Spec
=============================================================================
