-------------------------- MODULE RecoverySession ---------------------------
(***************************************************************************)
(* A recovery: the operator's session in the combiner, and the trustee     *)
(* processes that poll for their envelope, match their credential against  *)
(* the vault's shard records and post the shard they find.  Every request  *)
(* of a trustee is a step of its own, so the combiner may have restarted,  *)
(* opened another session or hold another vault by the time it is served.  *)
(*                                                                         *)
(* A shard is named by the vault it is of and the trustee whose record it  *)
(* was sealed in, a credential by a vault and a trustee it was dealt to; a *)
(* codeword may be dealt more than once, and open records of two vaults.   *)
(* What the combiner persists of a vault is VaultLifecycle; here a vault   *)
(* is either saved or not (its save raised).                               *)
(***************************************************************************)
EXTENDS Naturals, FiniteSets, Sequences

CONSTANTS
    Committee,     \* the trustees of the vault's ceremony
    Prime,
    PoolThreshold, \* metadata["pool_threshold"]
    UseCodewords,  \* the vaults may be created with use_codewords
    MaxVaults, MaxSessions, MaxCrashes, MaxTimeouts, MaxLives, \* bounds
    None           \* no vault, no mask, no cached metadata

ASSUME RecoveryAssumption ==
    /\ IsFiniteSet(Committee) /\ Prime \in Committee
    /\ PoolThreshold \in 1..Cardinality(Committee \ {Prime})
    /\ UseCodewords \in BOOLEAN
    /\ \A bound \in {MaxVaults, MaxSessions, MaxCrashes, MaxTimeouts, MaxLives} : bound \in Nat
    /\ MaxLives # 0 \* every trustee has its first process
    /\ None \notin Nat \cup Committee \cup [vault : Nat, of : Committee]

VARIABLES
    up,       \* the combiner's process runs
    vault,    \* STATE["vault"]
    saved,    \* the vault of state.json
    dealt,    \* dealt[v][t]: the credential in t's envelope of vault v
    finds,    \* finds[v][c]: whose record of vault v is the first that c opens, if any
    vaults,   \* how many vaults have been made
    session,  \* STATE["recovery_session"]["session_id"], 0 when there is no session
    replied, mask, pool_shards, \* the rest of the session
    sessions, \* how many sessions have been started
    pc,       \* where each trustee stands in poll_and_respond_loop
    ticket,   \* what its last pending-envelope request returned
    cached_metadata, \* the vault whose metadata it keeps
    life,     \* which process of that trustee this is
    inflight, \* shard-reply requests not served yet
    opened, failed, \* history: sessions whose finalize decrypted the vault, or raised
    crashes, timeouts \* how many there were

the_vault == <<vault, saved, dealt, finds, vaults>>
the_session == <<session, replied, mask, pool_shards, sessions>>
trustees == <<pc, ticket, cached_metadata, life>>
outcome == <<opened, failed>>
budgets == <<crashes, timeouts>>
vars == <<up, the_vault, the_session, trustees, inflight, outcome, budgets>>

Vaults == 1..MaxVaults
Sessions == 1..MaxSessions
Credentials == Vaults \X Committee
Shards == [vault : Vaults, of : Committee]
Tickets == [session : 0..MaxSessions, vault : Vaults \cup {None}]
Replies == [from : Committee, life : 1..MaxLives, session : Sessions, shard : Shards]

NoTicket == [session |-> 0, vault |-> None]

Init ==
    /\ up = TRUE
    /\ vault = None /\ saved = None /\ vaults = 0
    /\ dealt = [v \in Vaults |-> [t \in Committee |-> <<v, t>>]]
    /\ finds = [v \in Vaults |-> [c \in Credentials |-> None]]
    /\ session = 0 /\ replied = {} /\ mask = None /\ pool_shards = <<>> /\ sessions = 0
    /\ pc = [t \in Committee |-> "poll"]
    /\ ticket = [t \in Committee |-> NoTicket]
    /\ cached_metadata = [t \in Committee |-> None]
    /\ life = [t \in Committee |-> 1]
    /\ inflight = {}
    /\ opened = {} /\ failed = {}
    /\ crashes = 0 /\ timeouts = 0

-----------------------------------------------------------------------------
(* The combiner *)

\* 256-bit keys are all different; codewords are chosen at random, so one may
\* be dealt to two trustees, or again in a later vault.
Deals(v) ==
    IF UseCodewords THEN [Committee -> Credentials] ELSE {[t \in Committee |-> <<v, t>>]}

\* A credential opens the records of those it was dealt to and finds the one that
\* comes first in the shuffled order.
Findings(d) ==
    LET words == {d[t] : t \in Committee}
        orders == {g \in [words -> Committee] : \A c \in words : d[g[c]] = c}
    IN {[c \in Credentials |-> IF c \in words THEN g[c] ELSE None] : g \in orders}

\* do_create_vault; when its save raises, the vault is in STATE only.
CreateVault(d, f, save_raises) ==
    /\ up
    /\ vault = None
    /\ vaults < MaxVaults
    /\ vaults' = vaults + 1
    /\ vault' = vaults + 1
    /\ dealt' = [dealt EXCEPT ![vaults + 1] = d]
    /\ finds' = [finds EXCEPT ![vaults + 1] = f]
    /\ saved' = IF save_raises THEN saved ELSE vaults + 1
    /\ UNCHANGED <<up, the_session, trustees, inflight, outcome, budgets>>

ClearSession == replied' = {} /\ mask' = None /\ pool_shards' = <<>>

\* start_recovery_session replaces whatever session there was.
StartSession ==
    /\ up
    /\ vault # None
    /\ sessions < MaxSessions
    /\ sessions' = sessions + 1
    /\ session' = sessions + 1
    /\ ClearSession
    /\ UNCHANGED <<up, the_vault, trustees, inflight, outcome, budgets>>

\* Mutant: the session_id of a reply is not compared.
AnySession(r) == session # 0 /\ r.from \notin replied

\* Mutant: a duplicate reply is not recognised.
NotRecognised(r) == r.session = session

\* Mutant: a session that has its pool takes no more replies.
ClosedByPool(r) ==
    /\ r.session = session /\ r.from \notin replied
    /\ Len(pool_shards) < PoolThreshold

\* submit_unsealed_shard_reply neither refuses the reply nor ignores it.
Counts(r) == r.session = session /\ r.from \notin replied

\* The reply is served and answered, with a 200 or a 409; either way the
\* trustee that waits for the answer goes back to polling.
ServeReply(r) ==
    /\ up
    /\ r \in inflight
    /\ inflight' = inflight \ {r}
    /\ IF Counts(r)
       THEN /\ replied' = replied \cup {r.from}
            /\ mask' = IF r.shard.of = Prime THEN r.shard ELSE mask
            /\ pool_shards' = IF r.shard.of = Prime THEN pool_shards ELSE Append(pool_shards, r.shard)
       ELSE UNCHANGED <<replied, mask, pool_shards>>
    /\ pc' = IF pc[r.from] = "reply" /\ life[r.from] = r.life
             THEN [pc EXCEPT ![r.from] = "poll"] ELSE pc
    /\ UNCHANGED <<up, the_vault, session, sessions, ticket, cached_metadata, life, outcome, budgets>>

\* Mutant: the prime's mask is not waited for.
PoolIsEnough == Len(pool_shards) >= PoolThreshold

\* The two gates of finalize_recovery.
GatesPass == mask # None /\ Len(pool_shards) >= PoolThreshold

\* reconstruct_and_decrypt_prime of all the session holds: reconstruct_secret
\* refuses two shards with one x, and the archive's tag refuses every key but
\* the vault's own.
Decrypts ==
    /\ mask = [vault |-> vault, of |-> Prime]
    /\ \A i, j \in 1..Len(pool_shards) : pool_shards[i] = pool_shards[j] => i = j
    /\ \A i \in 1..Len(pool_shards) : pool_shards[i].vault = vault
    /\ Len(pool_shards) >= PoolThreshold

\* finalize_recovery leaves the session as it is.
Finalize ==
    /\ up
    /\ session # 0
    /\ GatesPass
    /\ opened' = IF Decrypts THEN opened \cup {session} ELSE opened
    /\ failed' = IF Decrypts THEN failed ELSE failed \cup {session}
    /\ UNCHANGED <<up, the_vault, the_session, trustees, inflight, budgets>>

\* The process dies.  A request it was serving fails at the trustee, where
\* nothing catches that once a shard-reply is on its way.
Crash ==
    /\ up
    /\ crashes < MaxCrashes
    /\ crashes' = crashes + 1
    /\ up' = FALSE
    /\ session' = 0
    /\ ClearSession
    /\ vault' = saved
    /\ inflight' = {}
    /\ pc' = [t \in Committee |-> IF pc[t] = "reply" THEN "dead" ELSE pc[t]]
    /\ UNCHANGED <<saved, dealt, finds, vaults, sessions, ticket, cached_metadata, life, outcome, timeouts>>

Boot ==
    /\ ~up
    /\ up' = TRUE
    /\ UNCHANGED <<the_vault, the_session, trustees, inflight, outcome, budgets>>

-----------------------------------------------------------------------------
(* A trustee *)

\* get_pending_envelope has an envelope for t.
Poll(t) ==
    /\ up
    /\ pc[t] = "poll"
    /\ session # 0
    /\ t \notin replied
    /\ ticket' = [ticket EXCEPT ![t] = [session |-> session, vault |-> vault]]
    /\ pc' = [pc EXCEPT ![t] = IF cached_metadata[t] = None THEN "metadata" ELSE "match"]
    /\ UNCHANGED <<up, the_vault, the_session, cached_metadata, life, inflight, outcome, budgets>>

\* GET /vault/metadata; raise_for_status turns a 404 into the end of the process.
FetchMetadata(t) ==
    /\ up
    /\ pc[t] = "metadata"
    /\ cached_metadata' = [cached_metadata EXCEPT ![t] = vault]
    /\ pc' = [pc EXCEPT ![t] = IF vault = None THEN "dead" ELSE "match"]
    /\ UNCHANGED <<up, the_vault, the_session, ticket, life, inflight, outcome, budgets>>

\* try_match_key_prime or try_match_word_prime: whose record of the vault it has
\* cached is the first that the credential of its envelope opens.
Match(t) == finds[cached_metadata[t]][dealt[ticket[t].vault][t]]

\* The metadata is another vault's, and the credential opens none of its records.
NoMatch(t) ==
    /\ pc[t] = "match"
    /\ Match(t) = None
    /\ pc' = [pc EXCEPT ![t] = "poll"]
    /\ UNCHANGED <<up, the_vault, the_session, ticket, cached_metadata, life, inflight, outcome, budgets>>

\* Mutant: the trustee asks which session is current when it posts its reply.
CurrentSession(t) == session

\* The session_id a reply is for is the one its envelope came with.
ReplySession(t) == ticket[t].session

\* POST /trustees/shard-reply of what the record holds, be it a lost vault's.
Reply(t) ==
    /\ up
    /\ pc[t] = "match"
    /\ Match(t) # None
    /\ inflight' = inflight \cup
         {[from |-> t, life |-> life[t], session |-> ReplySession(t),
           shard |-> [vault |-> cached_metadata[t], of |-> Match(t)]]}
    /\ pc' = [pc EXCEPT ![t] = "reply"]
    /\ UNCHANGED <<up, the_vault, the_session, ticket, cached_metadata, life, outcome, budgets>>

\* Neither request is inside the loop's try: a refused connection ends the process.
Refused(t) ==
    /\ ~up
    /\ \/ pc[t] = "metadata"
       \/ pc[t] = "match" /\ Match(t) # None
    /\ pc' = [pc EXCEPT ![t] = "dead"]
    /\ UNCHANGED <<up, the_vault, the_session, ticket, cached_metadata, life, inflight, outcome, budgets>>

\* The answer takes more than _TIMEOUT_S; the request itself is served all the same.
TimeOut(t) ==
    /\ pc[t] \in {"metadata", "reply"}
    /\ timeouts < MaxTimeouts
    /\ timeouts' = timeouts + 1
    /\ pc' = [pc EXCEPT ![t] = "dead"]
    /\ UNCHANGED <<up, the_vault, the_session, ticket, cached_metadata, life, inflight, outcome, crashes>>

\* Somebody starts the container again: main() registers the old key pair, which
\* saves all of STATE, and polls with nothing cached.
Relaunch(t) ==
    /\ up
    /\ pc[t] = "dead"
    /\ life[t] < MaxLives
    /\ life' = [life EXCEPT ![t] = @ + 1]
    /\ pc' = [pc EXCEPT ![t] = "poll"]
    /\ cached_metadata' = [cached_metadata EXCEPT ![t] = None]
    /\ ticket' = [ticket EXCEPT ![t] = NoTicket]
    /\ saved' = vault
    /\ UNCHANGED <<up, vault, dealt, finds, vaults, the_session, inflight, outcome, budgets>>

-----------------------------------------------------------------------------
Operator ==
    \/ \E d \in Deals(vaults + 1), save_raises \in BOOLEAN :
          \E f \in Findings(d) : CreateVault(d, f, save_raises)
    \/ StartSession
    \/ Finalize

Trustee(t) == Poll(t) \/ FetchMetadata(t) \/ NoMatch(t) \/ Reply(t) \/ Refused(t)

Next ==
    \/ Operator
    \/ \E r \in inflight : ServeReply(r)
    \/ \E t \in Committee : Trustee(t) \/ TimeOut(t) \/ Relaunch(t)
    \/ Crash
    \/ Boot

Spec == Init /\ [][Next]_vars

\* A live trustee polls every poll_interval_s, Flask's threads serve every
\* request, and whoever runs the demo starts the combiner again.  Nobody has to
\* start a trustee again (docker-compose.yml has no restart policy), to open a
\* session or to finalize one.
Fairness ==
    /\ \A t \in Committee : WF_vars(Trustee(t))
    /\ \A t \in Committee : WF_vars(\E r \in inflight : r.from = t /\ ServeReply(r))
    /\ WF_vars(Boot)

FairSpec == Spec /\ Fairness

-----------------------------------------------------------------------------
(* Properties *)

TypeOK ==
    /\ up \in BOOLEAN
    /\ vault \in Vaults \cup {None} /\ saved \in Vaults \cup {None}
    /\ vaults \in 0..MaxVaults
    /\ dealt \in [Vaults -> [Committee -> Credentials]]
    /\ finds \in [Vaults -> [Credentials -> Committee \cup {None}]]
    /\ session \in 0..sessions /\ sessions \in 0..MaxSessions
    /\ replied \subseteq Committee
    /\ mask \in Shards \cup {None}
    /\ pool_shards \in Seq(Shards)
    /\ pc \in [Committee -> {"poll", "metadata", "match", "reply", "dead"}]
    /\ ticket \in [Committee -> Tickets]
    /\ cached_metadata \in [Committee -> Vaults \cup {None}]
    /\ life \in [Committee -> 1..MaxLives]
    /\ inflight \subseteq Replies
    /\ opened \subseteq Sessions /\ failed \subseteq Sessions
    /\ crashes \in 0..MaxCrashes /\ timeouts \in 0..MaxTimeouts

Quorum(S) == Prime \in S /\ Cardinality(S \ {Prime}) >= PoolThreshold

\* With keys as credentials, a session holds one shard of the present vault for
\* each trustee that replied to it, that trustee's own, and nothing else: no
\* late, repeated or misdirected shard-reply leaves a trace (app.py:609-629).
SessionHoldsItsReplies ==
    /\ session = 0 => replied = {}
    /\ replied # {} => vault # None
    /\ mask = IF Prime \in replied THEN [vault |-> vault, of |-> Prime] ELSE None
    /\ Len(pool_shards) = Cardinality(replied \ {Prime})
    /\ {pool_shards[i] : i \in 1..Len(pool_shards)}
         = {[vault |-> vault, of |-> t] : t \in replied \ {Prime}}

\* Once the prime trustee and PoolThreshold pool trustees have replied, finalize
\* decrypts the vault: "recovery needs the prime's key plus any two of the three
\* pool keys" (docs/shardic_white_paper.v4.1.md:164, for T = 4 and D = 3).
QuorumSuffices == Quorum(replied) => GatesPass /\ Decrypts

\* The session is the recovery of QuorumRecovery that the trustees in `replied`
\* have answered, and its finalize opens the vault.
Promise == INSTANCE QuorumRecovery WITH answered <- replied

KeepsPromise == Promise!Spec

\* A session that stays open gets the reply of every trustee whose process still
\* runs, except one that keeps the metadata of a vault that was lost
\* (trustee/app.py:132-205).
RunningTrusteesReply ==
    \A s \in Sessions : session = s ~>
        \/ session # s
        \/ \A t \in Committee :
              t \in replied \/ pc[t] = "dead" \/ cached_metadata[t] \notin {None, vault}

\* "a mid-recovery combiner restart just means re-running /admin/recovery/start,
\* which is cheap and non-destructive" (app.py:177-178): a session that stays
\* open gets its quorum of replies.
RestartIsHarmless ==
    \A s \in Sessions : session = s ~> session # s \/ Quorum(replied)
=============================================================================
