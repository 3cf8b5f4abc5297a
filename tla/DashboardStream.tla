-------------------------- MODULE DashboardStream ---------------------------
(***************************************************************************)
(* The live dashboard (demo/combiner/dashboard/dashboard.js) and the       *)
(* events the combiner streams to it.  A handler changes STATE under the   *)
(* lock and broadcasts after it has released it, so two handlers may       *)
(* broadcast in the other order than they ran; a stream first registers    *)
(* its queue and then takes its snapshot; and the browser reconnects by    *)
(* itself whenever the connection is lost.                                 *)
(*                                                                         *)
(* The handlers are here what the dashboard sees of them: the ceremony's   *)
(* status, whether there is a vault, the session and who has replied, the  *)
(* last verification.  Their own rules are CeremonyFormation's and         *)
(* RecoverySession's.  do_create_vault saves after it has changed STATE    *)
(* and broadcasts after it has saved, so a save that raises leaves a vault *)
(* no event tells of.                                                      *)
(***************************************************************************)
EXTENDS Naturals, FiniteSets, Sequences, SequencesExt

CONSTANTS
    Trustees,
    Quorum,      \* how many replies finalize needs
    MaxSessions, \* bound: recovery sessions in one behaviour
    MaxHandlers, \* bound: handlers that have unlocked and not yet broadcast
    MaxQueue,    \* bound: events one stream has queued
    None

ASSUME DashboardAssumption ==
    /\ IsFiniteSet(Trustees) /\ Quorum \in 1..Cardinality(Trustees)
    /\ MaxSessions \in Nat /\ MaxHandlers \in Nat /\ MaxQueue \in Nat
    /\ None \notin Nat /\ \A some \in SUBSET Trustees : None # some

VARIABLES
    ceremony,    \* STATE["ceremony"]["status"], "none" when there is no ceremony
    vault,       \* STATE["vault"] is not None
    saved,       \* ... and in state.json
    session,     \* STATE["recovery_session"], numbered; 0 when there is none
    sessions,    \* how many were started
    replied,     \* STATE["recovery_session"]["replied"]
    last_verify, \* STATE["last_verify"]: the session it was made in, or None
    outbox,      \* events of handlers that have released the lock, in the order they ran
    overtaken,   \* history: some event was broadcast before an older one
    untold,      \* history: what of a vault whose save raised the page is never told of
    conn,        \* the dashboard's stream: "off", "registered", "painted" or "open"
    queue,       \* its queue
    shown        \* the dashboard's own `state`

server == <<ceremony, vault, saved, session, sessions, replied, last_verify>>
history == <<overtaken, untold>>
client == <<conn, queue, shown>>
vars == <<server, outbox, history, client>>

Statuses == {"none", "forming", "formed", "failed"}
Events == [type : {"ceremony_initiated", "ceremony_formed", "ceremony_failed", "vault_created",
                   "recovery_started", "recovery_finalized", "recovery_verified"},
           data : 0..MaxSessions]
          \cup [type : {"unsealed_shard_received"}, data : Trustees]

\* What a verification's event says is the session's; the others say nothing the
\* properties tell apart.
Event(type) == [type |-> type, data |-> IF type = "recovery_verified" THEN session ELSE 0]

\* A page that has just been loaded.
BlankPage ==
    [ceremony |-> "none", vault |-> FALSE, recovery |-> None, lastVerify |-> None]

Init ==
    /\ ceremony = "none" /\ vault = FALSE /\ saved = FALSE
    /\ session = 0 /\ sessions = 0 /\ replied = {} /\ last_verify = None
    /\ outbox = << >> /\ overtaken = FALSE /\ untold = {}
    /\ conn = "off" /\ queue = << >> /\ shown = BlankPage

-----------------------------------------------------------------------------
(* The combiner's handlers, up to the release of the lock *)

Leaves(e) ==
    /\ Len(outbox) < MaxHandlers
    /\ outbox' = Append(outbox, e)
    /\ UNCHANGED <<history, client>>

InitiateCeremony ==
    /\ ~vault /\ ceremony # "forming"
    /\ ceremony' = "forming"
    /\ Leaves(Event("ceremony_initiated"))
    /\ UNCHANGED <<vault, saved, session, sessions, replied, last_verify>>

\* The last accept, or the first lapse the backup queue cannot serve.
DecideCeremony ==
    /\ ceremony = "forming"
    /\ \/ ceremony' = "formed" /\ Leaves(Event("ceremony_formed"))
       \/ ceremony' = "failed" /\ Leaves(Event("ceremony_failed"))
    /\ UNCHANGED <<vault, saved, session, sessions, replied, last_verify>>

\* do_create_vault, up to its save.
MakeVault ==
    /\ ~vault /\ ceremony = "formed"
    /\ vault' = TRUE
    /\ ceremony' = "none"
    /\ UNCHANGED <<session, sessions, replied, last_verify>>

CreateVault ==
    /\ MakeVault
    /\ saved' = TRUE
    /\ Leaves(Event("vault_created"))

\* The save raises: STATE has the vault, state.json has not, and there is no broadcast.
CreateVaultUnsaved ==
    /\ MakeVault
    /\ untold' = {"vault", "ceremony"}
    /\ UNCHANGED <<saved, outbox, overtaken, client>>

\* A trustee registers, which saves the whole STATE; its own event is Heartbeat's.
RegisterTrustee ==
    /\ saved' = vault
    /\ UNCHANGED <<ceremony, vault, session, sessions, replied, last_verify>>
    /\ UNCHANGED <<outbox, history, client>>

\* last_verify is left as it is.
StartRecovery ==
    /\ vault
    /\ sessions < MaxSessions
    /\ session' = sessions + 1
    /\ sessions' = sessions + 1
    /\ replied' = {}
    /\ Leaves(Event("recovery_started"))
    /\ UNCHANGED <<ceremony, vault, saved, last_verify>>

ShardReply(t) ==
    /\ session # 0 /\ t \notin replied
    /\ replied' = replied \cup {t}
    /\ Leaves([type |-> "unsealed_shard_received", data |-> t])
    /\ UNCHANGED <<ceremony, vault, saved, session, sessions, last_verify>>

FinalizeRecovery ==
    /\ session # 0 /\ Cardinality(replied) >= Quorum
    /\ Leaves(Event("recovery_finalized"))
    /\ UNCHANGED server

\* verify_recovery asks for no session.
VerifyRecovery ==
    /\ last_verify' = session
    /\ Leaves(Event("recovery_verified"))
    /\ UNCHANGED <<ceremony, vault, saved, session, sessions, replied>>

\* Mutant: the queue is registered when stream() turns to it.
ListensOnceOpen == conn = "open"

\* The queue is among _sse_listeners from the request on.
Listens == conn # "off"

\* Mutant: the dashboard connects again and keeps the queue of its old stream.
QueueOfOldStream == queue

FreshQueue == << >>

\* _broadcast, from whichever of the handlers' threads runs next.
Broadcast(i) ==
    /\ outbox' = RemoveAt(outbox, i)
    /\ overtaken' = (overtaken \/ i > 1)
    /\ IF Listens
       THEN Len(queue) < MaxQueue /\ queue' = Append(queue, outbox[i])
       ELSE UNCHANGED queue
    /\ UNCHANGED <<server, untold, conn, shown>>

\* The process dies and starts again with what was saved; every stream is cut.
Restart ==
    /\ vault' = saved /\ ceremony' = "none"
    /\ session' = 0 /\ replied' = {} /\ last_verify' = None
    /\ outbox' = << >>
    /\ conn' = "off" /\ queue' = FreshQueue
    /\ untold' = {}
    /\ UNCHANGED <<saved, sessions, overtaken, shown>>

-----------------------------------------------------------------------------
(* The dashboard *)

\* events(): the queue is registered first.  What this stream is sent is in order
\* from here on unless an overtaken event is still to come.
Connect ==
    /\ conn = "off"
    /\ conn' = "registered"
    /\ queue' = FreshQueue
    /\ overtaken' = (overtaken /\ outbox # << >>)
    /\ UNCHANGED <<server, outbox, untold, shown>>

RecoveryRepainted == IF session = 0 THEN None ELSE replied

\* stream() builds the snapshot and sends it before any queued event; applySnapshot
\* paints everything from it but `finalized`, which it does not carry and no property
\* is about.  It shows a vault no event told of, and the
\* ceremony that vault used up unless older events are still to paint over it.
Snapshot ==
    /\ conn = "registered"
    /\ conn' = "painted"
    /\ shown' = [shown EXCEPT !.ceremony = ceremony, !.vault = vault,
                              !.recovery = RecoveryRepainted, !.lastVerify = last_verify]
    /\ untold' = IF queue \o outbox = << >> THEN {} ELSE untold \ {"vault"}
    /\ UNCHANGED <<server, outbox, overtaken, queue>>

\* stream() turns to its queue.
FollowQueue ==
    /\ conn = "painted"
    /\ conn' = "open"
    /\ UNCHANGED <<server, outbox, history, queue, shown>>

\* Mutant: a vault does not end the ceremony on the page.
VaultBesideCeremony == [shown EXCEPT !.vault = TRUE]

VaultShown == [shown EXCEPT !.vault = TRUE, !.ceremony = "none"]

\* handleEvent.
Repaint(e) ==
    CASE e.type = "ceremony_initiated" -> [shown EXCEPT !.ceremony = "forming"]
      [] e.type = "ceremony_formed" ->
            IF shown.ceremony = "none" THEN shown ELSE [shown EXCEPT !.ceremony = "formed"]
      [] e.type = "ceremony_failed" ->
            IF shown.ceremony = "none" THEN shown ELSE [shown EXCEPT !.ceremony = "failed"]
      [] e.type = "vault_created" -> VaultShown
      [] e.type = "recovery_started" ->
            [shown EXCEPT !.recovery = {}, !.lastVerify = None]
      [] e.type = "unsealed_shard_received" ->
            IF shown.recovery = None THEN shown ELSE [shown EXCEPT !.recovery = @ \cup {e.data}]
      [] e.type = "recovery_finalized" -> shown
      [] e.type = "recovery_verified" -> [shown EXCEPT !.lastVerify = e.data]

Receive ==
    /\ conn = "open" /\ queue # << >>
    /\ shown' = Repaint(Head(queue))
    /\ queue' = Tail(queue)
    /\ UNCHANGED <<server, outbox, history, conn>>

\* The connection is lost; the page keeps what it shows.
Disconnect ==
    /\ conn # "off"
    /\ conn' = "off"
    /\ queue' = FreshQueue
    /\ UNCHANGED <<server, outbox, history, shown>>

\* Somebody loads the page afresh.
Reload ==
    /\ conn' = "off"
    /\ queue' = FreshQueue
    /\ shown' = BlankPage
    /\ UNCHANGED <<server, outbox, history>>

Handler ==
    \/ InitiateCeremony \/ DecideCeremony
    \/ CreateVault \/ CreateVaultUnsaved \/ RegisterTrustee
    \/ StartRecovery \/ FinalizeRecovery \/ VerifyRecovery
    \/ \E t \in Trustees : ShardReply(t)

Next ==
    \/ Handler \/ Restart
    \/ \E i \in DOMAIN outbox : Broadcast(i)
    \/ Connect \/ Snapshot \/ FollowQueue \/ Receive \/ Disconnect \/ Reload

Spec == Init /\ [][Next]_vars

\* Every handler's thread gets to its broadcast (strong fairness only because
\* MaxQueue, which the code has not, may disable it), EventSource reconnects, and
\* a stream that stays open is read.  Operators, trustees and the network owe nothing.
FairSpec ==
    /\ Spec
    /\ SF_vars(outbox # << >> /\ Broadcast(1))
    /\ WF_vars(Connect) /\ WF_vars(Snapshot) /\ WF_vars(FollowQueue) /\ WF_vars(Receive)
-----------------------------------------------------------------------------
(* Properties *)

TypeOK ==
    /\ ceremony \in Statuses /\ vault \in BOOLEAN /\ saved \in BOOLEAN
    /\ sessions \in 0..MaxSessions /\ session \in 0..sessions
    /\ replied \subseteq Trustees
    /\ last_verify \in 0..MaxSessions \cup {None}
    /\ outbox \in Seq(Events) /\ Len(outbox) <= MaxHandlers
    /\ overtaken \in BOOLEAN /\ untold \subseteq {"vault", "ceremony"}
    /\ conn \in {"off", "registered", "painted", "open"}
    /\ queue \in Seq(Events) /\ Len(queue) <= MaxQueue
    /\ conn = "off" => queue = << >>
    /\ shown \in [ceremony : Statuses, vault : BOOLEAN,
                  recovery : {None} \cup SUBSET Trustees, lastVerify : 0..MaxSessions \cup {None}]

\* Nothing is on its way to the dashboard.
Settled == conn = "open" /\ queue = << >> /\ outbox = << >>

\* A dashboard with nothing on its way shows the combiner's vault, and, unless a
\* broadcast overtook an older one, its ceremony, its replies and the verification of
\* this session -- however its connection, its snapshot and the handlers interleaved,
\* although a snapshot may already hold what queued events will repeat
\* (app.py:967-988), and whatever a restart took away.  A vault whose save raised, and
\* the ceremony it used up, the page learns of with its next snapshot only.  An earlier
\* session's verification it may show or have dropped.
SettledIsTruthful ==
    Settled =>
        /\ "vault" \notin untold => shown.vault = vault
        /\ ~overtaken =>
              /\ "ceremony" \notin untold => shown.ceremony = ceremony
              /\ shown.recovery = IF session = 0 THEN None ELSE replied
              /\ shown.lastVerify \in {last_verify} \cup (IF last_verify = session THEN {} ELSE {None})

\* A dashboard whose stream stays open from some time on comes to show the vault and
\* goes on showing it, if there is one from some time on whose save did not raise after
\* the stream's snapshot.
VaultShowsUp == <>[](conn = "open" /\ vault /\ "vault" \notin untold) => <>[]shown.vault
=============================================================================
