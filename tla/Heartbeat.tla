------------------------------ MODULE Heartbeat ------------------------------
(***************************************************************************)
(* Who is live and who is paused.  The combiner notes when it last heard   *)
(* of each trustee; its heartbeat thread turns silence into the status     *)
(* "paused" and tells the dashboards, which show one card per trustee; a   *)
(* registration makes its trustee live at once (demo/combiner/app.py,      *)
(* demo/combiner/dashboard/dashboard.js).  last_seen and status are not    *)
(* saved; events leave their handlers after the lock is released, and no   *)
(* event tells of a registration whose save raised.                        *)
(*                                                                         *)
(* Time passes in ticks of one poll interval: a running trustee polls in   *)
(* every tick.  How it came to register is Enrolment's; how a stream       *)
(* carries events to a dashboard is DashboardStream's: here they get there *)
(* when they are broadcast.                                                *)
(***************************************************************************)
EXTENDS Naturals, FiniteSets, Sequences, SequencesExt

CONSTANTS
    Trustees,
    Timeout,     \* HEARTBEAT_TIMEOUT_S, in poll intervals
    MaxHandlers, \* bound: events still to be broadcast when a trustee registers
    None

ASSUME HeartbeatAssumption ==
    /\ IsFiniteSet(Trustees)
    /\ Timeout \in Nat \ {0} /\ MaxHandlers \in Nat /\ None \notin Nat \cup {"live", "paused"}

VARIABLES
    at,        \* each trustee: "down", "polling", or "paused" as its container is
    polled,    \* it runs and has polled in this tick, or need not yet
    serving,   \* the combiner runs
    directory, \* whose names are in STATE["trustee_pubkeys"]
    saved,     \* ... and in state.json
    age,       \* ticks since STATE["trustee_last_seen"], up to Timeout + 1
    status,    \* STATE["trustee_status"]
    outbox,    \* events of handlers that have released the lock, in the order they ran
    astray,    \* history: an event of the trustee was broadcast before an older one
    untold,    \* history: a registration of the trustee raised in its save
    connected, \* the dashboard's stream is open
    cards      \* the dashboard's state.trustees

trustee == <<at, polled>>
combiner == <<serving, directory, saved, age, status>>
history == <<astray, untold>>
page == <<connected, cards>>
vars == <<trustee, combiner, outbox, history, page>>

Statuses == {"live", "paused"}
Events == [type : {"trustee_registered", "trustee_status"}, sub : Trustees, status : Statuses]

\* Nothing is known of a trustee that has not been heard of.
Unheard == [t \in Trustees |-> None]
AllLive == [t \in Trustees |-> "live"]
Nobody == [t \in Trustees |-> FALSE]

Init ==
    /\ at = [t \in Trustees |-> "down"] /\ polled = [t \in Trustees |-> FALSE]
    /\ serving = TRUE /\ directory = {} /\ saved = {}
    /\ age = Unheard /\ status = AllLive
    /\ outbox = << >> /\ astray = Nobody /\ untold = Nobody
    /\ connected = FALSE /\ cards = Unheard

-----------------------------------------------------------------------------
(* A trustee *)

\* do_register_trustee, up to its save.
Enter(t) ==
    /\ at[t] = "down" /\ serving
    /\ directory' = directory \cup {t}
    /\ age' = [age EXCEPT ![t] = 0]
    /\ status' = [status EXCEPT ![t] = "live"]
    /\ UNCHANGED <<serving, astray, page>>

\* It is saved and told.  The trustee goes on to poll, or has timed out and will try
\* again, or dies.
Register(t) ==
    /\ Enter(t)
    /\ saved' = directory'
    /\ Len(outbox) < MaxHandlers
    /\ outbox' = Append(outbox, [type |-> "trustee_registered", sub |-> t, status |-> "live"])
    /\ untold' = [untold EXCEPT ![t] = FALSE]
    /\ \/ at' = [at EXCEPT ![t] = "polling"] /\ polled' = [polled EXCEPT ![t] = TRUE]
       \/ UNCHANGED trustee

\* The save raises: STATE has changed, nobody is told, and the trustee, which is
\* answered with an error, will try again or dies.
RegisterUnsaved(t) ==
    /\ Enter(t)
    /\ untold' = [untold EXCEPT ![t] = TRUE]
    /\ UNCHANGED <<trustee, saved, outbox>>

\* get_pending_invitation and get_pending_envelope note the time first of all; a
\* poll that finds no combiner is logged and forgotten.
Noted(t) == IF serving THEN [age EXCEPT ![t] = 0] ELSE age

Poll(t) ==
    /\ at[t] = "polling" /\ ~polled[t]
    /\ polled' = [polled EXCEPT ![t] = TRUE]
    /\ age' = Noted(t)
    /\ UNCHANGED <<at, serving, directory, saved, status, outbox, history, page>>

\* The process ends, or docker-compose pauses its container.
FallSilent(t) ==
    /\ at[t] = "polling"
    /\ \E place \in {"down", "paused"} : at' = [at EXCEPT ![t] = place]
    /\ polled' = [polled EXCEPT ![t] = FALSE]
    /\ UNCHANGED <<combiner, outbox, history, page>>

Unpause(t) ==
    /\ at[t] = "paused"
    /\ at' = [at EXCEPT ![t] = "polling"]
    /\ polled' = [polled EXCEPT ![t] = TRUE]
    /\ UNCHANGED <<combiner, outbox, history, page>>

\* A poll interval has gone by, and no running trustee let it pass.
Tick ==
    /\ \A t \in Trustees : at[t] = "polling" => polled[t]
    /\ polled' = [t \in Trustees |-> FALSE]
    /\ age' = [t \in Trustees |-> IF age[t] = None \/ age[t] > Timeout THEN age[t] ELSE age[t] + 1]
    /\ UNCHANGED <<at, serving, directory, saved, status, outbox, history, page>>

-----------------------------------------------------------------------------
(* The combiner *)

\* do_create_vault saves the whole STATE.
VaultSaved ==
    /\ serving
    /\ saved' = directory
    /\ UNCHANGED <<trustee, serving, directory, age, status, outbox, history, page>>

\* STATE will be what _load_state finds: neither last_seen nor status, and the
\* directory of the last save.
CombinerDies ==
    /\ serving
    /\ serving' = FALSE
    /\ directory' = saved
    /\ age' = Unheard /\ status' = AllLive
    /\ outbox' = << >> /\ connected' = FALSE
    /\ astray' = Nobody /\ untold' = Nobody
    /\ UNCHANGED <<trustee, saved, cards>>

CombinerStarts ==
    /\ ~serving
    /\ serving' = TRUE
    /\ UNCHANGED <<trustee, directory, saved, age, status, outbox, history, page>>

\* Mutant: a trustee that polled within the timeout is late.
LateAtOnce(t) == IF age[t] >= Timeout THEN "paused" ELSE "live"

\* Mutant: a silent trustee has no status.
NoVerdict(t) == IF age[t] > Timeout THEN None ELSE "live"

Verdict(t) == IF age[t] > Timeout THEN "paused" ELSE "live"

\* Mutant: only who comes back is told of.
ReturnsOnly == {t \in directory : age[t] # None /\ status[t] = "paused" /\ Verdict(t) = "live"}

Transitions == {t \in directory : age[t] # None /\ status[t] # Verdict(t)}

StatusAfterScan == [t \in Trustees |-> IF t \in Transitions THEN Verdict(t) ELSE status[t]]

\* One sweep of _heartbeat_loop that finds a transition, up to the release of the
\* lock.  It is one thread, which has broadcast what its last sweep found.
Scan ==
    /\ serving
    /\ \A i \in DOMAIN outbox : outbox[i].type # "trustee_status"
    /\ Transitions # {}
    /\ status' = StatusAfterScan
    /\ \E names \in SetToSeqs(Transitions) :
         outbox' = outbox \o [i \in DOMAIN names |->
             [type |-> "trustee_status", sub |-> names[i], status |-> Verdict(names[i])]]
    /\ UNCHANGED <<trustee, serving, directory, saved, age, history, page>>

-----------------------------------------------------------------------------
(* The dashboard *)

\* handleEvent: a registration makes a card, a transition changes one that is there.
CardAfter(e) ==
    IF e.type = "trustee_registered" \/ cards[e.sub] # None THEN e.status ELSE None

\* _broadcast, from whichever thread runs next.
Broadcast(i) ==
    LET e == outbox[i] IN
    /\ outbox' = RemoveAt(outbox, i)
    /\ astray' = [astray EXCEPT ![e.sub] = @ \/ \E j \in 1..i - 1 : outbox[j].sub = e.sub]
    /\ cards' = IF connected THEN [cards EXCEPT ![e.sub] = CardAfter(e)] ELSE cards
    /\ UNCHANGED <<trustee, combiner, untold, connected>>

\* _build_snapshot: a registered trustee without a status is live.
Snapshot == [t \in Trustees |-> IF t \in directory THEN status[t] ELSE None]

\* Mutant: a page that connects again adds to the cards it has.
SnapshotAdded == [t \in Trustees |-> IF cards[t] = None THEN Snapshot[t] ELSE cards[t]]

\* applySnapshot replaces every card.
Repainted == Snapshot

\* Some event of t is on its way.
OnItsWay(t) == \E i \in DOMAIN outbox : outbox[i].sub = t

Connect ==
    /\ ~connected /\ serving
    /\ connected' = TRUE
    /\ cards' = Repainted
    /\ astray' = [t \in Trustees |-> astray[t] /\ OnItsWay(t)]
    /\ untold' = [t \in Trustees |-> untold[t] /\ OnItsWay(t)]
    /\ UNCHANGED <<trustee, combiner, outbox>>

Disconnect ==
    /\ connected
    /\ connected' = FALSE
    /\ UNCHANGED <<trustee, combiner, outbox, history, cards>>

Next ==
    \/ \E t \in Trustees :
         \/ Register(t) \/ RegisterUnsaved(t)
         \/ Poll(t) \/ FallSilent(t) \/ Unpause(t)
    \/ Tick \/ VaultSaved \/ CombinerDies \/ CombinerStarts \/ Scan
    \/ \E i \in DOMAIN outbox : Broadcast(i)
    \/ Connect \/ Disconnect

Spec == Init /\ [][Next]_vars

\* The loop of a trustee that runs, the heartbeat thread (strong fairness, as it must
\* first broadcast what its last sweep found), every thread's broadcast, EventSource,
\* and time.  Nobody owes the start or the unpausing of a process.
FairSpec ==
    /\ Spec
    /\ \A t \in Trustees : WF_vars(Poll(t))
    /\ SF_vars(Scan) /\ WF_vars(Tick)
    /\ WF_vars(outbox # << >> /\ Broadcast(1)) /\ WF_vars(Connect)
-----------------------------------------------------------------------------
(* Properties *)

TypeOK ==
    /\ at \in [Trustees -> {"down", "polling", "paused"}] /\ polled \in [Trustees -> BOOLEAN]
    /\ serving \in BOOLEAN /\ directory \subseteq Trustees /\ saved \subseteq Trustees
    /\ age \in [Trustees -> 0..Timeout + 1 \cup {None}]
    /\ status \in [Trustees -> Statuses]
    /\ outbox \in Seq(Events)
    /\ astray \in [Trustees -> BOOLEAN] /\ untold \in [Trustees -> BOOLEAN]
    /\ connected \in BOOLEAN
    /\ cards \in [Trustees -> {None, "live", "paused"}]

\* Unless an event of the trustee was overtaken by a later one, or its last registration
\* raised in its save and no snapshot was taken since, a dashboard with nothing of it on
\* the way shows the trustee as the combiner has it (app.py:704-730, 735-742;
\* dashboard.js:297-306).
CardsAreTruthful ==
    \A t \in Trustees :
        connected /\ ~astray[t] /\ ~untold[t] /\ ~OnItsWay(t) => cards[t] = Snapshot[t]

\* The combiner runs, the dashboard's stream is open, and no event of t is astray.
InView(t) == serving /\ connected /\ ~astray[t]

\* A silence that lasts is shown as paused in the end: "a gap longer than
\* HEARTBEAT_TIMEOUT_S means the container is paused (or gone)" (app.py:704-709) --
\* of trustees this process of the combiner has heard of and has told the page of.
SilenceIsShown ==
    \A t \in Trustees :
        <>[](age[t] # None /\ age[t] > Timeout /\ InView(t) /\ ~untold[t])
            => <>[](cards[t] = "paused")

\* A trustee that keeps polling is shown as live in the end, however many of its
\* registrations raised in their saves.
RunningIsShown ==
    \A t \in Trustees : <>[](at[t] = "polling" /\ InView(t)) => <>[](cards[t] = "live")
=============================================================================
