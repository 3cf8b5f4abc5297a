----------------------------- MODULE DesktopTab -----------------------------
(***************************************************************************)
(* One tab of the desktop application (vault_gui.py): a button starts a    *)
(* worker thread, which puts lines into a queue; a Tk timer takes them     *)
(* from there into the log box as long as the tab is "running"; the worker *)
(* ends with a call that Tk's main loop runs, and which opens a dialog.    *)
(* The four tabs (create and recover, each with and without a prime) share *)
(* this code line by line and share no state; what a worker does to the    *)
(* files is LocalVault's.  Every action but Log and End is one callback of *)
(* the main loop.  An open dialog takes all clicks, while timers and the   *)
(* calls of workers go on under it.                                        *)
(*                                                                         *)
(* "Load Vault Info" stays enabled during a recovery, and enables the      *)
(* button beside a running worker.  disturbed notes that this happened,    *)
(* until a vault is loaded with no worker running and no line left over.   *)
(***************************************************************************)
EXTENDS Naturals, FiniteSets, Sequences

CONSTANTS
    Vaults,      \* .krypt files that can be loaded
    Recoverable, \* those of them whose KDF is installed
    MaxStarts,   \* bound: clicks that start a worker
    MaxLines,    \* bound: lines a worker logs
    None

ASSUME TabAssumption ==
    /\ Recoverable \subseteq Vaults /\ None \notin Vaults
    /\ MaxStarts \in Nat /\ MaxLines \in Nat

VARIABLES
    kind,      \* "create" or "recover"
    loaded,    \* the vault whose fields are shown
    button,    \* "normal" or "disabled"
    running,   \* self._running
    timers,    \* calls of _poll_log_queue that are due
    starts,    \* workers started; they are numbered from 1
    workers,   \* those whose threads run
    logged,    \* how many lines each worker has put
    queue,     \* LogQueueWriter.q: whose line, in the order they were put
    box,       \* the log box: whose line, from above
    calls,     \* workers whose _done or _error is due on the main loop
    dialogs,   \* workers whose message box is open
    disturbed  \* history: a vault was loaded while a worker ran, and none since in peace

tk == <<button, running, timers, box, calls, dialogs>>
threads == <<workers, logged, queue>>
vars == <<kind, loaded, tk, starts, threads, disturbed>>

Runs == 1..MaxStarts

Init ==
    /\ kind \in {"create", "recover"}
    /\ loaded = None
    /\ button = IF kind = "create" THEN "normal" ELSE "disabled"
    /\ running = FALSE /\ timers = 0
    /\ starts = 0 /\ workers = {} /\ logged = [r \in Runs |-> 0]
    /\ queue = << >> /\ box = << >>
    /\ calls = {} /\ dialogs = {}
    /\ disturbed = FALSE

\* A worker runs or has not been told of.
Busy == workers \cup calls # {}

-----------------------------------------------------------------------------
(* The user *)

\* on_load of a file that can be read as a vault; any other leaves all as it is.
Load(v) ==
    /\ kind = "recover" /\ dialogs = {}
    /\ loaded' = v
    /\ button' = IF v \in Recoverable THEN "normal" ELSE "disabled"
    /\ disturbed' = (Busy \/ (disturbed /\ queue # << >>))
    /\ UNCHANGED <<kind, running, timers, starts, threads, box, calls, dialogs>>

\* Mutant: the button stays as it is while the worker runs.
ButtonKept == button

ButtonOff == "disabled"

\* on_create or on_recover with input that is accepted.
Click ==
    /\ button = "normal" /\ dialogs = {}
    /\ kind = "recover" => loaded # None
    /\ starts < MaxStarts
    /\ starts' = starts + 1
    /\ running' = TRUE /\ button' = ButtonOff
    /\ box' = << >>
    /\ timers' = timers + 1
    /\ workers' = workers \cup {starts'}
    /\ UNCHANGED <<kind, loaded, logged, queue, calls, dialogs, disturbed>>

\* The user dismisses a message box.
Dismiss(r) ==
    /\ r \in dialogs
    /\ dialogs' = dialogs \ {r}
    /\ UNCHANGED <<kind, loaded, button, running, timers, starts, threads, box, calls, disturbed>>

-----------------------------------------------------------------------------
(* A worker's thread *)

Log(r) ==
    /\ r \in workers /\ logged[r] < MaxLines
    /\ queue' = Append(queue, r)
    /\ logged' = [logged EXCEPT ![r] = @ + 1]
    /\ UNCHANGED <<kind, loaded, tk, starts, workers, disturbed>>

\* Mutant: an exception nobody expected ends the thread.
CallOfVaultErrors(r) == {calls, calls \cup {r}}

\* Whatever ends the work, after() gets a call; "except Exception" is the last resort.
CallsAfter(r) == {calls \cup {r}}

\* Mutant: the call is made before the work is over.
CalledEarly(r) == workers

Ended(r) == workers \ {r}

End(r) ==
    /\ r \in workers
    /\ workers' = Ended(r)
    /\ calls' \in CallsAfter(r)
    /\ UNCHANGED <<kind, loaded, button, running, timers, box, dialogs, starts, logged, queue, disturbed>>

-----------------------------------------------------------------------------
(* Tk's main loop *)

\* Mutant: a stopped tab takes no more lines.
DrainWhileRunning == IF running THEN queue ELSE << >>

\* _poll_log_queue takes what is there before it looks whether the tab runs.
Drained == queue

PollLogQueue ==
    /\ timers > 0
    /\ box' = box \o Drained
    /\ queue' = SubSeq(queue, Len(Drained) + 1, Len(queue))
    /\ timers' = IF running THEN timers ELSE timers - 1
    /\ UNCHANGED <<kind, loaded, button, running, calls, dialogs, starts, workers, logged, disturbed>>

\* _done or _error: _finish, then a message box.
Finish(r) ==
    /\ r \in calls
    /\ calls' = calls \ {r}
    /\ running' = FALSE /\ button' = "normal"
    /\ dialogs' = dialogs \cup {r}
    /\ UNCHANGED <<kind, loaded, timers, starts, threads, box, disturbed>>

Next ==
    \/ \E v \in Vaults : Load(v)
    \/ Click
    \/ \E r \in Runs : Dismiss(r) \/ Log(r) \/ End(r) \/ Finish(r)
    \/ PollLogQueue

Spec == Init /\ [][Next]_vars

\* Threads run and their work ends; Tk runs what is due.  Nobody owes a click.
FairSpec ==
    /\ Spec
    /\ \A r \in Runs : WF_vars(End(r)) /\ WF_vars(Finish(r))
    /\ WF_vars(PollLogQueue)
-----------------------------------------------------------------------------
(* Properties *)

TypeOK ==
    /\ kind \in {"create", "recover"} /\ loaded \in Vaults \cup {None}
    /\ kind = "create" => loaded = None
    /\ button \in {"normal", "disabled"} /\ running \in BOOLEAN
    /\ starts \in 0..MaxStarts /\ timers \in 0..starts
    /\ workers \subseteq 1..starts /\ calls \subseteq 1..starts /\ dialogs \subseteq 1..starts
    /\ workers \cap calls = {} /\ (workers \cup calls) \cap dialogs = {}
    /\ logged \in [Runs -> 0..MaxLines]
    /\ queue \in Seq(1..starts) /\ box \in Seq(1..starts)
    /\ disturbed \in BOOLEAN

Usable == kind = "create" \/ loaded \in Recoverable

\* As long as no vault is loaded beside a worker, at most one worker runs, and the
\* button can be pressed exactly when none does and there is something to work on
\* (vault_gui.py:326-339, 394-397, 526-542, 574-577).
ButtonIsTruthful ==
    ~disturbed =>
        /\ Cardinality(workers \cup calls) <= 1
        /\ running <=> Busy
        /\ button = "normal" <=> Usable /\ ~Busy

LinesOf(r, lines) == Cardinality({i \in DOMAIN lines : lines[i] = r})

\* Whatever the last worker has logged is in the box or on its way there, and nothing
\* is left behind when the timers have stopped, though _running is reset before the
\* last lines are taken -- unless a vault was loaded beside a worker: then the worker
\* that ends first stops the timer of the other (vault_gui.py:252-262, 394-397).
LogIsComplete ==
    /\ starts > 0 => LinesOf(starts, box) + LinesOf(starts, queue) = logged[starts]
    /\ ~disturbed /\ timers = 0 => queue = << >>

\* The end of every worker is told to the user: nothing ends a thread without its call,
\* and none is lost to another's (vault_gui.py:367-392).
EveryRunIsTold == \A r \in Runs : r \in workers ~> r \in dialogs
=============================================================================
