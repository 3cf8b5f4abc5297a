# Verification of shardic-crypt

shardic-crypt splits the key of an encrypted archive among trustees: a *prime*
trustee who is always needed and a *pool* of which a threshold is needed. Its
core logic that keeps state is the **combiner** (`src/demo/combiner/app.py`), the
**trustee client** (`src/demo/trustee/app.py`), the **vault store**
(`src/demo/combiner/vault_store.py`) and the **dashboard**
(`src/demo/combiner/dashboard/dashboard.js`); below them lie the sharing and
sealing algorithms of the library (`src/gf256_sss*.py`, `src/vault_core*.py`).
This directory holds TLA+ specifications of that logic, TLC configurations that
check them on small instances, and proofs that TLAPS checks.

Run `tlc -config X.cfg MCModule.tla` for a check and `tlapm Module.tla` for a
proof; `PROJECT.json` lists which configuration belongs to which module, which
line of the source each definition translates, and which deliberate mutation of
the model makes each property fail.

## 1. Inventory

| Part | State | Operations | What is hard |
| --- | --- | --- | --- |
| Ceremony formation (`app.py:214-442`) | `STATE["ceremony"]`, `trustee_pubkeys` | register, initiate, poll invitation, accept / decline, TTL sweep | late answers, several expiries in one sweep, one ranked backup queue, restart loses the ceremony |
| Vault creation (`app.py:445-574`, `vault_core_prime.py:71-297`, `vault_store.py`) | `STATE["vault"]`, envelopes, `state.json`, codeword files, stored bytes | create vault, save, load, store | an exception or a crash between destroying, storing and saving |
| Recovery (`app.py:577-668`) | `STATE["recovery_session"]`, in memory only | start, pending envelope, shard reply, finalize | replies for an older session or vault, duplicates, restarts, quorum |
| Trustee client (`trustee/app.py`) | position in its loop, `cached_metadata` | authenticate, register, accept, poll, match, reply | uncaught request errors, stale cache, timeouts of requests that are served anyway |
| Event stream and dashboard (`app.py:120-125, 733-784, 967-988`, `dashboard.js`) | listener queues, the page's `state` | broadcast, snapshot, repaint, reconnect | broadcasts outside the lock, snapshot and queue overlap, reconnects |
| Heartbeat (`app.py:704-730`, trustee cards of `dashboard.js`) | `trustee_last_seen`, `trustee_status`, the cards | scan, poll, register, paint | restart forgets both, transitions broadcast after the unlock, silent trustees |
| Enrolment: key pairs and registration (`shardic_envelope_crypto.py:62-85`, `trustee/app.py:42-87, 208-233`, `app.py:214-226`) | two key files per volume, the directory in memory and on disk | load or create, sign in, register, save | a crash between or inside the two writes, lost answers, saves that raise, a token that expires |
| Sharing (`gf256_sss.py`, `gf256_sss_prime.py`) | the tables, constant | split, reconstruct | boundaries of the field and the thresholds |
| Matching and containers (`vault_core*.py`, `krypt_container.py`) | none | seal, match, reconstruct, read, write | equal codewords, used records |
| Desktop application (`vault_gui.py`) | button, log box, worker threads, log queue, due callbacks | create, load, recover | worker against Tk timer; a vault loaded during a recovery |
| Command line programs (`vault_create*.py`, `vault_recover*.py`) | what was matched so far | create, prompt, recover | asking until there are enough |
| Word lists, KDF, Keycloak, notifications | none | | wrappers and library calls |

The parts meet in few places. All of the combiner's handlers and its two
background threads share `STATE` under one lock; a formed ceremony is consumed by
vault creation; the vault's assignment and envelopes are what a recovery polls
for; every handler broadcasts to the dashboards after it has released the lock.
Trustees talk to the combiner only by requests they make themselves.

What makes each part correct:

* **Formation**: nobody gets a seat without having been asked and having
  consented; an acceptance that was answered is never taken away; the operator
  gets no seat by any route; the backup queue is used in the operator's order;
  formation ends.
* **Vault creation**: what memory or disk says of a vault is whole; what the
  operator was told survives; plaintext neither outlives the vault nor goes
  before the envelopes are safe.
* **Recovery**: a session counts one shard per trustee, of the present vault, for
  the present session; a quorum opens the vault; a running trustee answers.
* **Dashboard**: with nothing on its way it shows what is.
* **Enrolment**: whatever is sealed to a registered key can be opened by its trustee's
  processes, now and after any restart; who polls is registered, on disk too.
* **Heartbeat**: a trustee that stays silent is shown as paused, one that polls as live.
* **Desktop application**: one worker at a time, every end reported, no line lost.
* **Sharing and matching**: whoever types codewords of enough records opens the vault, in
  any order; fewer records say nothing of the secret.

## 2. The modules

| Module | Models | Extends / uses |
| --- | --- | --- |
| `FormationPromise` | what formation promises (abstract) | |
| `CeremonyFormation` | formation, handler by handler | instantiates `FormationPromise` |
| `CeremonyFormationProofs` | theorems about it | `CeremonyFormation`, `TLAPS` |
| `VaultLifecycle` | `do_create_vault` step by step, saving, loading | |
| `VaultLifecycleProofs` | theorems about it | `VaultLifecycle`, `TLAPS` |
| `QuorumRecovery` | what a recovery promises (abstract) | |
| `RecoverySession` | sessions and trustee processes | instantiates `QuorumRecovery` |
| `RecoverySessionProofs` | theorems about it | `RecoverySession`, `TLAPS` |
| `DashboardStream` | broadcasts, streams, the page | |
| `DashboardStreamProofs` | theorems about it | `DashboardStream`, `TLAPS` |
| `Enrolment` | key files, sign-in, registration, restarts | |
| `EnrolmentProofs` | theorems about it | `Enrolment`, `TLAPS` |
| `Heartbeat` | polls, silence, status, the trustee cards | |
| `HeartbeatProofs` | theorems about it | `Heartbeat`, `TLAPS` |
| `DesktopTab` | a tab of the desktop application: worker, queue, timer, button | |
| `DesktopTabProofs` | theorems about it | `DesktopTab`, `TLAPS` |
| `GF256Sharing` | the field, split and reconstruct, with and without a prime | |
| `LocalVault` | making and opening a vault without a combiner | `GF256Sharing` |
| `LocalVaultProofs` | theorems about it | `LocalVault`, `TLAPS` |
| `MC*` | constants and symmetry for TLC; in `MCRecoverySession` also the code's field, for its assumption | one per module |

Definitions named `...` after a comment that begins with *Mutant* are not part of
any specification: each is what a plausible bug would make of the definition after
it, kept so that every property can be seen to fail.

### CeremonyFormation

A handler runs under the lock from its first read to its last write, so each is
one action: `RegisterTrustee`, `InitiateCeremony`, `ReadInvitation`
(`get_pending_invitation`), `Accept`, `Decline` and `DeadLink` (the three outcomes
of `respond_to_invitation`), `Scan` (one sweep of `_ceremony_scan_loop`),
`CreateVault` (its effect on the ceremony) and `Restart`. A slot is
`[sub, status, age]`: `age` counts ticks since `invited_at` and saturates one above
the TTL, which is all the scan can tell apart. `seen` remembers which invitations a
client has read, so it may answer an old one at any time; `consented` remembers who
was answered *accepted*. `Lapse(S)` is `_lapse_slot_locked` over the slots of `S` in
slot order: the k-th of them takes the k-th backup, the first without one fails the
ceremony, later ones still become open.

### VaultLifecycle

The handler keeps the lock, so only failures come between its steps: `Raise` at
any step (locals are lost, memory and disk stay), `Crash` at any time (memory is
what `_load_state` finds). `mem` and `disk` are the vault and envelopes of `STATE`
and of `state.json`; `words`, `scratch`, `stored`, `stored_tmp` are the files;
`destroyed` and `answered` are history. `RegisterTrustee` matters because it saves
all of `STATE`, also what an earlier save failed to. `_save_state_locked` itself is one step
because it writes a temporary file and renames it; `VaultStore.store` is two, since
`VaultIsComplete` depends on its rename. `Commit` records an envelope for whoever is in
`wrapped` and for nobody else, so that complete envelopes are a result and not an assignment.

### RecoverySession

The combiner's handlers are actions again (`StartSession`, `Poll`, `ServeReply`,
`Finalize`), but a trustee's requests are separate steps of its loop:
`Poll`, `FetchMetadata` (only when nothing is cached), then `Reply` or `NoMatch`.
A reply lies in `inflight` until it is served, and its sender may have timed out
(`TimeOut`), died and been started again (`Relaunch`) by then. A credential is a
name. `dealt[v][t]` is the one in `t`'s envelope of vault `v`, and `finds[v][c]` whose record of
vault `v` is the first that `c` opens, if it opens any. Keys are all different, so a key finds the
record it was dealt for and nothing else. A codeword may be dealt to two trustees, and then finds the first of their
records in the shuffled order; or in two vaults, and then a trustee whose `cached_metadata` is of a lost vault
may find a record there (`Match`) and send that vault's shard into the present session, as
`trustee/app.py:166-199` does.
`Decrypts` is what `reconstruct_and_decrypt_prime` accepts: the mask and
shards of this vault, no x twice, enough of them. `finalize_recovery` passes *all*
shards, so one wrong shard would spoil a quorum.

### DashboardStream

`outbox` holds the events of handlers that have released the lock, in the order
they ran; `Broadcast(i)` lets any of them go first and notes in `overtaken` when
it was not the oldest. `Connect` registers the queue, `Snapshot` sends the state,
`FollowQueue` turns to the queue, as `events()` does. `Repaint` is `handleEvent`,
restricted to what the page remembers of ceremony, vault and recovery. Events
that are only logged are left out, and so is `state.finalized`; the trustee cards are in `Heartbeat`.
`do_create_vault` is two actions: `CreateVault` saves and broadcasts; in `CreateVaultUnsaved` the save
raises after `STATE` was changed, so there is a vault in memory, none in `state.json` (`saved`) and no event of it.
`Restart` finds what was saved, and `RegisterTrustee` saves what memory holds. `untold` remembers which parts of the
page such a vault has left behind, until a snapshot brings them.

### Enrolment

Every process, a trustee's or the combiner's, goes through `load_or_create_keypair` one
write at a time: `LoadKeys` when both files exist, else `CreateKeys` (a new pair, and
`private.key` written), `OpenPublic` (the file is there and empty) and `WritePublic`. `Die` may come
between any two and leaves the volume as it is. A key is named by the launch that made it. A
trustee then signs in once (`SignIn`) and registers: `Register` (200), `RegisterUnheard` (the
combiner did it, the trustee timed out) and `RegisterUnsaved` (`_save_state_locked` raised after
`STATE` was changed), together an `Attempt`; after `Expire` nothing but a 401 comes back. `directory` and `saved` are
`trustee_pubkeys` in memory and in `state.json`. A private key's own write is one step: an
empty `private.key` without `public.key` is replaced at the next start like a full one.

### Heartbeat

Time passes in poll intervals: `Tick` waits until every running trustee has polled, so that `age`,
the ticks since a trustee was last heard of, tells apart what `HEARTBEAT_TIMEOUT_S` does. `Scan` is one
sweep of `_heartbeat_loop` up to the release of the lock, with its transitions broadcast in any order;
the thread sweeps again only when it has broadcast them. Events wait in `outbox` as in
`DashboardStream`, but reach an open page when they are broadcast, since queues and snapshots are
`DashboardStream`'s matter. `astray` notes per trustee that an event was overtaken. A registration enters the
trustee in memory (`Enter`) and then either saves and broadcasts (`Register`) or raises in its save
(`RegisterUnsaved`): the directory and the status are changed and no event says so, which `untold` notes until
a registration succeeds or a snapshot is taken. Of a trustee the page has no card for, a `trustee_status` is ignored.
`CombinerDies` forgets `age` and `status`, as neither is saved, and everybody in the directory who is not in
`saved`; `VaultSaved` is the save of `do_create_vault`.

### DesktopTab

One tab. `Load`, `Click`, `Dismiss` are the user's, `PollLogQueue` and `Finish` are Tk's callbacks, `Log` and
`End` the worker's. `timers` counts the due calls of `_poll_log_queue`: a click within 100 ms of the end of a run
adds a second chain to the first, which the model allows. What the worker does is
`LocalVault`'s; `End` stands for success and for every exception alike, since each leads to one `after(0, ...)`.
`disturbed` marks the one use the code does not guard: "Load Vault Info" stays enabled during a recovery and
enables Recover beside the running worker. Closing the window, which ends the daemon threads, is left out.

### GF256Sharing and LocalVault

`GF256Sharing` is `gf256_sss.py` with the width of the field and its reduction
polynomial as constants; at 8 and 16#1B it is the code's field. `EXP` reaches each power by
squaring where the loop multiplies on, which TLC evaluates faster. `Sum`, `Product` and `weight` are the loops of
`reconstruct_secret`. One byte of the secret is modelled, as every
byte has its own polynomial. The random coefficients and the mask are inputs.

`LocalVault` makes a vault (`create_vault`, `create_vault_prime`) with any coefficients,
any codewords, equal ones among them, and any shuffle. A record carries the codeword that
opens it: AES-GCM is ideal. `Type(w)` matches one codeword (`try_match_word` and the loop
around it); the command line programs ask until they have `Enough`, the application has as
many fields as the threshold and tries whatever they hold. Blank entries, vaults opened with the
wrong program, DRBG keys (which only the demo uses, see `RecoverySession`), the legacy metadata and the
container format are left out. `Explanations` counts the polynomials and masks that fit what somebody
holds, which is how `TooFewTellNothing` states secrecy below the threshold.

## 3. What the runs check

| Run | Bounds | Shows |
| --- | --- | --- |
| `CeremonyFormation` | 4 candidates and an operator who may register too, up to 3 slots, 2 backups, TTL 1, 2 ceremonies | safety of formation |
| `CeremonyPromise` | 3 candidates and the operator, up to 2 slots, 1 backup | formation is decided; it refines `FormationPromise` |
| `VaultLifecycle` | 3 trustees, 3 attempts, any failures | safety of vault creation |
| `DestroyedIsSaved` | 1 attempt | **violated**: see findings |
| `RecoverySession` | 3 trustees, pool threshold 2, 2 vaults, 2 sessions, 1 crash, 1 timeout, 2 processes per trustee | sessions count right; a quorum opens; running trustees answer; refines `QuorumRecovery` |
| `CodewordCollision` | codewords, no failures | **violated** |
| `RestartStrandsTrustee` | 1 crash, no timeouts | **violated** |
| `DashboardStream` | 2 trustees, 2 sessions, 2 handlers between unlock and broadcast, 1 queued event | truth of a settled dashboard; vaults show up |
| `Enrolment` | 2 trustees, 3, 1 and 2 launches of ana, bo and the combiner, 2 faulty registrations | keys and directory agree through crashes; a running trustee gets to polling unless its token expires |
| `Heartbeat` | 2 trustees, timeout of 1 tick, 1 event waiting when a trustee registers | cards are truthful; silence and activity are shown |
| `DesktopTab` | 2 vaults (1 not recoverable here), 3 clicks, 1 line per worker | button, log and reports of a tab |
| `LocalVault` | GF(4), up to 3 trustees, every secret and coefficient, 2 codewords, 4 typed | order does not matter; exactly a quorum opens; less tells nothing |

Why the bounds suffice. Three slots and two backups give sweeps that lapse more slots
than there are backups, lapses of the prime and of the pool, and backfills of
backfills; a second ceremony is what late answers need. A third attempt at a vault
follows one that raised and one that crashed. Two vaults and two sessions are
what a stale reply or a stale cache needs; a second process of a trustee
is what a duplicate reply needs. Two handlers that have not broadcast yet and one queued event already allow
every overtaking and every overlap of snapshot and queue: three events can be under way at once, and the snapshot can fall
before, between and after them. The field of four elements has
exactly three points for shards, as the code's has 255, so the largest vault is at the
limit of its field; the code's own field is too large to try every polynomial, and is where the proofs come in (section 4); two codewords give three records of which two or three are opened by
the same one, and a typed codeword that opens none. In `Enrolment` a third launch of one trustee follows one killed before and one killed
inside the second write, and the combiner's restart falls between any two of these. A timeout of one
tick has an age below, at and above it. Two clicks and a load make two workers
overlap, and a third click follows them. Symmetry is used only in
safety runs, over candidates that are not operators, over trustees that creation
treats alike, over codewords.

Deadlock is checked except where every budget may be used up: with all trustees
having replied or died (`RecoverySession` and the two violations beside it) the system
does rest until the operator acts; in `Enrolment` when every launch was used, in `DesktopTab` when every
click was.

Fairness. `CeremonyPromise`: the scan thread and the clock only; no person owes an
answer. `RecoverySession`: a live trustee's loop, Flask's service of each trustee's
requests, and the restart of a combiner that died; nobody owes a session, a
finalize or the restart of a trustee (`docker-compose.yml` has no restart policy).
`Enrolment`: a process that runs gets through its key files, and a trustee's loop makes its next attempt while the combiner serves, whatever becomes of
it -- neither an answer nor a save that works is assumed, only that faults end (their number is bounded); nobody
owes a launch. `Heartbeat`: the loops of running
trustees and of the heartbeat thread, broadcasts, reconnects, and time; nobody owes the start or the
unpausing of anything. `DesktopTab`: threads end and Tk runs what is due; nobody owes a click.
`DashboardStream`: every handler's thread reaches its broadcast, the browser
reconnects (`EventSource`), an open stream is read. Strong fairness for the oldest
broadcast makes up for `MaxQueue`, a bound the code does not have.

### Findings

1. **A crash or an exception between `_secure_delete` and the save loses a
   vault** (`app.py:508-543`), although "that state must survive a restart"
   (`app.py:178-179`).
2. **Equal codewords spoil a quorum** (`app.py:478`, `trustee/app.py:181`): both
   holders find the same record, so the prime's mask is missing or one x comes twice.
3. **A combiner restart can end a trustee's process** (`trustee/app.py:167, 194`), so
   a recovery after it is not "just re-running /admin/recovery/start"
   (`app.py:177-178`).

Each is a run of its own that TLC must find violated; the quotes are in
`PROJECT.json`.

What else the models show, where nothing in the repository says otherwise, is excepted by name in a property:
a broadcast that overtakes another may leave a page on *forming*, or a trustee's card on its older status, until it reconnects
(`overtaken`, `astray`); a save that raises after `STATE` was changed is told to nobody, so an open page shows no vault and
a formed ceremony, or no card of a trustee, until it reconnects (`untold`); a page opened in a later session shows the verification of an earlier one, an open page does not; a trustee
that dies before the combiner restarts is shown as live for ever (`SilenceIsShown` needs the combiner to have heard
of it); a token that expires during `register()` leaves the trustee retrying for ever, although the docstring of
`authenticate` (`trustee/app.py:44-46`) has it called before every request (`TrusteesGetToPolling` excepts `expired`); a trustee
that cached the metadata of a vault that was lost never fetches others (`RunningTrusteesReply` excepts it); a kill
inside the second write of `load_or_create_keypair` leaves an empty public key for good (`KeyOpensEnvelopes` excepts
`Empty`); a vault loaded during a recovery lets two recoveries share a log queue, leaves lines in it, and ends with Recover
enabled for a vault it was disabled for (`disturbed`).

## 4. What is proved

There is a proof module for every module with a `Spec` of its own; what is proved of `GF256Sharing` is in
`LocalVaultProofs`. Every invariant that a run checks is a theorem. All follow the same
argument: a conjunction `IInv` of named parts
holds initially, every action preserves it (one lemma or step per action), and it
implies the properties. The theorems hold for all values of the constants that
satisfy the modules' assumptions; TLC evaluates those in the runs. A bound that only keeps TLC's state space
small (`MaxQueue`, `MaxCeremonies` and the like) is an arbitrary number in a proof.

| Proof module | States of the runs' properties | Further hypotheses |
| --- | --- | --- |
| `CeremonyFormationProofs` | `TypeOK`, `SeparationOfDuties`, `OnePersonOneSeat`, `StatusTellsSlots`, `ConsentIsBinding`, `VaultFromConsent`, `BackfillInRankOrder`, the safety half of `KeepsPromise` | for the last one, that `People` is finite |
| `VaultLifecycleProofs` | `TypeOK`, `VaultIsComplete`, `AnsweredIsDurable`, `NoPlaintextLeft`, `NothingHalfDestroyed`, `VaultIsForever` | |
| `EnrolmentProofs` | `TypeOK`, `KeyOpensEnvelopes`, `PollersAreRegistered`, `IdentitiesStay` | |
| `RecoverySessionProofs` | `TypeOK`, `SessionHoldsItsReplies`, `QuorumSuffices`, `KeepsPromise` | all but `TypeOK`: `~UseCodewords` |
| `HeartbeatProofs` | `TypeOK`, `CardsAreTruthful` | |
| `DashboardStreamProofs` | `TypeOK`, `SettledIsTruthful` | |
| `DesktopTabProofs` | `TypeOK`, `ButtonIsTruthful`, `LogIsComplete` | |
| `LocalVaultProofs` | `TypeOK`, `OrderDoesNotMatter`, `QuorumOpens`, `TooFewTellNothing` | |

`CeremonyFormationProofs` assumes `FormationAssumption` and proves, for every set of
people and operators, every TTL and every bound, `TypeOK`, `SeparationOfDuties`,
`OnePersonOneSeat`, `StatusTellsSlots`, `ConsentIsBinding` and the action property
`VaultFromConsent`. The state invariants support one another and are inductive only
together: a backfill moves somebody from the queue into a slot, so that
`OnePersonOneSeat` of the slots needs the queue to have been free of repetitions and
of seated people, and `SeparationOfDuties` needs the operator not to have been in the
queue. `QuorumOK` (D between 2 and T) is added because `VaultFromConsent` states the
threshold of the vault. The one hard step is a sweep that lapses several slots at once;
it rests on `RankNumbers` (the slots of a sweep are numbered without repetition),
`RankReachesAll` (their last number is how many they are) and `QueueTail`.
That `formed` means every slot was accepted then makes prime and pool exactly the
people who consented.

`BackfillInRankOrder` compares two states: the people who leave the queue in a step are its first k, and the
m-th slot that changed hands has the m-th of them. It needs the numbering to be onto (`RankIsNumbering`) and
the slots a sweep serves to be an initial part of those it lapses, so that their numbers among themselves are
the same (`LapseInRankOrder`). `PromiseKeptSafely` shows that every handler is a step of `FormationPromise` or
none. Its steps are counting arguments: while a ceremony forms, the people who consented and those still hoped
for are one per slot and one per place in the queue (`Headcount`), so that "the queue could not serve every
lapsed slot", which is what the code tests, and "fewer people remain than are needed", which is what is
promised, are the same.

`VaultLifecycleProofs` assumes `LifecycleAssumption` and proves, for every committee and
any number of attempts, exceptions and crashes, `TypeOK`, `VaultIsComplete`,
`AnsweredIsDurable`, `NoPlaintextLeft`, `VaultIsForever` and `NothingHalfDestroyed`.
`VaultIsComplete` is not inductive: at the commit nothing in it says that
the bytes are stored. `IInv` therefore adds `DoneSoFar` (what is stored and destroyed at
each program point), `MemoryFollows` (STATE has no vault until the handler's own commit),
`DiskIsSettled` (once `state.json` names a vault, STATE agrees) and `ToldOfDisk`.
`DiskIsSettled` is why the save of a registration, which writes whatever STATE holds,
replaces no vault. `NothingHalfDestroyed` says of every step that overwrites or removes a codeword file that the
file is of the attempt under way and that `wrapped` is the whole committee. It needs `DoneSoFar`, which has that from
the program point `destroy` on, since `_secure_delete` itself asks nothing.

`EnrolmentProofs` assumes `EnrolmentAssumption` and proves, for every set of trustees and
any number of launches and restarts, `TypeOK`, `KeyOpensEnvelopes`, `PollersAreRegistered` and
`IdentitiesStay`. `KeyOpensEnvelopes` is not inductive: a launch that finds no public key makes
a new pair, and nothing in it says that the old one was not registered. `IInv` adds
`KeyFile` (the private half is written first, a written public half belongs to it, and a running
process holds what its volume holds) and `Entry` (what directory and `state.json` hold of a trustee
lies on its volume, and they hold nothing of one whose keys are being made). The step that decides it
is `CreateKeys`: it is taken only where the public key is absent, so by `Entry` the trustee
was never registered.

`RecoverySessionProofs` assumes `RecoveryAssumption`, which tells `None` from numbers and shards. Its `IInv`
is stated for both kinds of credentials by what a credential finds (`Opens`), and says three
things about time: `TicketsAreDated` (a trustee's ticket of the present session is for the present vault),
`RepliesAreDated` (a reply to the present session, though its sender may have died or been started again since, carries
a record that the sender's credential of the present vault opens -- a record of the present vault or of the one its
sender had cached) and
`OutcomesAreDated`. They hold because session numbers are never given twice and a vault is created only
where there is none, hence no session either. With them `SessionHoldsFinds` says that the session holds one such shard
for each trustee that replied, as mask or in the pool as the record says. With keys a credential opens one record of one vault,
its own (`OwnRecords`), so a stale cache finds nothing and as many replies are as many different shards, which gives
`SessionHoldsItsReplies`, `QuorumSuffices` and each step of `QuorumRecovery`. With codewords
`QuorumSuffices` does not hold, as the run `CodewordCollision` shows, and the other two rest on the same fact;
that is why `~UseCodewords` is a hypothesis of these three theorems and not part of the assumption.

`HeartbeatProofs` assumes `HeartbeatAssumption`. `CardsAreTruthful` speaks only of moments with no event of a
trustee on its way, so `IInv` says of every other moment what that event will do: the last event of a trustee in
`outbox` is true (`LastIsTrue`), and a registered trustee without a card has a
`trustee_registered` on its way before anything else (`CardFollows`), since `handleEvent` drops a status
of a trustee it has no card for. Both are claimed of a trustee (`Followed`) only until one of its events overtakes another
or a registration of it raises in its save.

`DashboardStreamProofs` assumes `DashboardAssumption` and is the longest proof. Its `IInv` is about
`Pending`, the page's queue followed by the events of handlers that have not broadcast yet. Of each kind of event the last
one pending says what the combiner has (`CeremonyTold`, `RepliesTold`, `VerificationTold`), and a page for
which none of a kind is pending has it already (`CeremonyShown`, `RepliesShown`, `VerificationShown`). That
the snapshot may hold what queued events repeat is why the replies a page shows
are only bounded by the session's while it waits, and why a decision about a ceremony needs its initiation before it
among the events or a ceremony on the page. These parts hold until a broadcast overtakes
an older one; `VaultFollows` needs no such condition, as only one event ever tells of a vault and none
takes it back. What it and the parts about the ceremony do need is that the vault was broadcast at all: each has `untold`
as an alternative, which only a save that raises brings about, and a snapshot ends it. A broadcast in order leaves `Pending` as it was when there is a queue (`Handed`).

`DesktopTabProofs` assumes `TabAssumption`. `LogIsComplete` is not inductive: that no line is left when
the timers have stopped needs a running tab to have both a timer and a worker or its call (`RunningIsServed`), and
that these are of one worker (`OneAtATime`), until a vault is loaded beside it. `LinesAreCounted` adds that a
worker not yet started has logged nothing. What `_poll_log_queue` does to the count is a bijection between places (`LinesOf`
of a concatenation).

`LocalVaultProofs` assumes `VaultAssumption` and `FieldAssumption` and has two parts.

The first proves `OrderDoesNotMatter` for every number of trustees, every
set of codewords, equal ones among them, and every shuffle. The records one codeword opens are numbered in their
order (`Numbering`: every number up to how many they are is given once), and `Matched` is those whose number is at most
the times the codeword was typed. If the records used are these, the first one left has the next number, or there
is none left and the number typed is past the last (`FirstLeft`); so a codeword typed once more adds to `Matched` exactly
the record `try_match_word` finds (`MatchedGrows`). `IInv` adds that the records keep their shape and that the shards
held are payloads of records. Nothing is asked of the field but that what a prime record holds is a number and
`None` is not.

The second is about what the shards are worth, for every field. All it assumes of the arithmetic is
`FieldAssumption`: the tables make a commutative addition and multiplication with inverses, and the associative and
distributive laws hold when the third operand is a digit. TLC evaluates that for four elements in
`LocalVault` and for the code's 256 in the runs of `MCRecoverySession`, whose shards are of that field; the laws for all operands follow, as every element is a sum of digits.

* `Interpolation`: any shards of a polynomial at distinct points other than 0, as many as it has coefficients or more,
  reconstruct its constant coefficient. The code may hand over more shards than the threshold, so uniqueness of a
  polynomial through exactly that many points would not do. The proof goes by divided differences: a polynomial
  with fewer coefficients than there are points has the divided difference 0, by induction on Horner's rounds, and that of
  the points held together with 0 is the equation that `reconstruct_secret` solves for the value at 0.
* `SharesStayShares` is the second inductive invariant, `SharingInv`: while there is a vault, its records are in some
  order a mask and the values of one polynomial at distinct points, as many coefficients as `PoolThreshold` says,
  its constant coefficient and the mask give the secret, and the shards and the mask a recovery holds are those of
  the different records it used. With `Interpolation` each end of a recovery gives what `QuorumOpens` says
  (`AQuorumOpens`), and `TypeOK` follows (`TypesAreRight`).
* `TooFewLearnNothing`: for any set of records that is no quorum, as many masks and polynomials explain them with one
  secret as with any other. The proof maps the explanations of one secret one to one onto those of another: where
  the prime's record is missing by shifting the mask, where pool records are by adding a multiple of a polynomial
  that is 0 at every point known and not at 0. There is one of as few coefficients as `PoolThreshold` says because
  fewer points than that are known. The theorem needs the invariant to know that a vault has one mask.

Sums, products, Horner's rounds and the tables are recursive functions, and the theorems about them are inductions.
They are done without the library's induction theorems, which take an operator: the lemma `Induction` is about a
set of numbers that holds 0 and every successor, and each induction names the set it is about.

## 5. Only model-checked, and not modelled

Only model-checked: all liveness, which TLAPS does not treat (fairness and ENABLED), and with it the fairness part of
`FormationPromise`, whose safety is proved. That the code's tables make a field is evaluated by TLC and not proved, and
that is all there is to it: one evaluation covers the only field the code has.

Not modelled, and why:

* `eff_wordlist_words.py` is a list of 7,776 words, more than half of all lines there are; `wordgen.py` and
  `kdf.py` choose from it at random, estimate entropy and call PBKDF2 and Argon2. Nothing in them keeps state or has
  an order; that the choice may give two trustees one word is modelled where it matters.
* Cryptography is ideal: a key opens what it sealed and nothing else.
* The container format is one write and one read of four fields in a row; a truncated file is one that cannot be
  read, which is an error of `Load` and `End`.
* Keycloak and the notification channels are stateless calls outside the lock which catch their own failures; a
  person's `sub` is a constant.
* `VaultStore` is modelled as far as `do_create_vault` uses it. Its check for an existing vault never holds, as every
  `vault_id` is a fresh uuid stored under the lock.
* Command line parsing, the layout and the input checks of the desktop application, the drawing of the
  dashboard, the scripts that build slides, videos and packages: formatting and I/O.

Abstractions that matter: names, keys and uuids are model values; a uuid is fresh,
so vaults and sessions are numbered; time in formation is a tick; a trustee's key
volume is kept (`Enrolment` shows what that gives: the key in the directory opens what is sealed to
it), so that in `RecoverySession` every trustee can open its envelope; only trustees of the vault's ceremony poll there.

## 6. Plan

1. `CeremonyFormation`, its promise, its proofs (done).
2. `VaultLifecycle` and proofs (done); `RecoverySession` and its promise (done);
   `DashboardStream` (done).
3. `Enrolment` and proofs, `Heartbeat` (done).
4. `GF256Sharing` and `LocalVault` (done): reconstruct-of-split, secrecy below the
   threshold by counting, and the used-record rule.
5. `Demo`: registration, formation, creation and recovery composed, checking that
   the people who consented are exactly those whose replies are counted.
6. Proofs of `RecoverySession` and of both refinements, of `Heartbeat`, `DashboardStream` and `DesktopTab`,
   and of `BackfillInRankOrder` (done).
7. `DesktopTab` (done).
8. Proof of matching in any order, of interpolation, of what a quorum gets and of secrecy below it (`LocalVault`, done).
