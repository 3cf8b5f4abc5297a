--------------------------- MODULE VaultLifecycle ---------------------------
(***************************************************************************)
(* What do_create_vault (demo/combiner/app.py) does to the disk and to     *)
(* STATE, step by step.  The handler holds the combiner's lock from its    *)
(* first line to the save, so no other handler runs between its steps; but *)
(* any step may raise, which drops everything the handler holds in local   *)
(* variables, and the process may die between any two of them, which drops *)
(* the memory too.  What the disk holds then is all _load_state finds.     *)
(***************************************************************************)
EXTENDS Naturals, FiniteSets

CONSTANTS
    Committee, \* the trustees of the formed ceremony, prime included
    MaxVaults, \* bound: how often a vault is attempted
    NoVault,   \* STATE["vault"] is None
    NoMode

ASSUME LifecycleAssumption ==
    /\ Committee # {} /\ IsFiniteSet(Committee)
    /\ MaxVaults \in Nat
    /\ NoVault \notin Nat

VARIABLES
    pc,        \* where do_create_vault stands; "idle" when nobody holds the lock
    attempt,   \* which vault the handler is making; the last one it made when idle
    mode,      \* its credentials: "kdf" codewords or "drbg" keys
    sealed,    \* whose shard record and credential create_vault_prime has made
    wrapped,   \* whose credential is in the local `envelopes`
    formed,    \* STATE["ceremony"] is formed
    mem,       \* STATE["vault"] and STATE["codeword_envelopes"]
    disk,      \* the same two in state.json
    words,     \* codeword files in a words_dir: <<vault, trustee>>
    destroyed, \* history: the codeword files _secure_delete has overwritten
    scratch,   \* vaults whose .krypt lies in VAULT_OUTDIR as a scratch file
    stored,    \* vaults whose .krypt the VaultStore holds under its final name
    stored_tmp,\* vaults whose .krypt is only a .tmp file of the VaultStore
    answered   \* history: vaults whose creation the operator was told of

local == <<pc, attempt, mode, sealed, wrapped>>
state == <<formed, mem, disk>>
files == <<words, destroyed, scratch, stored, stored_tmp>>
vars == <<local, state, files, answered>>

Vaults == 1..MaxVaults

Phases == {"idle", "seal", "wrap", "destroy", "rename", "unlink", "commit", "save", "answer"}

\* What STATE and state.json say of the vault: an envelope is the vault whose
\* credential it wraps, or NoVault when the trustee has none.
Saved == [vault : Vaults \cup {NoVault}, envelope : [Committee -> Vaults \cup {NoVault}]]

Nothing == [vault |-> NoVault, envelope |-> [t \in Committee |-> NoVault]]

Init ==
    /\ pc = "idle" /\ attempt = 0 /\ mode = NoMode /\ sealed = {} /\ wrapped = {}
    /\ formed = FALSE /\ mem = Nothing /\ disk = Nothing
    /\ words = {} /\ destroyed = {} /\ scratch = {} /\ stored = {} /\ stored_tmp = {}
    /\ answered = {}

Goto(phase) ==
    /\ pc' = phase
    /\ UNCHANGED <<attempt, mode>>

\* Mutant: the file holds the vault alone.
VaultAlone == mem.vault

\* Mutant: the file keeps the envelopes it had.
VaultWithoutEnvelopes == [mem EXCEPT !.envelope = disk.envelope]

\* _save_state_locked: the whole payload goes to a .tmp file that replaces
\* state.json, so the file is always the old one or the new one.
Payload == mem

-----------------------------------------------------------------------------
(* do_create_vault *)

\* CeremonyFormation's Accept of the last slot.
FormCeremony ==
    /\ pc = "idle"
    /\ mem.vault = NoVault
    /\ formed' = TRUE
    /\ UNCHANGED <<local, mem, disk, files, answered>>

\* The guards; create_vault_prime then makes fresh file names.
Begin(m) ==
    /\ pc = "idle"
    /\ mem.vault = NoVault
    /\ formed
    /\ attempt < MaxVaults
    /\ pc' = "seal"
    /\ attempt' = attempt + 1
    /\ mode' = m
    /\ sealed' = {}
    /\ wrapped' = {}
    /\ UNCHANGED <<state, files, answered>>

\* _issue: a codeword is written to its file; a drbg key is only returned.
Seal(t) ==
    /\ pc = "seal"
    /\ t \notin sealed
    /\ sealed' = sealed \cup {t}
    /\ words' = IF mode = "kdf" THEN words \cup {<<attempt, t>>} ELSE words
    /\ UNCHANGED <<pc, attempt, mode, wrapped, state, destroyed, scratch, stored, stored_tmp, answered>>

\* write_krypt ends create_vault_prime.
WriteScratch ==
    /\ pc = "seal"
    /\ sealed = Committee
    /\ scratch' = scratch \cup {attempt}
    /\ Goto("wrap")
    /\ UNCHANGED <<sealed, wrapped, state, words, destroyed, stored, stored_tmp, answered>>

\* Mutant: a codeword file is destroyed as soon as its envelope is wrapped.
WrapAndDestroy(t) ==
    /\ pc = "wrap"
    /\ t \notin wrapped
    /\ wrapped' = wrapped \cup {t}
    /\ words' = words \ {<<attempt, t>>}
    /\ destroyed' = destroyed \cup (words \cap {<<attempt, t>>})
    /\ pc' = IF wrapped' = Committee THEN "destroy" ELSE "wrap"
    /\ UNCHANGED <<attempt, mode, sealed, state, scratch, stored, stored_tmp, answered>>

\* shardic_envelope_crypto.wrap to the key the trustee registered.
Wrap(t) ==
    /\ pc = "wrap"
    /\ t \notin wrapped
    /\ wrapped' = wrapped \cup {t}
    /\ pc' = IF wrapped' = Committee THEN "destroy" ELSE "wrap"
    /\ UNCHANGED <<attempt, mode, sealed, state, files, answered>>

Mine == {w \in words : w[1] = attempt}

\* _secure_delete, for the codeword files alone.
Destroy(w) ==
    /\ pc = "destroy"
    /\ w \in Mine
    /\ words' = words \ {w}
    /\ destroyed' = destroyed \cup {w}
    /\ UNCHANGED <<local, state, scratch, stored, stored_tmp, answered>>

\* Mutant: destroying the codeword files may be skipped.
WithFilesLeft == TRUE

AllDestroyed == Mine = {}

\* rmdir of the words_dir, read_krypt, and the first half of FilesystemVaultStore.store.
StoreTemp ==
    /\ pc = "destroy"
    /\ AllDestroyed
    /\ stored_tmp' = stored_tmp \cup {attempt}
    /\ Goto("rename")
    /\ UNCHANGED <<sealed, wrapped, state, words, destroyed, scratch, stored, answered>>

\* Mutant: the vault is recorded while its bytes are still under the .tmp name.
LeaveTemp ==
    /\ pc = "rename"
    /\ Goto("unlink")
    /\ UNCHANGED <<sealed, wrapped, state, files, answered>>

\* os.replace gives the bytes their final name.
StoreRename ==
    /\ pc = "rename"
    /\ stored_tmp' = stored_tmp \ {attempt}
    /\ stored' = stored \cup {attempt}
    /\ Goto("unlink")
    /\ UNCHANGED <<sealed, wrapped, state, words, destroyed, scratch, answered>>

RemoveScratch ==
    /\ pc = "unlink"
    /\ scratch' = scratch \ {attempt}
    /\ Goto("commit")
    /\ UNCHANGED <<sealed, wrapped, state, words, destroyed, stored, stored_tmp, answered>>

\* The assignments to STATE, with the envelopes there are; the ceremony is consumed.
Commit ==
    /\ pc = "commit"
    /\ mem' = [vault |-> attempt,
               envelope |-> [t \in Committee |-> IF t \in wrapped THEN attempt ELSE NoVault]]
    /\ formed' = FALSE
    /\ Goto("save")
    /\ UNCHANGED <<sealed, wrapped, disk, files, answered>>

\* Mutant: the handler answers first and the file is saved by whoever saves next.
AnswerUnsaved ==
    /\ pc = "save"
    /\ Goto("answer")
    /\ UNCHANGED <<sealed, wrapped, state, files, answered>>

Save ==
    /\ pc = "save"
    /\ disk' = Payload
    /\ Goto("answer")
    /\ UNCHANGED <<sealed, wrapped, formed, mem, files, answered>>

\* The lock is released and the operator gets a 200.
Answer ==
    /\ pc = "answer"
    /\ answered' = answered \cup {attempt}
    /\ Goto("idle")
    /\ UNCHANGED <<sealed, wrapped, state, files>>

\* A step raises (a full disk, a key that is no key): the lock is released, the
\* locals are gone, and what is in STATE and on the disk stays as it is.
Raise ==
    /\ pc \notin {"idle", "answer"}
    /\ Goto("idle")
    /\ sealed' = {} /\ wrapped' = {}
    /\ UNCHANGED <<state, files, answered>>

-----------------------------------------------------------------------------
(* The rest of the combiner *)

\* do_register_trustee saves the whole STATE, whatever is in it.
RegisterTrustee ==
    /\ pc \in {"idle", "answer"}
    /\ disk' = Payload
    /\ UNCHANGED <<local, formed, mem, files, answered>>

\* Mutant: a restart restores no vault.
NothingRestored == Nothing

\* _load_state: the vault and the envelopes are what state.json says.
Restored == disk

\* The process dies, in the middle of a handler or not, and starts again.
Crash ==
    /\ Goto("idle")
    /\ sealed' = {} /\ wrapped' = {}
    /\ mem' = Restored
    /\ formed' = FALSE
    /\ UNCHANGED <<disk, files, answered>>

Create ==
    \/ \E m \in {"kdf", "drbg"} : Begin(m)
    \/ \E t \in Committee : Seal(t) \/ Wrap(t)
    \/ \E w \in words : Destroy(w)
    \/ WriteScratch \/ StoreTemp \/ StoreRename \/ RemoveScratch
    \/ Commit \/ Save \/ Answer \/ Raise

Next == FormCeremony \/ Create \/ RegisterTrustee \/ Crash

Spec == Init /\ [][Next]_vars

-----------------------------------------------------------------------------
(* Properties *)

TypeOK ==
    /\ pc \in Phases
    /\ attempt \in 0..MaxVaults
    /\ pc # "idle" => attempt \in Vaults
    /\ mode \in {"kdf", "drbg", NoMode}
    /\ sealed \subseteq Committee /\ wrapped \subseteq Committee
    /\ formed \in BOOLEAN
    /\ mem \in Saved /\ disk \in Saved
    /\ words \subseteq Vaults \X Committee /\ destroyed \subseteq Vaults \X Committee
    /\ scratch \subseteq Vaults /\ stored \subseteq Vaults /\ stored_tmp \subseteq Vaults
    /\ answered \subseteq Vaults

Complete(s) == s.vault # NoVault => s.vault \in stored /\ \A t \in Committee : s.envelope[t] = s.vault

\* Whatever STATE or state.json says, it says of a whole vault: if it names a
\* vault, the VaultStore holds its bytes and every trustee of the committee has
\* an envelope with a credential of that very vault (app.py:526-543, 558-565).
VaultIsComplete == Complete(mem) /\ Complete(disk)

\* A vault the operator was told of is there after every later failure, crash
\* and restart: it is the vault of state.json, now and from then on.
AnsweredIsDurable ==
    \A v \in answered : disk.vault = v /\ Complete(disk) /\ mem.vault = v

\* No codeword file is destroyed, and none disappears, before the credential of
\* every trustee is wrapped: a step that raises or a crash while envelopes are being
\* wrapped leaves the whole set in place, and so does every later attempt
\* (the comment at app.py:500-504).
NothingHalfDestroyed ==
    [][ \A w \in (words \ words') \cup (destroyed' \ destroyed) :
            w[1] = attempt /\ wrapped = Committee ]_vars

\* The plaintext does not outlive the vault: once STATE or state.json names a
\* vault, none of its codewords is left in a file.
NoPlaintextLeft ==
    \A w \in words : w[1] # mem.vault /\ w[1] # disk.vault

\* The vault of state.json is never replaced by another.
VaultIsForever == [][ disk.vault # NoVault => disk'.vault = disk.vault ]_vars

\* "Vault creation ... destroys the plaintext trustee_N.txt files, so that state
\* must survive a restart" (app.py:178-179): whenever no creation is under way, a
\* vault of the VaultStore whose codeword files were all destroyed is the vault
\* of state.json, with its envelopes.
DestroyedIsSaved ==
    pc = "idle" => \A v \in stored : {v} \X Committee \subseteq destroyed
                                        => disk.vault = v /\ Complete(disk)
=============================================================================
