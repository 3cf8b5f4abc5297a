------------------------ MODULE VaultLifecycleProofs ------------------------
(***************************************************************************)
(* The safety of vault creation for every committee and every number of    *)
(* attempts.  What an invariant promises of STATE and of state.json is     *)
(* decided steps before the commit, so IInv adds what the handler has      *)
(* achieved at each of its program points.                                 *)
(***************************************************************************)
EXTENDS VaultLifecycle, TLAPS

\* From the first _secure_delete on every credential is wrapped, from the last one on
\* no codeword of the vault being made is in a file, and from the rename on the
\* VaultStore holds its bytes.
DoneSoFar ==
    /\ pc \in {"destroy", "rename", "unlink", "commit"} => wrapped = Committee
    /\ pc \in {"unlink", "commit", "save", "answer"} => attempt \in stored
    /\ pc \in {"rename", "unlink", "commit", "save", "answer"} => Mine = {}

\* The handler holds the lock: STATE has no vault until its commit, then its
\* own, and the answer follows the save.
MemoryFollows ==
    /\ pc \notin {"idle", "save", "answer"} => mem.vault = NoVault
    /\ pc \in {"save", "answer"} => mem.vault = attempt
    /\ pc = "answer" => disk = mem

\* state.json may lag behind STATE, but once it names a vault it does not.
DiskIsSettled == disk.vault # NoVault => mem = disk

\* The operator was told only of the vault of state.json.
ToldOfDisk == \A v \in answered : disk.vault = v

\* The inductive invariant.
IInv ==
    /\ TypeOK
    /\ VaultIsComplete
    /\ NoPlaintextLeft
    /\ DoneSoFar
    /\ MemoryFollows
    /\ DiskIsSettled
    /\ ToldOfDisk

-----------------------------------------------------------------------------
(* Lemmas *)

\* A vault is a number, and NoVault is none.
LEMMA VaultsAreNumbers ==
    /\ Vaults \subseteq Nat
    /\ \A v \in Vaults : v # NoVault
    /\ 0 \in 0..MaxVaults
    /\ Vaults \subseteq 0..MaxVaults
    /\ \A n \in 0..MaxVaults : n < MaxVaults => n + 1 \in Vaults
BY LifecycleAssumption DEF Vaults

\* The empty record names no vault.
LEMMA NothingIsSaved == Nothing \in Saved /\ Nothing.vault = NoVault
BY DEF Nothing, Saved

\* What a commit records is a whole vault: all its envelopes are there by then.
LEMMA CommittedRecord ==
    ASSUME TypeOK, DoneSoFar, Commit
    PROVE  /\ mem' \in Saved
           /\ mem'.vault = attempt
           /\ \A t \in Committee : mem'.envelope[t] = attempt
<1>1. attempt \in Vaults /\ wrapped = Committee
  BY DEF TypeOK, DoneSoFar, Commit
<1>2. mem' = [vault |-> attempt,
              envelope |-> [t \in Committee |-> IF t \in wrapped THEN attempt ELSE NoVault]]
  BY DEF Commit
<1>3. /\ mem'.vault = attempt
      /\ mem'.envelope = [t \in Committee |-> IF t \in wrapped THEN attempt ELSE NoVault]
  BY <1>2
<1>4. [t \in Committee |-> IF t \in wrapped THEN attempt ELSE NoVault]
        \in [Committee -> Vaults \cup {NoVault}]
  BY <1>1
<1>5. mem' \in Saved
  BY <1>1, <1>2, <1>4 DEF Saved
<1> QED
  BY <1>1, <1>3, <1>5

LEMMA InitHolds == Init => IInv
<1> SUFFICES ASSUME Init
             PROVE  IInv
  OBVIOUS
<1>1. TypeOK
  BY VaultsAreNumbers, NothingIsSaved DEF Init, TypeOK, Phases
<1>2. VaultIsComplete /\ NoPlaintextLeft
  BY NothingIsSaved DEF Init, VaultIsComplete, Complete, NoPlaintextLeft
<1>3. DoneSoFar /\ MemoryFollows /\ DiskIsSettled /\ ToldOfDisk
  BY DEF Init, DoneSoFar, MemoryFollows, DiskIsSettled, ToldOfDisk
<1> QED
  BY <1>1, <1>2, <1>3 DEF IInv

\* The steps that make a vault leave STATE and state.json alone, so whatever
\* they put into files, both go on naming whole vaults: the VaultStore only
\* gains vaults, and the new codewords belong to a vault neither names.
LEMMA FilesOnly ==
    ASSUME IInv, UNCHANGED <<mem, disk, answered>>,
           stored \subseteq stored',
           \A w \in words' : w \in words \/ (w[1] = attempt /\ pc = "seal")
    PROVE  VaultIsComplete' /\ NoPlaintextLeft' /\ DiskIsSettled' /\ ToldOfDisk'
<1>1. VaultIsComplete'
  BY DEF IInv, VaultIsComplete, Complete
<1>2. NoPlaintextLeft'
  <2> SUFFICES ASSUME NEW w \in words'
               PROVE  w[1] # mem.vault /\ w[1] # disk.vault
    BY DEF NoPlaintextLeft
  <2>1. CASE w \in words
    BY <2>1 DEF IInv, NoPlaintextLeft
  <2>2. CASE w[1] = attempt /\ pc = "seal"
    <3>1. mem.vault = NoVault /\ attempt \in Vaults
      BY <2>2 DEF IInv, TypeOK, MemoryFollows
    <3>2. disk.vault = NoVault
      BY <3>1 DEF IInv, DiskIsSettled
    <3> QED
      BY <2>2, <3>1, <3>2, VaultsAreNumbers
  <2> QED
    BY <2>1, <2>2
<1>3. DiskIsSettled' /\ ToldOfDisk'
  BY DEF IInv, DiskIsSettled, ToldOfDisk
<1> QED
  BY <1>1, <1>2, <1>3

LEMMA BeginKeeps ==
    ASSUME IInv, NEW m \in {"kdf", "drbg"}, Begin(m)
    PROVE  IInv'
<1>1. TypeOK'
  <2>1. attempt + 1 \in Vaults
    BY VaultsAreNumbers DEF IInv, TypeOK, Begin
  <2> QED
    BY <2>1, VaultsAreNumbers DEF IInv, TypeOK, Begin, state, files, Phases
<1>2. VaultIsComplete' /\ NoPlaintextLeft' /\ DiskIsSettled' /\ ToldOfDisk'
  BY FilesOnly DEF Begin, state, files
<1>3. DoneSoFar' /\ MemoryFollows'
  BY DEF Begin, state, DoneSoFar, MemoryFollows
<1> QED
  BY <1>1, <1>2, <1>3 DEF IInv

LEMMA SealKeeps ==
    ASSUME IInv, NEW t \in Committee, Seal(t)
    PROVE  IInv'
<1>1. TypeOK'
  <2>1. <<attempt, t>> \in Vaults \X Committee
    BY DEF IInv, TypeOK, Seal
  <2>2. words' \subseteq Vaults \X Committee
    BY <2>1 DEF IInv, TypeOK, Seal
  <2> QED
    BY <2>2 DEF IInv, TypeOK, Seal, state, Phases
<1>2. \A w \in words' : w \in words \/ (w[1] = attempt /\ pc = "seal")
  BY DEF Seal
<1>3. VaultIsComplete' /\ NoPlaintextLeft' /\ DiskIsSettled' /\ ToldOfDisk'
  BY <1>2, FilesOnly DEF Seal, state
<1>4. DoneSoFar' /\ MemoryFollows'
  BY DEF IInv, Seal, state, DoneSoFar, MemoryFollows
<1> QED
  BY <1>1, <1>3, <1>4 DEF IInv

LEMMA WriteScratchKeeps ==
    ASSUME IInv, WriteScratch
    PROVE  IInv'
<1>1. TypeOK'
  BY DEF IInv, TypeOK, WriteScratch, Goto, state, Phases
<1>2. VaultIsComplete' /\ NoPlaintextLeft' /\ DiskIsSettled' /\ ToldOfDisk'
  BY FilesOnly DEF WriteScratch, state
<1>3. DoneSoFar' /\ MemoryFollows'
  BY DEF IInv, WriteScratch, Goto, state, DoneSoFar, MemoryFollows
<1> QED
  BY <1>1, <1>2, <1>3 DEF IInv

LEMMA WrapKeeps ==
    ASSUME IInv, NEW t \in Committee, Wrap(t)
    PROVE  IInv'
<1>1. TypeOK'
  BY DEF IInv, TypeOK, Wrap, state, files, Phases
<1>2. VaultIsComplete' /\ NoPlaintextLeft' /\ DiskIsSettled' /\ ToldOfDisk'
  BY FilesOnly DEF Wrap, state, files
<1>3. DoneSoFar' /\ MemoryFollows'
  BY DEF IInv, Wrap, state, DoneSoFar, MemoryFollows
<1> QED
  BY <1>1, <1>2, <1>3 DEF IInv

LEMMA DestroyKeeps ==
    ASSUME IInv, NEW w \in words, Destroy(w)
    PROVE  IInv'
<1>1. TypeOK'
  BY DEF IInv, TypeOK, Destroy, local, state, Phases
<1>2. VaultIsComplete' /\ NoPlaintextLeft' /\ DiskIsSettled' /\ ToldOfDisk'
  BY FilesOnly DEF Destroy, state
<1>3. DoneSoFar' /\ MemoryFollows'
  BY DEF IInv, Destroy, local, state, DoneSoFar, MemoryFollows
<1> QED
  BY <1>1, <1>2, <1>3 DEF IInv

LEMMA StoreKeeps ==
    ASSUME IInv, StoreTemp \/ StoreRename
    PROVE  IInv'
<1>1. TypeOK'
  BY DEF IInv, TypeOK, StoreTemp, StoreRename, Goto, state, Phases
<1>2. VaultIsComplete' /\ NoPlaintextLeft' /\ DiskIsSettled' /\ ToldOfDisk'
  BY FilesOnly DEF StoreTemp, StoreRename, state
<1>3. DoneSoFar' /\ MemoryFollows'
  BY DEF IInv, StoreTemp, StoreRename, AllDestroyed, Mine, Goto, state, DoneSoFar, MemoryFollows
<1> QED
  BY <1>1, <1>2, <1>3 DEF IInv

LEMMA RemoveScratchKeeps ==
    ASSUME IInv, RemoveScratch
    PROVE  IInv'
<1>1. TypeOK'
  BY DEF IInv, TypeOK, RemoveScratch, Goto, state, Phases
<1>2. VaultIsComplete' /\ NoPlaintextLeft' /\ DiskIsSettled' /\ ToldOfDisk'
  BY FilesOnly DEF RemoveScratch, state
<1>3. DoneSoFar' /\ MemoryFollows'
  BY DEF IInv, RemoveScratch, Mine, Goto, state, DoneSoFar, MemoryFollows
<1> QED
  BY <1>1, <1>2, <1>3 DEF IInv

\* The commit names a vault whose bytes are stored, whose envelopes are all
\* there and whose codewords are all gone.
LEMMA CommitKeeps ==
    ASSUME IInv, Commit
    PROVE  IInv'
<1>1. /\ pc = "commit" /\ pc' = "save" /\ attempt' = attempt /\ mode' = mode
      /\ formed' = FALSE
      /\ UNCHANGED <<sealed, wrapped, disk, words, destroyed, scratch, stored, stored_tmp, answered>>
  BY DEF Commit, Goto, files
<1>2. /\ mem' \in Saved /\ mem'.vault = attempt
      /\ \A t \in Committee : mem'.envelope[t] = attempt
  BY <1>1, CommittedRecord DEF IInv
<1>3. attempt \in stored /\ Mine = {} /\ disk.vault = NoVault
  BY <1>1 DEF IInv, DoneSoFar, MemoryFollows, DiskIsSettled
<1>4. TypeOK'
  BY <1>1, <1>2 DEF IInv, TypeOK, Phases
<1>5. VaultIsComplete'
  BY <1>1, <1>2, <1>3 DEF VaultIsComplete, Complete
<1>6. NoPlaintextLeft'
  BY <1>1, <1>2, <1>3 DEF IInv, NoPlaintextLeft, Mine
<1>7. DoneSoFar' /\ MemoryFollows'
  BY <1>1, <1>2, <1>3 DEF DoneSoFar, MemoryFollows, Mine
<1>8. DiskIsSettled' /\ ToldOfDisk'
  BY <1>1, <1>3 DEF IInv, DiskIsSettled, ToldOfDisk
<1> QED
  BY <1>4, <1>5, <1>6, <1>7, <1>8 DEF IInv

\* Both handlers that save write all of STATE, and only when it is whole.
LEMMA SaveKeeps ==
    ASSUME IInv, Save \/ RegisterTrustee
    PROVE  IInv'
<1>1. disk' = mem /\ UNCHANGED <<mem, formed, attempt, mode, sealed, wrapped, answered>>
  BY DEF Save, RegisterTrustee, Payload, Goto, local
<1>2. UNCHANGED <<words, destroyed, scratch, stored, stored_tmp>>
  BY DEF Save, RegisterTrustee, files
<1>3. (pc = "save" /\ pc' = "answer") \/ (pc \in {"idle", "answer"} /\ pc' = pc)
  BY DEF Save, RegisterTrustee, Goto, local
<1>4. TypeOK'
  BY <1>1, <1>2, <1>3 DEF IInv, TypeOK, Phases
<1>5. VaultIsComplete' /\ NoPlaintextLeft'
  BY <1>1, <1>2 DEF IInv, VaultIsComplete, Complete, NoPlaintextLeft
<1>6. DoneSoFar' /\ MemoryFollows'
  BY <1>1, <1>2, <1>3 DEF IInv, DoneSoFar, MemoryFollows, Mine
<1>7. DiskIsSettled'
  BY <1>1 DEF DiskIsSettled
<1>8. ToldOfDisk'
  <2> SUFFICES ASSUME NEW v \in answered
               PROVE  mem.vault = v
    BY <1>1 DEF ToldOfDisk
  <2>1. disk.vault = v /\ v \in Vaults
    BY DEF IInv, TypeOK, ToldOfDisk
  <2> QED
    BY <2>1, VaultsAreNumbers DEF IInv, DiskIsSettled
<1> QED
  BY <1>4, <1>5, <1>6, <1>7, <1>8 DEF IInv

LEMMA AnswerKeeps ==
    ASSUME IInv, Answer
    PROVE  IInv'
<1>1. disk.vault = attempt /\ attempt \in Vaults
  BY DEF IInv, TypeOK, Answer, MemoryFollows
<1>2. TypeOK'
  BY <1>1 DEF IInv, TypeOK, Answer, Goto, state, files, Phases
<1>3. VaultIsComplete' /\ NoPlaintextLeft' /\ DiskIsSettled'
  BY DEF IInv, Answer, Goto, state, files, VaultIsComplete, Complete, NoPlaintextLeft, DiskIsSettled
<1>4. DoneSoFar' /\ MemoryFollows'
  BY DEF Answer, Goto, DoneSoFar, MemoryFollows
<1>5. ToldOfDisk'
  BY <1>1 DEF IInv, Answer, state, ToldOfDisk
<1> QED
  BY <1>2, <1>3, <1>4, <1>5 DEF IInv

\* An exception drops only what the handler knew.
LEMMA RaiseKeeps ==
    ASSUME IInv, Raise
    PROVE  IInv'
<1>1. TypeOK'
  BY DEF IInv, TypeOK, Raise, Goto, state, files, Phases
<1>2. VaultIsComplete' /\ NoPlaintextLeft' /\ DiskIsSettled' /\ ToldOfDisk'
  BY FilesOnly DEF Raise, state, files
<1>3. DoneSoFar' /\ MemoryFollows'
  BY DEF Raise, Goto, DoneSoFar, MemoryFollows
<1> QED
  BY <1>1, <1>2, <1>3 DEF IInv

LEMMA FormKeeps ==
    ASSUME IInv, FormCeremony
    PROVE  IInv'
<1>1. TypeOK'
  BY DEF IInv, TypeOK, FormCeremony, local, files
<1>2. VaultIsComplete' /\ NoPlaintextLeft' /\ DiskIsSettled' /\ ToldOfDisk'
  BY FilesOnly DEF FormCeremony, files
<1>3. DoneSoFar' /\ MemoryFollows'
  BY DEF FormCeremony, local, DoneSoFar, MemoryFollows
<1> QED
  BY <1>1, <1>2, <1>3 DEF IInv

\* A restart believes state.json, which is whole by itself.
LEMMA CrashKeeps ==
    ASSUME IInv, Crash
    PROVE  IInv'
<1>1. mem' = disk /\ UNCHANGED <<disk, words, destroyed, scratch, stored, stored_tmp, answered>>
  BY DEF Crash, Restored, files
<1>2. TypeOK'
  BY <1>1 DEF IInv, TypeOK, Crash, Goto, Phases
<1>3. VaultIsComplete' /\ NoPlaintextLeft' /\ DiskIsSettled' /\ ToldOfDisk'
  BY <1>1 DEF IInv, VaultIsComplete, Complete, NoPlaintextLeft, DiskIsSettled, ToldOfDisk
<1>4. DoneSoFar' /\ MemoryFollows'
  BY DEF Crash, Goto, DoneSoFar, MemoryFollows
<1> QED
  BY <1>2, <1>3, <1>4 DEF IInv

LEMMA NextKeeps == IInv /\ [Next]_vars => IInv'
<1> SUFFICES ASSUME IInv, [Next]_vars
             PROVE  IInv'
  OBVIOUS
<1>1. CASE FormCeremony
  BY <1>1, FormKeeps
<1>2. CASE Create
  BY <1>2, BeginKeeps, SealKeeps, WriteScratchKeeps, WrapKeeps, DestroyKeeps, StoreKeeps,
     RemoveScratchKeeps, CommitKeeps, SaveKeeps, AnswerKeeps, RaiseKeeps DEF Create
<1>3. CASE RegisterTrustee
  BY <1>3, SaveKeeps
<1>4. CASE Crash
  BY <1>4, CrashKeeps
<1>5. CASE UNCHANGED vars
  <2>1. TypeOK'
    BY <1>5 DEF vars, local, state, files, IInv, TypeOK
  <2>2. VaultIsComplete' /\ NoPlaintextLeft' /\ DiskIsSettled' /\ ToldOfDisk'
    BY <1>5, FilesOnly DEF vars, state, files
  <2>3. DoneSoFar' /\ MemoryFollows'
    BY <1>5 DEF vars, local, state, files, IInv, DoneSoFar, MemoryFollows, Mine
  <2> QED
    BY <2>1, <2>2, <2>3 DEF IInv
<1> QED
  BY <1>1, <1>2, <1>3, <1>4, <1>5 DEF Next

-----------------------------------------------------------------------------
(* Theorems *)

\* The invariant holds in every reachable state, whatever raises or crashes.
THEOREM LifecycleInvariant == Spec => []IInv
BY InitHolds, NextKeeps, PTL DEF Spec

\* Type correctness.
THEOREM TypeCorrect == Spec => []TypeOK
<1>1. IInv => TypeOK
  BY DEF IInv
<1> QED
  BY <1>1, LifecycleInvariant, PTL

\* The vault that STATE or state.json names has its bytes and all its envelopes.
THEOREM VaultsAreComplete == Spec => []VaultIsComplete
<1>1. IInv => VaultIsComplete
  BY DEF IInv
<1> QED
  BY <1>1, LifecycleInvariant, PTL

\* A vault that was answered for is the vault of state.json and of STATE.
THEOREM AnswersAreDurable == Spec => []AnsweredIsDurable
<1>1. IInv => AnsweredIsDurable
  <2> SUFFICES ASSUME IInv, NEW v \in answered
               PROVE  disk.vault = v /\ Complete(disk) /\ mem.vault = v
    BY DEF AnsweredIsDurable
  <2>1. disk.vault = v /\ v \in Vaults
    BY DEF IInv, TypeOK, ToldOfDisk
  <2>2. mem = disk
    BY <2>1, VaultsAreNumbers DEF IInv, DiskIsSettled
  <2> QED
    BY <2>1, <2>2 DEF IInv, VaultIsComplete
<1> QED
  BY <1>1, LifecycleInvariant, PTL

\* No codeword of a recorded vault is left in a file.
THEOREM PlaintextIsGone == Spec => []NoPlaintextLeft
<1>1. IInv => NoPlaintextLeft
  BY DEF IInv
<1> QED
  BY <1>1, LifecycleInvariant, PTL

\* The vault of state.json is never replaced: a save writes STATE, which is
\* what the file says as soon as the file names a vault.
THEOREM VaultNeverReplaced == Spec => VaultIsForever
<1> DEFINE Kept == disk.vault # NoVault => disk'.vault = disk.vault
<1>1. IInv /\ [Next]_vars => [Kept]_vars
  <2> SUFFICES ASSUME IInv, Next
               PROVE  Kept
    BY DEF vars
  <2>1. CASE Save \/ RegisterTrustee
    <3>1. disk' = mem
      BY <2>1 DEF Save, RegisterTrustee, Payload
    <3> QED
      BY <3>1 DEF IInv, DiskIsSettled
  <2>2. CASE ~(Save \/ RegisterTrustee)
    <3>1. disk' = disk
      BY <2>2 DEF Next, Create, FormCeremony, Crash, Begin, Seal, WriteScratch, Wrap, Destroy,
                  StoreTemp, StoreRename, RemoveScratch, Commit, Answer, Raise, state
    <3> QED
      BY <3>1
  <2> QED
    BY <2>1, <2>2
<1> QED
  BY <1>1, LifecycleInvariant, PTL DEF Spec, VaultIsForever

\* A codeword file goes only when every credential of its set is wrapped: the one
\* step that takes one away is Destroy, and the handler gets there with all of them.
THEOREM NoneHalfDestroyed == Spec => NothingHalfDestroyed
<1> DEFINE Gone == (words \ words') \cup (destroyed' \ destroyed)
           Kept == \A w \in Gone : w[1] = attempt /\ wrapped = Committee
<1>1. IInv /\ [Next]_vars => [Kept]_vars
  <2> SUFFICES ASSUME IInv, Next
               PROVE  Kept
    BY DEF vars
  <2>1. CASE \E w \in words : Destroy(w)
    <3>1. PICK w \in words : Destroy(w)
      BY <2>1
    <3>2. w[1] = attempt /\ Gone \subseteq {w}
      BY <3>1 DEF Destroy, Mine
    <3>3. wrapped = Committee
      BY <3>1 DEF IInv, DoneSoFar, Destroy
    <3> QED
      BY <3>2, <3>3
  <2>2. CASE \E t \in Committee : Seal(t)
    <3>1. words \subseteq words' /\ destroyed' = destroyed
      BY <2>2 DEF Seal
    <3> QED
      BY <3>1
  <2>3. CASE ~(\E w \in words : Destroy(w)) /\ ~(\E t \in Committee : Seal(t))
    <3>1. words' = words /\ destroyed' = destroyed
      BY <2>3 DEF Next, Create, FormCeremony, RegisterTrustee, Crash, Begin, WriteScratch, Wrap,
                  StoreTemp, StoreRename, RemoveScratch, Commit, Save, Answer, Raise, files
    <3> QED
      BY <3>1
  <2> QED
    BY <2>1, <2>2, <2>3
<1> QED
  BY <1>1, LifecycleInvariant, PTL DEF Spec, NothingHalfDestroyed
=============================================================================
