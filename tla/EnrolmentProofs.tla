--------------------------- MODULE EnrolmentProofs ---------------------------
(***************************************************************************)
(* Enrolment keeps every identity, for every set of trustees and any       *)
(* number of launches and faulty registrations.  That a key in the         *)
(* directory is never made anew rests on what the volume holds at each     *)
(* point of load_or_create_keypair, which IInv adds.                       *)
(***************************************************************************)
EXTENDS Enrolment, TLAPS

Making(o) == at[o] \in {"private", "public"}

\* The private key is written first, a written public key is its other half, and a
\* process that runs holds what its volume holds.
KeyFile(o) ==
    /\ at[o] # "down" => launches[o] \in Keys
    /\ files[o].private = Absent => files[o].public = Absent
    /\ files[o].public \in Keys => files[o].private = files[o].public
    /\ at[o] = "private" => files[o].public = Absent
    /\ Making(o) => holds[o] = Pair(files[o].private, files[o].private) /\ files[o].private \in Keys
    /\ Running(o) => holds[o] = files[o] /\ files[o].public # Absent

\* Whatever the directory holds of a trustee lies on its volume; state.json may lag
\* behind the directory but holds nothing else.
Entry(t) ==
    /\ directory[t] # Absent => files[t].public = directory[t]
    /\ saved[t] # Absent => directory[t] = saved[t]
    /\ Making(t) => directory[t] = Absent
    /\ at[t] = "polling" => directory[t] = holds[t].public /\ saved[t] = holds[t].public

\* The inductive invariant.
IInv ==
    /\ TypeOK
    /\ \A o \in Owners : KeyFile(o)
    /\ \A t \in Trustees : Entry(t)

-----------------------------------------------------------------------------
(* Lemmas *)

\* The values a file or an entry may have are told apart.
LEMMA ContentsDiffer ==
    /\ Absent \notin Keys /\ Empty \notin Keys /\ Absent # Empty
    /\ Absent \in Contents /\ Empty \in Contents /\ Keys \subseteq Contents
    /\ Trustees \subseteq Owners /\ Combiner \in Owners /\ Combiner \notin Trustees
    /\ \A t \in Owners : t # Combiner => t \in Trustees
BY EnrolmentAssumption DEF Keys, Contents, Owners

\* A pair is what its halves are.
LEMMA PairsAreRecords ==
    /\ \A a, b : Pair(a, b).private = a /\ Pair(a, b).public = b
    /\ \A r \in [private : Contents, public : Contents] :
         r.private \in Contents /\ r.public \in Contents /\ r = Pair(r.private, r.public)
    /\ \A a, b \in Contents : Pair(a, b) \in [private : Contents, public : Contents]
BY DEF Pair

\* At the start nothing exists.
LEMMA InitIsFine == Init => IInv
<1> SUFFICES ASSUME Init PROVE IInv
  OBVIOUS
<1>1. TypeOK
  BY EnrolmentAssumption, ContentsDiffer, PairsAreRecords DEF Init, TypeOK, Places
<1>2. \A o \in Owners : KeyFile(o)
  BY ContentsDiffer, PairsAreRecords DEF Init, KeyFile, Making, Running
<1>3. \A t \in Trustees : Entry(t)
  BY ContentsDiffer, PairsAreRecords DEF Init, Entry, Making
<1> QED
  BY <1>1, <1>2, <1>3 DEF IInv

\* A process that is started goes to its key files.
LEMMA LaunchKeeps ==
    ASSUME IInv, NEW o \in Owners, Launch(o) PROVE IInv'
<1>1. launches[o] \in Nat /\ launches[o] + 1 \in Keys
  BY DEF IInv, TypeOK, Keys
<1>2. TypeOK'
  <2>1. \A p \in Owners : launches'[p] \in Nat /\ launches'[p] <= MaxLaunches[p]
    BY <1>1, EnrolmentAssumption DEF IInv, TypeOK, Launch, Owners
  <2>2. launches' \in [Owners -> Nat] /\ at' \in [Owners -> Places]
    BY <1>1 DEF IInv, TypeOK, Launch, MoveTo, Places
  <2>3. \A t \in Trustees : at'[t] # "serving" /\ at'[Combiner] \notin {"signin", "register", "polling"}
    BY ContentsDiffer DEF IInv, TypeOK, Launch, MoveTo
  <2> QED
    BY <2>1, <2>2, <2>3 DEF IInv, TypeOK, Launch, registration
<1>3. \A p \in Owners : KeyFile(p)'
  <2> TAKE p \in Owners
  <2>1. KeyFile(p)
    BY DEF IInv
  <2>2. CASE p = o
    BY <2>1, <2>2, <1>1 DEF IInv, TypeOK, Launch, MoveTo, KeyFile, Making, Running
  <2>3. CASE p # o
    BY <2>1, <2>3 DEF IInv, TypeOK, Launch, MoveTo, KeyFile, Making, Running
  <2> QED
    BY <2>2, <2>3
<1>4. \A t \in Trustees : Entry(t)'
  BY ContentsDiffer DEF IInv, TypeOK, Launch, MoveTo, registration, Entry, Making
<1> QED
  BY <1>2, <1>3, <1>4 DEF IInv

\* What WithKeys makes of the places.
LEMMA PlacesWithKeys ==
    ASSUME TypeOK, NEW o \in Owners, WithKeys(o)
    PROVE  /\ at' \in [Owners -> Places]
           /\ \A t \in Trustees : at'[t] # "serving" /\ at'[Combiner] \notin {"signin", "register", "polling"}
           /\ \A p \in Owners : p # o => at'[p] = at[p]
           /\ at'[o] \in {"signin", "serving"}
BY ContentsDiffer DEF TypeOK, WithKeys, MoveTo, Places

\* A pair that is there is kept.
LEMMA LoadKeysKeeps ==
    ASSUME IInv, NEW o \in Owners, LoadKeys(o) PROVE IInv'
<1>1. TypeOK'
  BY PlacesWithKeys DEF IInv, TypeOK, LoadKeys, registration
<1>2. \A p \in Owners : KeyFile(p)'
  <2> TAKE p \in Owners
  <2>1. KeyFile(p) /\ KeyFile(o)
    BY DEF IInv
  <2>2. CASE p = o
    BY <2>1, <2>2, PlacesWithKeys DEF IInv, TypeOK, LoadKeys, BothExist, KeyFile, Making, Running
  <2>3. CASE p # o
    BY <2>1, <2>3, PlacesWithKeys DEF IInv, TypeOK, LoadKeys, KeyFile, Making, Running
  <2> QED
    BY <2>2, <2>3
<1>3. \A t \in Trustees : Entry(t)'
  <2> TAKE t \in Trustees
  <2>1. Entry(t) /\ t \in Owners
    BY ContentsDiffer DEF IInv
  <2>2. CASE t = o
    BY <2>1, <2>2, PlacesWithKeys DEF IInv, LoadKeys, registration, Entry, Making
  <2>3. CASE t # o
    BY <2>1, <2>3, PlacesWithKeys DEF IInv, TypeOK, LoadKeys, registration, Entry, Making
  <2> QED
    BY <2>2, <2>3
<1> QED
  BY <1>1, <1>2, <1>3 DEF IInv

\* A pair is made only where no public key was ever given out.
LEMMA CreateKeysKeeps ==
    ASSUME IInv, NEW o \in Owners, CreateKeys(o) PROVE IInv'
<1> DEFINE k == launches[o]
<1>1. k \in Keys /\ files[o].public = Absent
  BY DEF IInv, KeyFile, CreateKeys, BothExist
<1>2. /\ files'[o] = Pair(k, Absent) /\ holds'[o] = Pair(k, k) /\ at'[o] = "private"
      /\ \A p \in Owners : p # o => files'[p] = files[p] /\ holds'[p] = holds[p] /\ at'[p] = at[p]
  BY <1>1, PairsAreRecords DEF IInv, TypeOK, CreateKeys, MoveTo, Pair
<1>3. TypeOK'
  <2>1. files' \in [Owners -> [private : Contents, public : Contents]]
    BY <1>1, ContentsDiffer DEF IInv, TypeOK, CreateKeys
  <2>2. holds' \in [Owners -> [private : Contents, public : Contents]]
    BY <1>1, ContentsDiffer, PairsAreRecords DEF IInv, TypeOK, CreateKeys
  <2>3. at' \in [Owners -> Places]
    BY DEF IInv, TypeOK, CreateKeys, MoveTo, Places
  <2>4. \A t \in Trustees : at'[t] # "serving" /\ at'[Combiner] \notin {"signin", "register", "polling"}
    BY <1>2, ContentsDiffer DEF IInv, TypeOK
  <2> QED
    BY <2>1, <2>2, <2>3, <2>4 DEF IInv, TypeOK, CreateKeys, registration
<1>4. \A p \in Owners : KeyFile(p)'
  <2> TAKE p \in Owners
  <2>1. KeyFile(p) /\ launches' = launches
    BY DEF IInv, CreateKeys
  <2>2. CASE p = o
    BY <2>1, <2>2, <1>1, <1>2, ContentsDiffer, PairsAreRecords DEF KeyFile, Making, Running
  <2>3. CASE p # o
    BY <2>1, <2>3, <1>2 DEF KeyFile, Making, Running
  <2> QED
    BY <2>2, <2>3
<1>5. \A t \in Trustees : Entry(t)'
  <2> TAKE t \in Trustees
  <2>1. Entry(t) /\ t \in Owners /\ UNCHANGED registration
    BY ContentsDiffer DEF IInv, CreateKeys
  <2>2. CASE t = o
    BY <2>1, <2>2, <1>1, <1>2, PairsAreRecords DEF registration, Entry, Making
  <2>3. CASE t # o
    BY <2>1, <2>3, <1>2 DEF registration, Entry, Making
  <2> QED
    BY <2>2, <2>3
<1> QED
  BY <1>3, <1>4, <1>5 DEF IInv

\* The empty file is that of a trustee nobody knows.
LEMMA OpenPublicKeeps ==
    ASSUME IInv, NEW o \in Owners, OpenPublic(o) PROVE IInv'
<1>1. /\ files'[o] = Pair(files[o].private, Empty) /\ at'[o] = "public"
      /\ \A p \in Owners : p # o => files'[p] = files[p] /\ at'[p] = at[p]
  BY PairsAreRecords DEF IInv, TypeOK, OpenPublic, MoveTo, Pair
<1>2. TypeOK'
  <2>1. files' \in [Owners -> [private : Contents, public : Contents]]
    BY ContentsDiffer DEF IInv, TypeOK, OpenPublic
  <2>2. at' \in [Owners -> Places]
    BY DEF IInv, TypeOK, OpenPublic, MoveTo, Places
  <2>3. \A t \in Trustees : at'[t] # "serving" /\ at'[Combiner] \notin {"signin", "register", "polling"}
    BY <1>1, ContentsDiffer DEF IInv, TypeOK
  <2> QED
    BY <2>1, <2>2, <2>3 DEF IInv, TypeOK, OpenPublic, registration
<1>3. \A p \in Owners : KeyFile(p)'
  <2> TAKE p \in Owners
  <2>1. KeyFile(p) /\ UNCHANGED <<holds, launches>> /\ at[o] = "private"
    BY DEF IInv, OpenPublic
  <2>2. CASE p = o
    BY <2>1, <2>2, <1>1, ContentsDiffer, PairsAreRecords DEF KeyFile, Making, Running
  <2>3. CASE p # o
    BY <2>1, <2>3, <1>1 DEF KeyFile, Making, Running
  <2> QED
    BY <2>2, <2>3
<1>4. \A t \in Trustees : Entry(t)'
  <2> TAKE t \in Trustees
  <2>1. Entry(t) /\ t \in Owners /\ UNCHANGED <<holds, registration>> /\ at[o] = "private"
    BY ContentsDiffer DEF IInv, OpenPublic
  <2>2. CASE t = o
    BY <2>1, <2>2, <1>1 DEF registration, Entry, Making
  <2>3. CASE t # o
    BY <2>1, <2>3, <1>1 DEF registration, Entry, Making
  <2> QED
    BY <2>2, <2>3
<1> QED
  BY <1>2, <1>3, <1>4 DEF IInv

\* What is written is the other half of the private key.
LEMMA WritePublicKeeps ==
    ASSUME IInv, NEW o \in Owners, WritePublic(o) PROVE IInv'
<1> DEFINE k == files[o].private
<1>1. /\ at[o] = "public" /\ k \in Keys /\ holds[o] = Pair(k, k)
      /\ UNCHANGED <<holds, launches, registration>>
  BY DEF IInv, KeyFile, Making, WritePublic
<1>2. /\ files'[o] = Pair(k, k)
      /\ \A p \in Owners : p # o => files'[p] = files[p]
      /\ files' \in [Owners -> [private : Contents, public : Contents]]
  <2>1. holds[o].public = k
    BY <1>1, PairsAreRecords
  <2>2. files' = [files EXCEPT ![o].public = holds[o].public]
    BY DEF WritePublic
  <2> QED
    BY <2>1, <2>2, <1>1, ContentsDiffer, PairsAreRecords DEF IInv, TypeOK, Pair
<1>3. /\ at' \in [Owners -> Places]
      /\ \A t \in Trustees : at'[t] # "serving" /\ at'[Combiner] \notin {"signin", "register", "polling"}
      /\ \A p \in Owners : p # o => at'[p] = at[p]
      /\ at'[o] \in {"signin", "serving"}
  BY PlacesWithKeys DEF IInv, WritePublic
<1>4. TypeOK'
  BY <1>1, <1>2, <1>3 DEF IInv, TypeOK, registration
<1>5. \A p \in Owners : KeyFile(p)'
  <2> TAKE p \in Owners
  <2>1. KeyFile(p)
    BY DEF IInv
  <2>2. CASE p = o
    BY <2>1, <2>2, <1>1, <1>2, <1>3, ContentsDiffer, PairsAreRecords DEF KeyFile, Making, Running
  <2>3. CASE p # o
    BY <2>1, <2>3, <1>1, <1>2, <1>3 DEF KeyFile, Making, Running
  <2> QED
    BY <2>2, <2>3
<1>6. \A t \in Trustees : Entry(t)'
  <2> TAKE t \in Trustees
  <2>1. Entry(t) /\ t \in Owners
    BY ContentsDiffer DEF IInv
  <2>2. CASE t = o
    BY <2>1, <2>2, <1>1, <1>3 DEF registration, Entry, Making
  <2>3. CASE t # o
    BY <2>1, <2>3, <1>1, <1>2, <1>3 DEF registration, Entry, Making
  <2> QED
    BY <2>2, <2>3
<1> QED
  BY <1>4, <1>5, <1>6 DEF IInv

\* A step that moves one trustee to a place where it runs, and touches no key.
LEMMA MovesKeep ==
    ASSUME IInv, NEW t \in Trustees, Running(t),
           NEW place \in {"register", "polling"}, MoveTo(t, place),
           UNCHANGED <<files, holds, launches>>
    PROVE  /\ at' \in [Owners -> Places]
           /\ \A u \in Trustees : at'[u] # "serving" /\ at'[Combiner] \notin {"signin", "register", "polling"}
           /\ \A o \in Owners : KeyFile(o)'
           /\ at'[t] = place /\ \A o \in Owners : o # t => at'[o] = at[o]
<1>1. /\ at' \in [Owners -> Places]
      /\ at'[t] = place /\ \A o \in Owners : o # t => at'[o] = at[o]
  BY ContentsDiffer DEF IInv, TypeOK, MoveTo, Places
<1>2. \A u \in Trustees : at'[u] # "serving" /\ at'[Combiner] \notin {"signin", "register", "polling"}
  BY <1>1, ContentsDiffer DEF IInv, TypeOK
<1>3. \A o \in Owners : KeyFile(o)'
  <2> TAKE o \in Owners
  <2>1. KeyFile(o)
    BY DEF IInv
  <2>2. CASE o = t
    BY <2>1, <2>2, <1>1 DEF KeyFile, Making, Running
  <2>3. CASE o # t
    BY <2>1, <2>3, <1>1 DEF KeyFile, Making, Running
  <2> QED
    BY <2>2, <2>3
<1> QED
  BY <1>1, <1>2, <1>3

LEMMA SignInKeeps ==
    ASSUME IInv, NEW t \in Trustees, SignIn(t) PROVE IInv'
<1>1. Running(t) /\ MoveTo(t, "register") /\ UNCHANGED <<files, holds, launches, faults, directory, saved>>
  BY DEF SignIn, Running
<1>2. /\ at' \in [Owners -> Places]
      /\ \A u \in Trustees : at'[u] # "serving" /\ at'[Combiner] \notin {"signin", "register", "polling"}
      /\ \A o \in Owners : KeyFile(o)'
      /\ at'[t] = "register" /\ \A o \in Owners : o # t => at'[o] = at[o]
  BY <1>1, MovesKeep
<1>3. TypeOK'
  BY <1>1, <1>2 DEF IInv, TypeOK, SignIn
<1>4. \A u \in Trustees : Entry(u)'
  <2> TAKE u \in Trustees
  <2>1. Entry(u) /\ u \in Owners
    BY ContentsDiffer DEF IInv
  <2> QED
    BY <2>1, <1>1, <1>2 DEF Entry, Making
<1> QED
  BY <1>2, <1>3, <1>4 DEF IInv

LEMMA ExpireKeeps ==
    ASSUME IInv, NEW t \in Trustees, Expire(t) PROVE IInv'
<1>1. TypeOK'
  BY DEF IInv, TypeOK, Expire, process
<1>2. \A o \in Owners : KeyFile(o)'
  BY DEF IInv, KeyFile, Making, Running, Expire, process
<1>3. \A u \in Trustees : Entry(u)'
  BY DEF IInv, Entry, Making, Expire, process
<1> QED
  BY <1>1, <1>2, <1>3 DEF IInv

\* Whatever becomes of its answer, a registration enters the key on the volume, which
\* is the key already there if there is one.
LEMMA EnterKeeps ==
    ASSUME IInv, NEW t \in Trustees, Enter(t)
    PROVE  /\ directory' \in [Trustees -> Contents]
           /\ directory'[t] = holds[t].public /\ files[t].public = holds[t].public
           /\ \A u \in Trustees : u # t => directory'[u] = directory[u]
           /\ \A u \in Trustees :
                /\ directory'[u] # Absent => files[u].public = directory'[u]
                /\ saved[u] # Absent => directory'[u] = saved[u]
<1>1. /\ t \in Owners /\ Running(t) /\ KeyFile(t)
      /\ holds[t] \in [private : Contents, public : Contents]
  BY ContentsDiffer DEF IInv, TypeOK, Enter, Running
<1>2. holds[t].public \in Contents /\ files[t].public = holds[t].public /\ files[t].public # Absent
  BY <1>1, PairsAreRecords DEF KeyFile
<1>3. /\ directory' \in [Trustees -> Contents]
      /\ directory'[t] = holds[t].public
      /\ \A u \in Trustees : u # t => directory'[u] = directory[u]
  BY <1>2 DEF IInv, TypeOK, Enter
<1>4. ASSUME NEW u \in Trustees
      PROVE  /\ directory'[u] # Absent => files[u].public = directory'[u]
             /\ saved[u] # Absent => directory'[u] = saved[u]
  <2>1. Entry(u) /\ Entry(t)
    BY DEF IInv
  <2>2. CASE u = t
    BY <2>1, <2>2, <1>2, <1>3 DEF Entry
  <2>3. CASE u # t
    BY <2>1, <2>3, <1>3 DEF Entry
  <2> QED
    BY <2>2, <2>3
<1> QED
  BY <1>2, <1>3, <1>4

LEMMA RegisterKeeps ==
    ASSUME IInv, NEW t \in Trustees, Register(t) PROVE IInv'
<1>1. Running(t) /\ Enter(t) /\ MoveTo(t, "polling") /\ saved' = directory' /\ UNCHANGED <<files, holds, launches, expired, faults>>
  BY DEF Register, Enter, SavedState, Running
<1>2. /\ at' \in [Owners -> Places]
      /\ \A u \in Trustees : at'[u] # "serving" /\ at'[Combiner] \notin {"signin", "register", "polling"}
      /\ \A o \in Owners : KeyFile(o)'
      /\ at'[t] = "polling" /\ \A o \in Owners : o # t => at'[o] = at[o]
  BY <1>1, MovesKeep
<1>3. /\ directory' \in [Trustees -> Contents]
      /\ directory'[t] = holds[t].public /\ files[t].public = holds[t].public
      /\ \A u \in Trustees : u # t => directory'[u] = directory[u]
  BY <1>1, EnterKeeps
<1>4. TypeOK'
  BY <1>1, <1>2, <1>3 DEF IInv, TypeOK
<1>5. \A u \in Trustees : Entry(u)'
  <2> TAKE u \in Trustees
  <2>1. Entry(u) /\ u \in Owners
    BY ContentsDiffer DEF IInv
  <2>2. CASE u = t
    BY <2>2, <1>1, <1>2, <1>3 DEF Entry, Making
  <2>3. CASE u # t
    BY <2>1, <2>3, <1>1, <1>2, <1>3 DEF Entry, Making
  <2> QED
    BY <2>2, <2>3
<1> QED
  BY <1>2, <1>4, <1>5 DEF IInv

LEMMA RegisterUnheardKeeps ==
    ASSUME IInv, NEW t \in Trustees, RegisterUnheard(t) PROVE IInv'
<1>1. Enter(t) /\ saved' = directory' /\ faults < MaxFaults /\ faults' = faults + 1 /\ UNCHANGED <<process, expired>>
  BY DEF RegisterUnheard, SavedState
<1>2. /\ directory' \in [Trustees -> Contents]
      /\ directory'[t] = holds[t].public /\ files[t].public = holds[t].public
      /\ \A u \in Trustees : u # t => directory'[u] = directory[u]
  BY <1>1, EnterKeeps
<1>3. at[t] = "register"
  BY <1>1 DEF Enter
<1>4. TypeOK'
  BY <1>1, <1>2, EnrolmentAssumption DEF IInv, TypeOK, process
<1>5. \A o \in Owners : KeyFile(o)'
  BY <1>1 DEF IInv, KeyFile, Making, Running, process
<1>6. \A u \in Trustees : Entry(u)'
  <2> TAKE u \in Trustees
  <2>1. Entry(u)
    BY DEF IInv
  <2>2. CASE u = t
    BY <2>2, <1>1, <1>2, <1>3 DEF Entry, Making, process
  <2>3. CASE u # t
    BY <2>1, <2>3, <1>1, <1>2 DEF Entry, Making, process
  <2> QED
    BY <2>2, <2>3
<1> QED
  BY <1>4, <1>5, <1>6 DEF IInv

LEMMA RegisterUnsavedKeeps ==
    ASSUME IInv, NEW t \in Trustees, RegisterUnsaved(t) PROVE IInv'
<1>1. Enter(t) /\ faults < MaxFaults /\ faults' = faults + 1 /\ UNCHANGED <<process, expired, saved>>
  BY DEF RegisterUnsaved
<1>2. /\ directory' \in [Trustees -> Contents]
      /\ directory'[t] = holds[t].public /\ files[t].public = holds[t].public
      /\ \A u \in Trustees : u # t => directory'[u] = directory[u]
      /\ \A u \in Trustees : saved[u] # Absent => directory'[u] = saved[u]
  BY <1>1, EnterKeeps
<1>3. at[t] = "register"
  BY <1>1 DEF Enter
<1>4. TypeOK'
  BY <1>1, <1>2, EnrolmentAssumption DEF IInv, TypeOK, process
<1>5. \A o \in Owners : KeyFile(o)'
  BY <1>1 DEF IInv, KeyFile, Making, Running, process
<1>6. \A u \in Trustees : Entry(u)'
  <2> TAKE u \in Trustees
  <2>1. Entry(u)
    BY DEF IInv
  <2>2. CASE u = t
    BY <2>2, <1>1, <1>2, <1>3 DEF Entry, Making, process
  <2>3. CASE u # t
    BY <2>1, <2>3, <1>1, <1>2 DEF Entry, Making, process
  <2> QED
    BY <2>2, <2>3
<1> QED
  BY <1>4, <1>5, <1>6 DEF IInv

\* What dies leaves its volume, and the combiner what it saved.
LEMMA DieKeeps ==
    ASSUME IInv, NEW o \in Owners, Die(o) PROVE IInv'
<1>1. /\ at'[o] = "down"
      /\ \A p \in Owners : p # o => at'[p] = at[p] /\ holds'[p] = holds[p]
      /\ UNCHANGED <<files, launches, expired, faults, saved>>
  BY DEF IInv, TypeOK, Die, MoveTo
<1>2. /\ directory' \in [Trustees -> Contents]
      /\ directory' = directory \/ directory' = saved
  BY DEF IInv, TypeOK, Die, Restored
<1>3. TypeOK'
  <2>1. holds' \in [Owners -> [private : Contents, public : Contents]]
    BY ContentsDiffer, PairsAreRecords DEF IInv, TypeOK, Die
  <2>2. at' \in [Owners -> Places]
    BY DEF IInv, TypeOK, Die, MoveTo, Places
  <2>3. \A t \in Trustees : at'[t] # "serving" /\ at'[Combiner] \notin {"signin", "register", "polling"}
    BY <1>1, ContentsDiffer DEF IInv, TypeOK
  <2> QED
    BY <2>1, <2>2, <2>3, <1>1, <1>2 DEF IInv, TypeOK
<1>4. \A p \in Owners : KeyFile(p)'
  <2> TAKE p \in Owners
  <2>1. KeyFile(p)
    BY DEF IInv
  <2>2. CASE p = o
    BY <2>1, <2>2, <1>1 DEF KeyFile, Making, Running
  <2>3. CASE p # o
    BY <2>1, <2>3, <1>1 DEF KeyFile, Making, Running
  <2> QED
    BY <2>2, <2>3
<1>5. \A t \in Trustees : Entry(t)'
  <2> TAKE t \in Trustees
  <2>1. Entry(t) /\ t \in Owners
    BY ContentsDiffer DEF IInv
  <2>2. CASE t = o
    BY <2>1, <2>2, <1>1, <1>2 DEF Entry, Making
  <2>3. CASE t # o
    BY <2>1, <2>3, <1>1, <1>2 DEF Entry, Making
  <2> QED
    BY <2>2, <2>3
<1> QED
  BY <1>3, <1>4, <1>5 DEF IInv

LEMMA StutterKeeps == IInv /\ UNCHANGED vars => IInv'
<1> SUFFICES ASSUME IInv, UNCHANGED vars PROVE IInv'
  OBVIOUS
<1>1. TypeOK'
  BY DEF IInv, TypeOK, vars, process, registration
<1>2. (\A o \in Owners : KeyFile(o)')
  BY DEF IInv, KeyFile, Making, Running, vars, process, registration
<1>3. (\A t \in Trustees : Entry(t)')
  BY DEF IInv, Entry, Making, vars, process, registration
<1> QED
  BY <1>1, <1>2, <1>3 DEF IInv

\* No step of any process breaks the invariant.
LEMMA StepKeeps == IInv /\ [Next]_vars => IInv'
<1> SUFFICES ASSUME IInv, [Next]_vars PROVE IInv'
  OBVIOUS
<1>1. CASE \E o \in Owners : Launch(o) \/ Starting(o) \/ Die(o)
  <2> PICK o \in Owners : Launch(o) \/ Starting(o) \/ Die(o)
    BY <1>1
  <2>1. CASE Launch(o)
    BY <2>1, LaunchKeeps
  <2>2. CASE LoadKeys(o)
    BY <2>2, LoadKeysKeeps
  <2>3. CASE CreateKeys(o)
    BY <2>3, CreateKeysKeeps
  <2>4. CASE OpenPublic(o)
    BY <2>4, OpenPublicKeeps
  <2>5. CASE WritePublic(o)
    BY <2>5, WritePublicKeeps
  <2>6. CASE Die(o)
    BY <2>6, DieKeeps
  <2> QED
    BY <2>1, <2>2, <2>3, <2>4, <2>5, <2>6 DEF Starting
<1>2. CASE \E t \in Trustees : SignIn(t) \/ Expire(t) \/ Attempt(t)
  <2> PICK t \in Trustees : SignIn(t) \/ Expire(t) \/ Attempt(t)
    BY <1>2
  <2>1. CASE SignIn(t)
    BY <2>1, SignInKeeps
  <2>2. CASE Expire(t)
    BY <2>2, ExpireKeeps
  <2>3. CASE Register(t)
    BY <2>3, RegisterKeeps
  <2>4. CASE RegisterUnheard(t)
    BY <2>4, RegisterUnheardKeeps
  <2>5. CASE RegisterUnsaved(t)
    BY <2>5, RegisterUnsavedKeeps
  <2> QED
    BY <2>1, <2>2, <2>3, <2>4, <2>5 DEF Attempt
<1>3. CASE UNCHANGED vars
  BY <1>3, StutterKeeps
<1> QED
  BY <1>1, <1>2, <1>3 DEF Next

\* What the invariant says of the keys.
LEMMA InvariantOpens == IInv => KeyOpensEnvelopes
<1> SUFFICES ASSUME IInv, NEW t \in Trustees, NEW key \in {directory[t], saved[t]} \ {Absent, Empty}
             PROVE  files[t] = Pair(key, key) /\ (Running(t) => holds[t] = Pair(key, key))
  BY DEF KeyOpensEnvelopes
<1>1. Entry(t) /\ KeyFile(t) /\ t \in Owners
  BY ContentsDiffer DEF IInv
<1>2. directory[t] \in Contents /\ saved[t] \in Contents /\ files[t] \in [private : Contents, public : Contents]
  BY <1>1 DEF IInv, TypeOK
<1>3. key \in Keys /\ files[t].public = key
  BY <1>1, <1>2 DEF Entry, Contents
<1>4. files[t] = Pair(key, key)
  BY <1>1, <1>2, <1>3, PairsAreRecords DEF KeyFile
<1> QED
  BY <1>1, <1>4 DEF KeyFile

LEMMA InvariantRegisters == IInv => PollersAreRegistered
BY DEF IInv, Entry, PollersAreRegistered

\* A saved entry is not replaced by another, nor the combiner's files while it serves.
LEMMA StepStays ==
    ASSUME IInv, Next
    PROVE  /\ \A t \in Trustees : saved[t] # Absent => saved'[t] = saved[t]
           /\ Serving => files'[Combiner] = holds[Combiner]
<1>1. Serving => files[Combiner] = holds[Combiner]
  BY ContentsDiffer DEF IInv, KeyFile, Running, Serving
<1>2. CASE \E o \in Owners : Launch(o) \/ Starting(o) \/ Die(o)
  <2> PICK o \in Owners : Launch(o) \/ Starting(o) \/ Die(o)
    BY <1>2
  <2>1. saved' = saved
    BY DEF Launch, Starting, LoadKeys, CreateKeys, OpenPublic, WritePublic, Die, registration
  <2>2. Serving => files'[Combiner] = files[Combiner]
    <3>1. CASE Launch(o) \/ LoadKeys(o) \/ Die(o)
      BY <3>1 DEF Launch, LoadKeys, Die
    <3>2. CASE CreateKeys(o) \/ OpenPublic(o) \/ WritePublic(o)
      <4>1. Serving => o # Combiner
        BY <3>2 DEF CreateKeys, OpenPublic, WritePublic, Serving
      <4> QED
        BY <3>2, <4>1, ContentsDiffer DEF IInv, TypeOK, CreateKeys, OpenPublic, WritePublic
    <3> QED
      BY <3>1, <3>2 DEF Starting
  <2> QED
    BY <2>1, <2>2, <1>1
<1>3. CASE \E t \in Trustees : SignIn(t) \/ Expire(t) \/ Attempt(t)
  <2> PICK t \in Trustees : SignIn(t) \/ Expire(t) \/ Attempt(t)
    BY <1>3
  <2>1. files' = files
    BY DEF SignIn, Expire, Attempt, Register, RegisterUnheard, RegisterUnsaved, process
  <2>2. CASE SignIn(t) \/ Expire(t) \/ RegisterUnsaved(t)
    BY <2>1, <2>2, <1>1 DEF SignIn, Expire, RegisterUnsaved
  <2>3. CASE Register(t) \/ RegisterUnheard(t)
    <3>1. Enter(t) /\ saved' = directory'
      BY <2>3 DEF Register, RegisterUnheard, SavedState
    <3>2. \A u \in Trustees : saved[u] # Absent => directory'[u] = saved[u]
      BY <3>1, EnterKeeps
    <3> QED
      BY <2>1, <3>1, <3>2, <1>1
  <2> QED
    BY <2>2, <2>3 DEF Attempt
<1> QED
  BY <1>2, <1>3 DEF Next

-----------------------------------------------------------------------------
(* Theorems *)

\* At each of its program points a process holds what its volume does, and the
\* directory names keys that lie on their trustees' volumes
\* (shardic_envelope_crypto.py:62-85, app.py:220-224).
THEOREM EnrolmentInvariant == Spec => []IInv
BY InitIsFine, StepKeeps, PTL DEF Spec

\* Files, memories and directories hold keys, nothing, or an empty file.
THEOREM TypeCorrect == Spec => []TypeOK
<1>1. IInv => TypeOK
  BY DEF IInv
<1> QED
  BY <1>1, EnrolmentInvariant, PTL

\* Whatever is sealed to a registered key, its trustee can open, whenever it is killed
\* and started again (shardic_envelope_crypto.py:62-85, app.py:487).
THEOREM KeysOpen == Spec => []KeyOpensEnvelopes
BY InvariantOpens, EnrolmentInvariant, PTL

\* Who polls is registered with its own key, in memory and on disk
\* (trustee/app.py:82-83, app.py:224).
THEOREM PollersStayRegistered == Spec => []PollersAreRegistered
BY InvariantRegisters, EnrolmentInvariant, PTL

\* No saved key is ever replaced, nor the combiner's own (app.py:147, 221).
THEOREM IdentitiesAreKept == Spec => IdentitiesStay
<1> DEFINE Kept == /\ \A t \in Trustees : saved[t] # Absent => saved'[t] = saved[t]
                   /\ Serving => files'[Combiner] = holds[Combiner]
<1>1. IInv /\ [Next]_vars => [Kept]_vars
  BY StepStays
<1> QED
  BY <1>1, EnrolmentInvariant, PTL DEF Spec, IdentitiesStay
=============================================================================
