--------------------------- MODULE LocalVaultProofs -------------------------
(***************************************************************************)
(* What typed codewords match does not depend on the order they are typed  *)
(* in; a quorum opens the vault, and fewer learn nothing of its secret.    *)
(* All of it holds for every number of trustees, every codewords, every    *)
(* shuffle and every field.                                                *)
(*                                                                         *)
(* The records one codeword opens are numbered in their order; the ones    *)
(* matched are those up to the number of times it was typed, and the first *)
(* that is left has the next number.                                       *)
(*                                                                         *)
(* That enough shards give the secret back is proved from the axioms of a  *)
(* field by divided differences: that of a polynomial at more points than  *)
(* it has coefficients is 0, and the one at the shards and 0 is Lagrange's *)
(* sum.  That fewer give nothing away is proved by shifting: for every     *)
(* change of the secret there is a mask, or a polynomial that is 0 at the  *)
(* points known, that makes up for it.                                     *)
(***************************************************************************)
EXTENDS LocalVault, FiniteSetTheorems, FunctionTheorems, SequenceTheorems,
        WellFoundedInduction, TLAPS

\* The records a codeword opens, used or not.
Opened(w) == {i \in DOMAIN records : records[i].word = w}

\* How many of the indices in S come up to i.
Number(i, S) == Cardinality({j \in S : j <= i})

PoolOf(S) == {i \in S : records[i].kind = "pool"}

\* What the matching may rely on of the records, and what it holds itself.
RecordsAreSealed ==
    /\ trustees \in Nat /\ DOMAIN records = 1..trustees
    /\ \A i \in DOMAIN records : /\ records[i].word \in Words
                                 /\ records[i].kind \in {"prime", "pool"}
                                 /\ records[i].kind = "prime" => records[i].y \in Nat
    /\ typed \in [Words -> Nat]

\* Nothing is typed before there is a vault.
VaultFirst ==
    /\ scheme = "none" => program = "none" /\ typed = [w \in Words |-> 0]
    /\ program \in {"none", "cli", "gui"}

Payloads == {[x |-> records[i].x, y |-> records[i].y] : i \in DOMAIN records}

ShardsAreRecords == shards \in Seq(Payloads)

\* The inductive invariant of the matching.
IInv ==
    /\ RecordsAreSealed
    /\ VaultFirst
    /\ ShardsAreRecords
    /\ OrderDoesNotMatter

-----------------------------------------------------------------------------
(* Numbering *)

\* Indices are numbered 1, 2, ... in their order, and every number is given once.
LEMMA Numbering ==
    ASSUME NEW T \in Nat, NEW S \in SUBSET (1..T)
    PROVE  /\ IsFiniteSet(S) /\ Cardinality(S) \in Nat
           /\ \A i \in S : Number(i, S) \in 1..Cardinality(S)
           /\ \A i, j \in S : i < j => Number(i, S) < Number(j, S)
           /\ \A m \in 1..Cardinality(S) : \E i \in S : Number(i, S) = m
<1>1. IsFiniteSet(S) /\ Cardinality(S) \in Nat
  <2>1. IsFiniteSet(1..T)
    BY FS_Interval
  <2>2. IsFiniteSet(S)
    BY <2>1, FS_Subset
  <2> QED
    BY <2>2, FS_CardinalityType
<1>2. S \subseteq Int
  OBVIOUS
<1>3. ASSUME NEW i \in S PROVE Number(i, S) \in 1..Cardinality(S)
  <2> DEFINE below == {j \in S : j <= i}
  <2>1. below \in SUBSET S /\ i \in below
    BY <1>2
  <2>2. IsFiniteSet(below) /\ Cardinality(below) <= Cardinality(S)
    BY <1>1, <2>1, FS_Subset
  <2>3. Cardinality(below) \in Nat /\ Cardinality(below) # 0
    BY <2>1, <2>2, FS_CardinalityType, FS_EmptySet
  <2> QED
    BY <1>1, <2>2, <2>3 DEF Number
<1>4. ASSUME NEW i \in S, NEW j \in S, i < j PROVE Number(i, S) < Number(j, S)
  <2> DEFINE low == {m \in S : m <= i}
             high == {m \in S : m <= j}
  <2>0. \A m \in S : m <= i => m <= j
    BY <1>2, <1>4
  <2>1. low \in SUBSET high /\ high \in SUBSET S
    BY <2>0
  <2>2. j \in high /\ j \notin low
    BY <1>2, <1>4
  <2>3. IsFiniteSet(high)
    BY <1>1, <2>1, FS_Subset
  <2>4. Cardinality(low) <= Cardinality(high) /\ Cardinality(low) # Cardinality(high)
    BY <2>1, <2>2, <2>3, FS_Subset
  <2>5. Cardinality(low) \in Nat /\ Cardinality(high) \in Nat
    BY <1>3 DEF Number
  <2> QED
    BY <2>4, <2>5 DEF Number
<1>5. ASSUME NEW m \in 1..Cardinality(S) PROVE \E i \in S : Number(i, S) = m
  <2> DEFINE number == [i \in S |-> Number(i, S)]
  <2>1. \A i, j \in S : Number(i, S) = Number(j, S) => i = j
    <3> SUFFICES ASSUME NEW i \in S, NEW j \in S, Number(i, S) = Number(j, S) PROVE i = j
      OBVIOUS
    <3>1. ~(i < j) /\ ~(j < i)
      BY <1>3, <1>4
    <3> QED
      BY <1>2, <3>1
  <2>2. number \in [S -> 1..Cardinality(S)] /\ \A i, j \in S : number[i] = number[j] => i = j
    BY <1>3, <2>1
  <2> HIDE DEF number
  <2>3. number \in Injection(S, 1..Cardinality(S))
    BY <2>2, Fun_IsInj
  <2>4. IsFiniteSet(1..Cardinality(S)) /\ Cardinality(1..Cardinality(S)) = Cardinality(S)
    BY <1>1, FS_Interval
  <2>5. number \in Surjection(S, 1..Cardinality(S))
    BY <2>3, <2>4, FS_Injection
  <2>6. \E i \in S : number[i] = m
    BY <2>5 DEF Surjection
  <2> QED
    BY <2>6 DEF number
<1> QED
  BY <1>1, <1>3, <1>4, <1>5

\* The places up to one that have its codeword.
LEMMA PlacesUpTo ==
    ASSUME RecordsAreSealed, NEW i \in DOMAIN records
    PROVE  {j \in 1..i : records[j].word = records[i].word} = {j \in Opened(records[i].word) : j <= i}
<1>1. trustees \in Nat /\ DOMAIN records = 1..trustees
  BY DEF RecordsAreSealed
<1>2. \A j \in Int : j \in 1..i <=> j \in DOMAIN records /\ j <= i
  BY <1>1
<1>3. 1..i \subseteq Int /\ DOMAIN records \subseteq Int
  BY <1>1
<1> QED
  BY <1>2, <1>3 DEF Opened

\* Matched, in terms of the numbers.
LEMMA MatchedByNumber ==
    ASSUME RecordsAreSealed
    PROVE  /\ Matched \subseteq DOMAIN records
           /\ \A i \in DOMAIN records :
                 i \in Matched <=> Number(i, Opened(records[i].word)) <= typed[records[i].word]
BY PlacesUpTo DEF Matched, Number

\* The first record left that a codeword opens has the number after the last match;
\* with none left, all of them were matched.
LEMMA FirstLeft ==
    ASSUME IInv, NEW w \in Words
    PROVE  /\ try_match_word(w) = None => \A i \in Opened(w) : Number(i, Opened(w)) <= typed[w]
           /\ try_match_word(w) # None =>
                 /\ try_match_word(w) \in Opened(w)
                 /\ \A i \in Opened(w) : Number(i, Opened(w)) = typed[w] + 1 <=> i = try_match_word(w)
<1> DEFINE left == {i \in Unmatched : records[i].word = w}
           S == Opened(w)
<1>1. /\ trustees \in Nat /\ DOMAIN records = 1..trustees /\ typed[w] \in Nat
      /\ S \in SUBSET (1..trustees) /\ S \subseteq Int
  BY DEF IInv, RecordsAreSealed, Opened
<1>2. /\ Cardinality(S) \in Nat
      /\ \A i \in S : Number(i, S) \in 1..Cardinality(S)
      /\ \A i, j \in S : i < j => Number(i, S) < Number(j, S)
      /\ \A m \in 1..Cardinality(S) : \E i \in S : Number(i, S) = m
  BY <1>1, Numbering
<1>3. left \subseteq S /\ \A i \in S : i \in left <=> Number(i, S) > typed[w]
  <2>1. used_indices = Matched
    BY DEF IInv, OrderDoesNotMatter
  <2>2. \A i \in S : i \in Matched <=> Number(i, S) <= typed[w]
    BY MatchedByNumber DEF IInv, Opened
  <2>3. \A i \in S : Number(i, S) <= typed[w] <=> ~(Number(i, S) > typed[w])
    BY <1>1, <1>2
  <2> QED
    BY <2>1, <2>2, <2>3 DEF Unmatched, Opened
<1>4. try_match_word(w) = IF left = {} THEN None ELSE Min(left)
  BY DEF try_match_word
<1> HIDE DEF S, left
<1>5. CASE left = {}
  BY <1>1, <1>2, <1>3, <1>4, <1>5 DEF S
<1>6. CASE left # {}
  <2>1. PICK some \in left : TRUE
    BY <1>6
  <2>2. typed[w] + 1 \in 1..Cardinality(S)
    BY <1>1, <1>2, <1>3, <2>1
  <2>3. PICK first \in S : Number(first, S) = typed[w] + 1
    BY <1>2, <2>2
  <2>4. \A i \in S : i < first \/ first < i \/ i = first
    BY <1>1
  <2>5. first \in left /\ \A i \in left : first <= i
    <3>1. first \in left
      BY <1>1, <1>3, <2>3
    <3>2. ASSUME NEW i \in left PROVE first <= i
      <4>1. ~(i < first)
        BY <1>1, <1>2, <1>3, <2>3
      <4> QED
        BY <1>1, <1>3, <2>4, <4>1
    <3> QED
      BY <3>1, <3>2
  <2>6. \A i \in left : (\A j \in left : i <= j) => i = first
    BY <1>1, <1>3, <2>5
  <2>7. Min(left) = first
    BY <2>5, <2>6 DEF Min
  <2>8. first # None
    BY <1>1, VaultAssumption DEF S
  <2>9. \A i \in S : Number(i, S) = typed[w] + 1 => i = first
    BY <1>1, <1>2, <2>3, <2>4
  <2> QED
    BY <1>4, <1>6, <2>3, <2>7, <2>8, <2>9 DEF S
<1> QED
  BY <1>5, <1>6

-----------------------------------------------------------------------------
(* The steps *)

\* What is matched was not used.
LEMMA MatchIsUnused ==
    ASSUME IInv, NEW w \in Words, try_match_word(w) # None
    PROVE  try_match_word(w) \in Unmatched
<1>1. try_match_word(w) \in Opened(w) /\ Number(try_match_word(w), Opened(w)) = typed[w] + 1
  BY FirstLeft
<1>2. /\ try_match_word(w) \in DOMAIN records /\ records[try_match_word(w)].word = w
      /\ used_indices = Matched /\ typed[w] \in Nat
  BY <1>1 DEF Opened, IInv, OrderDoesNotMatter, RecordsAreSealed
<1>3. try_match_word(w) \notin Matched
  BY <1>1, <1>2, MatchedByNumber DEF IInv
<1> QED
  BY <1>2, <1>3 DEF Unmatched

\* One more match, or none.
LEMMA MatchedGrows ==
    ASSUME IInv, NEW w \in Words, typed' = [typed EXCEPT ![w] = @ + 1], UNCHANGED vault
    PROVE  Matched' = IF try_match_word(w) = None THEN Matched ELSE Matched \cup {try_match_word(w)}
<1>1. /\ RecordsAreSealed /\ RecordsAreSealed'
      /\ records' = records /\ typed \in [Words -> Nat]
      /\ typed'[w] = typed[w] + 1 /\ \A v \in Words : v # w => typed'[v] = typed[v]
  BY DEF IInv, RecordsAreSealed, vault
<1>2. /\ Matched \subseteq DOMAIN records
      /\ \A i \in DOMAIN records :
            i \in Matched <=> Number(i, Opened(records[i].word)) <= typed[records[i].word]
  BY <1>1, MatchedByNumber
<1>3. /\ Matched' \subseteq DOMAIN records
      /\ \A i \in DOMAIN records :
            i \in Matched' <=> Number(i, Opened(records[i].word)) <= typed'[records[i].word]
  <2>1. Matched' = {i \in DOMAIN records :
          Cardinality({j \in 1..i : records[j].word = records[i].word}) <= typed'[records[i].word]}
    BY <1>1 DEF Matched
  <2>2. \A i \in DOMAIN records :
          {j \in 1..i : records[j].word = records[i].word} = {j \in Opened(records[i].word) : j <= i}
    BY <1>1, PlacesUpTo
  <2> QED
    BY <2>1, <2>2 DEF Number
<1>4. \A i \in DOMAIN records : records[i].word \in Words /\ (records[i].word = w <=> i \in Opened(w))
  BY <1>1 DEF RecordsAreSealed, Opened
<1>5. \A i \in DOMAIN records : records[i].word # w => (i \in Matched' <=> i \in Matched)
  BY <1>1, <1>2, <1>3, <1>4
<1>6. \A i \in Opened(w) :
         i \in Matched' <=> i \in Matched \/ Number(i, Opened(w)) = typed[w] + 1
  <2>1. /\ Opened(w) \in SUBSET (1..trustees) /\ trustees \in Nat
        /\ \A i \in Opened(w) : i \in DOMAIN records /\ records[i].word = w
    BY <1>1 DEF RecordsAreSealed, Opened
  <2>2. \A i \in Opened(w) : Number(i, Opened(w)) \in Nat
    <3> DEFINE S == Opened(w)
    <3>1. S \in SUBSET (1..trustees)
      BY <2>1
    <3> HIDE DEF S
    <3>2. Cardinality(S) \in Nat /\ \A i \in S : Number(i, S) \in 1..Cardinality(S)
      BY <2>1, <3>1, Numbering
    <3>3. \A i \in S : Number(i, S) \in Nat
      BY ONLY <3>2
    <3> QED
      BY ONLY <3>3 DEF S
  <2>3. \A i \in Opened(w) : Number(i, Opened(w)) <= typed[w] + 1
              <=> Number(i, Opened(w)) <= typed[w] \/ Number(i, Opened(w)) = typed[w] + 1
    BY <1>1, <2>2
  <2> QED
    BY <1>1, <1>2, <1>3, <2>1, <2>3
<1>7. CASE try_match_word(w) = None
  <2>1. \A i \in Opened(w) : i \in Matched
    BY <1>2, <1>7, FirstLeft DEF Opened
  <2>2. \A i \in DOMAIN records : i \in Matched' <=> i \in Matched
    BY <1>4, <1>5, <1>6, <2>1
  <2> QED
    BY <1>2, <1>3, <1>7, <2>2
<1>8. CASE try_match_word(w) # None
  <2>1. try_match_word(w) \in DOMAIN records
    BY <1>8, FirstLeft DEF Opened
  <2>2. \A i \in Opened(w) : i \in Matched' <=> i \in Matched \/ i = try_match_word(w)
    BY <1>6, <1>8, FirstLeft
  <2>3. \A i \in DOMAIN records : i \in Matched' <=> i \in Matched \/ i = try_match_word(w)
    <3>1. \A i \in DOMAIN records : records[i].word # w => i # try_match_word(w)
      BY <1>4, <1>8, FirstLeft
    <3> QED
      BY <1>4, <1>5, <2>2, <3>1
  <2> QED
    BY <1>2, <1>3, <1>8, <2>1, <2>3
<1> QED
  BY <1>7, <1>8

\* Nothing was typed, so nothing is matched.
NothingTyped == RecordsAreSealed /\ typed = [w \in Words |-> 0]

NothingIsMatched == Matched = {}

LEMMA NothingMatched == NothingTyped => NothingIsMatched
<1> SUFFICES ASSUME NothingTyped, NEW i \in Matched PROVE FALSE
  BY DEF NothingIsMatched
<1>1. RecordsAreSealed /\ \A w \in Words : typed[w] = 0
  BY DEF NothingTyped
<1>2. i \in DOMAIN records /\ Number(i, Opened(records[i].word)) <= typed[records[i].word]
  BY <1>1, MatchedByNumber
<1>3. records[i].word \in Words /\ i \in Opened(records[i].word)
  BY <1>1, <1>2 DEF RecordsAreSealed, Opened
<1>4. trustees \in Nat /\ Opened(records[i].word) \in SUBSET (1..trustees)
  BY <1>1 DEF RecordsAreSealed, Opened
<1>5. /\ Cardinality(Opened(records[i].word)) \in Nat
      /\ Number(i, Opened(records[i].word)) \in 1..Cardinality(Opened(records[i].word))
  BY <1>3, <1>4, Numbering
<1> QED
  BY <1>1, <1>2, <1>3, <1>5

\* The same of the next state.
LEMMA NothingMatchedNext == NothingTyped' => NothingIsMatched'
BY NothingMatched, PTL

\* With nothing typed and nothing held, the invariant says nothing of the records but their shape.
LEMMA BlankKeeps ==
    ASSUME NothingTyped', VaultFirst', used_indices' = {}, mask' = None, shards' = << >>
    PROVE  IInv'
<1>1. Matched' = {}
  BY NothingMatchedNext DEF NothingIsMatched
<1>2. shards' \in Seq(Payloads') /\ Len(shards') = 0
  BY EmptySeq
<1>3. {i \in Matched' : records'[i].kind = "pool"} = {} /\ Cardinality({}) = 0
  BY <1>1, FS_EmptySet
<1>4. OrderDoesNotMatter'
  BY <1>1, <1>2, <1>3 DEF OrderDoesNotMatter
<1> QED
  BY <1>2, <1>4 DEF IInv, NothingTyped, ShardsAreRecords

\* At the start nothing is typed and nothing held.
LEMMA InitFine == Init => IInv
<1> SUFFICES ASSUME Init PROVE IInv
  OBVIOUS
<1>1. << >> \in Seq(Payloads) /\ Len(<< >>) = 0 /\ DOMAIN << >> = {}
  BY EmptySeq
<1>2. RecordsAreSealed
  BY <1>1 DEF Init, RecordsAreSealed
<1>3. Matched = {}
  BY <1>2, NothingMatched DEF NothingTyped, NothingIsMatched, Init
<1>4. {i \in Matched : records[i].kind = "pool"} = {} /\ Cardinality({}) = 0
  BY <1>3, FS_EmptySet
<1>5. OrderDoesNotMatter
  BY <1>1, <1>3, <1>4 DEF OrderDoesNotMatter, Init
<1> QED
  BY <1>1, <1>2, <1>5 DEF IInv, VaultFirst, ShardsAreRecords, Init

\* Before there is a vault nothing is held.
LEMMA NothingHeld ==
    ASSUME IInv, scheme = "none"
    PROVE  program = "none" /\ typed = [w \in Words |-> 0]
           /\ used_indices = {} /\ mask = None /\ shards = << >>
<1>1. NothingTyped /\ program = "none"
  BY DEF IInv, VaultFirst, NothingTyped
<1>2. Matched = {}
  BY <1>1, NothingMatched DEF NothingIsMatched
<1>3. {i \in Matched : records[i].kind = "pool"} = {} /\ Cardinality({}) = 0
  BY <1>2, FS_EmptySet
<1>4. Len(shards) = 0 /\ shards \in Seq(Payloads)
  BY <1>3 DEF IInv, OrderDoesNotMatter, ShardsAreRecords
<1>5. shards = << >>
  BY <1>4, EmptySeq
<1> QED
  BY <1>1, <1>2, <1>5 DEF NothingTyped, IInv, OrderDoesNotMatter

\* The records of a new vault of T trustees.
SealedFor(T) ==
    /\ DOMAIN records' = 1..T
    /\ \A i \in 1..T : /\ records'[i].word \in Words
                       /\ records'[i].kind \in {"prime", "pool"}
                       /\ records'[i].kind = "prime" => records'[i].y \in Nat

\* Sealed records are as many as the payloads, and of their kinds.
LEMMA SealedRecords ==
    ASSUME NEW T \in Nat, NEW payloads, DOMAIN payloads = 1..T,
           \A i \in 1..T : /\ payloads[i].kind \in {"prime", "pool"}
                           /\ payloads[i].kind = "prime" => payloads[i].y \in Nat,
           Seal(payloads)
    PROVE  SealedFor(T)
<1>1. PICK order \in SetToSeqs(1..T), word \in [1..T -> Words] :
         records' = [i \in 1..T |->
                       [word |-> word[order[i]], kind |-> payloads[order[i]].kind,
                        x |-> payloads[order[i]].x, y |-> payloads[order[i]].y]]
  BY DEF Seal
<1>2. Cardinality(1..T) = T
  BY FS_Interval
<1>3. \A i \in 1..T : order[i] \in 1..T
  BY <1>2 DEF SetToSeqs
<1>4. ASSUME NEW i \in 1..T
      PROVE  records'[i].word = word[order[i]] /\ records'[i].kind = payloads[order[i]].kind
             /\ records'[i].y = payloads[order[i]].y
  BY <1>1
<1>5. DOMAIN records' = 1..T
  BY <1>1
<1> QED
  BY <1>3, <1>4, <1>5 DEF SealedFor

\* A vault is made before anything is typed.
LEMMA CreateKeeps ==
    ASSUME IInv, Create
    PROVE  IInv'
<1>1. PICK T \in 1..MaxTrustees : \E D \in 1..T :
        \/ \E coeffs \in Polynomials(D) : create_vault(T, D, coeffs)
        \/ \E coeffs \in Polynomials(D - 1), pad \in Field : create_vault_prime(T, D, pad, coeffs)
  BY DEF Create
<1>2. T \in Nat /\ T >= 1
  BY <1>1, VaultAssumption
<1>3. /\ scheme = "none" /\ trustees' = T /\ UNCHANGED <<program, recovery>>
      /\ scheme' # "none"
  BY <1>1 DEF Create, create_vault, create_vault_prime
<1>4. SealedFor(T)
  <2>1. ASSUME NEW D \in 1..T, NEW coeffs \in Polynomials(D), create_vault(T, D, coeffs)
        PROVE  SealedFor(T)
    <3> DEFINE payloads == [i \in 1..T |-> Payload(split_secret(coeffs, T)[i])]
    <3>1. Seal(payloads)
      BY <2>1 DEF create_vault
    <3>2. DOMAIN payloads = 1..T /\ \A i \in 1..T : payloads[i].kind = "pool"
      BY DEF Payload
    <3> HIDE DEF payloads
    <3> QED
      BY <1>2, <3>1, <3>2, SealedRecords
  <2>2. ASSUME NEW D \in 1..T, NEW coeffs \in Polynomials(D - 1), NEW pad \in Field,
               create_vault_prime(T, D, pad, coeffs)
        PROVE  SealedFor(T)
    <3> DEFINE first == [kind |-> "prime", x |-> 0, y |-> pad]
               rest == [i \in 1 .. T - 1 |-> Payload(split_secret_with_prime(pad, coeffs, T - 1)[i])]
               payloads == <<first>> \o rest
               All == {first} \cup {rest[i] : i \in 1 .. T - 1}
    <3>1. Seal(payloads)
      BY <2>2 DEF create_vault_prime
    <3>2. pad \in Nat
      BY DEF Field
    <3>3. \A i \in 1 .. T - 1 : rest[i].kind = "pool"
      BY DEF Payload
    <3>4. first.kind = "prime" /\ first.y = pad
      OBVIOUS
    <3>5. rest \in [1 .. T - 1 -> All] /\ T - 1 \in Nat
      BY <1>2
    <3> HIDE DEF first, rest, All, payloads
    <3>6. rest \in Seq(All) /\ Len(rest) = T - 1
      BY <3>5, IsASeq
    <3>7. <<first>> \in Seq(All) /\ Len(<<first>>) = 1 /\ <<first>>[1] = first
      BY DEF All
    <3>8. /\ payloads \in Seq(All) /\ Len(payloads) = 1 + (T - 1)
          /\ \A i \in 1..1 + (T - 1) : payloads[i] = IF i <= 1 THEN <<first>>[i] ELSE rest[i - 1]
      BY <3>6, <3>7, ConcatProperties DEF payloads
    <3>9. DOMAIN payloads = 1..T
      BY <1>2, <3>8, LenProperties
    <3>10. ASSUME NEW i \in 1..T
           PROVE  /\ payloads[i].kind \in {"prime", "pool"}
                  /\ payloads[i].kind = "prime" => payloads[i].y \in Nat
      <4>1. CASE i = 1
        BY <1>2, <3>2, <3>4, <3>7, <3>8, <4>1
      <4>2. CASE i # 1
        <5>1. i - 1 \in 1 .. T - 1 /\ i \in 1..1 + (T - 1) /\ ~(i <= 1)
          BY <1>2, <4>2
        <5>2. payloads[i] = rest[i - 1]
          BY <3>8, <5>1
        <5> QED
          BY <3>3, <5>1, <5>2
      <4> QED
        BY <4>1, <4>2
    <3> QED
      BY <1>2, <3>1, <3>9, <3>10, SealedRecords
  <2> QED
    BY <1>1, <2>1, <2>2
<1>5. /\ program = "none" /\ typed = [w \in Words |-> 0]
      /\ used_indices = {} /\ mask = None /\ shards = << >>
  BY <1>3, NothingHeld
<1>6. NothingTyped' /\ VaultFirst'
  BY <1>2, <1>3, <1>4, <1>5 DEF SealedFor, NothingTyped, RecordsAreSealed, VaultFirst, recovery
<1> QED
  BY <1>3, <1>5, <1>6, BlankKeeps DEF recovery

\* A recovery begins with nothing.
LEMMA StartKeeps ==
    ASSUME IInv, NEW p \in {"cli", "gui"}, Start(p)
    PROVE  IInv'
<1>1. /\ typed' = [w \in Words |-> 0] /\ used_indices' = {} /\ mask' = None /\ shards' = << >>
      /\ UNCHANGED <<scheme, trustees, records>> /\ scheme # "none" /\ program' = p
  BY DEF Start, NoShards, vault
<1>2. NothingTyped' /\ VaultFirst'
  BY <1>1 DEF IInv, NothingTyped, RecordsAreSealed, VaultFirst
<1> QED
  BY <1>1, <1>2, BlankKeeps

\* A typed codeword matches the record with the next number, if there is one.
LEMMA TypeKeeps ==
    ASSUME IInv, NEW w \in Words, Type(w)
    PROVE  IInv'
<1> DEFINE idx == try_match_word(w)
           pools == {i \in Matched : records[i].kind = "pool"}
<1>1. /\ typed' = [typed EXCEPT ![w] = @ + 1]
      /\ UNCHANGED <<vault, program>> /\ UNCHANGED <<scheme, trustees, records>>
      /\ program \in {"cli", "gui"}
  BY DEF Type, MayType, AsksAgain, HasField, vault
<1>2. RecordsAreSealed' /\ VaultFirst' /\ Payloads' = Payloads
  BY <1>1 DEF IInv, RecordsAreSealed, VaultFirst, Payloads
<1>3. Matched' = IF idx = None THEN Matched ELSE Matched \cup {idx}
  BY <1>1, MatchedGrows
<1>4. /\ used_indices = Matched
      /\ Len(shards) = Cardinality(pools)
      /\ mask # None <=> \E i \in Matched : records[i].kind = "prime"
      /\ shards \in Seq(Payloads)
  BY DEF IInv, OrderDoesNotMatter, ShardsAreRecords
<1>5. CASE idx = None
  <2>1. UNCHANGED <<used_indices, mask, shards>> /\ Matched' = Matched
    BY <1>3, <1>5 DEF Type
  <2>2. OrderDoesNotMatter'
    BY <1>1, <1>4, <2>1 DEF OrderDoesNotMatter
  <2> QED
    BY <1>2, <1>4, <2>1, <2>2 DEF IInv, ShardsAreRecords
<1>6. CASE idx # None
  <2>1. /\ used_indices' = used_indices \cup {idx}
        /\ IF records[idx].kind = "prime"
           THEN mask' = records[idx].y /\ UNCHANGED shards
           ELSE /\ shards' = Append(shards, [x |-> records[idx].x, y |-> records[idx].y])
                /\ UNCHANGED mask
    BY <1>6 DEF Type
  <2>2. Matched' = Matched \cup {idx} /\ used_indices' = Matched'
    BY <1>3, <1>4, <1>6, <2>1
  <2>3. idx \in DOMAIN records /\ idx \notin Matched
    BY <1>4, <1>6, MatchIsUnused DEF Unmatched
  <2>4. /\ records[idx].kind \in {"prime", "pool"}
        /\ records[idx].kind = "prime" => records[idx].y \in Nat
    BY <2>3 DEF IInv, RecordsAreSealed
  <2>5. CASE records[idx].kind = "prime"
    <3>1. mask' # None /\ shards' = shards
      BY <2>1, <2>4, <2>5, VaultAssumption
    <3>2. {i \in Matched' : records'[i].kind = "pool"} = pools
      BY <1>1, <2>2, <2>5
    <3>3. \E i \in Matched' : records'[i].kind = "prime"
      BY <1>1, <2>2, <2>5
    <3>4. OrderDoesNotMatter'
      BY <1>4, <2>2, <3>1, <3>2, <3>3 DEF OrderDoesNotMatter
    <3> QED
      BY <1>2, <1>4, <3>1, <3>4 DEF IInv, ShardsAreRecords
  <2>6. CASE records[idx].kind = "pool"
    <3>1. /\ shards' = Append(shards, [x |-> records[idx].x, y |-> records[idx].y])
          /\ mask' = mask
      BY <2>1, <2>6
    <3>2. [x |-> records[idx].x, y |-> records[idx].y] \in Payloads
      BY <2>3 DEF Payloads
    <3>3. shards' \in Seq(Payloads) /\ Len(shards') = Len(shards) + 1
      BY <1>4, <3>1, <3>2, AppendProperties
    <3>4. {i \in Matched' : records'[i].kind = "pool"} = pools \cup {idx} /\ idx \notin pools
      BY <1>1, <2>2, <2>3, <2>6
    <3>5. IsFiniteSet(pools)
      <4>1. trustees \in Nat /\ pools \in SUBSET (1..trustees)
        BY MatchedByNumber DEF IInv, RecordsAreSealed
      <4> QED
        BY <4>1, Numbering
    <3>6. Cardinality(pools \cup {idx}) = Cardinality(pools) + 1
      BY <3>4, <3>5, FS_AddElement
    <3>7. (\E i \in Matched' : records'[i].kind = "prime") <=> \E i \in Matched : records[i].kind = "prime"
      BY <1>1, <2>2, <2>6
    <3> HIDE DEF pools, idx
    <3>8. Len(shards') = Cardinality({i \in Matched' : records'[i].kind = "pool"})
      BY <1>4, <3>3, <3>4, <3>6
    <3>9. OrderDoesNotMatter'
      BY <1>4, <2>2, <3>1, <3>7, <3>8 DEF OrderDoesNotMatter
    <3> QED
      BY <1>2, <3>3, <3>9 DEF IInv, ShardsAreRecords
  <2> QED
    BY <2>4, <2>5, <2>6
<1> QED
  BY <1>5, <1>6

\* Every step keeps the invariant.
LEMMA StepKeeps == IInv /\ [Next]_vars => IInv'
<1> SUFFICES ASSUME IInv, [Next]_vars PROVE IInv'
  OBVIOUS
<1>1. CASE Create
  BY <1>1, CreateKeeps
<1>2. CASE \E p \in {"cli", "gui"} : Start(p)
  BY <1>2, StartKeeps
<1>3. CASE \E w \in Words : Type(w)
  BY <1>3, TypeKeeps
<1>4. CASE Reconstruct \/ Abandon \/ UNCHANGED vars
  <2>1. UNCHANGED <<scheme, trustees, records, typed, used_indices, mask, shards>>
        /\ (program' = program \/ program' = "none")
    BY <1>4 DEF Reconstruct, Abandon, vars, vault, recovery
  <2>2. Matched' = Matched /\ Payloads' = Payloads
    BY <2>1 DEF Matched, Payloads
  <2>3. RecordsAreSealed' /\ VaultFirst'
    BY <2>1 DEF IInv, RecordsAreSealed, VaultFirst
  <2>4. ShardsAreRecords' /\ OrderDoesNotMatter'
    BY <2>1, <2>2 DEF IInv, ShardsAreRecords, OrderDoesNotMatter
  <2> QED
    BY <2>3, <2>4 DEF IInv
<1> QED
  BY <1>1, <1>2, <1>3, <1>4 DEF Next

-----------------------------------------------------------------------------
(* What is matched *)

\* What is matched is the records with the first numbers, for each codeword.
THEOREM MatchingInvariant == Spec => []IInv
BY InitFine, StepKeeps, PTL DEF Spec

\* Which records are matched, how many shards are held and whether the mask is depends
\* on how often each codeword was typed and not on the order, equal codewords among them
\* (vault_core.py:323-335, 352-362).
THEOREM OrderIsImmaterial == Spec => []OrderDoesNotMatter
<1>1. IInv => OrderDoesNotMatter
  BY DEF IInv
<1> QED
  BY <1>1, MatchingInvariant, PTL

-----------------------------------------------------------------------------
(* Induction *)

\* What holds of 0 and, with a number, of the next one holds of all numbers up to K.
LEMMA Induction ==
    ASSUME NEW K \in Nat, NEW S, 0 \in S, \A n \in 0 .. K - 1 : n \in S => n + 1 \in S
    PROVE  0..K \subseteq S
<1> DEFINE T == {n \in 0..K : n \notin S}
<1> SUFFICES ASSUME T # {} PROVE FALSE
  OBVIOUS
<1>1. T \subseteq Nat
  OBVIOUS
<1>2. \E n \in T : \A m \in T : ~ (m < n)
  <2>1. \E n \in T : \A m \in T : ~ (<<m, n>> \in OpToRel(<, Nat))
    BY <1>1, WFMin, NatLessThanWellFounded
  <2> QED
    BY <1>1, <2>1 DEF OpToRel
<1>3. PICK n \in T : \A m \in T : ~ (m < n)
  BY <1>2
<1>4. n - 1 \in 0 .. K - 1 /\ n - 1 \in S
  BY <1>3
<1> QED
  BY <1>3, <1>4

\* What the n-th round makes of the value it finds, and the values before and after each.
Rounds(K, A) == [1..K -> [A -> A]]
Runs(K, A, a, G) == {r \in [0..K -> A] : r[0] = a /\ \A n \in 1..K : r[n] = G[n][r[n - 1]]}

\* A loop that makes the next value of the last one has a value for every number of rounds.
LEMMA Recursion ==
    ASSUME NEW K \in Nat, NEW A, NEW a \in A, NEW G \in Rounds(K, A)
    PROVE  \E r : r \in Runs(K, A, a, G)
<1> DEFINE Fits(r, k) == r[0] = a /\ \A n \in 1..k : r[n] = G[n][r[n - 1]]
           S == {k \in 0..K : \E r \in [0..k -> A] : Fits(r, k)}
<1>1. 0 \in S
  <2> DEFINE r == [n \in 0..0 |-> a]
  <2>1. r \in [0..0 -> A] /\ Fits(r, 0)
    OBVIOUS
  <2> HIDE DEF r, Fits
  <2> QED
    BY <2>1
<1>2. ASSUME NEW k \in 0 .. K - 1, k \in S PROVE k + 1 \in S
  <2>1. PICK r \in [0..k -> A] : Fits(r, k)
    BY <1>2
  <2> DEFINE s == [n \in 0 .. k + 1 |-> IF n = k + 1 THEN G[n][r[k]] ELSE r[n]]
  <2>2. G[k + 1] \in [A -> A] /\ r[k] \in A /\ k \in Nat /\ k + 1 \in 0..K
    BY DEF Rounds
  <2>3. s \in [0 .. k + 1 -> A]
    BY <2>2
  <2>4. Fits(s, k + 1)
    <3>1. s[0] = a
      BY <2>1
    <3>2. ASSUME NEW n \in 1 .. k + 1 PROVE s[n] = G[n][s[n - 1]]
      <4>1. n \in 0 .. k + 1 /\ n - 1 \in 0 .. k + 1 /\ n - 1 # k + 1
        BY <2>2
      <4>2. s[n - 1] = r[n - 1]
        BY <4>1
      <4>3. CASE n = k + 1
        BY <2>2, <4>1, <4>2, <4>3
      <4>4. CASE n # k + 1
        <5>1. n \in 1..k /\ s[n] = r[n]
          BY <2>2, <4>1, <4>4
        <5> QED
          BY <2>1, <4>2, <5>1
      <4> QED
        BY <4>3, <4>4
    <3> QED
      BY <3>1, <3>2
  <2> HIDE DEF s, Fits
  <2> QED
    BY <2>2, <2>3, <2>4
<1>3. K \in S
  <2> HIDE DEF S
  <2>1. 0..K \subseteq S
    BY <1>1, <1>2, Induction
  <2> QED
    BY <2>1
<1> QED
  BY <1>3 DEF Runs

-----------------------------------------------------------------------------
(* The field *)

\* The field has as many elements as a natural number says.
LEMMA OrderIsNatural == Order \in Nat
<1>1. Bits \in Nat
  BY FieldAssumption
<1>2. IsFiniteSet(1..Bits) /\ Cardinality(1..Bits) = Bits
  BY <1>1, FS_Interval
<1>3. IsFiniteSet(SUBSET (1..Bits)) /\ Cardinality(SUBSET (1..Bits)) = 2^Bits
  BY <1>2, FS_SUBSET
<1> QED
  BY <1>3, FS_CardinalityType DEF Order

\* What holds of 0 and, with an element, of its sum with a digit holds of all elements.
LEMMA DigitInduction ==
    ASSUME NEW S, 0 \in S, \A b \in Field, d \in Digits : b \in S => gf_add(b, d) \in S
    PROVE  Field \subseteq S
<1> DEFINE T == {a \in Field : a \notin S}
<1> SUFFICES ASSUME T # {} PROVE FALSE
  OBVIOUS
<1>1. T \subseteq Nat
  BY DEF Field
<1>2. \E a \in T : \A b \in T : ~ (b < a)
  <2>1. \E a \in T : \A b \in T : ~ (<<b, a>> \in OpToRel(<, Nat))
    BY <1>1, WFMin, NatLessThanWellFounded
  <2> QED
    BY <1>1, <2>1 DEF OpToRel
<1>3. PICK a \in T : \A b \in T : ~ (b < a)
  BY <1>2
<1>4. a \in Field \ {0}
  OBVIOUS
<1>5. PICK b \in 0 .. a - 1, d \in Digits : a = gf_add(b, d)
  BY <1>4, FieldAssumption
<1>6. b \in Field /\ b < a
  BY <1>4, OrderIsNatural DEF Field
<1>7. b \in S
  BY <1>3, <1>6
<1> QED
  BY <1>4, <1>5, <1>6, <1>7

\* FieldAssumption for all operands: addition, by induction over the third operand.
LEMMA Addition ==
    /\ 0 \in Field /\ 1 \in Field
    /\ \A a \in Field : gf_add(a, 0) = a /\ gf_add(0, a) = a /\ gf_add(a, a) = 0
    /\ \A a, b \in Field : gf_add(a, b) \in Field /\ gf_add(a, b) = gf_add(b, a)
    /\ \A a, b, c \in Field : gf_add(gf_add(a, b), c) = gf_add(a, gf_add(b, c))
<1>1. /\ Digits \subseteq Field /\ 0 \in Field /\ 1 \in Field
      /\ \A a \in Field : gf_add(a, 0) = a /\ gf_add(a, a) = 0
      /\ \A a, b \in Field : gf_add(a, b) \in Field /\ gf_add(a, b) = gf_add(b, a)
      /\ \A a, b \in Field, d \in Digits : gf_add(gf_add(a, b), d) = gf_add(a, gf_add(b, d))
  <2>1. Digits \subseteq Field /\ 0 \in Field /\ 1 \in Field
    BY FieldAssumption, Zenon
  <2>2. /\ \A a \in Field : gf_add(a, 0) = a /\ gf_add(a, a) = 0
        /\ \A a, b \in Field : gf_add(a, b) \in Field /\ gf_add(a, b) = gf_add(b, a)
    BY FieldAssumption
  <2>3. \A a, b \in Field, d \in Digits : gf_add(gf_add(a, b), d) = gf_add(a, gf_add(b, d))
    BY FieldAssumption
  <2> QED
    BY <2>1, <2>2, <2>3
<1> DEFINE S == {c \in Field : \A a, b \in Field : gf_add(gf_add(a, b), c) = gf_add(a, gf_add(b, c))}
<1>2. 0 \in S
  BY <1>1
<1>3. ASSUME NEW c \in Field, NEW d \in Digits, c \in S PROVE gf_add(c, d) \in S
  <2> SUFFICES ASSUME NEW a \in Field, NEW b \in Field
               PROVE  gf_add(gf_add(a, b), gf_add(c, d)) = gf_add(a, gf_add(b, gf_add(c, d)))
    BY <1>1
  <2>1. gf_add(gf_add(a, b), gf_add(c, d)) = gf_add(gf_add(gf_add(a, b), c), d)
    BY <1>1
  <2>2. gf_add(gf_add(a, b), c) = gf_add(a, gf_add(b, c))
    BY <1>3
  <2>3. gf_add(gf_add(a, gf_add(b, c)), d) = gf_add(a, gf_add(gf_add(b, c), d))
    BY <1>1
  <2>4. gf_add(gf_add(b, c), d) = gf_add(b, gf_add(c, d))
    BY <1>1
  <2> QED
    BY <2>1, <2>2, <2>3, <2>4
<1>4. Field \subseteq S
  <2> HIDE DEF S
  <2> QED
    BY <1>2, <1>3, DigitInduction
<1>5. \A a \in Field : gf_add(0, a) = a
  BY <1>1
<1> QED
  BY <1>1, <1>4, <1>5

\* Multiplication, in the same way; that it is distributive comes first.
LEMMA Multiplication ==
    /\ \A a \in Field : /\ gf_mul(a, 0) = 0 /\ gf_mul(0, a) = 0
                        /\ gf_mul(a, 1) = a /\ gf_mul(1, a) = a
    /\ \A a, b \in Field : gf_mul(a, b) \in Field /\ gf_mul(a, b) = gf_mul(b, a)
    /\ \A a, b, c \in Field : /\ gf_mul(gf_mul(a, b), c) = gf_mul(a, gf_mul(b, c))
                              /\ gf_mul(a, gf_add(b, c)) = gf_add(gf_mul(a, b), gf_mul(a, c))
<1>1. /\ Digits \subseteq Field
      /\ \A a \in Field : gf_mul(a, 0) = 0 /\ gf_mul(a, 1) = a
      /\ \A a, b \in Field : gf_mul(a, b) \in Field /\ gf_mul(a, b) = gf_mul(b, a)
      /\ \A a, b \in Field, d \in Digits :
            /\ gf_mul(gf_mul(a, b), d) = gf_mul(a, gf_mul(b, d))
            /\ gf_mul(a, gf_add(b, d)) = gf_add(gf_mul(a, b), gf_mul(a, d))
  BY FieldAssumption
<1> DEFINE D == {c \in Field : \A a, b \in Field :
                    gf_mul(a, gf_add(b, c)) = gf_add(gf_mul(a, b), gf_mul(a, c))}
           M == {c \in Field : \A a, b \in Field :
                    gf_mul(gf_mul(a, b), c) = gf_mul(a, gf_mul(b, c))}
<1>2. Field \subseteq D
  <2>1. 0 \in D
    BY <1>1, Addition
  <2>2. ASSUME NEW c \in Field, NEW d \in Digits, c \in D PROVE gf_add(c, d) \in D
    <3> SUFFICES ASSUME NEW a \in Field, NEW b \in Field
                 PROVE  gf_mul(a, gf_add(b, gf_add(c, d))) = gf_add(gf_mul(a, b), gf_mul(a, gf_add(c, d)))
      BY <1>1, Addition
    <3>1. gf_add(b, gf_add(c, d)) = gf_add(gf_add(b, c), d) /\ gf_add(b, c) \in Field
      BY <1>1, Addition
    <3>2. gf_mul(a, gf_add(gf_add(b, c), d)) = gf_add(gf_mul(a, gf_add(b, c)), gf_mul(a, d))
      BY <1>1, <3>1
    <3>3. gf_mul(a, gf_add(b, c)) = gf_add(gf_mul(a, b), gf_mul(a, c))
      BY <2>2
    <3>4. gf_add(gf_add(gf_mul(a, b), gf_mul(a, c)), gf_mul(a, d))
              = gf_add(gf_mul(a, b), gf_add(gf_mul(a, c), gf_mul(a, d)))
      BY <1>1, Addition
    <3>5. gf_mul(a, gf_add(c, d)) = gf_add(gf_mul(a, c), gf_mul(a, d))
      BY <1>1
    <3> QED
      BY <3>1, <3>2, <3>3, <3>4, <3>5
  <2> HIDE DEF D
  <2> QED
    BY <2>1, <2>2, DigitInduction
<1>3. Field \subseteq M
  <2>1. 0 \in M
    BY <1>1, Addition
  <2>2. ASSUME NEW c \in Field, NEW d \in Digits, c \in M PROVE gf_add(c, d) \in M
    <3> SUFFICES ASSUME NEW a \in Field, NEW b \in Field
                 PROVE  gf_mul(gf_mul(a, b), gf_add(c, d)) = gf_mul(a, gf_mul(b, gf_add(c, d)))
      BY <1>1, Addition
    <3>1. gf_mul(gf_mul(a, b), gf_add(c, d)) = gf_add(gf_mul(gf_mul(a, b), c), gf_mul(gf_mul(a, b), d))
      BY <1>1
    <3>2. /\ gf_mul(gf_mul(a, b), c) = gf_mul(a, gf_mul(b, c))
          /\ gf_mul(gf_mul(a, b), d) = gf_mul(a, gf_mul(b, d))
      BY <1>1, <2>2
    <3>3. gf_mul(b, gf_add(c, d)) = gf_add(gf_mul(b, c), gf_mul(b, d))
      BY <1>1
    <3>4. gf_mul(a, gf_add(gf_mul(b, c), gf_mul(b, d)))
            = gf_add(gf_mul(a, gf_mul(b, c)), gf_mul(a, gf_mul(b, d)))
      BY <1>1, <1>2
    <3> QED
      BY <3>1, <3>2, <3>3, <3>4
  <2> HIDE DEF M
  <2> QED
    BY <2>1, <2>2, DigitInduction
<1>4. 0 \in Field /\ 1 \in Field
  BY Addition
<1>5. \A a \in Field : gf_mul(0, a) = 0 /\ gf_mul(1, a) = a
  BY <1>1, <1>4
<1> QED
  BY <1>1, <1>2, <1>3, <1>5

\* Factors change places.
LEMMA MulSwap ==
    ASSUME NEW a \in Field, NEW b \in Field, NEW c \in Field
    PROVE  gf_mul(gf_mul(a, b), c) = gf_mul(gf_mul(a, c), b)
<1>1. /\ gf_mul(gf_mul(a, b), c) = gf_mul(a, gf_mul(b, c))
      /\ gf_mul(gf_mul(a, c), b) = gf_mul(a, gf_mul(c, b))
  BY Multiplication
<1>2. gf_mul(b, c) = gf_mul(c, b)
  BY Multiplication
<1> QED
  BY <1>1, <1>2

\* Division undoes multiplication, so factors other than 0 cancel.
LEMMA Division ==
    /\ \A a, b \in Field : b # 0 => gf_div(a, b) \in Field /\ gf_mul(gf_div(a, b), b) = a
    /\ \A a, b, c \in Field : c # 0 /\ gf_mul(a, c) = gf_mul(b, c) => a = b
    /\ \A a, b \in Field : gf_mul(a, b) = 0 => a = 0 \/ b = 0
<1>1. \A a, b \in Field : b # 0 => gf_div(a, b) \in Field /\ gf_mul(gf_div(a, b), b) = a
  BY FieldAssumption
<1>2. ASSUME NEW a \in Field, NEW b \in Field, NEW c \in Field, c # 0, gf_mul(a, c) = gf_mul(b, c)
      PROVE  a = b
  <2> DEFINE d == gf_div(1, c)
  <2>1. d \in Field /\ gf_mul(d, c) = 1
    BY <1>1, <1>2, Addition
  <2>2. gf_mul(c, d) = 1
    BY <2>1, Multiplication
  <2>3. gf_mul(gf_mul(a, c), d) = gf_mul(a, 1) /\ gf_mul(gf_mul(b, c), d) = gf_mul(b, 1)
    BY <2>1, <2>2, Multiplication
  <2> QED
    BY <1>2, <2>3, Multiplication
<1>3. ASSUME NEW a \in Field, NEW b \in Field, gf_mul(a, b) = 0, b # 0
      PROVE  a = 0
  <2>1. 0 \in Field /\ gf_mul(0, b) = 0
    BY Addition, Multiplication
  <2> QED
    BY <1>2, <1>3, <2>1
<1> QED
  BY <1>1, <1>2, <1>3

\* The rules of fractions with one denominator.
LEMMA Quotients ==
    ASSUME NEW a \in Field, NEW b \in Field, NEW c \in Field, NEW w \in Field, w # 0
    PROVE  /\ gf_div(a, w) \in Field
           /\ gf_div(0, w) = 0 /\ gf_div(a, 1) = a
           /\ gf_add(gf_div(a, w), gf_div(b, w)) = gf_div(gf_add(a, b), w)
           /\ gf_mul(c, gf_div(a, w)) = gf_div(gf_mul(c, a), w)
           /\ c # 0 => gf_div(gf_mul(a, c), gf_mul(w, c)) = gf_div(a, w)
<1> DEFINE p == gf_div(a, w)
           q == gf_div(b, w)
<1>1. /\ p \in Field /\ gf_mul(p, w) = a
      /\ q \in Field /\ gf_mul(q, w) = b
  BY Division
<1>2. ASSUME NEW d \in Field, NEW v \in Field, v # 0, NEW e \in Field, gf_mul(e, v) = d
      PROVE  e = gf_div(d, v)
  BY <1>2, Division
<1> HIDE DEF p, q
<1>3. gf_div(0, w) = 0
  BY <1>2, Addition, Multiplication
<1>4. gf_div(a, 1) = a
  <2>1. 1 \in Field /\ gf_mul(a, 1) = a
    BY Addition, Multiplication
  <2>2. 1 # 0
    OBVIOUS
  <2> QED
    BY <1>2, <2>1, <2>2
<1>5. gf_add(p, q) = gf_div(gf_add(a, b), w)
  <2>1. gf_mul(w, gf_add(p, q)) = gf_add(gf_mul(w, p), gf_mul(w, q)) /\ gf_add(p, q) \in Field
    BY <1>1, Addition, Multiplication
  <2>2. gf_mul(w, p) = a /\ gf_mul(w, q) = b /\ gf_mul(gf_add(p, q), w) = gf_mul(w, gf_add(p, q))
    BY <1>1, <2>1, Multiplication
  <2>3. gf_mul(gf_add(p, q), w) = gf_add(a, b) /\ gf_add(a, b) \in Field
    BY <2>1, <2>2, Addition
  <2> QED
    BY <1>2, <2>1, <2>3
<1>6. gf_mul(c, p) = gf_div(gf_mul(c, a), w)
  <2>1. gf_mul(gf_mul(c, p), w) = gf_mul(c, a)
    BY <1>1, Multiplication
  <2> QED
    BY <1>1, <1>2, <2>1, Multiplication
<1>7. ASSUME c # 0 PROVE gf_div(gf_mul(a, c), gf_mul(w, c)) = p
  <2>1. gf_mul(p, gf_mul(w, c)) = gf_mul(a, c)
    BY <1>1, Multiplication
  <2>2. gf_mul(w, c) \in Field /\ gf_mul(w, c) # 0
    BY <1>7, Division, Multiplication
  <2> QED
    BY <1>1, <1>2, <2>1, <2>2, Multiplication
<1> QED
  BY <1>1, <1>3, <1>4, <1>5, <1>6, <1>7 DEF p, q

-----------------------------------------------------------------------------
(* Sums and products *)

\* The terms of a sum, or the factors of a product, are in the field.
OnField(f, n) == \A i \in 1..n : f[i] \in Field

\* The partial sums.
Sums(f, n) == {r \in [0..n -> Field] : r[0] = 0 /\ \A i \in 1..n : r[i] = gf_add(r[i - 1], f[i])}

\* Sum is computed by such a run.
LEMMA SumPartial ==
    ASSUME NEW n \in Nat, NEW f, OnField(f, n)
    PROVE  \E r \in Sums(f, n) : Sum(f, n) = r[n]
<1> DEFINE step(r) == [i \in 0..n |-> IF i = 0 THEN 0 ELSE gf_add(r[i - 1], f[i])]
           G == [i \in 1..n |-> [a \in Field |-> gf_add(a, f[i])]]
<1>1. 0 \in Field /\ G \in Rounds(n, Field)
  BY Addition, Multiplication DEF Rounds, OnField
<1>2. \E r : r \in Runs(n, Field, 0, G)
  <2> HIDE DEF G
  <2> QED
    BY <1>1, Recursion
<1>3. PICK r \in [0..n -> Field] : r[0] = 0 /\ \A i \in 1..n : r[i] = G[i][r[i - 1]]
  <2> HIDE DEF G
  <2> QED
    BY <1>2 DEF Runs
<1>4. r[0] = 0 /\ \A i \in 1..n : r[i] = gf_add(r[i - 1], f[i])
  <2>1. ASSUME NEW i \in 1..n PROVE r[i] = gf_add(r[i - 1], f[i])
    <3>1. r[i - 1] \in Field /\ r[i] = G[i][r[i - 1]]
      BY <1>3
    <3> QED
      BY <3>1
  <2> QED
    BY <1>3, <2>1
<1>5. r = step(r)
  <2>1. ASSUME NEW i \in 0..n PROVE r[i] = step(r)[i]
    BY <1>4
  <2>2. DOMAIN r = 0..n /\ DOMAIN step(r) = 0..n /\ r = [i \in 0..n |-> r[i]]
    OBVIOUS
  <2> HIDE DEF step
  <2>3. step(r) = [i \in 0..n |-> step(r)[i]]
    BY DEF step
  <2> QED
    BY <2>1, <2>2, <2>3
<1>6. (CHOOSE total : total = step(total)) = step(CHOOSE total : total = step(total))
  BY <1>5, Zenon
<1> DEFINE q == CHOOSE total : total = step(total)
<1>7. Sum(f, n) = q[n]
  BY DEF Sum
<1>8. q = step(q)
  BY <1>6
<1> HIDE DEF q
<1>9. /\ DOMAIN q = 0..n /\ q[0] = 0
      /\ \A i \in 1..n : q[i] = gf_add(q[i - 1], f[i])
  BY <1>8
<1> DEFINE S == {i \in 0..n : q[i] = r[i]}
<1>10. n \in S
  <2>1. 0 \in S
    BY <1>4, <1>9
  <2>2. ASSUME NEW i \in 0 .. n - 1, i \in S PROVE i + 1 \in S
    BY <2>2, <1>4, <1>9
  <2> HIDE DEF S
  <2>3. 0..n \subseteq S
    BY <2>1, <2>2, Induction
  <2> QED
    BY <2>3
<1> QED
  BY <1>4, <1>7, <1>10 DEF Sums

\* The equations of Sum.
LEMMA SumSteps ==
    ASSUME NEW n \in Nat, NEW f, OnField(f, n)
    PROVE  /\ Sum(f, 0) = 0
           /\ \A m \in 0..n : Sum(f, m) \in Field
           /\ \A m \in 1..n : Sum(f, m) = gf_add(Sum(f, m - 1), f[m])
<1>1. PICK r \in [0..n -> Field] : /\ r[0] = 0
                                  /\ \A i \in 1..n : r[i] = gf_add(r[i - 1], f[i])
  BY SumPartial DEF Sums
<1>2. ASSUME NEW m \in 0..n PROVE Sum(f, m) = r[m]
  <2>1. m \in Nat /\ OnField(f, m)
    BY DEF OnField
  <2>2. PICK q \in [0..m -> Field] : /\ q[0] = 0 /\ Sum(f, m) = q[m]
                                    /\ \A i \in 1..m : q[i] = gf_add(q[i - 1], f[i])
    BY <2>1, SumPartial DEF Sums
  <2> DEFINE S == {i \in 0..m : q[i] = r[i]}
  <2>3. 0 \in S
    BY <1>1, <2>2
  <2>4. ASSUME NEW i \in 0 .. m - 1, i \in S PROVE i + 1 \in S
    BY <2>4, <1>1, <2>2
  <2> HIDE DEF S
  <2>5. 0..m \subseteq S
    BY <2>1, <2>3, <2>4, Induction
  <2>6. m \in S
    BY <2>1, <2>5
  <2> QED
    BY <2>2, <2>6 DEF S
<1> QED
  BY <1>1, <1>2

\* The partial products.
Products(f, n) == {r \in [0..n -> Field] : r[0] = 1 /\ \A i \in 1..n : r[i] = gf_mul(r[i - 1], f[i])}

\* Product is computed by such a run.
LEMMA ProductPartial ==
    ASSUME NEW n \in Nat, NEW f, OnField(f, n)
    PROVE  \E r \in Products(f, n) : Product(f, n) = r[n]
<1> DEFINE step(r) == [i \in 0..n |-> IF i = 0 THEN 1 ELSE gf_mul(r[i - 1], f[i])]
           G == [i \in 1..n |-> [a \in Field |-> gf_mul(a, f[i])]]
<1>1. 1 \in Field /\ G \in Rounds(n, Field)
  BY Addition, Multiplication DEF Rounds, OnField
<1>2. \E r : r \in Runs(n, Field, 1, G)
  <2> HIDE DEF G
  <2> QED
    BY <1>1, Recursion
<1>3. PICK r \in [0..n -> Field] : r[0] = 1 /\ \A i \in 1..n : r[i] = G[i][r[i - 1]]
  <2> HIDE DEF G
  <2> QED
    BY <1>2 DEF Runs
<1>4. r[0] = 1 /\ \A i \in 1..n : r[i] = gf_mul(r[i - 1], f[i])
  <2>1. ASSUME NEW i \in 1..n PROVE r[i] = gf_mul(r[i - 1], f[i])
    <3>1. r[i - 1] \in Field /\ r[i] = G[i][r[i - 1]]
      BY <1>3
    <3> QED
      BY <3>1
  <2> QED
    BY <1>3, <2>1
<1>5. r = step(r)
  <2>1. ASSUME NEW i \in 0..n PROVE r[i] = step(r)[i]
    BY <1>4
  <2>2. DOMAIN r = 0..n /\ DOMAIN step(r) = 0..n /\ r = [i \in 0..n |-> r[i]]
    OBVIOUS
  <2> HIDE DEF step
  <2>3. step(r) = [i \in 0..n |-> step(r)[i]]
    BY DEF step
  <2> QED
    BY <2>1, <2>2, <2>3
<1>6. (CHOOSE product : product = step(product)) = step(CHOOSE product : product = step(product))
  BY <1>5, Zenon
<1> DEFINE q == CHOOSE product : product = step(product)
<1>7. Product(f, n) = q[n]
  BY DEF Product
<1>8. q = step(q)
  BY <1>6
<1> HIDE DEF q
<1>9. /\ DOMAIN q = 0..n /\ q[0] = 1
      /\ \A i \in 1..n : q[i] = gf_mul(q[i - 1], f[i])
  BY <1>8
<1> DEFINE S == {i \in 0..n : q[i] = r[i]}
<1>10. n \in S
  <2>1. 0 \in S
    BY <1>4, <1>9
  <2>2. ASSUME NEW i \in 0 .. n - 1, i \in S PROVE i + 1 \in S
    BY <2>2, <1>4, <1>9
  <2> HIDE DEF S
  <2>3. 0..n \subseteq S
    BY <2>1, <2>2, Induction
  <2> QED
    BY <2>3
<1> QED
  BY <1>4, <1>7, <1>10 DEF Products

\* The equations of Product.
LEMMA ProductSteps ==
    ASSUME NEW n \in Nat, NEW f, OnField(f, n)
    PROVE  /\ Product(f, 0) = 1
           /\ \A m \in 0..n : Product(f, m) \in Field
           /\ \A m \in 1..n : Product(f, m) = gf_mul(Product(f, m - 1), f[m])
<1>1. PICK r \in [0..n -> Field] : /\ r[0] = 1
                                  /\ \A i \in 1..n : r[i] = gf_mul(r[i - 1], f[i])
  BY ProductPartial DEF Products
<1>2. ASSUME NEW m \in 0..n PROVE Product(f, m) = r[m]
  <2>1. m \in Nat /\ OnField(f, m)
    BY DEF OnField
  <2>2. PICK q \in [0..m -> Field] : /\ q[0] = 1 /\ Product(f, m) = q[m]
                                    /\ \A i \in 1..m : q[i] = gf_mul(q[i - 1], f[i])
    BY <2>1, ProductPartial DEF Products
  <2> DEFINE S == {i \in 0..m : q[i] = r[i]}
  <2>3. 0 \in S
    BY <1>1, <2>2
  <2>4. ASSUME NEW i \in 0 .. m - 1, i \in S PROVE i + 1 \in S
    BY <2>4, <1>1, <2>2
  <2> HIDE DEF S
  <2>5. 0..m \subseteq S
    BY <2>1, <2>3, <2>4, Induction
  <2>6. m \in S
    BY <2>1, <2>5
  <2> QED
    BY <2>2, <2>6 DEF S
<1> QED
  BY <1>1, <1>2

\* Equal terms have equal sums.
LEMMA SumSame ==
    ASSUME NEW n \in Nat, NEW f, NEW g, OnField(f, n), OnField(g, n), \A i \in 1..n : f[i] = g[i]
    PROVE  Sum(f, n) = Sum(g, n)
<1> DEFINE S == {m \in 0..n : Sum(f, m) = Sum(g, m)}
<1>1. 0 \in S
  BY SumSteps
<1>2. ASSUME NEW m \in 0 .. n - 1, m \in S PROVE m + 1 \in S
  <2>1. m + 1 \in 1..n /\ (m + 1) - 1 = m
    OBVIOUS
  <2>2. /\ Sum(f, m + 1) = gf_add(Sum(f, m), f[m + 1])
        /\ Sum(g, m + 1) = gf_add(Sum(g, m), g[m + 1])
    BY <2>1, SumSteps
  <2> QED
    BY <1>2, <2>1, <2>2
<1> HIDE DEF S
<1>3. 0..n \subseteq S
  BY <1>1, <1>2, Induction
<1> QED
  BY <1>3 DEF S

\* The sum of sums.
LEMMA SumAdd ==
    ASSUME NEW n \in Nat, NEW f, NEW g, NEW h, OnField(f, n), OnField(g, n),
           \A i \in 1..n : h[i] = gf_add(f[i], g[i])
    PROVE  Sum(h, n) = gf_add(Sum(f, n), Sum(g, n))
<1>1. OnField(h, n)
  BY Addition DEF OnField
<1> DEFINE S == {m \in 0..n : Sum(h, m) = gf_add(Sum(f, m), Sum(g, m))}
<1>2. 0 \in S
  <2>1. Sum(f, 0) = 0 /\ Sum(g, 0) = 0 /\ Sum(h, 0) = 0
    BY <1>1, SumSteps
  <2> QED
    BY <2>1, Addition
<1>3. ASSUME NEW m \in 0 .. n - 1, m \in S PROVE m + 1 \in S
  <2> DEFINE p == Sum(f, m)
             q == Sum(g, m)
             b == f[m + 1]
             c == g[m + 1]
  <2>1. m + 1 \in 1..n /\ (m + 1) - 1 = m /\ m \in 0..n
    OBVIOUS
  <2>2. /\ Sum(f, m + 1) = gf_add(p, b)
        /\ Sum(g, m + 1) = gf_add(q, c)
        /\ Sum(h, m + 1) = gf_add(Sum(h, m), h[m + 1])
    BY <1>1, <2>1, SumSteps
  <2>3. Sum(h, m) = gf_add(p, q) /\ h[m + 1] = gf_add(b, c)
    BY <1>3, <2>1
  <2>4. p \in Field /\ q \in Field /\ b \in Field /\ c \in Field
    BY <2>1, SumSteps DEF OnField
  <2> HIDE DEF p, q, b, c
  <2>5. gf_add(gf_add(p, q), gf_add(b, c)) = gf_add(gf_add(p, b), gf_add(q, c))
    <3>1. gf_add(gf_add(p, q), gf_add(b, c)) = gf_add(p, gf_add(q, gf_add(b, c)))
      BY <2>4, Addition
    <3>2. gf_add(q, gf_add(b, c)) = gf_add(gf_add(q, b), c) /\ gf_add(q, b) = gf_add(b, q)
      BY <2>4, Addition
    <3>3. gf_add(gf_add(b, q), c) = gf_add(b, gf_add(q, c))
      BY <2>4, Addition
    <3>4. gf_add(p, gf_add(b, gf_add(q, c))) = gf_add(gf_add(p, b), gf_add(q, c))
      BY <2>4, Addition
    <3> QED
      BY <3>1, <3>2, <3>3, <3>4
  <2> QED
    BY <2>1, <2>2, <2>3, <2>5
<1> HIDE DEF S
<1>4. 0..n \subseteq S
  BY <1>2, <1>3, Induction
<1> QED
  BY <1>4 DEF S

\* A common factor is taken out.
LEMMA SumScale ==
    ASSUME NEW n \in Nat, NEW f, NEW h, NEW c \in Field, OnField(f, n),
           \A i \in 1..n : h[i] = gf_mul(c, f[i])
    PROVE  Sum(h, n) = gf_mul(c, Sum(f, n))
<1>1. OnField(h, n)
  <2>1. \A i \in 1..n : f[i] \in Field
    BY DEF OnField
  <2>2. ASSUME NEW i \in 1..n PROVE gf_mul(c, f[i]) \in Field
    BY <2>1, Multiplication
  <2> QED
    BY <2>2 DEF OnField
<1> DEFINE S == {m \in 0..n : Sum(h, m) = gf_mul(c, Sum(f, m))}
<1>2. 0 \in S
  <2>1. Sum(f, 0) = 0 /\ Sum(h, 0) = 0
    BY <1>1, SumSteps
  <2> QED
    BY <2>1, Multiplication
<1>3. ASSUME NEW m \in 0 .. n - 1, m \in S PROVE m + 1 \in S
  <2>1. m + 1 \in 1..n /\ (m + 1) - 1 = m /\ m \in 0..n
    OBVIOUS
  <2>2. /\ Sum(f, m + 1) = gf_add(Sum(f, m), f[m + 1])
        /\ Sum(h, m + 1) = gf_add(Sum(h, m), h[m + 1])
    BY <1>1, <2>1, SumSteps
  <2>3. Sum(h, m) = gf_mul(c, Sum(f, m)) /\ h[m + 1] = gf_mul(c, f[m + 1])
    BY <1>3, <2>1
  <2>4. Sum(f, m) \in Field /\ f[m + 1] \in Field
    BY <2>1, SumSteps DEF OnField
  <2> DEFINE p == Sum(f, m)
             b == f[m + 1]
  <2>5. gf_mul(c, gf_add(p, b)) = gf_add(gf_mul(c, p), gf_mul(c, b))
    <3>1. p \in Field /\ b \in Field
      BY <2>4
    <3> HIDE DEF p, b
    <3> QED
      BY <3>1, Multiplication
  <2> QED
    BY <2>1, <2>2, <2>3, <2>5
<1> HIDE DEF S
<1>4. 0..n \subseteq S
  BY <1>2, <1>3, Induction
<1> QED
  BY <1>4 DEF S

\* A sum of which one term at most is not 0.
LEMMA SumOne ==
    ASSUME NEW n \in Nat, NEW f, NEW k \in 1..n, OnField(f, n), \A i \in 1..n : i # k => f[i] = 0
    PROVE  Sum(f, n) = f[k]
<1> DEFINE S == {m \in 0..n : Sum(f, m) = IF m < k THEN 0 ELSE f[k]}
<1>1. 0 \in S
  BY SumSteps
<1>2. ASSUME NEW m \in 0 .. n - 1, m \in S PROVE m + 1 \in S
  <2>1. m + 1 \in 1..n /\ (m + 1) - 1 = m /\ f[k] \in Field /\ 0 \in Field
    BY Addition DEF OnField
  <2>2. Sum(f, m + 1) = gf_add(Sum(f, m), f[m + 1])
    BY <2>1, SumSteps
  <2>3. Sum(f, m) = IF m < k THEN 0 ELSE f[k]
    BY <1>2
  <2>4. CASE m + 1 = k
    BY <2>1, <2>2, <2>3, <2>4, Addition
  <2>5. CASE m + 1 # k
    <3>1. f[m + 1] = 0 /\ gf_add(Sum(f, m), 0) = Sum(f, m)
      BY <2>1, <2>3, <2>5, Addition
    <3> QED
      BY <2>1, <2>2, <2>3, <2>5, <3>1
  <2> QED
    BY <2>4, <2>5
<1> HIDE DEF S
<1>3. 0..n \subseteq S
  BY <1>1, <1>2, Induction
<1> QED
  BY <1>3 DEF S

\* A product without zeros is not 0.
LEMMA ProductNonzero ==
    ASSUME NEW n \in Nat, NEW f, OnField(f, n), \A i \in 1..n : f[i] # 0
    PROVE  Product(f, n) \in Field \ {0}
<1> DEFINE S == {m \in 0..n : Product(f, m) # 0}
<1>1. 0 \in S
  BY ProductSteps
<1>2. ASSUME NEW m \in 0 .. n - 1, m \in S PROVE m + 1 \in S
  <2>1. m + 1 \in 1..n /\ (m + 1) - 1 = m /\ m \in 0..n
    OBVIOUS
  <2>2. Product(f, m + 1) = gf_mul(Product(f, m), f[m + 1])
    BY <2>1, ProductSteps
  <2>3. Product(f, m) \in Field /\ f[m + 1] \in Field /\ Product(f, m) # 0
    BY <1>2, <2>1, ProductSteps DEF OnField
  <2> QED
    BY <2>1, <2>2, <2>3, Division
<1> HIDE DEF S
<1>3. 0..n \subseteq S
  BY <1>1, <1>2, Induction
<1> QED
  BY <1>3, ProductSteps DEF S

\* A factor put where there was none.
LEMMA ProductPut ==
    ASSUME NEW n \in Nat, NEW f, NEW g, NEW k \in 1..n, OnField(f, n), OnField(g, n),
           g[k] = 1, \A i \in 1..n : i # k => f[i] = g[i]
    PROVE  Product(f, n) = gf_mul(Product(g, n), f[k])
<1> DEFINE S == {m \in 0..n : Product(f, m) = IF m < k THEN Product(g, m) ELSE gf_mul(Product(g, m), f[k])}
<1>1. 0 \in S
  BY ProductSteps
<1>2. ASSUME NEW m \in 0 .. n - 1, m \in S PROVE m + 1 \in S
  <2> DEFINE p == Product(g, m)
             a == f[k]
             b == g[m + 1]
  <2>1. m + 1 \in 1..n /\ (m + 1) - 1 = m /\ m \in 0..n
    OBVIOUS
  <2>2. /\ Product(f, m + 1) = gf_mul(Product(f, m), f[m + 1])
        /\ Product(g, m + 1) = gf_mul(p, b)
    BY <2>1, ProductSteps
  <2>3. Product(f, m) = IF m < k THEN p ELSE gf_mul(p, a)
    BY <1>2
  <2>4. p \in Field /\ a \in Field /\ b \in Field
    BY <2>1, ProductSteps DEF OnField
  <2>5. m + 1 = k => b = 1
    OBVIOUS
  <2>6. m + 1 # k => f[m + 1] = b
    BY <2>1
  <2>7. Product(f, m + 1) = IF m + 1 < k THEN gf_mul(p, b) ELSE gf_mul(gf_mul(p, b), a)
    <3>1. CASE m + 1 = k
      <4>1. f[m + 1] = a /\ b = 1 /\ Product(f, m) = p
        BY <2>3, <2>5, <3>1
      <4> HIDE DEF p, a, b
      <4>2. gf_mul(p, b) = p
        BY <2>4, <4>1, Multiplication
      <4> QED
        BY <2>2, <3>1, <4>1, <4>2
    <3>2. CASE m + 1 < k
      BY <2>2, <2>3, <2>6, <3>2
    <3>3. CASE m + 1 > k
      <4>1. Product(f, m + 1) = gf_mul(gf_mul(p, a), b)
        BY <2>2, <2>3, <2>6, <3>3
      <4> HIDE DEF p, a, b
      <4>2. gf_mul(gf_mul(p, a), b) = gf_mul(gf_mul(p, b), a)
        BY <2>4, MulSwap
      <4> QED
        BY <3>3, <4>1, <4>2
    <3> QED
      BY <3>1, <3>2, <3>3
  <2> QED
    BY <2>1, <2>2, <2>7
<1> HIDE DEF S
<1>3. 0..n \subseteq S
  BY <1>1, <1>2, Induction
<1> QED
  BY <1>3 DEF S

\* A product of ones is 1.
LEMMA ProductOnes ==
    ASSUME NEW n \in Nat, NEW f, \A i \in 1..n : f[i] = 1
    PROVE  Product(f, n) = 1
<1>1. OnField(f, n) /\ 1 \in Field
  BY Addition DEF OnField
<1> DEFINE S == {m \in 0..n : Product(f, m) = 1}
<1>2. 0 \in S
  BY <1>1, ProductSteps
<1>3. ASSUME NEW m \in 0 .. n - 1, m \in S PROVE m + 1 \in S
  <2>1. m + 1 \in 1..n /\ (m + 1) - 1 = m
    OBVIOUS
  <2>2. Product(f, m + 1) = gf_mul(Product(f, m), f[m + 1])
    BY <1>1, <2>1, ProductSteps
  <2> QED
    BY <1>1, <1>3, <2>1, <2>2, Multiplication
<1> HIDE DEF S
<1>4. 0..n \subseteq S
  BY <1>2, <1>3, Induction
<1> QED
  BY <1>4 DEF S

-----------------------------------------------------------------------------
(* Divided differences *)

\* The rounds of Horner's method.
Horners(c, x) ==
    {r \in [0 .. Len(c) -> Field] :
        r[0] = 0 /\ \A n \in 1 .. Len(c) : r[n] = gf_add(gf_mul(r[n - 1], x), c[Len(c) + 1 - n])}

\* eval_poly is computed by such rounds.
LEMMA Horner ==
    ASSUME NEW c \in Seq(Field), NEW x \in Field
    PROVE  \E r \in Horners(c, x) : eval_poly(c, x) = r[Len(c)]
<1> DEFINE K == Len(c)
           step(r) == [n \in 0..K |-> IF n = 0 THEN 0 ELSE gf_add(gf_mul(r[n - 1], x), c[K + 1 - n])]
           G == [n \in 1..K |-> [a \in Field |-> gf_add(gf_mul(a, x), c[K + 1 - n])]]
<1>1. K \in Nat /\ 0 \in Field /\ \A n \in 1..K : c[K + 1 - n] \in Field
  BY Addition
<1>2. G \in Rounds(K, Field)
  <2>1. ASSUME NEW n \in 1..K, NEW a \in Field PROVE gf_add(gf_mul(a, x), c[K + 1 - n]) \in Field
    BY <1>1, Addition, Multiplication
  <2> HIDE DEF K
  <2> QED
    BY <2>1 DEF Rounds
<1> HIDE DEF K
<1>3. \E r : r \in Runs(K, Field, 0, G)
  <2> HIDE DEF G
  <2> QED
    BY <1>1, <1>2, Recursion
<1>4. PICK r \in [0..K -> Field] : r[0] = 0 /\ \A n \in 1..K : r[n] = G[n][r[n - 1]]
  <2> HIDE DEF G
  <2> QED
    BY <1>3 DEF Runs
<1>5. r[0] = 0 /\ \A n \in 1..K : r[n] = gf_add(gf_mul(r[n - 1], x), c[K + 1 - n])
  <2>1. ASSUME NEW n \in 1..K PROVE r[n] = gf_add(gf_mul(r[n - 1], x), c[K + 1 - n])
    <3>1. n - 1 \in 0..K /\ r[n] = G[n][r[n - 1]]
      <4> HIDE DEF G
      <4> QED
        BY <1>1, <1>4
    <3>2. r[n - 1] \in Field
      BY <1>4, <3>1
    <3> QED
      BY <3>1, <3>2
  <2> QED
    BY <1>4, <2>1
<1>6. r = step(r)
  <2>1. ASSUME NEW n \in 0..K PROVE r[n] = step(r)[n]
    BY <1>5, <1>1
  <2>2. r = [n \in 0..K |-> r[n]]
    OBVIOUS
  <2> HIDE DEF step
  <2>3. step(r) = [n \in 0..K |-> step(r)[n]]
    BY DEF step
  <2> QED
    BY <2>1, <2>2, <2>3
<1> DEFINE q == CHOOSE run : run = step(run)
<1>7. q = step(q)
  BY <1>6, Zenon
<1>8. eval_poly(c, x) = q[K]
  BY DEF eval_poly, K
<1> HIDE DEF q
<1>9. /\ q[0] = 0
      /\ \A n \in 1..K : q[n] = gf_add(gf_mul(q[n - 1], x), c[K + 1 - n])
  BY <1>7, <1>1
<1> DEFINE S == {n \in 0..K : q[n] = r[n]}
<1>10. 0 \in S
  BY <1>1, <1>5, <1>9
<1>11. ASSUME NEW n \in 0 .. K - 1, n \in S PROVE n + 1 \in S
  <2>1. n + 1 \in 1..K /\ (n + 1) - 1 = n /\ n + 1 \in 0..K
    BY <1>1
  <2> QED
    BY <2>1, <1>11, <1>5, <1>9
<1> HIDE DEF S
<1>12. 0..K \subseteq S
  BY <1>1, <1>10, <1>11, Induction
<1>13. q[K] = r[K]
  BY <1>1, <1>12 DEF S
<1> QED
  BY <1>4, <1>5, <1>8, <1>13 DEF Horners, K

\* The difference of different elements is not 0.
LEMMA Distinct ==
    ASSUME NEW a \in Field, NEW b \in Field, a # b
    PROVE  gf_add(a, b) \in Field \ {0}
<1>1. gf_add(gf_add(a, b), b) = a /\ gf_add(0, b) = b
  BY Addition
<1> QED
  BY <1>1, Addition

\* N points, all different.
Points(x, N) == x \in [1..N -> Field] /\ \A i, j \in 1..N : i # j => x[i] # x[j]

\* The divided difference of the values q at the points x with an index in S: the sum of
\* q[i] over the product of the differences between x[i] and the other points.
Differences(x, N, S, i) == [j \in 1..N |-> IF j \in S /\ j # i THEN gf_add(x[i], x[j]) ELSE 1]
Spread(x, N, S, i) == Product(Differences(x, N, S, i), N)
Quota(q, x, N, S) == [i \in 1..N |-> IF i \in S THEN gf_div(q[i], Spread(x, N, S, i)) ELSE 0]
Divided(q, x, N, S) == Sum(Quota(q, x, N, S), N)

\* As the points are different it is a product without zeros.
LEMMA SpreadFine ==
    ASSUME NEW N \in Nat, NEW x, Points(x, N), NEW S, NEW i \in 1..N
    PROVE  OnField(Differences(x, N, S, i), N) /\ Spread(x, N, S, i) \in Field \ {0}
<1> DEFINE f == Differences(x, N, S, i)
<1>1. ASSUME NEW j \in 1..N PROVE f[j] \in Field \ {0}
  <2>1. x[i] \in Field /\ x[j] \in Field /\ 1 \in Field /\ (j # i => x[i] # x[j])
    BY Addition DEF Points
  <2>2. j # i => gf_add(x[i], x[j]) \in Field \ {0}
    BY <2>1, Distinct
  <2>3. f[j] = IF j \in S /\ j # i THEN gf_add(x[i], x[j]) ELSE 1
    BY DEF Differences
  <2> QED
    BY <2>1, <2>2, <2>3
<1> HIDE DEF f
<1>2. OnField(f, N)
  BY <1>1 DEF OnField
<1>3. Product(f, N) \in Field \ {0}
  BY <1>1, <1>2, ProductNonzero
<1> QED
  BY <1>2, <1>3 DEF f, Spread

\* One point more is one factor more.
LEMMA SpreadPut ==
    ASSUME NEW N \in Nat, NEW x, Points(x, N), NEW S, NEW i \in 1..N, NEW k \in 1..N,
           k \in S, i # k
    PROVE  Spread(x, N, S, i) = gf_mul(Spread(x, N, S \ {k}, i), gf_add(x[i], x[k]))
<1> DEFINE f == Differences(x, N, S, i)
           g == Differences(x, N, S \ {k}, i)
<1>1. OnField(f, N) /\ OnField(g, N)
  BY SpreadFine
<1>2. g[k] = 1 /\ f[k] = gf_add(x[i], x[k]) /\ \A j \in 1..N : j # k => f[j] = g[j]
  BY DEF Differences
<1> HIDE DEF f, g
<1>3. Product(f, N) = gf_mul(Product(g, N), f[k])
  BY <1>1, <1>2, ProductPut
<1> QED
  BY <1>2, <1>3 DEF f, g, Spread

\* The terms of a divided difference.
LEMMA QuotaFine ==
    ASSUME NEW N \in Nat, NEW x, Points(x, N), NEW S, NEW q, OnField(q, N)
    PROVE  /\ OnField(Quota(q, x, N, S), N)
           /\ \A i \in 1..N : Quota(q, x, N, S)[i] =
                 IF i \in S THEN gf_div(q[i], Spread(x, N, S, i)) ELSE 0
           /\ Divided(q, x, N, S) \in Field
<1>1. ASSUME NEW i \in 1..N PROVE Quota(q, x, N, S)[i] \in Field
  <2>1. q[i] \in Field /\ Spread(x, N, S, i) \in Field \ {0} /\ 0 \in Field
    BY SpreadFine, Addition DEF OnField
  <2>2. gf_div(q[i], Spread(x, N, S, i)) \in Field
    BY <2>1, Division
  <2> QED
    BY <2>1, <2>2 DEF Quota
<1>2. OnField(Quota(q, x, N, S), N)
  BY <1>1 DEF OnField
<1> QED
  BY <1>2, SumSteps DEF Quota, Divided

\* A factor that is 0 at one of the points takes that point away.
LEMMA DividedStep ==
    ASSUME NEW N \in Nat, NEW x, Points(x, N), NEW S, NEW k \in 1..N, k \in S,
           NEW q, NEW r, OnField(q, N), OnField(r, N),
           \A i \in 1..N : i \in S => q[i] = gf_mul(r[i], gf_add(x[i], x[k]))
    PROVE  Divided(q, x, N, S) = Divided(r, x, N, S \ {k})
<1> DEFINE f == Quota(q, x, N, S)
           g == Quota(r, x, N, S \ {k})
<1>1. OnField(f, N) /\ OnField(g, N)
  BY QuotaFine
<1>2. ASSUME NEW i \in 1..N PROVE f[i] = g[i]
  <2>1. /\ f[i] = IF i \in S THEN gf_div(q[i], Spread(x, N, S, i)) ELSE 0
        /\ g[i] = IF i \in S \ {k} THEN gf_div(r[i], Spread(x, N, S \ {k}, i)) ELSE 0
    BY QuotaFine
  <2>2. /\ x[i] \in Field /\ x[k] \in Field /\ r[i] \in Field
        /\ Spread(x, N, S, i) \in Field \ {0} /\ Spread(x, N, S \ {k}, i) \in Field \ {0}
    BY SpreadFine DEF OnField, Points
  <2>3. CASE i \notin S
    BY <2>1, <2>3
  <2>4. CASE i \in S /\ i = k
    <3>1. q[i] = 0
      <4>1. q[i] = gf_mul(r[i], gf_add(x[k], x[k]))
        BY <2>4
      <4> QED
        <5>1. gf_add(x[k], x[k]) = 0
          BY <2>2, Addition
        <5>2. gf_mul(r[i], 0) = 0
          BY <2>2, Multiplication
        <5> QED
          BY <4>1, <5>1, <5>2
    <3>2. gf_div(0, Spread(x, N, S, i)) = 0
      BY <2>2, Quotients
    <3> QED
      BY <2>1, <2>4, <3>1, <3>2
  <2>5. CASE i \in S /\ i # k
    <3> DEFINE d == gf_add(x[i], x[k])
               w == Spread(x, N, S \ {k}, i)
    <3>1. d \in Field \ {0}
      BY <2>2, <2>5, Distinct DEF Points
    <3>2. Spread(x, N, S, i) = gf_mul(w, d) /\ q[i] = gf_mul(r[i], d)
      BY <2>5, SpreadPut
    <3>3. gf_div(gf_mul(r[i], d), gf_mul(w, d)) = gf_div(r[i], w)
      <4>1. w \in Field \ {0} /\ r[i] \in Field
        BY <2>2
      <4> HIDE DEF d, w
      <4> QED
        BY <3>1, <4>1, Quotients
    <3> QED
      BY <2>1, <2>5, <3>2, <3>3
  <2> QED
    BY <2>3, <2>4, <2>5
<1> HIDE DEF f, g
<1>3. Sum(f, N) = Sum(g, N)
  BY <1>1, <1>2, SumSame
<1> QED
  BY <1>3 DEF f, g, Divided

\* Divided differences are linear: a sum ...
LEMMA DividedAdd ==
    ASSUME NEW N \in Nat, NEW x, Points(x, N), NEW S,
           NEW p, NEW q, NEW h, OnField(p, N), OnField(q, N),
           \A i \in 1..N : h[i] = gf_add(p[i], q[i])
    PROVE  Divided(h, x, N, S) = gf_add(Divided(p, x, N, S), Divided(q, x, N, S))
<1> DEFINE e == Quota(h, x, N, S)
           f == Quota(p, x, N, S)
           g == Quota(q, x, N, S)
<1>1. OnField(h, N)
  BY Addition DEF OnField
<1>2. OnField(f, N) /\ OnField(g, N)
  BY QuotaFine
<1>3. ASSUME NEW i \in 1..N PROVE e[i] = gf_add(f[i], g[i])
  <2> DEFINE w == Spread(x, N, S, i)
  <2>1. /\ f[i] = IF i \in S THEN gf_div(p[i], w) ELSE 0
        /\ g[i] = IF i \in S THEN gf_div(q[i], w) ELSE 0
        /\ e[i] = IF i \in S THEN gf_div(gf_add(p[i], q[i]), w) ELSE 0
    BY <1>1, QuotaFine
  <2>2. p[i] \in Field /\ q[i] \in Field /\ w \in Field /\ w # 0
    BY SpreadFine DEF OnField
  <2> HIDE DEF w
  <2>3. gf_add(gf_div(p[i], w), gf_div(q[i], w)) = gf_div(gf_add(p[i], q[i]), w)
    BY <2>2, Quotients
  <2>4. gf_add(0, 0) = 0
    BY Addition
  <2> HIDE DEF e, f, g
  <2> QED
    BY <2>1, <2>3, <2>4
<1> HIDE DEF e, f, g
<1>4. Sum(e, N) = gf_add(Sum(f, N), Sum(g, N))
  BY <1>2, <1>3, SumAdd
<1> QED
  BY <1>4 DEF e, f, g, Divided

\* ... and a constant factor.
LEMMA DividedScale ==
    ASSUME NEW N \in Nat, NEW x, Points(x, N), NEW S, NEW c \in Field,
           NEW q, NEW h, OnField(q, N), \A i \in 1..N : h[i] = gf_mul(c, q[i])
    PROVE  Divided(h, x, N, S) = gf_mul(c, Divided(q, x, N, S))
<1> DEFINE e == Quota(h, x, N, S)
           f == Quota(q, x, N, S)
<1>1. OnField(h, N)
  <2>1. \A i \in 1..N : q[i] \in Field
    BY DEF OnField
  <2>2. ASSUME NEW i \in 1..N PROVE gf_mul(c, q[i]) \in Field
    BY <2>1, Multiplication
  <2> QED
    BY <2>2 DEF OnField
<1>2. OnField(f, N)
  BY QuotaFine
<1>3. ASSUME NEW i \in 1..N PROVE e[i] = gf_mul(c, f[i])
  <2> DEFINE w == Spread(x, N, S, i)
  <2>1. /\ f[i] = IF i \in S THEN gf_div(q[i], w) ELSE 0
        /\ e[i] = IF i \in S THEN gf_div(gf_mul(c, q[i]), w) ELSE 0
    BY <1>1, QuotaFine
  <2>2. q[i] \in Field /\ w \in Field /\ w # 0
    BY SpreadFine DEF OnField
  <2> HIDE DEF w
  <2>3. gf_mul(c, gf_div(q[i], w)) = gf_div(gf_mul(c, q[i]), w)
    BY <2>2, Quotients
  <2>4. gf_mul(c, 0) = 0
    BY Multiplication
  <2> HIDE DEF e, f
  <2> QED
    BY <2>1, <2>3, <2>4
<1> HIDE DEF e, f
<1>4. Sum(e, N) = gf_mul(c, Sum(f, N))
  BY <1>2, <1>3, SumScale
<1> QED
  BY <1>4 DEF e, f, Divided

\* The constant 1.
Ones(N) == [i \in 1..N |-> 1]

\* The divided difference of a constant at one point is the constant, ...
LEMMA DividedSingle ==
    ASSUME NEW N \in Nat, NEW x, Points(x, N), NEW k \in 1..N
    PROVE  Divided(Ones(N), x, N, {k}) = 1
<1> DEFINE f == Quota(Ones(N), x, N, {k})
<1>1. 1 \in Field /\ 0 \in Field
  BY Addition
<1>2. OnField(Ones(N), N)
  BY <1>1 DEF Ones, OnField
<1>3. /\ OnField(f, N)
      /\ \A i \in 1..N :
            f[i] = IF i \in {k} THEN gf_div(Ones(N)[i], Spread(x, N, {k}, i)) ELSE 0
  BY <1>2, QuotaFine
<1>4. Spread(x, N, {k}, k) = 1
  <2>1. \A j \in 1..N : Differences(x, N, {k}, k)[j] = 1
    BY DEF Differences
  <2> QED
    BY <2>1, ProductOnes DEF Spread
<1>5. Ones(N)[k] = 1
  BY DEF Ones
<1>6. gf_div(1, 1) = 1
  <2>1. 1 # 0
    OBVIOUS
  <2> QED
    BY <1>1, <2>1, Quotients
<1> HIDE DEF f
<1>7. f[k] = 1 /\ \A i \in 1..N : i # k => f[i] = 0
  BY <1>3, <1>4, <1>5, <1>6
<1>8. Sum(f, N) = 1
  BY <1>3, <1>7, SumOne
<1> QED
  BY <1>8 DEF f, Divided

\* A factor x is the difference to one of the points and that point itself.
LEMMA DividedSplit ==
    ASSUME NEW N \in Nat, NEW x, Points(x, N), NEW S, NEW k \in S, k \in 1..N,
           NEW q, NEW h, OnField(q, N),
           \A i \in 1..N : h[i] = gf_mul(q[i], x[i])
    PROVE  Divided(h, x, N, S) =
              gf_add(Divided(q, x, N, S \ {k}), gf_mul(x[k], Divided(q, x, N, S)))
<1> DEFINE p == [i \in 1..N |-> gf_mul(q[i], gf_add(x[i], x[k]))]
           r == [i \in 1..N |-> gf_mul(x[k], q[i])]
<1>1. x[k] \in Field /\ \A i \in 1..N : x[i] \in Field /\ q[i] \in Field
  BY DEF Points, OnField
<1>2. OnField(p, N) /\ OnField(r, N)
  BY <1>1, Addition, Multiplication DEF OnField
<1>3. ASSUME NEW i \in 1..N PROVE h[i] = gf_add(p[i], r[i])
  <2> DEFINE a == x[i]
             b == x[k]
             c == q[i]
  <2>1. a \in Field /\ b \in Field /\ c \in Field
    BY <1>1
  <2>2. h[i] = gf_mul(c, a) /\ p[i] = gf_mul(c, gf_add(a, b)) /\ r[i] = gf_mul(b, c)
    OBVIOUS
  <2> HIDE DEF a, b, c, p, r
  <2>3. gf_mul(c, gf_add(a, b)) = gf_add(gf_mul(c, a), gf_mul(c, b)) /\ gf_mul(b, c) = gf_mul(c, b)
    BY <2>1, Multiplication
  <2>4. gf_mul(c, a) \in Field /\ gf_mul(c, b) \in Field
    BY <2>1, Multiplication
  <2>5. \A u, v \in Field : gf_add(gf_add(u, v), v) = u
    <3> SUFFICES ASSUME NEW u \in Field, NEW v \in Field PROVE gf_add(gf_add(u, v), v) = u
      OBVIOUS
    <3>1. gf_add(gf_add(u, v), v) = gf_add(u, gf_add(v, v)) /\ gf_add(v, v) = 0 /\ gf_add(u, 0) = u
      BY Addition
    <3> QED
      BY <3>1
  <2> QED
    BY <2>2, <2>3, <2>4, <2>5
<1>4. \A i \in 1..N : p[i] = gf_mul(q[i], gf_add(x[i], x[k])) /\ r[i] = gf_mul(x[k], q[i])
  OBVIOUS
<1> HIDE DEF p, r
<1>5. Divided(h, x, N, S) = gf_add(Divided(p, x, N, S), Divided(r, x, N, S))
  BY <1>2, <1>3, DividedAdd
<1>6. Divided(p, x, N, S) = Divided(q, x, N, S \ {k})
  BY <1>2, <1>4, DividedStep
<1>7. Divided(r, x, N, S) = gf_mul(x[k], Divided(q, x, N, S))
  BY <1>1, <1>4, DividedScale
<1> QED
  BY <1>5, <1>6, <1>7

\* ... and at several points it is 0.
LEMMA DividedOnes ==
    ASSUME NEW N \in Nat, NEW x, Points(x, N), NEW S \in SUBSET (1..N), Cardinality(S) >= 1
    PROVE  Divided(Ones(N), x, N, S) = IF Cardinality(S) = 1 THEN 1 ELSE 0
<1> DEFINE Fine(U) == Divided(Ones(N), x, N, U) = IF Cardinality(U) = 1 THEN 1 ELSE 0
           T == {n \in 0..N : \A U \in SUBSET (1..N) : Cardinality(U) = n /\ n >= 1 => Fine(U)}
<1>1. ASSUME NEW U \in SUBSET (1..N) PROVE IsFiniteSet(U) /\ Cardinality(U) \in 0..N
  <2>1. IsFiniteSet(1..N) /\ Cardinality(1..N) = N
    BY FS_Interval
  <2>2. IsFiniteSet(U) /\ Cardinality(U) <= N
    BY <2>1, FS_Subset
  <2> QED
    BY <2>2, FS_CardinalityType
<1>2. 0 \in T
  OBVIOUS
<1>3. ASSUME NEW n \in 0 .. N - 1, n \in T PROVE n + 1 \in T
  <2> SUFFICES ASSUME NEW U \in SUBSET (1..N), Cardinality(U) = n + 1 PROVE Fine(U)
    OBVIOUS
  <2>1. IsFiniteSet(U)
    BY <1>1
  <2>2. CASE n = 0
    <3>1. \E k : U = {k}
      BY <2>1, <2>2, FS_Singleton
    <3> QED
      BY <2>2, <3>1, DividedSingle
  <2>3. CASE n # 0
    <3>1. PICK a \in U : TRUE
      <4>1. U # {}
        BY <2>3, FS_EmptySet
      <4> QED
        BY <4>1
    <3>2. ASSUME NEW c \in U PROVE U \ {c} \in SUBSET (1..N) /\ Cardinality(U \ {c}) = n
      <4>1. Cardinality(U \ {c}) = Cardinality(U) - 1
        BY <2>1, FS_RemoveElement
      <4> QED
        BY <4>1
    <3>3. PICK b \in U : b # a
      <4>1. U \ {a} # {}
        BY <2>3, <3>1, <3>2, FS_EmptySet
      <4> QED
        BY <4>1
    <3> DEFINE v == Divided(Ones(N), x, N, U \ {a})
               d == Divided(Ones(N), x, N, U)
               h == [i \in 1..N |-> gf_mul(Ones(N)[i], x[i])]
               e == Divided(h, x, N, U)
    <3>4. Divided(Ones(N), x, N, U \ {b}) = v
      <4>1. Fine(U \ {a}) /\ Fine(U \ {b}) /\ Cardinality(U \ {a}) = Cardinality(U \ {b})
        BY <1>3, <2>3, <3>1, <3>2, <3>3
      <4> QED
        BY <4>1
    <3>5. OnField(Ones(N), N)
      BY Addition DEF Ones, OnField
    <3>6. \A i \in 1..N : h[i] = gf_mul(Ones(N)[i], x[i])
      OBVIOUS
    <3>7. a \in 1..N /\ b \in 1..N /\ x[a] \in Field /\ x[b] \in Field /\ x[a] # x[b]
      BY <3>1, <3>3 DEF Points
    <3>8. v \in Field /\ d \in Field
      BY <3>5, QuotaFine
    <3> HIDE DEF h
    <3>9. e = gf_add(v, gf_mul(x[a], d))
      BY <3>1, <3>5, <3>6, <3>7, DividedSplit
    <3>10. e = gf_add(v, gf_mul(x[b], d))
      BY <3>3, <3>4, <3>5, <3>6, <3>7, DividedSplit
    <3> HIDE DEF v, d, e
    <3>11. gf_mul(x[a], d) = gf_mul(x[b], d)
      <4>1. \A p, q, r \in Field : gf_add(p, q) = gf_add(p, r) => q = r
        <5> SUFFICES ASSUME NEW p \in Field, NEW q \in Field, NEW r \in Field, gf_add(p, q) = gf_add(p, r)
                     PROVE  q = r
          OBVIOUS
        <5>1. \A u \in Field : gf_add(gf_add(p, p), u) = gf_add(p, gf_add(p, u))
                               /\ gf_add(p, p) = 0 /\ gf_add(0, u) = u
          BY Addition
        <5> QED
          BY <5>1
      <4>2. gf_mul(x[a], d) \in Field /\ gf_mul(x[b], d) \in Field
        BY <3>7, <3>8, Multiplication
      <4> QED
        BY <3>8, <3>9, <3>10, <4>1, <4>2
    <3>12. d = 0
      BY <3>7, <3>8, <3>11, Division
    <3> QED
      BY <2>3, <3>12 DEF d
  <2> QED
    BY <2>2, <2>3
<1> HIDE DEF T
<1>4. 0..N \subseteq T
  BY <1>2, <1>3, Induction
<1> QED
  BY <1>1, <1>4 DEF T

\* The rounds at each of the points.
HornersAt(r, c, x, N) == \A i \in 1..N : r[i] \in Horners(c, x[i])

\* A polynomial with fewer coefficients than there are points has the divided difference 0.
LEMMA DividedHorner ==
    ASSUME NEW N \in Nat, NEW x, Points(x, N), NEW c \in Seq(Field),
           NEW r, HornersAt(r, c, x, N),
           NEW S \in SUBSET (1..N), Cardinality(S) > Len(c)
    PROVE  Divided([i \in 1..N |-> r[i][Len(c)]], x, N, S) = 0
<1> DEFINE L == Len(c)
           H(l) == [i \in 1..N |-> r[i][l]]
           T == {l \in 0..L : \A U \in SUBSET (1..N) : Cardinality(U) > l => Divided(H(l), x, N, U) = 0}
<1>1. L \in Nat /\ \A l \in 1..L : c[l] \in Field
  OBVIOUS
<1>2. \A i \in 1..N : /\ x[i] \in Field /\ r[i] \in [0..L -> Field] /\ r[i][0] = 0
                      /\ \A n \in 1..L : r[i][n] = gf_add(gf_mul(r[i][n - 1], x[i]), c[L + 1 - n])
  BY DEF HornersAt, Horners, Points
<1> HIDE DEF L
<1>3. \A l \in 0..L : OnField(H(l), N)
  BY <1>2 DEF OnField
<1>4. OnField(Ones(N), N) /\ \A i \in 1..N : Ones(N)[i] = 1
  BY Addition DEF Ones, OnField
<1>5. 0 \in T
  <2> SUFFICES ASSUME NEW U \in SUBSET (1..N) PROVE Divided(H(0), x, N, U) = 0
    BY <1>1
  <2>1. 0 \in Field /\ \A i \in 1..N : H(0)[i] = gf_mul(0, Ones(N)[i])
    BY <1>2, <1>4, Addition, Multiplication
  <2> HIDE DEF H
  <2>2. Divided(H(0), x, N, U) = gf_mul(0, Divided(Ones(N), x, N, U))
    BY <1>4, <2>1, DividedScale
  <2>3. Divided(Ones(N), x, N, U) \in Field
    BY <1>4, QuotaFine
  <2> QED
    BY <2>2, <2>3, Multiplication
<1>6. ASSUME NEW l \in 0 .. L - 1, l \in T PROVE l + 1 \in T
  <2>1. l \in 0..L /\ l + 1 \in 0..L /\ l + 1 \in 1..L /\ L - l \in 1..L /\ l \in Nat
    BY <1>1
  <2> SUFFICES ASSUME NEW U \in SUBSET (1..N), Cardinality(U) > l + 1
               PROVE  Divided(H(l + 1), x, N, U) = 0
    BY <2>1
  <2>2. IsFiniteSet(U) /\ Cardinality(U) \in Nat
    <3>1. IsFiniteSet(1..N)
      BY FS_Interval
    <3> QED
      BY <3>1, FS_Subset, FS_CardinalityType
  <2>3. PICK a \in U : TRUE
    <3>1. Cardinality(U) # 0
      BY <2>1, <2>2
    <3>2. U # {}
      BY <3>1, FS_EmptySet, Zenon
    <3> QED
      BY <3>2
  <2>4. U \ {a} \in SUBSET (1..N) /\ Cardinality(U \ {a}) > l
    <3>1. Cardinality(U \ {a}) = Cardinality(U) - 1
      BY <2>2, <2>3, FS_RemoveElement
    <3> QED
      BY <2>1, <2>2, <3>1
  <2> DEFINE k == c[L - l]
             p == [i \in 1..N |-> gf_mul(H(l)[i], x[i])]
             o == [i \in 1..N |-> gf_mul(k, Ones(N)[i])]
  <2>5. k \in Field /\ 0 \in Field /\ x[a] \in Field
    BY <1>1, <1>2, <2>1, Addition
  <2>6. \A i \in 1..N : p[i] = gf_mul(H(l)[i], x[i]) /\ o[i] = gf_mul(k, Ones(N)[i])
    OBVIOUS
  <2>7. OnField(p, N) /\ OnField(o, N)
    <3>1. \A i \in 1..N : H(l)[i] \in Field /\ Ones(N)[i] \in Field /\ x[i] \in Field
      BY <1>2, <1>3, <1>4, <2>1 DEF OnField
    <3>2. ASSUME NEW i \in 1..N PROVE p[i] \in Field /\ o[i] \in Field
      <4>1. p[i] = gf_mul(H(l)[i], x[i]) /\ o[i] = gf_mul(k, Ones(N)[i])
        BY <2>6
      <4>2. gf_mul(H(l)[i], x[i]) \in Field /\ gf_mul(k, Ones(N)[i]) \in Field
        <5>1. H(l)[i] \in Field /\ Ones(N)[i] \in Field /\ x[i] \in Field
          BY <3>1
        <5> HIDE DEF H, k, p, o
        <5> QED
          BY <2>5, <5>1, Multiplication
      <4> QED
        BY <4>1, <4>2
    <3> QED
      BY <3>2 DEF OnField
  <2>8. ASSUME NEW i \in 1..N PROVE H(l + 1)[i] = gf_add(p[i], o[i])
    <3>1. H(l + 1)[i] = gf_add(gf_mul(H(l)[i], x[i]), k)
      <4>1. L + 1 - (l + 1) = L - l /\ (l + 1) - 1 = l
        BY <1>1, <2>1
      <4> QED
        BY <1>2, <2>1, <4>1
    <3>2. o[i] = k
      <4>1. gf_mul(k, 1) = k
        BY <2>5, Multiplication
      <4> QED
        BY <1>4, <4>1
    <3> QED
      BY <2>6, <3>1, <3>2
  <2>9. OnField(H(l), N) /\ OnField(H(l + 1), N)
    BY <1>3, <2>1
  <2> HIDE DEF p, o, k
  <2>10. /\ Divided(H(l), x, N, U) = 0
         /\ Divided(H(l), x, N, U \ {a}) = 0
    BY <1>6, <2>1, <2>2, <2>4
  <2> HIDE DEF H, T
  <2>11. Divided(H(l + 1), x, N, U) = gf_add(Divided(p, x, N, U), Divided(o, x, N, U))
    BY <2>7, <2>8, DividedAdd
  <2>12. Divided(p, x, N, U) = gf_add(Divided(H(l), x, N, U \ {a}), gf_mul(x[a], Divided(H(l), x, N, U)))
    BY <2>3, <2>6, <2>9, DividedSplit
  <2>13. gf_add(0, gf_mul(x[a], 0)) = 0
    <3>1. gf_mul(x[a], 0) = 0 /\ gf_add(0, 0) = 0
      BY <2>5, Addition, Multiplication
    <3> QED
      BY <3>1
  <2>14. Divided(o, x, N, U) = gf_mul(k, Divided(Ones(N), x, N, U))
    BY <1>4, <2>5, <2>6, DividedScale
  <2>15. Divided(Ones(N), x, N, U) = 0
    <3>1. Cardinality(U) >= 1 /\ Cardinality(U) # 1
      BY <2>1, <2>2
    <3> QED
      BY <3>1, DividedOnes
  <2>16. gf_mul(k, 0) = 0 /\ gf_add(0, 0) = 0
    BY <2>5, Addition, Multiplication
  <2> QED
    BY <2>10, <2>11, <2>12, <2>13, <2>14, <2>15, <2>16
<1> HIDE DEF T, H
<1>7. 0..L \subseteq T
  BY <1>1, <1>5, <1>6, Induction
<1>8. Divided(H(L), x, N, S) = 0
  BY <1>1, <1>7 DEF T, L
<1> QED
  BY <1>8 DEF H, L

\* Equal factors have equal products.
LEMMA ProductSame ==
    ASSUME NEW n \in Nat, n >= 1, NEW f, NEW g, OnField(f, n), OnField(g, n), \A i \in 1..n : f[i] = g[i]
    PROVE  Product(f, n) = Product(g, n)
<1> DEFINE h == [i \in 1..n |-> IF i = 1 THEN 1 ELSE f[i]]
<1>1. OnField(h, n)
  BY Addition DEF OnField
<1>2. 1 \in 1..n /\ h[1] = 1 /\ \A i \in 1..n : i # 1 => f[i] = h[i] /\ g[i] = h[i]
  OBVIOUS
<1> HIDE DEF h
<1>3. Product(f, n) = gf_mul(Product(h, n), f[1]) /\ Product(g, n) = gf_mul(Product(h, n), g[1])
  BY <1>1, <1>2, ProductPut
<1> QED
  BY <1>2, <1>3

\* Any shards of a polynomial with different numbers, as many as it has coefficients or more,
\* give its secret byte (gf256_sss.py:97-125).
THEOREM Interpolation ==
    ASSUME NEW c \in Seq(Field), Len(c) >= 1,
           NEW held \in Seq([x : Field \ {0}, y : Field]), Len(held) >= Len(c),
           \A i, j \in DOMAIN held : i # j => held[i].x # held[j].x,
           \A i \in DOMAIN held : held[i].y = eval_poly(c, held[i].x)
    PROVE  reconstruct_secret(held) = c[1]
<1> DEFINE m == Len(held)
           N == m + 1
           xs == [i \in DOMAIN held |-> held[i].x]
           X == [i \in 1..N |-> IF i = N THEN 0 ELSE held[i].x]
           Q == [i \in 1..N |-> eval_poly(c, X[i])]
           D(i) == Differences(X, N, 1..N, i)
           f == Quota(Q, X, N, 1..N)
           P == Spread(X, N, 1..N, N)
           A(i) == [j \in DOMAIN xs |-> IF j = i THEN 1 ELSE xs[j]]
           B(i) == [j \in DOMAIN xs |-> IF j = i THEN 1 ELSE gf_add(xs[i], xs[j])]
           w == [i \in DOMAIN held |-> gf_mul(held[i].y, weight(xs, i))]
<1>1. /\ m \in Nat /\ m >= 1 /\ N \in Nat /\ N \in 1..N /\ N - 1 = m
      /\ Len(c) \in Nat /\ Len(c) >= 1 /\ m >= Len(c)
      /\ DOMAIN held = 1..m /\ DOMAIN xs = 1..m /\ Len(xs) = m
      /\ \A i \in 1..m : i \in 1..N /\ i # N
      /\ \A i \in 1..N : i # N => i \in 1..m
  <2>1. /\ m \in Nat /\ Len(c) \in Nat /\ Len(c) >= 1 /\ m >= Len(c) /\ DOMAIN held = 1..m
    OBVIOUS
  <2>2. xs = [i \in 1..m |-> held[i].x]
    BY <2>1
  <2> HIDE DEF m, xs
  <2>3. DOMAIN xs = 1..m /\ Len(xs) = m
    BY <2>1, <2>2
  <2> QED
    BY <2>1, <2>3
<1>2. /\ 0 \in Field /\ 1 \in Field
      /\ \A i \in 1..m : /\ xs[i] \in Field \ {0} /\ X[i] = xs[i]
                         /\ held[i].y \in Field /\ held[i].y = eval_poly(c, xs[i])
      /\ \A i, j \in 1..m : i # j => xs[i] # xs[j]
      /\ X[N] = 0
  <2>1. \A i \in 1..m : /\ held[i] \in [x : Field \ {0}, y : Field]
                        /\ xs[i] = held[i].x /\ held[i].y = eval_poly(c, held[i].x)
    <3>1. \A i \in DOMAIN held : /\ held[i] \in [x : Field \ {0}, y : Field]
                                   /\ held[i].y = eval_poly(c, held[i].x)
      <4>1. \A i \in DOMAIN held : held[i] \in [x : Field \ {0}, y : Field]
        <5> DEFINE R == [x : Field \ {0}, y : Field]
        <5> HIDE DEF R
        <5>1. \A i \in DOMAIN held : held[i] \in R
          <6>1. held \in Seq(R)
            BY DEF R
          <6> QED
            BY <6>1
        <5> QED
          BY <5>1 DEF R
      <4> QED
        BY <4>1
    <3>2. \A i \in DOMAIN held : xs[i] = held[i].x
      OBVIOUS
    <3> HIDE DEF m, xs
    <3> QED
      BY <1>1, <3>1, <3>2
  <2>2. \A i, j \in 1..m : i # j => held[i].x # held[j].x
    BY <1>1
  <2>3. X[N] = 0 /\ \A i \in 1..m : X[i] = held[i].x
    <3> HIDE DEF m, N
    <3> QED
      BY <1>1
  <2>4. 0 \in Field /\ 1 \in Field
    BY Addition
  <2> HIDE DEF m, xs, X, N
  <2> QED
    BY <2>1, <2>2, <2>3, <2>4
<1>3. reconstruct_secret(held) = Sum(w, m)
  BY <1>1, <1>2 DEF reconstruct_secret
<1> HIDE DEF m, xs
<1>4. Points(X, N)
  <2>1. ASSUME NEW i \in 1..N PROVE X[i] \in Field
    BY <1>1, <1>2
  <2>2. ASSUME NEW i \in 1..N, NEW j \in 1..N, i # j PROVE X[i] # X[j]
    BY <1>1, <1>2, <2>2
  <2>3. X = [i \in 1..N |-> X[i]]
    OBVIOUS
  <2> HIDE DEF X, N
  <2>4. X \in [1..N -> Field]
    BY <2>1, <2>3
  <2> QED
    BY <2>2, <2>4 DEF Points
<1>5. \A i \in 1..N : X[i] \in Field /\ Q[i] = eval_poly(c, X[i])
  BY <1>4 DEF Points
<1> HIDE DEF X, Q, N
<1>6. \A i \in 1..N : \E s \in Horners(c, X[i]) : Q[i] = s[Len(c)]
  BY <1>5, Horner
<1> DEFINE r == [i \in 1..N |-> CHOOSE s \in Horners(c, X[i]) : Q[i] = s[Len(c)]]
<1>7. \A i \in 1..N : r[i] \in Horners(c, X[i]) /\ Q[i] = r[i][Len(c)]
  BY <1>6
<1> HIDE DEF r
<1>8. /\ OnField(Q, N) /\ Q[N] = c[1]
      /\ \A i \in 1..m : Q[i] = held[i].y
  <2>1. ASSUME NEW i \in 1..N PROVE Q[i] \in Field
    <3>1. r[i] \in Horners(c, X[i]) /\ Q[i] = r[i][Len(c)]
      BY <1>7
    <3>2. Len(c) \in 0 .. Len(c)
      BY <1>1
    <3> QED
      BY <3>1, <3>2 DEF Horners
  <2>2. Q[N] = gf_add(gf_mul(r[N][Len(c) - 1], X[N]), c[Len(c) + 1 - Len(c)])
    <3>1. r[N] \in Horners(c, X[N]) /\ Q[N] = r[N][Len(c)] /\ Len(c) \in 1..Len(c)
      BY <1>1, <1>7
    <3> QED
      BY <3>1 DEF Horners
  <2>3. r[N][Len(c) - 1] \in Field /\ c[1] \in Field /\ Len(c) + 1 - Len(c) = 1
    <3>1. r[N] \in Horners(c, X[N]) /\ Len(c) - 1 \in 0 .. Len(c)
      BY <1>1, <1>7
    <3>2. c[1] \in Field /\ Len(c) + 1 - Len(c) = 1
      BY <1>1
    <3> QED
      BY <3>1, <3>2 DEF Horners
  <2>4. gf_mul(r[N][Len(c) - 1], 0) = 0 /\ gf_add(0, c[1]) = c[1]
    BY <2>3, Addition, Multiplication
  <2> QED
    BY <1>1, <1>2, <1>5, <2>1, <2>2, <2>3, <2>4 DEF OnField
<1>9. Divided(Q, X, N, 1..N) = 0
  <2>1. Cardinality(1..N) = N /\ N > Len(c)
    <3>1. Cardinality(1..N) = N
      BY <1>1, FS_Interval
    <3> QED
      BY <1>1, <3>1
  <2>2. Divided([i \in 1..N |-> r[i][Len(c)]], X, N, 1..N) = 0
    <3>1. 1..N \in SUBSET (1..N) /\ HornersAt(r, c, X, N)
      BY <1>7 DEF HornersAt
    <3>2. Cardinality(1..N) > Len(c) /\ N \in Nat
      BY <1>1, <2>1
    <3> QED
      BY <1>4, <3>1, <3>2, DividedHorner
  <2>3. [i \in 1..N |-> r[i][Len(c)]] = Q
    BY <1>7 DEF Q
  <2> QED
    BY <2>2, <2>3
<1>10. /\ OnField(f, N)
       /\ \A i \in 1..N : /\ f[i] = gf_div(Q[i], Spread(X, N, 1..N, i))
                          /\ OnField(D(i), N) /\ Spread(X, N, 1..N, i) \in Field \ {0}
  BY <1>1, <1>4, <1>8, QuotaFine, SpreadFine
<1>11. Sum(f, m) = f[N]
  <2>1. Sum(f, N) = 0
    BY <1>9 DEF Divided
  <2>2. m \in 0..N
    BY <1>1
  <2> HIDE DEF f
  <2>3. Sum(f, N) = gf_add(Sum(f, m), f[N]) /\ Sum(f, m) \in Field
    BY <1>1, <1>10, <2>2, SumSteps
  <2>4. f[N] \in Field
    BY <1>1, <1>10 DEF OnField
  <2>5. \A a, b \in Field : gf_add(a, b) = 0 => a = b
    BY Distinct
  <2> QED
    BY <2>1, <2>3, <2>4, <2>5
<1>12. P \in Field \ {0} /\ f[N] = gf_div(c[1], P) /\ c[1] \in Field
  BY <1>1, <1>8, <1>10
<1>13. ASSUME NEW i \in 1..m PROVE w[i] = gf_mul(P, f[i])
  <2> DEFINE a == Product(A(i), m)
             b == Product(B(i), m)
             y == held[i].y
             S == Spread(X, N, 1..N, i)
  <2>1. i \in 1..N /\ i # N /\ N \in 1..N /\ m \in 0..N /\ xs[i] \in Field \ {0} /\ y \in Field
    BY <1>1, <1>2
  <2>2. /\ \A j \in 1..m : A(i)[j] \in Field \ {0} /\ B(i)[j] \in Field \ {0}
        /\ OnField(A(i), m) /\ OnField(B(i), m)
    <3>1. 1 \in Field \ {0}
      BY <1>2
    <3>2. \A j \in 1..m : j # i => gf_add(xs[i], xs[j]) \in Field \ {0}
      BY <1>2, Distinct
    <3>3. \A j \in 1..m : A(i)[j] \in Field \ {0} /\ B(i)[j] \in Field \ {0}
      BY <1>1, <1>2, <3>1, <3>2
    <3> QED
      BY <3>3 DEF OnField
  <2>3. a \in Field \ {0} /\ b \in Field \ {0}
    BY <1>1, <2>2, ProductNonzero
  <2>4. S = gf_mul(b, xs[i])
    <3>1. D(i)[N] = gf_add(X[i], X[N]) /\ gf_add(xs[i], 0) = xs[i]
      BY <2>1, Addition DEF Differences
    <3>2. \A j \in 1..m : D(i)[j] = B(i)[j]
      BY <1>1, <1>2, <2>1 DEF Differences
    <3>3. OnField(D(i), N) /\ OnField(D(i), m)
      BY <1>1, <1>10, <2>1 DEF OnField
    <3> HIDE DEF D
    <3>4. Product(D(i), N) = gf_mul(Product(D(i), m), D(i)[N])
      BY <1>1, <2>1, <3>3, ProductSteps
    <3>5. Product(D(i), m) = b
      <4> HIDE DEF B
      <4> QED
        BY <1>1, <2>2, <3>2, <3>3, ProductSame
    <3> QED
      BY <1>2, <3>1, <3>4, <3>5 DEF Spread, D
  <2>5. P = gf_mul(a, xs[i])
    <3>1. D(N)[N] = 1
      BY <2>1 DEF Differences
    <3>2. \A j \in 1..m : D(N)[j] = xs[j]
      <4>1. \A j \in 1..m : D(N)[j] = gf_add(X[N], X[j])
        BY <1>1 DEF Differences
      <4> QED
        <5>1. \A j \in 1..m : X[j] \in Field /\ X[j] = xs[j]
          BY <1>2
        <5>2. \A j \in 1..m : gf_add(0, X[j]) = X[j]
          BY <5>1, Addition
        <5> QED
          BY <1>2, <4>1, <5>1, <5>2
    <3>3. OnField(D(N), N) /\ OnField(D(N), m)
      BY <1>1, <1>10, <2>1 DEF OnField
    <3>4. A(i)[i] = 1 /\ \A j \in 1..m : j # i => D(N)[j] = A(i)[j]
      BY <1>1, <3>2
    <3> HIDE DEF D, A
    <3>5. Product(D(N), N) = gf_mul(Product(D(N), m), D(N)[N]) /\ Product(D(N), m) \in Field
      BY <1>1, <2>1, <3>3, ProductSteps
    <3>6. Product(D(N), m) = gf_mul(a, D(N)[i])
      <4>1. OnField(D(N), m) /\ OnField(A(i), m) /\ m \in Nat
        BY <1>1, <2>2, <3>3
      <4> HIDE DEF f
      <4> QED
        BY <3>4, <4>1, ProductPut
    <3>7. gf_mul(Product(D(N), m), 1) = Product(D(N), m)
      BY <3>5, Multiplication
    <3> QED
      BY <3>1, <3>2, <3>5, <3>6, <3>7 DEF Spread, D
  <2>6. w[i] = gf_mul(y, gf_div(a, b)) /\ f[i] = gf_div(y, S)
    BY <1>1, <1>8, <1>10, <2>1 DEF weight
  <2>7. xs[i] \in Field /\ xs[i] # 0 /\ a \in Field /\ b \in Field /\ b # 0
    BY <2>1, <2>3
  <2> DEFINE x == xs[i]
  <2> HIDE DEF a, b, y, S, w, f, P, x
  <2>8. gf_mul(b, x) \in Field /\ gf_mul(b, x) # 0 /\ gf_mul(a, x) \in Field /\ gf_mul(a, y) \in Field
    <3>1. x \in Field /\ x # 0
      BY <2>7 DEF x
    <3>2. gf_mul(b, x) \in Field /\ gf_mul(a, x) \in Field /\ gf_mul(a, y) \in Field
      BY <2>1, <2>7, <3>1, Multiplication
    <3>3. gf_mul(b, x) # 0
      BY <2>7, <3>1, Division
    <3> QED
      BY <3>2, <3>3
  <2>9. gf_mul(gf_mul(a, x), gf_div(y, gf_mul(b, x))) = gf_div(gf_mul(gf_mul(a, x), y), gf_mul(b, x))
    BY <2>1, <2>8, Quotients
  <2>10. gf_mul(gf_mul(a, x), y) = gf_mul(gf_mul(a, y), x)
    BY <2>1, <2>7, MulSwap DEF x
  <2>11. gf_div(gf_mul(gf_mul(a, y), x), gf_mul(b, x)) = gf_div(gf_mul(a, y), b)
    <3>1. x \in Field /\ x # 0
      BY <2>7 DEF x
    <3> QED
      BY <2>7, <2>8, <3>1, Quotients
  <2>12. gf_mul(y, gf_div(a, b)) = gf_div(gf_mul(y, a), b) /\ gf_mul(y, a) = gf_mul(a, y)
    BY <2>1, <2>7, Quotients, Multiplication
  <2> QED
    BY <2>4, <2>5, <2>6, <2>9, <2>10, <2>11, <2>12 DEF x
<1> HIDE DEF w, f, P
<1>14. OnField(f, m)
  BY <1>1, <1>10 DEF OnField
<1>15. Sum(w, m) = gf_mul(P, Sum(f, m))
  BY <1>1, <1>12, <1>13, <1>14, SumScale
<1>16. gf_mul(P, gf_div(c[1], P)) = c[1]
  <2>1. gf_div(c[1], P) \in Field /\ gf_mul(gf_div(c[1], P), P) = c[1]
    BY <1>12, Division
  <2> QED
    BY <1>12, <2>1, Multiplication
<1> QED
  BY <1>3, <1>11, <1>12, <1>15, <1>16

-----------------------------------------------------------------------------
(* The shards of a vault *)

\* The coefficients and the mask that the records come from.
Explains(coeffs, pad) ==
    /\ secret = IF scheme = "krypt1-prime" THEN gf_add(coeffs[1], pad) ELSE coeffs[1]
    /\ \A i \in DOMAIN records :
          records[i].y = IF records[i].kind = "prime" THEN pad ELSE eval_poly(coeffs, records[i].x)

\* Every pool record is of a trustee of its own.
PoolsDiffer ==
    /\ \A i \in DOMAIN records : records[i].kind = "pool" => records[i].x \in 1..trustees
    /\ \A i, j \in DOMAIN records :
          i # j /\ records[i].kind = "pool" /\ records[j].kind = "pool" => records[i].x # records[j].x

\* A vault shares its secret, with a point of its own for every pool record.
RecordsAreShares ==
    /\ scheme \in {"none", "krypt1", "krypt1-prime"} /\ secret \in Field
    /\ trustees \in 0..MaxTrustees /\ trustees <= Order - 1 /\ threshold \in 0..trustees
    /\ records \in Seq(Record) /\ Len(records) = trustees
    /\ PoolsDiffer
    /\ scheme # "none" =>
          /\ PoolThreshold >= 1
          /\ \E coeffs \in Polynomials(PoolThreshold), pad \in Field : Explains(coeffs, pad)

\* The shards and the mask held are of different records.
ShardsAreMatched ==
    /\ \A s \in DOMAIN shards : \E i \in used_indices :
          records[i].kind = "pool" /\ shards[s] = [x |-> records[i].x, y |-> records[i].y]
    /\ \A s, t \in DOMAIN shards : s # t => shards[s].x # shards[t].x
    /\ mask # None => \E i \in used_indices : records[i].kind = "prime" /\ mask = records[i].y

\* There is no result of a recovery that is under way.
ResultIsLast ==
    /\ scheme = "none" \/ program # "none" => result = "none"
    /\ result \in Results
    /\ QuorumOpens

\* The second inductive invariant.
SharingInv == RecordsAreShares /\ ShardsAreMatched /\ ResultIsLast

\* A polynomial's values are in the field.
LEMMA EvalInField ==
    ASSUME NEW c \in Seq(Field), NEW x \in Field
    PROVE  eval_poly(c, x) \in Field
<1>1. PICK r \in Horners(c, x) : eval_poly(c, x) = r[Len(c)]
  BY Horner
<1> QED
  BY <1>1 DEF Horners

\* Coefficients are a sequence that begins with the secret, or the masked secret.
LEMMA PolynomialsAreSequences ==
    ASSUME NEW d \in Nat, d >= 1, NEW coeffs \in Polynomials(d)
    PROVE  coeffs \in Seq(Field) /\ Len(coeffs) = d /\ coeffs[1] \in Field
<1>1. coeffs \in [1..d -> Field]
  BY DEF Polynomials
<1> HIDE DEF Field
<1>2. coeffs \in Seq(Field) /\ Len(coeffs) = d
  BY <1>1, IsASeq
<1> QED
  BY <1>1, <1>2

\* x is the number of a trustee, which is a point other than 0.
LEMMA NumbersArePoints ==
    ASSUME NEW T \in Nat, T <= Order - 1, NEW x \in 1..T
    PROVE  x \in Field \ {0}
BY OrderIsNatural DEF Field

\* What a vault made for T trustees from these coefficients and this mask holds.
SharesFor(T, coeffs, pad) ==
    /\ records' \in Seq(Record) /\ Len(records') = T
    /\ \A i \in 1..T :
          /\ records'[i].y = IF records'[i].kind = "prime" THEN pad ELSE eval_poly(coeffs, records'[i].x)
          /\ records'[i].kind = "pool" => records'[i].x \in 1..T
    /\ \A i, j \in 1..T :
          i # j /\ records'[i].kind = "pool" /\ records'[j].kind = "pool" => records'[i].x # records'[j].x

\* Sealing and shuffling keep what the payloads are.
LEMMA SealedShares ==
    ASSUME NEW T \in 1..MaxTrustees, NEW coeffs, NEW pad, NEW payloads, DOMAIN payloads = 1..T,
           \A i \in 1..T :
              /\ payloads[i].kind \in {"prime", "pool"} /\ payloads[i].x \in 0..T /\ payloads[i].y \in Field
              /\ payloads[i].y = IF payloads[i].kind = "prime" THEN pad ELSE eval_poly(coeffs, payloads[i].x)
              /\ payloads[i].kind = "pool" => payloads[i].x \in 1..T,
           \A i, j \in 1..T :
              i # j /\ payloads[i].kind = "pool" /\ payloads[j].kind = "pool"
                 => payloads[i].x # payloads[j].x,
           Seal(payloads)
    PROVE  SharesFor(T, coeffs, pad)
<1>1. PICK order \in SetToSeqs(1..T), word \in [1..T -> Words] :
         records' = [i \in 1..T |->
                       [word |-> word[order[i]], kind |-> payloads[order[i]].kind,
                        x |-> payloads[order[i]].x, y |-> payloads[order[i]].y]]
  <2>1. PICK order \in SetToSeqs(DOMAIN payloads), word \in [DOMAIN payloads -> Words] :
           records' = [i \in DOMAIN payloads |->
                         [word |-> word[order[i]], kind |-> payloads[order[i]].kind,
                          x |-> payloads[order[i]].x, y |-> payloads[order[i]].y]]
    BY Zenon DEF Seal
  <2>2. DOMAIN payloads = 1..T
    OBVIOUS
  <2>3. order \in SetToSeqs(1..T) /\ word \in [1..T -> Words]
    BY ONLY <2>1, <2>2
  <2> DEFINE Shuffled(o, w) ==
               [i \in 1..T |-> [word |-> w[o[i]], kind |-> payloads[o[i]].kind,
                                 x |-> payloads[o[i]].x, y |-> payloads[o[i]].y]]
  <2>4. records' = Shuffled(order, word)
    BY ONLY <2>1, <2>2
  <2> SUFFICES \E o \in SetToSeqs(1..T), w \in [1..T -> Words] : records' = Shuffled(o, w)
    BY Zenon
  <2> HIDE DEF Shuffled
  <2> QED
    BY ONLY <2>3, <2>4
<1>2. T \in Nat /\ MaxTrustees \in Nat /\ T <= MaxTrustees
  BY VaultAssumption
<1>3. Cardinality(1..T) = T
  BY <1>2, FS_Interval
<1>4. /\ \A i \in 1..T : order[i] \in 1..T
      /\ \A i, j \in 1..T : i # j => order[i] # order[j]
  BY <1>3 DEF SetToSeqs
<1>5. ASSUME NEW i \in 1..T
      PROVE  /\ records'[i].word = word[order[i]] /\ records'[i].kind = payloads[order[i]].kind
             /\ records'[i].x = payloads[order[i]].x /\ records'[i].y = payloads[order[i]].y
             /\ records'[i] \in Record
  <2>1. order[i] \in 1..T /\ word[order[i]] \in Words
    BY <1>4
  <2>2. records'[i] = [word |-> word[order[i]], kind |-> payloads[order[i]].kind,
                       x |-> payloads[order[i]].x, y |-> payloads[order[i]].y]
    BY <1>1
  <2>3. payloads[order[i]].x \in 0..MaxTrustees
    BY <1>2, <2>1
  <2> QED
    BY <2>1, <2>2, <2>3 DEF Record
<1>6. records' \in Seq(Record) /\ Len(records') = T
  <2>1. records' \in [1..T -> Record]
    BY <1>1, <1>5
  <2> HIDE DEF Record
  <2> QED
    BY <1>2, <2>1, IsASeq
<1>7. ASSUME NEW i \in 1..T
      PROVE  /\ records'[i].y = IF records'[i].kind = "prime" THEN pad ELSE eval_poly(coeffs, records'[i].x)
             /\ records'[i].kind = "pool" => records'[i].x \in 1..T
  <2> DEFINE payload == payloads[order[i]]
  <2>1. order[i] \in 1..T
    BY <1>4
  <2>2. /\ payload.y = IF payload.kind = "prime" THEN pad ELSE eval_poly(coeffs, payload.x)
        /\ payload.kind = "pool" => payload.x \in 1..T
    BY <2>1
  <2>3. records'[i].kind = payload.kind /\ records'[i].x = payload.x /\ records'[i].y = payload.y
    BY <1>5
  <2> HIDE DEF payload
  <2> QED
    BY ONLY <2>2, <2>3
<1>8. ASSUME NEW i \in 1..T, NEW j \in 1..T, i # j, records'[i].kind = "pool", records'[j].kind = "pool"
      PROVE  records'[i].x # records'[j].x
  <2>1. order[i] \in 1..T /\ order[j] \in 1..T /\ order[i] # order[j]
    BY <1>4, <1>8
  <2>2. payloads[order[i]].kind = "pool" /\ payloads[order[j]].kind = "pool"
    BY ONLY <1>5, <1>8
  <2>3. payloads[order[i]].x # payloads[order[j]].x
    BY <2>1, <2>2
  <2> QED
    BY ONLY <1>5, <2>3
<1> QED
  BY <1>6, <1>7, <1>8 DEF SharesFor

\* create_vault shares its secret, ...
LEMMA CreateShares ==
    ASSUME NEW T \in 1..MaxTrustees, NEW D \in 1..T, NEW coeffs \in Polynomials(D), coeffs[1] \in Secrets,
           create_vault(T, D, coeffs)
    PROVE  /\ SharesFor(T, coeffs, 0)
           /\ T <= Order - 1 /\ trustees' = T /\ threshold' = D /\ scheme' = "krypt1" /\ secret' = coeffs[1]
<1> DEFINE shard == split_secret(coeffs, T)
           payloads == [i \in 1..T |-> Payload(shard[i])]
<1>1. /\ Seal(payloads) /\ T <= Order - 1 /\ trustees' = T /\ threshold' = D
      /\ scheme' = "krypt1" /\ secret' = coeffs[1]
  BY DEF create_vault
<1>2. T \in Nat /\ D \in Nat /\ D >= 1
  BY VaultAssumption
<1>3. ASSUME NEW i \in 1..T
      PROVE  payloads[i].kind = "pool" /\ payloads[i].x = i /\ payloads[i].y = eval_poly(coeffs, i)
  BY DEF Payload, split_secret
<1>4. ASSUME NEW i \in 1..T PROVE payloads[i].y \in Field
  <2>1. i \in Field
    BY <1>1, <1>2, NumbersArePoints
  <2>2. coeffs \in Seq(Field)
    BY <1>2, PolynomialsAreSequences
  <2> QED
    BY <1>3, <2>1, <2>2, EvalInField
<1>5. DOMAIN payloads = 1..T
  OBVIOUS
<1> HIDE DEF payloads
<1>6. SharesFor(T, coeffs, 0)
  <2>1. \A i \in 1..T : i \in 0..T
    BY <1>2
  <2> QED
    BY <1>1, <1>3, <1>4, <1>5, <2>1, SealedShares
<1> QED
  BY <1>1, <1>6

\* ... and create_vault_prime its secret hidden by the mask.
LEMMA CreatePrimeShares ==
    ASSUME NEW T \in 1..MaxTrustees, NEW D \in 1..T, NEW coeffs \in Polynomials(D - 1), NEW pad \in Field,
           coeffs[1] \in Secrets, create_vault_prime(T, D, pad, coeffs)
    PROVE  /\ SharesFor(T, [coeffs EXCEPT ![1] = gf_add(@, pad)], pad)
           /\ T <= Order - 1 /\ trustees' = T /\ threshold' = D /\ D - 1 >= 1
           /\ scheme' = "krypt1-prime" /\ secret' = coeffs[1]
           /\ [coeffs EXCEPT ![1] = gf_add(@, pad)] \in Polynomials(D - 1)
           /\ gf_add([coeffs EXCEPT ![1] = gf_add(@, pad)][1], pad) = coeffs[1]
<1> DEFINE masked == [coeffs EXCEPT ![1] = gf_add(@, pad)]
           shard == split_secret_with_prime(pad, coeffs, T - 1)
           first == [kind |-> "prime", x |-> 0, y |-> pad]
           rest == [i \in 1 .. T - 1 |-> Payload(shard[i])]
           payloads == <<first>> \o rest
           All == {first} \cup {rest[i] : i \in 1 .. T - 1}
<1>1. /\ Seal(payloads) /\ T <= Order - 1 /\ trustees' = T /\ threshold' = D /\ D >= 2
      /\ scheme' = "krypt1-prime" /\ secret' = coeffs[1]
  BY DEF create_vault_prime
<1>2. T \in Nat /\ D \in Nat /\ D - 1 \in Nat /\ D - 1 >= 1 /\ T - 1 \in Nat
  BY <1>1, VaultAssumption
<1>3. coeffs \in [1 .. D - 1 -> Field] /\ coeffs[1] \in Field /\ 1 \in 1 .. D - 1
  BY <1>2 DEF Polynomials
<1>4. gf_add(coeffs[1], pad) \in Field /\ gf_add(gf_add(coeffs[1], pad), pad) = coeffs[1]
  <2>1. gf_add(gf_add(coeffs[1], pad), pad) = gf_add(coeffs[1], gf_add(pad, pad)) /\ gf_add(pad, pad) = 0
        /\ gf_add(coeffs[1], 0) = coeffs[1]
    BY <1>3, Addition
  <2> QED
    BY <1>3, <2>1, Addition
<1>5. masked \in Polynomials(D - 1) /\ masked[1] = gf_add(coeffs[1], pad)
  BY <1>3, <1>4 DEF Polynomials
<1>6. ASSUME NEW i \in 1 .. T - 1
      PROVE  rest[i].kind = "pool" /\ rest[i].x = i /\ rest[i].y = eval_poly(masked, i)
  BY DEF Payload, split_secret_with_prime, split_secret
<1>7. rest \in [1 .. T - 1 -> All]
  OBVIOUS
<1> HIDE DEF masked, rest, payloads
<1>8. ASSUME NEW i \in 1 .. T - 1 PROVE rest[i].y \in Field
  <2>1. i \in 1..T
    BY <1>2
  <2>2. i \in Field
    BY <1>1, <1>2, <2>1, NumbersArePoints
  <2>3. masked \in Seq(Field)
    BY <1>2, <1>5, PolynomialsAreSequences
  <2> QED
    BY <1>6, <2>2, <2>3, EvalInField
<1>9. DOMAIN payloads = 1..T /\ payloads[1] = first /\ \A i \in 1..T : i # 1 => payloads[i] = rest[i - 1]
  <2> HIDE DEF first, All
  <2>1. rest \in Seq(All) /\ Len(rest) = T - 1
    BY <1>2, <1>7, IsASeq
  <2>2. <<first>> \in Seq(All) /\ Len(<<first>>) = 1 /\ <<first>>[1] = first
    BY DEF All
  <2>3. /\ payloads \in Seq(All) /\ Len(payloads) = 1 + (T - 1)
        /\ \A i \in 1..1 + (T - 1) : payloads[i] = IF i <= 1 THEN <<first>>[i] ELSE rest[i - 1]
    BY <2>1, <2>2, ConcatProperties DEF payloads
  <2>4. DOMAIN payloads = 1..T
    BY <1>2, <2>3, LenProperties
  <2>5. 1 \in 1..1 + (T - 1) /\ \A i \in 1..T : i # 1 => i \in 1..1 + (T - 1) /\ ~(i <= 1)
    BY <1>2
  <2> QED
    BY <2>2, <2>3, <2>4, <2>5
<1>10. ASSUME NEW i \in 1..T, i # 1
       PROVE  payloads[i].kind = "pool" /\ payloads[i].x = i - 1 /\ payloads[i].y \in Field
              /\ payloads[i].y = eval_poly(masked, i - 1) /\ i - 1 \in 1..T
  <2>1. i - 1 \in 1 .. T - 1 /\ i - 1 \in 1..T
    BY <1>2, <1>10
  <2> QED
    BY <1>6, <1>8, <1>9, <1>10, <2>1
<1>11. payloads[1].kind = "prime" /\ payloads[1].x = 0 /\ payloads[1].y = pad
  BY <1>9
<1>12. ASSUME NEW i \in 1..T
       PROVE  /\ payloads[i].kind \in {"prime", "pool"} /\ payloads[i].x \in 0..T /\ payloads[i].y \in Field
              /\ payloads[i].y = IF payloads[i].kind = "prime" THEN pad ELSE eval_poly(masked, payloads[i].x)
              /\ payloads[i].kind = "pool" => payloads[i].x \in 1..T
  <2>1. 0 \in 0..T /\ \A k \in 1..T : k \in 0..T
    BY <1>2
  <2> QED
    BY <1>10, <1>11, <2>1
<1>13. ASSUME NEW i \in 1..T, NEW j \in 1..T, i # j, payloads[i].kind = "pool", payloads[j].kind = "pool"
       PROVE  payloads[i].x # payloads[j].x
  <2>1. i # 1 /\ j # 1 /\ i - 1 # j - 1
    BY <1>11, <1>13
  <2> QED
    BY <1>10, <2>1
<1>14. SharesFor(T, masked, pad)
  BY <1>1, <1>9, <1>12, <1>13, SealedShares
<1> QED
  BY <1>1, <1>2, <1>4, <1>5, <1>14 DEF masked

\* Nothing is held of a recovery that has just begun.
LEMMA NothingIsHeld ==
    ASSUME shards' = << >>, mask' = None
    PROVE  ShardsAreMatched'
<1>1. DOMAIN << >> = {}
  OBVIOUS
<1> QED
  BY <1>1 DEF ShardsAreMatched

\* Before there is a vault there is nothing to hold.
LEMMA InitShares == Init => SharingInv
<1> SUFFICES ASSUME Init PROVE SharingInv
  OBVIOUS
<1>1. /\ scheme = "none" /\ secret = 0 /\ trustees = 0 /\ threshold = 0 /\ records = << >>
      /\ program = "none" /\ result = "none" /\ mask = None /\ shards = << >>
  BY DEF Init
<1>2. records \in Seq(Record) /\ Len(records) = 0 /\ DOMAIN records = {} /\ DOMAIN shards = {}
  BY <1>1, EmptySeq
<1>3. 0 \in Field /\ 0 \in 0..MaxTrustees /\ 0 <= Order - 1 /\ 0 \in 0..0
  BY Addition, VaultAssumption, OrderIsNatural DEF Field
<1>4. RecordsAreShares
  BY <1>1, <1>2, <1>3 DEF RecordsAreShares, PoolsDiffer
<1>5. ShardsAreMatched
  BY <1>1, <1>2 DEF ShardsAreMatched
<1>6. ResultIsLast
  BY <1>1 DEF ResultIsLast, Results, QuorumOpens
<1> QED
  BY <1>4, <1>5, <1>6 DEF SharingInv

\* A new vault is one of shares of its secret.
LEMMA CreateKeepsShares ==
    ASSUME IInv, SharingInv, Create
    PROVE  SharingInv'
<1>1. /\ shards = << >> /\ mask = None /\ program = "none" /\ scheme = "none" /\ result = "none"
  BY NothingHeld DEF Create, SharingInv, ResultIsLast
<1>2. UNCHANGED <<program, recovery, result>>
  BY DEF Create, create_vault, create_vault_prime
<1>3. ShardsAreMatched'
  BY <1>1, <1>2, NothingIsHeld DEF recovery
<1>4. ResultIsLast'
  BY <1>1, <1>2 DEF ResultIsLast, Results, QuorumOpens
<1>5. ASSUME NEW T \in 1..MaxTrustees, NEW D \in 1..T, NEW coeffs, NEW pad, SharesFor(T, coeffs, pad),
             T <= Order - 1, trustees' = T, threshold' = D, PoolThreshold' >= 1, secret' \in Field,
             scheme' \in {"krypt1", "krypt1-prime"}, coeffs \in Polynomials(PoolThreshold'), pad \in Field,
             secret' = IF scheme' = "krypt1-prime" THEN gf_add(coeffs[1], pad) ELSE coeffs[1]
      PROVE  RecordsAreShares'
  <2>1. T \in Nat /\ T \in 0..MaxTrustees /\ D \in 0..T
    BY VaultAssumption
  <2>2. DOMAIN records' = 1..T /\ records' \in Seq(Record) /\ Len(records') = T
    BY <1>5 DEF SharesFor
  <2>3. Explains(coeffs, pad)'
    BY <1>5, <2>2 DEF Explains, SharesFor
  <2>4. PoolsDiffer'
    BY <1>5, <2>2 DEF PoolsDiffer, SharesFor
  <2>5. \E c \in Polynomials(PoolThreshold'), p \in Field : Explains(c, p)'
    BY <1>5, <2>3
  <2> QED
    BY <1>5, <2>1, <2>2, <2>4, <2>5 DEF RecordsAreShares
<1>6. RecordsAreShares'
  <2>1. ASSUME NEW T \in 1..MaxTrustees, NEW D \in 1..T, NEW coeffs \in Polynomials(D),
               coeffs[1] \in Secrets, create_vault(T, D, coeffs)
        PROVE  RecordsAreShares'
    <3>1. /\ SharesFor(T, coeffs, 0)
          /\ T <= Order - 1 /\ trustees' = T /\ threshold' = D /\ scheme' = "krypt1" /\ secret' = coeffs[1]
      BY <2>1, CreateShares
    <3>2. PoolThreshold' = D /\ D >= 1 /\ secret' \in Field /\ 0 \in Field
      BY <2>1, <3>1, VaultAssumption, Addition DEF PoolThreshold
    <3> QED
      BY <1>5, <3>1, <3>2
  <2>2. ASSUME NEW T \in 1..MaxTrustees, NEW D \in 1..T, NEW coeffs \in Polynomials(D - 1), NEW pad \in Field,
               coeffs[1] \in Secrets, create_vault_prime(T, D, pad, coeffs)
        PROVE  RecordsAreShares'
    <3> DEFINE masked == [coeffs EXCEPT ![1] = gf_add(@, pad)]
    <3>1. /\ SharesFor(T, masked, pad)
          /\ T <= Order - 1 /\ trustees' = T /\ threshold' = D /\ D - 1 >= 1
          /\ scheme' = "krypt1-prime" /\ secret' = coeffs[1]
          /\ masked \in Polynomials(D - 1) /\ gf_add(masked[1], pad) = coeffs[1]
      BY <2>2, CreatePrimeShares
    <3> HIDE DEF masked
    <3>2. PoolThreshold' = D - 1 /\ secret' \in Field
      BY <2>2, <3>1, VaultAssumption DEF PoolThreshold
    <3> QED
      BY <1>5, <3>1, <3>2
  <2> QED
    BY <2>1, <2>2 DEF Create
<1> QED
  BY <1>3, <1>4, <1>6 DEF SharingInv

\* The vault stays as it was made.
LEMMA VaultStays ==
    ASSUME SharingInv, UNCHANGED vault
    PROVE  /\ RecordsAreShares'
           /\ UNCHANGED <<scheme, secret, trustees, threshold, records>> /\ PoolThreshold' = PoolThreshold
<1>1. UNCHANGED <<scheme, secret, trustees, threshold, records>>
  BY DEF vault
<1>2. PoolThreshold' = PoolThreshold /\ PoolsDiffer' = PoolsDiffer
  BY <1>1 DEF PoolThreshold, PoolsDiffer
<1>3. \A c, p : Explains(c, p)' = Explains(c, p)
  BY <1>1 DEF Explains
<1> QED
  BY <1>1, <1>2, <1>3 DEF SharingInv, RecordsAreShares

\* A recovery begins without shards and without a result.
LEMMA StartKeepsShares ==
    ASSUME SharingInv, NEW p \in {"cli", "gui"}, Start(p)
    PROVE  SharingInv'
<1>1. /\ UNCHANGED vault /\ shards' = << >> /\ mask' = None /\ result' = "none"
  BY DEF Start, NoShards
<1>2. ResultIsLast'
  BY <1>1 DEF ResultIsLast, Results, QuorumOpens
<1> QED
  BY <1>1, <1>2, VaultStays, NothingIsHeld DEF SharingInv

\* A matched pool record is a new one, and has a number of its own.
LEMMA TypeKeepsShares ==
    ASSUME IInv, SharingInv, NEW w \in Words, Type(w)
    PROVE  SharingInv'
<1> DEFINE idx == try_match_word(w)
           new == [x |-> records[idx].x, y |-> records[idx].y]
<1>1. /\ UNCHANGED vault /\ UNCHANGED program /\ UNCHANGED result /\ program # "none"
  BY DEF Type, MayType, AsksAgain, HasField
<1>2. RecordsAreShares' /\ UNCHANGED records /\ UNCHANGED scheme
  BY <1>1, VaultStays
<1>3. ResultIsLast'
  BY <1>1, <1>2 DEF SharingInv, ResultIsLast, QuorumOpens
<1>4. CASE idx = None
  <2>1. UNCHANGED <<used_indices, mask, shards>>
    BY <1>4 DEF Type
  <2>2. ShardsAreMatched'
    BY <1>2, <2>1 DEF SharingInv, ShardsAreMatched
  <2> QED
    BY <1>2, <1>3, <2>2 DEF SharingInv
<1>5. CASE idx # None
  <2>1. /\ used_indices' = used_indices \cup {idx}
        /\ IF records[idx].kind = "prime"
           THEN mask' = records[idx].y /\ UNCHANGED shards
           ELSE shards' = Append(shards, new) /\ UNCHANGED mask
    BY <1>5 DEF Type
  <2>2. idx \in DOMAIN records /\ idx \notin used_indices
    BY <1>5, MatchIsUnused DEF Unmatched
  <2>3. /\ records[idx].kind \in {"prime", "pool"} /\ used_indices \subseteq DOMAIN records
    BY <2>2, MatchedByNumber DEF IInv, RecordsAreSealed, OrderDoesNotMatter
  <2> HIDE DEF idx, new
  <2>4. CASE records[idx].kind = "prime"
    <3>1. mask' = records[idx].y /\ shards' = shards
      BY <2>1, <2>4
    <3>2. ShardsAreMatched'
      BY <1>2, <2>1, <2>4, <3>1 DEF SharingInv, ShardsAreMatched
    <3> QED
      BY <1>2, <1>3, <3>2 DEF SharingInv
  <2>5. CASE records[idx].kind = "pool"
    <3>1. shards' = Append(shards, new) /\ mask' = mask
      BY <2>1, <2>5
    <3>2. new.x = records[idx].x /\ new = [x |-> records[idx].x, y |-> records[idx].y]
      BY DEF new
    <3>3. /\ DOMAIN shards' = 1..Len(shards) + 1 /\ Len(shards) \in Nat /\ DOMAIN shards = 1..Len(shards)
          /\ \A s \in DOMAIN shards : shards'[s] = shards[s]
          /\ shards'[Len(shards) + 1] = new
      <4>1. shards \in Seq(Payloads \cup {new}) /\ new \in Payloads \cup {new}
        BY SeqMonotonic DEF IInv, ShardsAreRecords
      <4> HIDE DEF Payloads
      <4> QED
        BY <3>1, <4>1, AppendProperties
    <3>4. ASSUME NEW s \in DOMAIN shards
          PROVE  shards[s].x # new.x
      <4>1. PICK i \in used_indices :
             records[i].kind = "pool" /\ shards[s] = [x |-> records[i].x, y |-> records[i].y]
        BY DEF SharingInv, ShardsAreMatched
      <4>2. records[i].x # records[idx].x
        BY <2>2, <2>3, <2>5, <4>1 DEF SharingInv, RecordsAreShares, PoolsDiffer
      <4> QED
        BY <3>2, <4>1, <4>2
    <3>5. ASSUME NEW s \in DOMAIN shards'
          PROVE  \E i \in used_indices' :
                    records[i].kind = "pool" /\ shards'[s] = [x |-> records[i].x, y |-> records[i].y]
      <4>1. CASE s \in DOMAIN shards
        BY <2>1, <3>3, <4>1 DEF SharingInv, ShardsAreMatched
      <4>2. CASE s \notin DOMAIN shards
        BY <2>1, <2>5, <3>2, <3>3, <4>2
      <4> QED
        BY <4>1, <4>2
    <3>6. ASSUME NEW s \in DOMAIN shards', NEW t \in DOMAIN shards', s # t
          PROVE  shards'[s].x # shards'[t].x
      <4>1. (s \in DOMAIN shards \/ s = Len(shards) + 1) /\ (t \in DOMAIN shards \/ t = Len(shards) + 1)
        BY <3>3
      <4>2. CASE s \in DOMAIN shards /\ t \in DOMAIN shards
        BY <3>3, <3>6, <4>2 DEF SharingInv, ShardsAreMatched
      <4>3. CASE s \in DOMAIN shards /\ t = Len(shards) + 1
        BY <3>3, <3>4, <4>3
      <4>4. CASE t \in DOMAIN shards /\ s = Len(shards) + 1
        BY <3>3, <3>4, <4>4
      <4> QED
        BY <3>6, <4>1, <4>2, <4>3, <4>4
    <3>7. ShardsAreMatched'
      <4>1. mask' # None => \E i \in used_indices' : records[i].kind = "prime" /\ mask' = records[i].y
        BY <2>1, <3>1 DEF SharingInv, ShardsAreMatched
      <4> QED
        BY <1>2, <3>5, <3>6, <4>1 DEF ShardsAreMatched
    <3> QED
      BY <1>2, <1>3, <3>7 DEF SharingInv
  <2> QED
    BY <2>3, <2>4, <2>5
<1> QED
  BY <1>4, <1>5

\* The shards held are points of the polynomial.
LEMMA ShardsArePoints ==
    ASSUME IInv, SharingInv, NEW coeffs, NEW pad, Explains(coeffs, pad)
    PROVE  /\ shards \in Seq([x : Field \ {0}, y : Field])
           /\ \A s \in DOMAIN shards : /\ shards[s].y = eval_poly(coeffs, shards[s].x)
                                       /\ shards[s].x \in 1..trustees
           /\ \A s, t \in DOMAIN shards : s # t => shards[s].x # shards[t].x
<1>1. /\ records \in Seq(Record) /\ used_indices \subseteq DOMAIN records
      /\ trustees \in Nat /\ trustees <= Order - 1
  BY MatchedByNumber DEF SharingInv, RecordsAreShares, IInv, OrderDoesNotMatter, RecordsAreSealed
<1>2. ASSUME NEW s \in DOMAIN shards
      PROVE  /\ shards[s] \in [x : Field \ {0}, y : Field] /\ shards[s].y = eval_poly(coeffs, shards[s].x)
             /\ shards[s].x \in 1..trustees
  <2>1. PICK i \in used_indices :
             records[i].kind = "pool" /\ shards[s] = [x |-> records[i].x, y |-> records[i].y]
    BY DEF SharingInv, ShardsAreMatched
  <2>2. i \in DOMAIN records
    BY <1>1, <2>1
  <2>3. records[i] \in Record
    <3> HIDE DEF Record
    <3> QED
      BY <1>1, <2>2
  <2>4. records[i].y \in Field
    BY <2>3 DEF Record
  <2>5. records[i].y = eval_poly(coeffs, records[i].x)
    BY <2>1, <2>2 DEF Explains
  <2>6. records[i].x \in 1..trustees
    BY <2>1, <2>2 DEF SharingInv, RecordsAreShares, PoolsDiffer
  <2>7. records[i].x \in Field \ {0}
    BY <1>1, <2>6, NumbersArePoints
  <2> QED
    BY <2>1, <2>4, <2>5, <2>6, <2>7
<1>3. shards \in Seq([x : Field \ {0}, y : Field])
  <2> DEFINE R == [x : Field \ {0}, y : Field]
  <2>1. \A s \in DOMAIN shards : shards[s] \in R
    BY <1>2
  <2> HIDE DEF R
  <2>2. shards \in Seq(Payloads)
    BY DEF IInv, ShardsAreRecords
  <2> HIDE DEF Payloads
  <2>3. Len(shards) \in Nat /\ shards \in [1..Len(shards) -> R]
    BY <2>1, <2>2
  <2>4. shards \in Seq(R)
    BY <2>3, IsASeq
  <2> QED
    BY <2>4 DEF R
<1> QED
  BY <1>2, <1>3 DEF SharingInv, ShardsAreMatched

\* What is reconstructed from enough records is the secret.
LEMMA EnoughReconstructs ==
    ASSUME IInv, SharingInv, scheme # "none", Enough
    PROVE  Reconstructed = secret
<1>1. PICK coeffs \in Polynomials(PoolThreshold), pad \in Field : Explains(coeffs, pad)
  BY DEF SharingInv, RecordsAreShares
<1>2. PoolThreshold \in Nat /\ PoolThreshold >= 1
  BY DEF SharingInv, RecordsAreShares, PoolThreshold
<1>3. coeffs \in Seq(Field) /\ Len(coeffs) = PoolThreshold /\ coeffs[1] \in Field
  BY <1>2, PolynomialsAreSequences
<1>4. reconstruct_secret(shards) = coeffs[1]
  <2>1. Len(shards) >= Len(coeffs)
    BY <1>3 DEF Enough
  <2> QED
    BY <1>1, <1>2, <1>3, <2>1, ShardsArePoints, Interpolation
<1>5. CASE scheme = "krypt1-prime"
  <2>1. mask = pad
    BY <1>1, <1>5, MatchedByNumber
       DEF Enough, SharingInv, ShardsAreMatched, Explains, IInv, OrderDoesNotMatter
  <2>2. coeffs[1] # NoSecret
    BY <1>3 DEF Field, NoSecret
  <2>3. reconstruct_secret_with_prime(mask, shards) = gf_add(coeffs[1], pad)
    BY <1>4, <2>1, <2>2 DEF reconstruct_secret_with_prime
  <2> QED
    BY <1>1, <1>5, <2>3 DEF Reconstructed, Explains
<1>6. CASE scheme # "krypt1-prime"
  BY <1>1, <1>4, <1>6 DEF Reconstructed, Explains
<1> QED
  BY <1>5, <1>6

\* The recovery has enough just when the codewords typed are those of a quorum.
LEMMA EnoughIsQuorum ==
    ASSUME IInv
    PROVE  Enough <=> Quorum(Matched)
BY DEF Enough, Quorum, IInv, OrderDoesNotMatter

\* The result is the archive for a quorum, and too few for others.
LEMMA ReconstructKeepsShares ==
    ASSUME IInv, SharingInv, Reconstruct
    PROVE  SharingInv'
<1>1. /\ UNCHANGED vault /\ UNCHANGED <<typed, used_indices, mask, shards>> /\ program' = "none"
      /\ result' = IF ~Enough THEN "too_few"
                   ELSE IF Reconstructed = secret THEN "opened" ELSE "unreadable"
      /\ program # "none"
  BY DEF Reconstruct, recovery, GoesOn
<1>2. scheme # "none"
  BY <1>1 DEF IInv, VaultFirst
<1>3. /\ RecordsAreShares' /\ UNCHANGED <<scheme, records>> /\ PoolThreshold' = PoolThreshold
  BY <1>1, VaultStays
<1>4. ShardsAreMatched'
  BY <1>1, <1>3 DEF SharingInv, ShardsAreMatched
<1>5. result' = IF Quorum(Matched) THEN "opened" ELSE "too_few"
  BY <1>1, <1>2, EnoughReconstructs, EnoughIsQuorum
<1>6. Matched' = Matched
  BY <1>1, <1>3 DEF Matched
<1>7. QuorumOpens'
  BY <1>3, <1>5, <1>6 DEF QuorumOpens, Quorum
<1>8. ResultIsLast'
  BY <1>1, <1>2, <1>3, <1>5, <1>7 DEF ResultIsLast, Results
<1> QED
  BY <1>3, <1>4, <1>8 DEF SharingInv

\* Every step keeps the invariant.
LEMMA StepKeepsShares == IInv /\ SharingInv /\ [Next]_vars => SharingInv'
<1> SUFFICES ASSUME IInv, SharingInv, [Next]_vars PROVE SharingInv'
  OBVIOUS
<1>1. CASE Create
  BY <1>1, CreateKeepsShares
<1>2. CASE \E p \in {"cli", "gui"} : Start(p)
  BY <1>2, StartKeepsShares
<1>3. CASE \E w \in Words : Type(w)
  BY <1>3, TypeKeepsShares
<1>4. CASE Reconstruct
  BY <1>4, ReconstructKeepsShares
<1>5. CASE Abandon \/ UNCHANGED vars
  <2>1. /\ UNCHANGED vault /\ UNCHANGED <<typed, used_indices, mask, shards, result>>
        /\ program' = program \/ program' = "none"
    BY <1>5 DEF Abandon, vars, recovery
  <2>2. /\ RecordsAreShares' /\ UNCHANGED <<scheme, records>> /\ PoolThreshold' = PoolThreshold
    BY <2>1, VaultStays
  <2>3. ShardsAreMatched'
    BY <2>1, <2>2 DEF SharingInv, ShardsAreMatched
  <2>4. Matched' = Matched
    BY <2>1, <2>2 DEF Matched
  <2>5. QuorumOpens'
    BY <2>1, <2>2, <2>4 DEF SharingInv, ResultIsLast, QuorumOpens
  <2>6. ResultIsLast'
    <3>1. program' # "none" => program # "none"
      BY <2>1
    <3> QED
      BY <2>1, <2>2, <2>5, <3>1 DEF SharingInv, ResultIsLast
  <2> QED
    BY <2>2, <2>3, <2>6 DEF SharingInv
<1> QED
  BY <1>1, <1>2, <1>3, <1>4, <1>5 DEF Next

\* The types follow from the two invariants.
LEMMA TypesFollow == IInv /\ SharingInv => TypeOK
<1> SUFFICES ASSUME IInv, SharingInv PROVE TypeOK
  OBVIOUS
<1>1. /\ scheme \in {"none", "krypt1", "krypt1-prime"} /\ secret \in Field
      /\ trustees \in 0..MaxTrustees /\ threshold \in 0..trustees
      /\ records \in Seq(Record) /\ Len(records) = trustees
      /\ program \in {"none", "cli", "gui"} /\ typed \in [Words -> Nat] /\ result \in Results
  BY DEF SharingInv, RecordsAreShares, ResultIsLast, IInv, VaultFirst, RecordsAreSealed
<1>2. used_indices \subseteq DOMAIN records /\ DOMAIN records = 1..trustees /\ trustees \in Nat
  BY MatchedByNumber DEF IInv, OrderDoesNotMatter, RecordsAreSealed
<1>3. mask \in {None} \cup Field
  <2>1. SUFFICES ASSUME mask # None PROVE mask \in Field
    OBVIOUS
  <2>2. PICK i \in used_indices : mask = records[i].y
    BY <2>1 DEF SharingInv, ShardsAreMatched
  <2>3. records[i] \in Record
    <3> HIDE DEF Record
    <3> QED
      BY <1>1, <1>2, <2>2
  <2> QED
    BY <2>2, <2>3 DEF Record
<1>4. shards \in Seq([x : 1..MaxTrustees, y : Field])
  <2> DEFINE R == [x : 1..MaxTrustees, y : Field]
  <2>1. ASSUME NEW s \in DOMAIN shards PROVE shards[s] \in R
    <3>1. PICK i \in used_indices :
             records[i].kind = "pool" /\ shards[s] = [x |-> records[i].x, y |-> records[i].y]
      BY DEF SharingInv, ShardsAreMatched
    <3>2. records[i] \in Record
      <4> HIDE DEF Record
      <4> QED
        BY <1>1, <1>2, <3>1
    <3>3. records[i].x \in 1..trustees
      BY <1>2, <3>1 DEF SharingInv, RecordsAreShares, PoolsDiffer
    <3>4. records[i].x \in 1..MaxTrustees /\ records[i].y \in Field
      BY <1>1, <1>2, <3>2, <3>3, VaultAssumption DEF Record
    <3> QED
      BY <3>1, <3>4
  <2> HIDE DEF R
  <2>2. shards \in Seq(Payloads)
    BY DEF IInv, ShardsAreRecords
  <2> HIDE DEF Payloads
  <2>3. Len(shards) \in Nat /\ shards \in [1..Len(shards) -> R]
    BY <2>1, <2>2
  <2>4. shards \in Seq(R)
    BY <2>3, IsASeq
  <2> QED
    BY <2>4 DEF R
<1>5. Len(shards) <= trustees
  <2> DEFINE pools == {i \in Matched : records[i].kind = "pool"}
  <2>1. Len(shards) = Cardinality(pools) /\ pools \in SUBSET (1..trustees)
    BY <1>2, MatchedByNumber DEF IInv, OrderDoesNotMatter
  <2>2. IsFiniteSet(1..trustees) /\ Cardinality(1..trustees) = trustees
    BY <1>2, FS_Interval
  <2> HIDE DEF pools
  <2>3. Cardinality(pools) <= Cardinality(1..trustees)
    BY <2>1, <2>2, FS_Subset
  <2> QED
    BY <2>1, <2>2, <2>3
<1> QED
  BY <1>1, <1>2, <1>3, <1>4, <1>5 DEF TypeOK

-----------------------------------------------------------------------------
(* A quorum opens the vault *)

\* Whatever happens, the vault's records share its secret, and the shards and the mask a
\* recovery holds are those of different records (vault_core.py:223-263, 338-364).
THEOREM SharesStayShares == Spec => []SharingInv
<1>1. Spec => [](IInv /\ SharingInv)
  BY InitFine, StepKeeps, InitShares, StepKeepsShares, PTL DEF Spec
<1> QED
  BY <1>1, PTL

\* Every variable has its type.
THEOREM TypesAreRight == Spec => []TypeOK
BY TypesFollow, MatchingInvariant, SharesStayShares, PTL

\* Whoever typed codewords that open a quorum of records, and with a prime trustee that one's,
\* gets the archive, and nobody else does (vault_core.py:367-416, gf256_sss.py:97-125).
THEOREM AQuorumOpens == Spec => []QuorumOpens
<1>1. SharingInv => QuorumOpens
  BY DEF SharingInv, ResultIsLast
<1> QED
  BY <1>1, SharesStayShares, PTL

-----------------------------------------------------------------------------
(* Too few tell nothing *)

\* The elements are counted.
LEMMA FieldIsFinite == IsFiniteSet(Field) /\ Cardinality(Field) = Order
<1>1. 0 \in Int /\ Order - 1 \in Int
  BY OrderIsNatural
<1>2. /\ IsFiniteSet(0 .. Order - 1)
      /\ Cardinality(0 .. Order - 1) = IF 0 > Order - 1 THEN 0 ELSE (Order - 1) - 0 + 1
  BY <1>1, FS_Interval
<1> QED
  BY <1>2, OrderIsNatural DEF Field

\* So are the polynomials.
LEMMA PolynomialsAreFinite ==
    ASSUME NEW d \in Nat
    PROVE  IsFiniteSet(Polynomials(d))
<1> DEFINE Pairs == SUBSET ((1..d) \X Field)
           graph == [c \in Polynomials(d) |-> {<<j, c[j]>> : j \in 1..d}]
<1>1. IsFiniteSet(Pairs)
  <2>1. IsFiniteSet(1..d)
    BY FS_Interval
  <2>2. IsFiniteSet((1..d) \X Field)
    BY <2>1, FieldIsFinite, FS_Product
  <2> QED
    BY <2>2, FS_SUBSET
<1>2. graph \in [Polynomials(d) -> Pairs]
  <2>1. ASSUME NEW c \in Polynomials(d) PROVE graph[c] \in Pairs
    <3>1. \A j \in 1..d : <<j, c[j]>> \in (1..d) \X Field
      BY DEF Polynomials
    <3> QED
      BY <3>1
  <2> QED
    BY <2>1
<1>3. ASSUME NEW b \in Polynomials(d), NEW c \in Polynomials(d), graph[b] = graph[c]
      PROVE  b = c
  <2>1. ASSUME NEW j \in 1..d PROVE b[j] = c[j]
    <3>1. <<j, b[j]>> \in graph[c]
      BY <1>3
    <3>2. PICK i \in 1..d : <<j, b[j]>> = <<i, c[i]>>
      BY <3>1
    <3> QED
      BY <3>2
  <2> QED
    BY <2>1 DEF Polynomials
<1> HIDE DEF graph, Pairs
<1>4. graph \in Injection(Polynomials(d), Pairs)
  BY <1>2, <1>3, Fun_IsInj
<1> QED
  BY <1>1, <1>4, FS_Injection

\* What can be shifted to any secret and back is as often of one secret as of another.
LEMMA EvenlySpread ==
    ASSUME NEW W, IsFiniteSet(W), NEW sec \in [W -> Field], NEW shift \in [W -> [Field -> W]],
           \A e \in W, d \in Field : /\ sec[shift[e][d]] = gf_add(sec[e], d)
                                     /\ shift[shift[e][d]][d] = e,
           NEW s \in Field
    PROVE  Cardinality({e \in W : sec[e] = s}) * Order = Cardinality(W)
<1> DEFINE F == {e \in W : sec[e] = s}
           g == [p \in F \X Field |-> shift[p[1]][p[2]]]
<1>1. IsFiniteSet(F)
  BY FS_Subset
<1>2. ASSUME NEW p \in F \X Field
      PROVE  /\ p[1] \in W /\ sec[p[1]] = s /\ p[2] \in Field /\ g[p] = shift[p[1]][p[2]]
             /\ g[p] \in W /\ sec[g[p]] = gf_add(s, p[2]) /\ shift[g[p]][p[2]] = p[1]
             /\ p = <<p[1], p[2]>>
  OBVIOUS
<1>3. g \in [F \X Field -> W]
  BY <1>2
<1>4. ASSUME NEW p \in F \X Field, NEW q \in F \X Field, g[p] = g[q] PROVE p = q
  <2>1. gf_add(s, p[2]) = gf_add(s, q[2]) /\ p[2] \in Field /\ q[2] \in Field
    BY <1>2, <1>4
  <2>2. p[2] = q[2]
    <3>1. \A u \in Field : gf_add(gf_add(s, s), u) = gf_add(s, gf_add(s, u))
                           /\ gf_add(s, s) = 0 /\ gf_add(0, u) = u
      BY Addition
    <3> QED
      BY <2>1, <3>1
  <2>3. p[1] = q[1]
    BY <1>2, <1>4, <2>2
  <2> QED
    BY <1>2, <2>2, <2>3
<1>5. ASSUME NEW w \in W PROVE \E p \in F \X Field : g[p] = w
  <2> DEFINE d == gf_add(sec[w], s)
             e == shift[w][d]
  <2>1. sec[w] \in Field
    OBVIOUS
  <2>2. d \in Field /\ gf_add(sec[w], d) = s
    <3>1. gf_add(gf_add(sec[w], sec[w]), s) = gf_add(sec[w], gf_add(sec[w], s))
          /\ gf_add(sec[w], sec[w]) = 0 /\ gf_add(0, s) = s
      BY <2>1, Addition
    <3> QED
      BY <2>1, <3>1, Addition
  <2> HIDE DEF d
  <2>3. e \in W /\ sec[e] = s /\ shift[e][d] = w
    BY <2>2
  <2>4. <<e, d>> \in F \X Field
    BY <2>2, <2>3
  <2>5. g[<<e, d>>] = w
    BY <2>3, <2>4
  <2> QED
    BY <2>4, <2>5
<1> HIDE DEF g, F
<1>6. g \in Bijection(F \X Field, W)
  <2>1. g \in Injection(F \X Field, W)
    BY <1>3, <1>4, Fun_IsInj
  <2>2. g \in Surjection(F \X Field, W)
    BY <1>3, <1>5, Fun_IsSurj
  <2> QED
    BY <2>1, <2>2 DEF Bijection
<1>7. IsFiniteSet(F \X Field) /\ Cardinality(F \X Field) = Cardinality(F) * Order
  BY <1>1, FieldIsFinite, FS_Product
<1>8. Cardinality(W) = Cardinality(F \X Field)
  BY <1>6, <1>7, FS_Bijection DEF ExistsBijection
<1> QED
  BY <1>7, <1>8 DEF F

\* The sum of a polynomial and a multiple of another.
LEMMA EvalAdd ==
    ASSUME NEW k \in Nat, k >= 1, NEW c \in Polynomials(k), NEW z \in Polynomials(k), NEW b \in Field,
           NEW x \in Field, NEW u \in Polynomials(k),
           \A j \in 1..k : u[j] = gf_add(c[j], gf_mul(b, z[j]))
    PROVE  eval_poly(u, x) = gf_add(eval_poly(c, x), gf_mul(b, eval_poly(z, x)))
<1>1. /\ c \in Seq(Field) /\ z \in Seq(Field) /\ u \in Seq(Field)
      /\ Len(c) = k /\ Len(z) = k /\ Len(u) = k
  BY PolynomialsAreSequences
<1>2. \A j \in 1..k : c[j] \in Field /\ z[j] \in Field
  BY DEF Polynomials
<1>3. PICK r \in Horners(c, x) : eval_poly(c, x) = r[k]
  BY <1>1, Horner
<1>4. PICK s \in Horners(z, x) : eval_poly(z, x) = s[k]
  BY <1>1, Horner
<1>5. PICK t \in Horners(u, x) : eval_poly(u, x) = t[k]
  BY <1>1, Horner
<1>6. /\ r[0] = 0 /\ s[0] = 0 /\ t[0] = 0
      /\ \A n \in 0..k : r[n] \in Field /\ s[n] \in Field
      /\ \A n \in 1..k : /\ r[n] = gf_add(gf_mul(r[n - 1], x), c[k + 1 - n])
                         /\ s[n] = gf_add(gf_mul(s[n - 1], x), z[k + 1 - n])
                         /\ t[n] = gf_add(gf_mul(t[n - 1], x), u[k + 1 - n])
  BY <1>1 DEF Horners
<1> DEFINE S == {n \in 0..k : t[n] = gf_add(r[n], gf_mul(b, s[n]))}
<1>7. 0 \in S
  <2>1. gf_mul(b, 0) = 0 /\ gf_add(0, 0) = 0
    BY Addition, Multiplication
  <2> QED
    BY <1>6, <2>1
<1>8. ASSUME NEW n \in 0 .. k - 1, n \in S PROVE n + 1 \in S
  <2> DEFINE p == r[n]
             q == s[n]
             v == c[k - n]
             w == z[k - n]
  <2>1. /\ n + 1 \in 1..k /\ k - n \in 1..k /\ n \in 0..k /\ n + 1 \in 0..k
        /\ (n + 1) - 1 = n /\ k + 1 - (n + 1) = k - n
    OBVIOUS
  <2>2. p \in Field /\ q \in Field /\ v \in Field /\ w \in Field
    BY <1>2, <1>6, <2>1
  <2>3. /\ r[n + 1] = gf_add(gf_mul(p, x), v) /\ s[n + 1] = gf_add(gf_mul(q, x), w)
        /\ t[n + 1] = gf_add(gf_mul(gf_add(p, gf_mul(b, q)), x), gf_add(v, gf_mul(b, w)))
    BY <1>6, <1>8, <2>1
  <2> HIDE DEF p, q, v, w, S
  <2>4. gf_add(gf_mul(gf_add(p, gf_mul(b, q)), x), gf_add(v, gf_mul(b, w)))
          = gf_add(gf_add(gf_mul(p, x), v), gf_mul(b, gf_add(gf_mul(q, x), w)))
    <3> DEFINE px == gf_mul(p, x)
               bqx == gf_mul(gf_mul(b, q), x)
               bw == gf_mul(b, w)
    <3>1. gf_mul(b, q) \in Field /\ px \in Field /\ bw \in Field /\ gf_mul(q, x) \in Field
      BY <2>2, Multiplication
    <3>2. bqx \in Field /\ gf_add(p, gf_mul(b, q)) \in Field
      BY <2>2, <3>1, Addition, Multiplication
    <3>3. gf_mul(gf_add(p, gf_mul(b, q)), x) = gf_add(px, bqx)
      <4>1. /\ gf_mul(gf_add(p, gf_mul(b, q)), x) = gf_mul(x, gf_add(p, gf_mul(b, q)))
            /\ gf_mul(x, gf_add(p, gf_mul(b, q))) = gf_add(gf_mul(x, p), gf_mul(x, gf_mul(b, q)))
            /\ gf_mul(x, p) = px /\ gf_mul(x, gf_mul(b, q)) = bqx
        BY <2>2, <3>1, <3>2, Multiplication
      <4> QED
        BY <4>1
    <3>4. gf_mul(b, gf_add(gf_mul(q, x), w)) = gf_add(bqx, bw)
      <4>1. /\ gf_mul(b, gf_add(gf_mul(q, x), w)) = gf_add(gf_mul(b, gf_mul(q, x)), bw)
            /\ gf_mul(b, gf_mul(q, x)) = bqx
        BY <2>2, <3>1, Multiplication
      <4> QED
        BY <4>1
    <3> HIDE DEF px, bqx, bw
    <3>5. gf_add(gf_add(px, bqx), gf_add(v, bw)) = gf_add(gf_add(px, v), gf_add(bqx, bw))
      <4>1. /\ gf_add(gf_add(px, bqx), gf_add(v, bw)) = gf_add(px, gf_add(bqx, gf_add(v, bw)))
            /\ gf_add(bqx, gf_add(v, bw)) = gf_add(gf_add(bqx, v), bw)
            /\ gf_add(bqx, v) = gf_add(v, bqx)
            /\ gf_add(gf_add(v, bqx), bw) = gf_add(v, gf_add(bqx, bw))
            /\ gf_add(px, gf_add(v, gf_add(bqx, bw))) = gf_add(gf_add(px, v), gf_add(bqx, bw))
        <5>1. v \in Field /\ px \in Field /\ bqx \in Field /\ bw \in Field
              /\ gf_add(v, bw) \in Field /\ gf_add(bqx, bw) \in Field
          BY <2>2, <3>1, <3>2, Addition
        <5> HIDE DEF bqx, bw, px, v
        <5> QED
          BY <5>1, Addition
      <4> QED
        BY <4>1
    <3> QED
      BY <3>3, <3>4, <3>5 DEF px, bw
  <2> QED
    BY <2>1, <2>3, <2>4 DEF S
<1> HIDE DEF S
<1>9. 0..k \subseteq S
  BY <1>7, <1>8, Induction
<1> QED
  BY <1>3, <1>4, <1>5, <1>9 DEF S

\* A polynomial times x.
LEMMA EvalTimes ==
    ASSUME NEW k \in Nat, k >= 1, NEW z \in Polynomials(k), z[k] = 0, NEW x \in Field,
           NEW u \in Polynomials(k), u[1] = 0, \A j \in 2..k : u[j] = z[j - 1]
    PROVE  eval_poly(u, x) = gf_mul(eval_poly(z, x), x)
<1>1. /\ z \in Seq(Field) /\ u \in Seq(Field) /\ Len(z) = k /\ Len(u) = k
  BY PolynomialsAreSequences
<1>2. PICK r \in Horners(z, x) : eval_poly(z, x) = r[k]
  BY <1>1, Horner
<1>3. PICK s \in Horners(u, x) : eval_poly(u, x) = s[k]
  BY <1>1, Horner
<1>4. /\ r[0] = 0 /\ s[0] = 0 /\ \A n \in 0..k : r[n] \in Field /\ s[n] \in Field
      /\ \A n \in 1..k : /\ r[n] = gf_add(gf_mul(r[n - 1], x), z[k + 1 - n])
                         /\ s[n] = gf_add(gf_mul(s[n - 1], x), u[k + 1 - n])
  BY <1>1 DEF Horners
<1>5. gf_mul(0, x) = 0 /\ gf_add(0, 0) = 0
  BY Addition, Multiplication
<1> DEFINE S == {n \in 0 .. k - 1 : s[n] = r[n + 1]}
<1>6. 0 \in S
  <2>1. 1 \in 1..k /\ 1 - 1 = 0 /\ k + 1 - 1 = k /\ 0 + 1 = 1 /\ 0 \in 0 .. k - 1
    OBVIOUS
  <2>2. r[1] = gf_add(gf_mul(r[0], x), z[k])
    BY <1>4, <2>1
  <2> QED
    BY <1>4, <1>5, <2>1, <2>2
<1>7. ASSUME NEW n \in 0 .. (k - 1) - 1, n \in S PROVE n + 1 \in S
  <2>1. /\ n + 1 \in 1..k /\ (n + 1) + 1 \in 1..k /\ n + 1 \in 0 .. k - 1
        /\ (n + 1) - 1 = n /\ ((n + 1) + 1) - 1 = n + 1
        /\ k + 1 - (n + 1) = k - n /\ k + 1 - ((n + 1) + 1) = (k - n) - 1 /\ k - n \in 2..k
    OBVIOUS
  <2>2. s[n + 1] = gf_add(gf_mul(s[n], x), u[k - n])
    BY <1>4, <2>1
  <2>3. r[(n + 1) + 1] = gf_add(gf_mul(r[n + 1], x), z[(k - n) - 1])
    BY <1>4, <2>1
  <2>4. u[k - n] = z[(k - n) - 1] /\ s[n] = r[n + 1]
    BY <1>7, <2>1
  <2> QED
    BY <2>1, <2>2, <2>3, <2>4
<1> HIDE DEF S
<1>8. 0 .. k - 1 \subseteq S
  <2>1. k - 1 \in Nat
    OBVIOUS
  <2> QED
    BY <1>6, <1>7, <2>1, Induction
<1>9. s[k - 1] = r[k]
  <2>1. k - 1 \in 0 .. k - 1 /\ (k - 1) + 1 = k
    OBVIOUS
  <2> QED
    BY <1>8, <2>1 DEF S
<1>10. s[k] = gf_add(gf_mul(s[k - 1], x), u[1])
  <2>1. k \in 1..k /\ k + 1 - k = 1
    OBVIOUS
  <2> QED
    BY <1>4, <2>1
<1>11. r[k] \in Field
  BY <1>4
<1>12. gf_mul(r[k], x) \in Field
  BY <1>11, Multiplication
<1>13. gf_add(gf_mul(r[k], x), 0) = gf_mul(r[k], x)
  BY <1>12, Addition
<1> QED
  BY <1>2, <1>3, <1>9, <1>10, <1>13

\* The polynomials that are 1 at 0 and 0 at the points, with one coefficient more than points.
Vanishing(k, n, x, I) ==
    {z \in Polynomials(k) : /\ z[1] = 1
                            /\ \A j \in 1..k : j > n + 1 => z[j] = 0
                            /\ \A i \in I : eval_poly(z, x[i]) = 0}

\* The constant 1 for no points, ...
LEMMA OneVanishes ==
    ASSUME NEW k \in Nat, k >= 1, NEW x
    PROVE  \E z : z \in Vanishing(k, 0, x, {})
<1> DEFINE z == [j \in 1..k |-> IF j = 1 THEN 1 ELSE 0]
<1>1. z \in Polynomials(k)
  BY Addition DEF Polynomials
<1>2. z[1] = 1 /\ \A j \in 1..k : j > 0 + 1 => z[j] = 0
  OBVIOUS
<1> HIDE DEF z
<1> QED
  BY <1>1, <1>2 DEF Vanishing

\* ... and 1 + x / x[a] times a polynomial for the others for one point more.
LEMMA OneMoreVanishes ==
    ASSUME NEW k \in Nat, NEW n \in Nat, n + 1 < k, NEW I, NEW x, \A i \in I : x[i] \in Field \ {0},
           NEW a \in I, NEW z \in Vanishing(k, n, x, I \ {a})
    PROVE  \E v : v \in Vanishing(k, n + 1, x, I)
<1> DEFINE b == gf_div(1, x[a])
           u == [j \in 1..k |-> IF j = 1 THEN 0 ELSE z[j - 1]]
           v == [j \in 1..k |-> gf_add(z[j], gf_mul(b, u[j]))]
<1>1. /\ 0 \in Field /\ 1 \in Field /\ x[a] \in Field /\ x[a] # 0
  BY Addition
<1>2. /\ b \in Field /\ gf_mul(b, x[a]) = 1
  BY <1>1, Division
<1>3. /\ z \in Polynomials(k) /\ z[1] = 1 /\ z[k] = 0 /\ 1 \in 1..k /\ k >= 1
      /\ \A j \in 1..k : z[j] \in Field /\ (j > n + 1 => z[j] = 0)
      /\ \A i \in I \ {a} : eval_poly(z, x[i]) = 0
  BY DEF Vanishing, Polynomials
<1>4. /\ u \in Polynomials(k) /\ u[1] = 0 /\ \A j \in 2..k : u[j] = z[j - 1]
      /\ \A j \in 1..k : u[j] \in Field
  <2>1. \A j \in 1..k : j # 1 => j - 1 \in 1..k
    OBVIOUS
  <2>2. \A j \in 1..k : u[j] \in Field
    BY <1>1, <1>3, <2>1
  <2>3. \A j \in 2..k : j \in 1..k /\ j # 1
    OBVIOUS
  <2>4. u = [j \in 1..k |-> u[j]] /\ u[1] = 0 /\ \A j \in 2..k : u[j] = z[j - 1]
    BY <1>3, <2>3
  <2> HIDE DEF u
  <2>5. u \in Polynomials(k)
    BY <2>2, <2>4 DEF Polynomials
  <2> QED
    BY <2>2, <2>4, <2>5
<1> HIDE DEF b, u
<1>5. ASSUME NEW j \in 1..k PROVE v[j] \in Field /\ v[j] = gf_add(z[j], gf_mul(b, u[j]))
  <2>1. gf_mul(b, u[j]) \in Field
    BY <1>2, <1>4, Multiplication
  <2> QED
    BY <1>3, <2>1, Addition
<1>6. v \in Polynomials(k)
  BY <1>5 DEF Polynomials
<1>7. gf_mul(b, 0) = 0 /\ gf_add(1, 0) = 1 /\ gf_add(0, 0) = 0
  BY <1>1, <1>2, Addition, Multiplication
<1>8. v[1] = 1
  BY <1>3, <1>4, <1>5, <1>7
<1>9. ASSUME NEW j \in 1..k, j > (n + 1) + 1 PROVE v[j] = 0
  <2>1. j \in 2..k /\ j - 1 \in 1..k /\ j - 1 > n + 1 /\ j > n + 1
    BY <1>9
  <2>2. z[j] = 0 /\ u[j] = 0
    BY <1>3, <1>4, <2>1
  <2> QED
    BY <1>5, <1>7, <2>2
<1>10. ASSUME NEW i \in I PROVE eval_poly(v, x[i]) = 0
  <2> DEFINE p == x[i]
             w == eval_poly(z, p)
  <2>1. p \in Field
    OBVIOUS
  <2>2. w \in Field
    BY <1>3, <2>1, PolynomialsAreSequences, EvalInField
  <2> HIDE DEF v, p
  <2>3. eval_poly(v, p) = gf_add(w, gf_mul(b, eval_poly(u, p)))
    BY <1>2, <1>3, <1>4, <1>5, <1>6, <2>1, EvalAdd
  <2>4. eval_poly(u, p) = gf_mul(w, p)
    BY <1>3, <1>4, <2>1, EvalTimes
  <2> HIDE DEF w
  <2>5. CASE i = a
    <3>1. gf_mul(b, p) = 1
      BY <1>2, <2>5 DEF p
    <3>2. /\ gf_mul(b, gf_mul(w, p)) = gf_mul(gf_mul(b, w), p)
          /\ gf_mul(gf_mul(b, w), p) = gf_mul(gf_mul(b, p), w)
      BY <1>2, <2>1, <2>2, Multiplication, MulSwap
    <3>3. gf_mul(1, w) = w /\ gf_add(w, w) = 0
      BY <2>2, Addition, Multiplication
    <3> QED
      BY <2>3, <2>4, <3>1, <3>2, <3>3 DEF p
  <2>6. CASE i # a
    <3>1. w = 0
      BY <1>3, <2>6 DEF w, p
    <3>2. gf_mul(0, p) = 0
      BY <2>1, Multiplication
    <3> QED
      BY <1>7, <2>3, <2>4, <3>1, <3>2 DEF p
  <2> QED
    BY <2>5, <2>6
<1> HIDE DEF v
<1> QED
  BY <1>6, <1>8, <1>9, <1>10 DEF Vanishing

\* There is such a polynomial when the points are fewer than its coefficients.
LEMMA Vanishes ==
    ASSUME NEW T \in Nat, NEW I \in SUBSET (1..T), NEW x, \A i \in I : x[i] \in Field \ {0},
           NEW k \in Nat, Cardinality(I) < k
    PROVE  \E z : z \in Vanishing(k, Cardinality(I), x, I)
<1> DEFINE Fine(J) == Cardinality(J) < k => \E z : z \in Vanishing(k, Cardinality(J), x, J)
           S == {n \in 0..T : \A J \in SUBSET I : Cardinality(J) = n => Fine(J)}
<1>1. ASSUME NEW J \in SUBSET I PROVE IsFiniteSet(J) /\ Cardinality(J) \in 0..T
  <2>1. IsFiniteSet(1..T) /\ Cardinality(1..T) = T
    BY FS_Interval
  <2>2. J \in SUBSET (1..T)
    OBVIOUS
  <2>3. IsFiniteSet(J) /\ Cardinality(J) <= T
    BY <2>1, <2>2, FS_Subset
  <2> QED
    BY <2>3, FS_CardinalityType
<1>2. 0 \in S
  <2> SUFFICES ASSUME NEW J \in SUBSET I, Cardinality(J) = 0, 0 < k
               PROVE  \E z : z \in Vanishing(k, 0, x, J)
    OBVIOUS
  <2>1. J = {}
    BY <1>1, FS_EmptySet
  <2> QED
    BY <2>1, OneVanishes
<1>3. ASSUME NEW n \in 0 .. T - 1, n \in S PROVE n + 1 \in S
  <2> SUFFICES ASSUME NEW J \in SUBSET I, Cardinality(J) = n + 1, n + 1 < k
               PROVE  \E z : z \in Vanishing(k, n + 1, x, J)
    OBVIOUS
  <2>1. PICK a \in J : TRUE
    <3>1. Cardinality(J) # 0
      OBVIOUS
    <3>2. J # {}
      BY <3>1, FS_EmptySet, Zenon
    <3> QED
      BY <3>2
  <2>2. J \ {a} \in SUBSET I /\ Cardinality(J \ {a}) = n
    <3>1. IsFiniteSet(J)
      BY <1>1
    <3>2. Cardinality(J \ {a}) = Cardinality(J) - 1
      BY <2>1, <3>1, FS_RemoveElement
    <3> QED
      BY <3>2
  <2>3. \E z : z \in Vanishing(k, n, x, J \ {a})
    BY <1>3, <2>2
  <2>4. \A i \in J : x[i] \in Field \ {0}
    OBVIOUS
  <2>5. PICK z : z \in Vanishing(k, n, x, J \ {a})
    BY <2>3
  <2>6. n \in Nat /\ n + 1 < k /\ k \in Nat
    OBVIOUS
  <2> QED
    BY <2>1, <2>4, <2>5, <2>6, OneMoreVanishes
<1> HIDE DEF S
<1>4. 0..T \subseteq S
  BY <1>2, <1>3, Induction
<1>5. Fine(I)
  BY <1>1, <1>4 DEF S
<1> QED
  BY <1>5

\* The masks there may be.
Pads == IF scheme = "krypt1-prime" THEN Field ELSE {0}

\* What it is to explain known records.
LEMMA Explained ==
    ASSUME NEW known
    PROVE  \A e : e \in Explanations(known) <=>
              /\ e \in Pads \X Polynomials(PoolThreshold)
              /\ \A i \in known :
                    records[i].y = IF records[i].kind = "prime" THEN e[1] ELSE eval_poly(e[2], records[i].x)
BY DEF Explanations, Pads

\* What is added twice is gone.
LEMMA AddTwice ==
    ASSUME NEW a \in Field, NEW d \in Field
    PROVE  gf_add(gf_add(a, d), d) = a
<1>1. gf_add(gf_add(a, d), d) = gf_add(a, gf_add(d, d)) /\ gf_add(d, d) = 0 /\ gf_add(a, 0) = a
  BY Addition
<1> QED
  BY <1>1

\* Without the prime record any change of the secret may be one of the mask.
LEMMA MaskHides ==
    ASSUME NEW known, scheme = "krypt1-prime", \A i \in known : records[i].kind # "prime",
           PoolThreshold \in Nat, PoolThreshold >= 1
    PROVE  \E shift \in [Explanations(known) -> [Field -> Explanations(known)]] :
              \A e \in Explanations(known), d \in Field :
                 /\ SecretOf(shift[e][d]) = gf_add(SecretOf(e), d)
                 /\ shift[shift[e][d]][d] = e
<1> DEFINE W == Explanations(known)
           moved(e, d) == <<gf_add(e[1], d), e[2]>>
           shift == [e \in W |-> [d \in Field |-> moved(e, d)]]
<1>1. ASSUME NEW e \in W
      PROVE  /\ e[1] \in Field /\ e[2] \in Polynomials(PoolThreshold) /\ e[2][1] \in Field
             /\ e = <<e[1], e[2]>>
             /\ \A i \in known : records[i].y = eval_poly(e[2], records[i].x)
  <2>1. e \in Field \X Polynomials(PoolThreshold)
    BY Explained DEF Pads
  <2>2. e[2] \in Polynomials(PoolThreshold)
    BY <2>1
  <2>3. e[2][1] \in Field
    BY <2>2, PolynomialsAreSequences
  <2>4. \A i \in known : records[i].y = eval_poly(e[2], records[i].x)
    BY Explained
  <2> QED
    BY <2>1, <2>3, <2>4
<1>2. ASSUME NEW e \in W, NEW d \in Field
      PROVE  /\ moved(e, d) \in W
             /\ SecretOf(moved(e, d)) = gf_add(SecretOf(e), d)
             /\ moved(moved(e, d), d) = e
  <2>1. e[1] \in Field /\ e[2][1] \in Field /\ gf_add(e[1], d) \in Field
    BY <1>1, Addition
  <2>2. moved(e, d) \in Pads \X Polynomials(PoolThreshold)
    BY <1>1, <2>1 DEF Pads
  <2>3. moved(e, d)[1] = gf_add(e[1], d) /\ moved(e, d)[2] = e[2]
    OBVIOUS
  <2>4. moved(e, d) \in W
    BY <1>1, <2>2, <2>3, Explained
  <2>5. gf_add(gf_add(e[1], d), e[2][1]) = gf_add(gf_add(e[1], e[2][1]), d)
    <3>1. \A a, b, c \in Field : /\ gf_add(gf_add(a, b), c) = gf_add(a, gf_add(b, c))
                                 /\ gf_add(b, c) = gf_add(c, b)
      BY Addition
    <3> QED
      BY <2>1, <3>1
  <2>6. gf_add(gf_add(e[1], d), d) = e[1]
    BY <2>1, AddTwice
  <2> QED
    BY <1>1, <2>3, <2>4, <2>5, <2>6 DEF SecretOf
<1> HIDE DEF moved, W
<1>3. shift \in [W -> [Field -> W]]
  BY <1>2
<1>4. \A e \in W, d \in Field : shift[e][d] = moved(e, d)
  OBVIOUS
<1> HIDE DEF shift
<1> QED
  BY <1>2, <1>3, <1>4 DEF W

\* With fewer pool records than the threshold it may be one of the coefficients.
LEMMA CoefficientsHide ==
    ASSUME IInv, SharingInv, scheme # "none", NEW known \in SUBSET DOMAIN records,
           Cardinality({i \in known : records[i].kind = "pool"}) < PoolThreshold,
           PoolThreshold \in Nat, PoolThreshold >= 1
    PROVE  \E shift \in [Explanations(known) -> [Field -> Explanations(known)]] :
              \A e \in Explanations(known), d \in Field :
                 /\ SecretOf(shift[e][d]) = gf_add(SecretOf(e), d)
                 /\ shift[shift[e][d]][d] = e
<1> DEFINE W == Explanations(known)
           k == PoolThreshold
           I == {i \in known : records[i].kind = "pool"}
           x == [i \in DOMAIN records |-> records[i].x]
<1>1. /\ trustees \in Nat /\ DOMAIN records = 1..trustees /\ trustees <= Order - 1
      /\ \A i \in known : i \in DOMAIN records /\ records[i].kind \in {"prime", "pool"}
  BY DEF IInv, RecordsAreSealed, SharingInv, RecordsAreShares
<1>2. \A i \in I : x[i] = records[i].x /\ x[i] \in Field \ {0}
  <2>1. \A i \in I : i \in DOMAIN records /\ records[i].kind = "pool"
    BY <1>1
  <2>2. \A i \in I : records[i].x \in 1..trustees
    BY <2>1 DEF SharingInv, RecordsAreShares, PoolsDiffer
  <2>3. \A i \in I : records[i].x \in Field \ {0}
    BY <1>1, <2>2, NumbersArePoints
  <2> QED
    BY <2>1, <2>3
<1>3. PICK z \in Polynomials(k) : z[1] = 1 /\ \A i \in I : eval_poly(z, x[i]) = 0
  <2>1. I \in SUBSET (1..trustees)
    BY <1>1
  <2>2. Cardinality(I) < k /\ k \in Nat
    OBVIOUS
  <2>3. \A i \in I : x[i] \in Field \ {0}
    BY <1>2
  <2>4. trustees \in Nat
    BY <1>1
  <2> HIDE DEF I, x, k
  <2>5. \E z : z \in Vanishing(k, Cardinality(I), x, I)
    BY <2>1, <2>2, <2>3, <2>4, Vanishes
  <2> QED
    BY <2>5 DEF Vanishing
<1> DEFINE sum(c, d) == [j \in 1..k |-> gf_add(c[j], gf_mul(d, z[j]))]
           moved(e, d) == <<e[1], sum(e[2], d)>>
           shift == [e \in W |-> [d \in Field |-> moved(e, d)]]
<1>4. /\ 1 \in 1..k /\ \A j \in 1..k : z[j] \in Field
  BY <1>3 DEF Polynomials
<1>5. ASSUME NEW c \in Polynomials(k), NEW d \in Field
      PROVE  /\ sum(c, d) \in Polynomials(k) /\ sum(c, d)[1] = gf_add(c[1], d) /\ sum(sum(c, d), d) = c
             /\ \A j \in 1..k : sum(c, d)[j] = gf_add(c[j], gf_mul(d, z[j]))
  <2>1. ASSUME NEW j \in 1..k
        PROVE  /\ c[j] \in Field /\ gf_add(c[j], gf_mul(d, z[j])) \in Field
               /\ gf_add(gf_add(c[j], gf_mul(d, z[j])), gf_mul(d, z[j])) = c[j]
    <3>1. c[j] \in Field
      BY DEF Polynomials
    <3>2. gf_mul(d, z[j]) \in Field
      BY <1>4, Multiplication
    <3> QED
      BY <3>1, <3>2, Addition, AddTwice
  <2>2. sum(c, d) \in Polynomials(k)
    BY <2>1 DEF Polynomials
  <2>3. sum(c, d)[1] = gf_add(c[1], d)
    <3>1. gf_mul(d, 1) = d
      BY Multiplication
    <3> QED
      BY <1>3, <1>4, <3>1
  <2>4. sum(sum(c, d), d) = c
    <3>1. c = [j \in 1..k |-> c[j]]
      BY DEF Polynomials
    <3> QED
      BY <2>1, <3>1
  <2> QED
    BY <2>2, <2>3, <2>4
<1>6. ASSUME NEW e \in W
      PROVE  /\ e \in Pads \X Polynomials(k) /\ e[1] \in Pads /\ e[2] \in Polynomials(k)
             /\ e[1] \in Field /\ e[2][1] \in Field /\ e = <<e[1], e[2]>>
             /\ \A i \in known :
                   records[i].y = IF records[i].kind = "prime" THEN e[1] ELSE eval_poly(e[2], records[i].x)
  <2>1. e \in Pads \X Polynomials(k)
        /\ \A i \in known :
              records[i].y = IF records[i].kind = "prime" THEN e[1] ELSE eval_poly(e[2], records[i].x)
    BY Explained
  <2>2. e[2] \in Polynomials(k) /\ e[1] \in Pads
    BY <2>1
  <2>3. e[2][1] \in Field
    BY <2>2, PolynomialsAreSequences
  <2>4. e[1] \in Field
    BY <2>2, Addition DEF Pads
  <2> QED
    BY <2>1, <2>2, <2>3, <2>4
<1> HIDE DEF sum, x, W, k
<1>7. ASSUME NEW e \in W, NEW d \in Field
      PROVE  /\ moved(e, d) \in W
             /\ SecretOf(moved(e, d)) = gf_add(SecretOf(e), d)
             /\ moved(moved(e, d), d) = e
  <2> DEFINE c == sum(e[2], d)
  <2>1. moved(e, d)[1] = e[1] /\ moved(e, d)[2] = c
    OBVIOUS
  <2>2. c \in Polynomials(k) /\ c[1] = gf_add(e[2][1], d) /\ sum(c, d) = e[2]
        /\ \A j \in 1..k : c[j] = gf_add(e[2][j], gf_mul(d, z[j]))
    BY <1>5, <1>6
  <2> HIDE DEF c
  <2>3. ASSUME NEW i \in known
        PROVE  records[i].y = IF records[i].kind = "prime" THEN e[1] ELSE eval_poly(c, records[i].x)
    <3>1. CASE records[i].kind = "prime"
      BY <1>6, <3>1
    <3>2. CASE records[i].kind # "prime"
      <4>1. i \in I
        BY <1>1, <3>2
      <4> DEFINE p == records[i].x
      <4>2. p \in Field /\ eval_poly(z, p) = 0
        BY <1>2, <1>3, <4>1
      <4> HIDE DEF p
      <4>3. eval_poly(c, p) = gf_add(eval_poly(e[2], p), gf_mul(d, eval_poly(z, p)))
        BY <1>3, <1>6, <2>2, <4>2, EvalAdd DEF k
      <4>4. eval_poly(e[2], p) \in Field
        BY <1>6, <4>2, PolynomialsAreSequences, EvalInField DEF k
      <4>5. gf_mul(d, 0) = 0 /\ gf_add(eval_poly(e[2], p), 0) = eval_poly(e[2], p)
        BY <4>4, Addition, Multiplication
      <4>6. eval_poly(c, p) = eval_poly(e[2], p)
        BY <4>2, <4>3, <4>5
      <4> QED
        BY <1>6, <3>2, <4>6 DEF p
    <3> QED
      BY <3>1, <3>2
  <2>4. moved(e, d) \in W
    <3>1. moved(e, d) \in Pads \X Polynomials(PoolThreshold)
      BY <1>6, <2>2 DEF c, k
    <3> HIDE DEF moved
    <3> QED
      BY <2>1, <2>3, <3>1, Explained DEF W
  <2>5. gf_add(e[1], gf_add(e[2][1], d)) = gf_add(gf_add(e[1], e[2][1]), d)
    BY <1>6, Addition
  <2>6. moved(moved(e, d), d) = <<e[1], e[2]>>
    BY <2>2 DEF c
  <2> QED
    BY <1>6, <2>1, <2>2, <2>4, <2>5, <2>6 DEF SecretOf
<1> HIDE DEF moved
<1>8. shift \in [W -> [Field -> W]]
  BY <1>7
<1>9. \A e \in W, d \in Field : shift[e][d] = moved(e, d)
  OBVIOUS
<1> HIDE DEF shift
<1> QED
  BY <1>7, <1>8, <1>9 DEF W

\* Records that are no quorum can be explained for every secret equally often.
LEMMA TooFewIsNothing ==
    ASSUME IInv, SharingInv, scheme # "none", NEW known \in SUBSET DOMAIN records, ~Quorum(known),
           NEW s \in Field
    PROVE  Cardinality({e \in Explanations(known) : SecretOf(e) = s}) * Order
              = Cardinality(Explanations(known))
<1> DEFINE W == Explanations(known)
           sec == [e \in W |-> SecretOf(e)]
           pools == {i \in known : records[i].kind = "pool"}
<1>1. PoolThreshold \in Nat /\ PoolThreshold >= 1
  BY DEF SharingInv, RecordsAreShares, PoolThreshold
<1>2. IsFiniteSet(W)
  <2>1. IsFiniteSet(Pads)
    BY FieldIsFinite, FS_Singleton DEF Pads
  <2>2. IsFiniteSet(Pads \X Polynomials(PoolThreshold))
    BY <1>1, <2>1, PolynomialsAreFinite, FS_Product
  <2>3. W \in SUBSET (Pads \X Polynomials(PoolThreshold))
    BY Explained
  <2> QED
    BY <2>2, <2>3, FS_Subset
<1>3. \E shift \in [W -> [Field -> W]] :
         \A e \in W, d \in Field :
            /\ SecretOf(shift[e][d]) = gf_add(SecretOf(e), d)
            /\ shift[shift[e][d]][d] = e
  <2>1. CASE Cardinality(pools) < PoolThreshold
    BY <1>1, <2>1, CoefficientsHide
  <2>2. CASE ~(Cardinality(pools) < PoolThreshold)
    <3>1. Cardinality(pools) \in Nat
      <4>1. pools \in SUBSET (1..trustees) /\ trustees \in Nat
        BY DEF IInv, RecordsAreSealed
      <4> QED
        BY <4>1, Numbering
    <3>2. scheme = "krypt1-prime" /\ \A i \in known : records[i].kind # "prime"
      BY <1>1, <2>2, <3>1 DEF Quorum
    <3> QED
      BY <1>1, <3>2, MaskHides
  <2> QED
    BY <2>1, <2>2
<1>4. sec \in [W -> Field]
  <2>1. ASSUME NEW e \in W PROVE SecretOf(e) \in Field
    <3>1. e[1] \in Pads /\ e[2] \in Polynomials(PoolThreshold)
      <4>1. e \in Pads \X Polynomials(PoolThreshold)
        BY Explained
      <4> QED
        BY <4>1
    <3>2. e[1] \in Field /\ e[2][1] \in Field
      BY <1>1, <3>1, Addition, PolynomialsAreSequences DEF Pads
    <3> QED
      BY <3>2, Addition DEF SecretOf
  <2> QED
    BY <2>1
<1> HIDE DEF W
<1>5. \A e \in W : sec[e] = SecretOf(e)
  OBVIOUS
<1> HIDE DEF sec
<1>6. PICK shift \in [W -> [Field -> W]] :
         \A e \in W, d \in Field :
            /\ SecretOf(shift[e][d]) = gf_add(SecretOf(e), d)
            /\ shift[shift[e][d]][d] = e
  BY <1>3
<1>7. \A e \in W, d \in Field : /\ sec[shift[e][d]] = gf_add(sec[e], d)
                                /\ shift[shift[e][d]][d] = e
  BY <1>5, <1>6
<1>8. Cardinality({e \in W : sec[e] = s}) * Order = Cardinality(W)
  BY <1>2, <1>4, <1>7, EvenlySpread
<1>9. {e \in W : sec[e] = s} = {e \in W : SecretOf(e) = s}
  BY <1>5
<1> QED
  BY <1>8, <1>9 DEF W

\* Records that are no quorum are as likely with one secret as with any other
\* (gf256_sss_prime.py:24-29).
THEOREM TooFewLearnNothing == Spec => []TooFewTellNothing
<1>1. IInv /\ SharingInv => TooFewTellNothing
  BY TooFewIsNothing DEF TooFewTellNothing
<1> QED
  BY <1>1, MatchingInvariant, SharesStayShares, PTL
=============================================================================
