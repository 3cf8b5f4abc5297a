----------------------------- MODULE LocalVault -----------------------------
(***************************************************************************)
(* A vault made and opened without a combiner, by the command line         *)
(* programs or the desktop application: create_vault and                   *)
(* create_vault_prime, the matching of typed codewords with the shuffled   *)
(* shard records, and the reconstruction of the secret.  Codewords are     *)
(* drawn one by one and may be equal; people type what they like in any    *)
(* order.  AES-GCM is ideal: a record opens for its codeword alone, and    *)
(* the archive for its secret alone.                                       *)
(***************************************************************************)
EXTENDS GF256Sharing, FiniteSets, FiniteSetsExt

CONSTANTS
    Secrets,     \* the bytes a secret may be
    Words,       \* codewords, among those drawn and those typed
    MaxTrustees,
    MaxTyped,    \* bound: codewords typed in one recovery
    None         \* no record, no mask

ASSUME VaultAssumption ==
    /\ Secrets \subseteq Field
    /\ MaxTrustees \in Nat /\ MaxTyped \in Nat
    /\ None \notin Nat

VARIABLES
    scheme,    \* "krypt1" or "krypt1-prime"; "none" before the vault is made
    secret,    \* history: what the archive is encrypted with
    trustees, threshold, \* in the metadata; both count the prime trustee
    records,   \* the shuffled shard records, each with the codeword that opens it
    program,   \* "cli" or "gui" while a recovery is under way, else "none"
    typed,     \* history: how often each codeword was typed
    used_indices,
    mask,      \* of the matched prime record, or None
    shards,    \* of the matched pool records
    result     \* of the recovery that ended last

vault == <<scheme, secret, trustees, threshold, records>>
recovery == <<typed, used_indices, mask, shards>>
vars == <<vault, program, recovery, result>>

Results == {"none", "opened", "too_few", "unreadable"}

Record == [word : Words, kind : {"prime", "pool"}, x : 0..MaxTrustees, y : Field]

Init ==
    /\ scheme = "none" /\ secret = 0 /\ trustees = 0 /\ threshold = 0 /\ records = << >>
    /\ program = "none" /\ result = "none"
    /\ typed = [w \in Words |-> 0] /\ used_indices = {} /\ mask = None /\ shards = << >>

\* How many pool shards the metadata asks for.
PoolThreshold == IF scheme = "krypt1-prime" THEN threshold - 1 ELSE threshold

-----------------------------------------------------------------------------
(* Making a vault *)

Polynomials(degree) == [1..degree -> Field]

\* The records get their codewords one after the other, then SystemRandom().shuffle.
Seal(payloads) ==
    \E order \in SetToSeqs(DOMAIN payloads), word \in [DOMAIN payloads -> Words] :
        records' = [i \in DOMAIN payloads |->
                       [word |-> word[order[i]], kind |-> payloads[order[i]].kind,
                        x |-> payloads[order[i]].x, y |-> payloads[order[i]].y]]

Payload(shard) == [kind |-> "pool", x |-> shard.x, y |-> shard.y]

create_vault(T, D, coeffs) ==
    /\ D <= T
    /\ D >= 1 /\ T <= Order - 1
    /\ scheme' = "krypt1"
    /\ trustees' = T /\ threshold' = D
    /\ secret' = coeffs[1]
    /\ LET shard == split_secret(coeffs, T)
       IN Seal([i \in 1..T |-> Payload(shard[i])])
    /\ UNCHANGED <<program, recovery, result>>

\* The first record is the prime's, with the mask for payload.
create_vault_prime(T, D, pad, coeffs) ==
    /\ D >= 2 /\ D <= T
    /\ T <= Order - 1
    /\ scheme' = "krypt1-prime"
    /\ trustees' = T /\ threshold' = D
    /\ secret' = coeffs[1]
    /\ LET shard == split_secret_with_prime(pad, coeffs, T - 1)
       IN Seal(<<[kind |-> "prime", x |-> 0, y |-> pad]>> \o [i \in 1 .. T - 1 |-> Payload(shard[i])])
    /\ UNCHANGED <<program, recovery, result>>

Create ==
    /\ scheme = "none"
    /\ \E T \in 1..MaxTrustees : \E D \in 1..T :
        \/ \E coeffs \in Polynomials(D) :
              coeffs[1] \in Secrets /\ create_vault(T, D, coeffs)
        \/ \E coeffs \in Polynomials(D - 1), pad \in Field :
              D > 1 /\ coeffs[1] \in Secrets /\ create_vault_prime(T, D, pad, coeffs)

-----------------------------------------------------------------------------
(* Opening it *)

\* Mutant: what an earlier attempt recovered is kept.
ShardsKept == shards

NoShards == << >>

\* A program is started, or Recover clicked: the matching begins with nothing.
Start(p) ==
    /\ scheme # "none" /\ program = "none"
    /\ program' = p
    /\ typed' = [w \in Words |-> 0]
    /\ used_indices' = {} /\ mask' = None /\ shards' = NoShards
    /\ result' = "none"
    /\ UNCHANGED vault

\* Mutant: a record may be matched again.
EveryRecord == DOMAIN records

Unmatched == DOMAIN records \ used_indices

\* What reconstruct_and_decrypt and its prime sister ask for.
Enough == Len(shards) >= PoolThreshold /\ (scheme = "krypt1-prime" => mask # None)

HowMany == FoldSet(LAMBDA w, n : n + typed[w], 0, Words)

\* The command line asks until it has enough.
AsksAgain == program = "cli" /\ ~Enough

\* The application has threshold entry fields.
HasField == program = "gui" /\ HowMany < threshold

\* Blank input is passed over by both.
MayType ==
    \/ AsksAgain /\ HowMany < MaxTyped
    \/ HasField

\* The first record not used yet that the codeword opens.
try_match_word(w) ==
    LET opens == {i \in Unmatched : records[i].word = w}
    IN IF opens = {} THEN None ELSE Min(opens)

Type(w) ==
    /\ MayType
    /\ typed' = [typed EXCEPT ![w] = @ + 1]
    /\ LET idx == try_match_word(w) IN
       \/ idx = None /\ UNCHANGED <<used_indices, mask, shards>>
       \/ /\ idx # None
          /\ used_indices' = used_indices \cup {idx}
          /\ IF records[idx].kind = "prime"
             THEN mask' = records[idx].y /\ UNCHANGED shards
             ELSE /\ shards' = Append(shards, [x |-> records[idx].x, y |-> records[idx].y])
                  /\ UNCHANGED mask
    /\ UNCHANGED <<vault, program, result>>

Reconstructed ==
    IF scheme = "krypt1-prime" THEN reconstruct_secret_with_prime(mask, shards)
    ELSE reconstruct_secret(shards)

\* The command line goes on when it has enough, the application whatever was typed,
\* if anything was.
GoesOn ==
    \/ program = "cli" /\ Enough
    \/ program = "gui" /\ HowMany > 0

Reconstruct ==
    /\ GoesOn
    /\ result' = IF ~Enough THEN "too_few"
                 ELSE IF Reconstructed = secret THEN "opened" ELSE "unreadable"
    /\ program' = "none"
    /\ UNCHANGED <<vault, recovery>>

\* The person at the prompt gives up.
Abandon ==
    /\ AsksAgain
    /\ program' = "none"
    /\ UNCHANGED <<vault, recovery, result>>

Next ==
    \/ Create
    \/ \E p \in {"cli", "gui"} : Start(p)
    \/ \E w \in Words : Type(w)
    \/ Reconstruct \/ Abandon

Spec == Init /\ [][Next]_vars

-----------------------------------------------------------------------------
(* Properties *)

TypeOK ==
    /\ scheme \in {"none", "krypt1", "krypt1-prime"}
    /\ secret \in Field
    /\ trustees \in 0..MaxTrustees /\ threshold \in 0..trustees
    /\ records \in Seq(Record) /\ Len(records) = trustees
    /\ program \in {"none", "cli", "gui"}
    /\ typed \in [Words -> Nat]
    /\ used_indices \subseteq DOMAIN records
    /\ mask \in {None} \cup Field
    /\ shards \in Seq([x : 1..MaxTrustees, y : Field]) /\ Len(shards) <= trustees
    /\ result \in Results

\* The records that n copies of a codeword open are the first n that it can.
Matched ==
    {i \in DOMAIN records :
        Cardinality({j \in 1..i : records[j].word = records[i].word}) <= typed[records[i].word]}

\* What was matched depends on how often each codeword was typed and not on the order:
\* equal codewords of several trustees count once for every time one is typed, and
\* typing a codeword again opens nothing twice (vault_core.py:323-335, 352-362).
OrderDoesNotMatter ==
    /\ used_indices = Matched
    /\ Len(shards) = Cardinality({i \in Matched : records[i].kind = "pool"})
    /\ mask # None <=> \E i \in Matched : records[i].kind = "prime"

\* Whoever typed codewords that open enough records gets the archive, with as many
\* shards more than the threshold as there may be; nobody else does, and no
\* reconstruction from enough records meets a repeated x or a wrong secret.
QuorumOpens ==
    result # "none" =>
        result = IF /\ Cardinality({i \in Matched : records[i].kind = "pool"}) >= PoolThreshold
                    /\ scheme = "krypt1-prime" => \E i \in Matched : records[i].kind = "prime"
                 THEN "opened" ELSE "too_few"

\* The masks and polynomials that make the known records what they are, whatever
\* the secret; without a prime trustee there is no mask.
Explanations(known) ==
    {e \in (IF scheme = "krypt1-prime" THEN Field ELSE {0}) \X Polynomials(PoolThreshold) :
        \A i \in known :
            records[i].y = IF records[i].kind = "prime" THEN e[1] ELSE eval_poly(e[2], records[i].x)}

SecretOf(e) == gf_add(e[1], e[2][1])

Quorum(known) ==
    /\ Cardinality({i \in known : records[i].kind = "pool"}) >= PoolThreshold
    /\ scheme = "krypt1-prime" => \E i \in known : records[i].kind = "prime"

\* Records that are no quorum tell nothing of the secret: whatever it is, as many
\* choices of coefficients and mask would have made them (gf256_sss_prime.py:24-29).
\* It is about the vault alone, and is looked at before anything is typed.
TooFewTellNothing ==
    scheme # "none" /\ program = "none" /\ HowMany = 0 =>
        \A known \in SUBSET DOMAIN records :
            ~Quorum(known) =>
                LET why == Explanations(known) IN
                \A s \in Field : Cardinality({e \in why : SecretOf(e) = s}) * Order = Cardinality(why)
=============================================================================
