---------------------------- MODULE GF256Sharing ----------------------------
(***************************************************************************)
(* The field arithmetic of gf256_sss.py and the two ways of splitting a    *)
(* secret built on it, for one byte: every byte of a secret is split by    *)
(* itself.  The code's field has 8 bits and the reduction 16#1B; here both *)
(* are parameters, so that all polynomials of a small field can be tried.  *)
(***************************************************************************)
EXTENDS Integers, Sequences, SequencesExt

CONSTANTS Bits, Reduction

Order == 2^Bits
Field == 0 .. Order - 1

NoSecret == -1 \* a ValueError

-----------------------------------------------------------------------------
(* The field *)

\* XOR: the digits of a and b that differ.  A table, as all of the field is small.
XOR == [a \in Field |-> [b \in Field |->
    LET sum[n \in 0..Bits] ==
            IF n = 0 THEN 0
            ELSE LET digit == 2^(n - 1)
                 IN sum[n - 1] + (IF (a \div digit) % 2 = (b \div digit) % 2 THEN 0 ELSE digit)
    IN sum[Bits]]]

gf_add(a, b) == XOR[a][b]

\* Each round adds a when b is odd, then doubles a and halves b.
gf_mul_slow(a0, b0) ==
    LET double(a) == IF 2 * a >= Order THEN gf_add(2 * a - Order, Reduction) ELSE 2 * a
        round[n \in 0..Bits] ==
            IF n = 0 THEN [p |-> 0, a |-> a0, b |-> b0]
            ELSE LET s == round[n - 1]
                 IN [p |-> IF s.b % 2 = 1 THEN gf_add(s.p, s.a) ELSE s.p,
                     a |-> double(s.a), b |-> s.b \div 2]
    IN round[Bits].p

\* _build_tables: the powers of 3 (by squaring, where the loop multiplies on), and
\* again from Order - 1 on.
Triple == [a \in Field |-> gf_mul_slow(a, 3)]
Square == [a \in Field |-> gf_mul_slow(a, a)]

Power[i \in 0 .. Order - 2] ==
    IF i = 0 THEN 1
    ELSE IF i % 2 = 1 THEN Triple[Power[i - 1]] ELSE Square[Power[i \div 2]]

EXP == [i \in 0 .. 2 * Order - 1 |-> Power[i % (Order - 1)]]

LOG == [x \in Field |-> IF x = 0 THEN 0 ELSE CHOOSE i \in 0 .. Order - 2 : EXP[i] = x]

gf_mul(a, b) == IF a = 0 \/ b = 0 THEN 0 ELSE EXP[LOG[a] + LOG[b]]

gf_div(a, b) == IF a = 0 THEN 0 ELSE EXP[LOG[a] - LOG[b] + (Order - 1)]

\* The elements every element is a sum of.
Digits == {2^n : n \in 0 .. Bits - 1}

\* The reduction and the generator make a field of it.  That the third operand is a
\* digit makes this quick to evaluate, for the code's 8 bits too; what it gives for all
\* operands is proved.
ASSUME FieldAssumption ==
    /\ Bits \in Nat /\ Digits \cup {0, 1} \subseteq Field
    /\ \A a \in Field : /\ gf_add(a, 0) = a /\ gf_add(a, a) = 0
                        /\ gf_mul(a, 0) = 0 /\ gf_mul(a, 1) = a
    /\ \A a, b \in Field :
          /\ gf_add(a, b) \in Field /\ gf_add(a, b) = gf_add(b, a)
          /\ gf_mul(a, b) \in Field /\ gf_mul(a, b) = gf_mul(b, a)
          /\ b # 0 => gf_div(a, b) \in Field /\ gf_mul(gf_div(a, b), b) = a
    /\ \A a, b \in Field, d \in Digits :
          /\ gf_add(gf_add(a, b), d) = gf_add(a, gf_add(b, d))
          /\ gf_mul(gf_mul(a, b), d) = gf_mul(a, gf_mul(b, d))
          /\ gf_mul(a, gf_add(b, d)) = gf_add(gf_mul(a, b), gf_mul(a, d))
    /\ \A a \in Field \ {0} : \E b \in 0 .. a - 1, d \in Digits : a = gf_add(b, d)

-----------------------------------------------------------------------------
(* gf256_sss.py *)

\* Horner's method, from the last coefficient to coeffs[1], the secret byte.
eval_poly(coeffs, x) ==
    LET result[n \in 0 .. Len(coeffs)] ==
            IF n = 0 THEN 0 ELSE gf_add(gf_mul(result[n - 1], x), coeffs[Len(coeffs) + 1 - n])
    IN result[Len(coeffs)]

\* Mutant: the shards are counted from 0, as range does.
split_from_zero(coeffs, total_shards) ==
    [i \in 1..total_shards |-> [x |-> i - 1, y |-> eval_poly(coeffs, i - 1)]]

\* The shards of a polynomial; the random coefficients are an input.
split_secret(coeffs, total_shards) ==
    [i \in 1..total_shards |-> [x |-> i, y |-> eval_poly(coeffs, i)]]

Sum(f, n) ==
    LET total[i \in 0..n] == IF i = 0 THEN 0 ELSE gf_add(total[i - 1], f[i])
    IN total[n]

Product(f, n) ==
    LET product[i \in 0..n] == IF i = 0 THEN 1 ELSE gf_mul(product[i - 1], f[i])
    IN product[n]

\* Mutant: the numerator does not pass over the point itself.
weight_of_all(xs, i) ==
    gf_div(Product(xs, Len(xs)),
           Product([j \in DOMAIN xs |-> IF j = i THEN 1 ELSE gf_add(xs[i], xs[j])], Len(xs)))

\* num / den, each over the points other than the i-th.
weight(xs, i) ==
    gf_div(Product([j \in DOMAIN xs |-> IF j = i THEN 1 ELSE xs[j]], Len(xs)),
           Product([j \in DOMAIN xs |-> IF j = i THEN 1 ELSE gf_add(xs[i], xs[j])], Len(xs)))

\* Lagrange interpolation at 0.
reconstruct_secret(shards) ==
    LET xs == [i \in DOMAIN shards |-> shards[i].x]
    IN IF \E i, j \in DOMAIN xs : i # j /\ xs[i] = xs[j]
       THEN NoSecret
       ELSE Sum([i \in DOMAIN shards |-> gf_mul(shards[i].y, weight(xs, i))], Len(shards))

-----------------------------------------------------------------------------
(* gf256_sss_prime.py: the pool shares the secret hidden by the prime's mask. *)

split_secret_with_prime(mask, coeffs, pool_size) ==
    split_secret([coeffs EXCEPT ![1] = gf_add(@, mask)], pool_size)

reconstruct_secret_with_prime(mask, shards) ==
    LET masked == reconstruct_secret(shards)
    IN IF masked = NoSecret THEN NoSecret ELSE gf_add(masked, mask)
=============================================================================
