------------------------------- MODULE Prime -------------------------------
(***************************************************************************)
(* gu/prime.c: primes and twin primes by trial division over a wheel of    *)
(* 30.  GuMap sizes its tables with them.  A bit mask is the set of its    *)
(* bits; a loop is a recursive function of the variables it changes.       *)
(***************************************************************************)
EXTENDS Integers

gu_prime_wheel(i) == i \in {1, 7, 11, 13, 17, 19, 23, 29}

gu_small_prime(i) == i \in {2, 3, 5, 7, 11, 13, 17, 19, 23, 29, 31}

\* The divisors that gu_is_wheel_prime tries: rounds of 30, the first of which
\* the goto enters at 7.
Divisors(u) ==
  {d + i : d \in {30 * k : k \in {k \in 0..u : 900 * k * k <= u}},
           i \in {i \in 1..29 : gu_prime_wheel(i)}} \ {1}

gu_is_wheel_prime(u) == \A x \in Divisors(u) : u % x # 0

\* Its gu_assert.
WheelAssert(u) == u > 30 /\ u % 2 # 0 /\ u % 3 # 0 /\ u % 5 # 0

gu_is_prime(i) ==
  IF i < 30 THEN gu_small_prime(i)
  ELSE gu_prime_wheel(i % 30) /\ gu_is_wheel_prime(i)

\* Mutation: what is on the wheel is taken for a prime.
WheelOnly(d, r) == gu_prime_wheel(r)

OnWheel(d, r) == gu_prime_wheel(r) /\ gu_is_wheel_prime(d)

gu_prime_inf(i) ==
  LET small[k \in Nat] == IF gu_small_prime(k) THEN k ELSE small[k - 1]
      down[d \in Nat, r \in Nat] ==
        IF OnWheel(d, r) THEN d
        ELSE down[d - 2, IF r < 2 THEN r - 2 + 30 ELSE r - 2]
      odd == IF i % 2 = 0 THEN i - 1 ELSE i   \* (i - 1) | 1
  IN IF i < 2 THEN 0
     ELSE IF i < 32 THEN small[i]
     ELSE down[odd, odd % 30]

gu_prime_sup(i) ==
  LET small[k \in Nat] == IF gu_small_prime(k) THEN k ELSE small[k + 1]
      up[d \in Nat, r \in Nat] ==
        IF OnWheel(d, r) THEN d
        ELSE up[d + 2, IF r + 2 > 30 THEN r + 2 - 30 ELSE r + 2]
      odd == IF i % 2 = 0 THEN i + 1 ELSE i   \* i | 1
  IN IF i <= 2 THEN 2
     ELSE IF i < 32 THEN small[i]
     ELSE up[odd, odd % 30]

gu_twin_prime_inf(i) ==
  LET down[k \in Int] ==
        LET p == gu_prime_inf(k) IN
        IF p = 0 \/ gu_is_prime(p - 2) THEN p ELSE down[p - 4]
  IN down[i]

gu_twin_prime_sup(i) ==
  LET up[k \in Nat] ==
        LET p == gu_prime_sup(k) IN
        IF gu_is_prime(p + 2) THEN p + 2 ELSE up[p + 4]
  IN IF i <= 5 THEN 5 ELSE up[i - 2]
=============================================================================
