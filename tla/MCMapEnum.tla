----------------------------- MODULE MCMapEnum -----------------------------
(* The keys are numbers, and the hash is the key itself, as in an address or *)
(* a word map: in a table of 5, 0 and 15 meet at every probe, and 5 and the  *)
(* pair 1, 6 at some.  The client puts a value for some keys, which it may   *)
(* change for key 1, and uses the others as in a set.                        *)
EXTENDS MapEnum, FiniteSetsExt

CONSTANTS
  v, w,
  MaxArg \* bound: beyond 31 * 31, where the wheel needs a second round

MCHashes == {[k \in Keys |-> k]}

MCInsertions == {<<0, v>>, <<1, v>>, <<1, w>>, <<5, NONE>>, <<6, w>>, <<15, NONE>>}

-----------------------------------------------------------------------------
(* What the functions of Prime should return, from the definition of a prime. *)

IsPrime(n) == n >= 2 /\ \A k \in 2..(n - 1) : k * k <= n => n % k # 0
IsTwin(n) == IsPrime(n) /\ IsPrime(n - 2)

\* gu_is_prime is right on both sides of 30 and of each square of a wheel prime,
\* where its loop takes one round more; the wheel keeps from that loop what its
\* assertion (prime.c:39) excludes.
IsPrimeRight(arg) ==
  /\ gu_is_prime(arg) <=> IsPrime(arg)
  /\ arg >= 30 /\ gu_prime_wheel(arg % 30) => WheelAssert(arg)

\* f and g give the nearest number in a set, below and above arg, which begins
\* with least.
Nearest(arg, f, g, Is(_), least) ==
  /\ f = IF arg < least THEN 0 ELSE Max({n \in least..arg : Is(n)})
  /\ Is(g) /\ g >= arg /\ \A n \in arg..(g - 1) : ~Is(n)

\* gu_prime_inf and gu_prime_sup find the nearest primes, and the twin functions
\* the nearest number that is prime with the one 2 below: stepping by 2 or 4 along
\* the wheel and keeping the residue beside the number misses none.
NearestFound(arg) ==
  /\ Nearest(arg, gu_prime_inf(arg), gu_prime_sup(arg), IsPrime, 2)
  /\ Nearest(arg, gu_twin_prime_inf(arg), gu_twin_prime_sup(arg), IsTwin, 5)

\* The functions of gu/prime.c that a table takes its size from are right for
\* every number of keys that it may be made for, the test and the four searches:
\* stated of a table that is still empty.
PrimesRight ==
  data.n_occupied = 0 /\ ~resize.active /\ ~en.active =>
    \A arg \in 0..MaxArg : IsPrimeRight(arg) /\ NearestFound(arg)
=============================================================================
