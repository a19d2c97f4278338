-------------------------- MODULE ArithmeticLemmas --------------------------
(***************************************************************************)
(* Facts about numbers that the proofs need: division with remainder, the  *)
(* smallest and largest of a set of numbers, and why the probes of a hash  *)
(* table of prime size visit every slot.                                   *)
(***************************************************************************)
EXTENDS Integers, FiniteSetTheorems, FunctionTheorems, SequenceTheorems, WellFoundedInduction, TLAPS

\* Dividing with remainder has one result.
LEMMA DivisionUnique ==
  ASSUME NEW n \in Nat \ {0}, NEW a \in Int, NEW b \in Int, NEW r \in 0..(n - 1), NEW s \in 0..(n - 1),
         n * a + r = n * b + s
  PROVE  a = b /\ r = s
<1>1. CASE a > b
  <2>1. n * (a - b) >= n
    <3>1. a - b >= 1
      BY <1>1
    <3> QED  BY <3>1
  <2>2. n * (a - b) = n * a - n * b
    OBVIOUS
  <2> QED  BY <2>1, <2>2
<1>2. CASE b > a
  <2>1. n * (b - a) >= n
    <3>1. b - a >= 1
      BY <1>2
    <3> QED  BY <3>1
  <2>2. n * (b - a) = n * b - n * a
    OBVIOUS
  <2> QED  BY <2>1, <2>2
<1>3. CASE a = b
  BY <1>3
<1> QED  BY <1>1, <1>2, <1>3

\* x % n is the remainder.
LEMMA Remainder ==
  ASSUME NEW n \in Nat \ {0}, NEW x \in Int
  PROVE  x % n \in 0..(n - 1) /\ \E a \in Int : x = n * a + (x % n)
<1>1. x \div n \in Int /\ x % n \in 0..(n - 1) /\ x = n * (x \div n) + (x % n)
  OBVIOUS
<1> QED  BY <1>1

\* A remainder is found by writing a number as a multiple and a rest.
LEMMA RemainderIs ==
  ASSUME NEW n \in Nat \ {0}, NEW a \in Int, NEW r \in 0..(n - 1)
  PROVE  (n * a + r) % n = r
<1> DEFINE x == n * a + r
           s == x % n
<1>1. x \in Int
  OBVIOUS
<1> HIDE DEF x
<1>2. PICK b \in Int : x = n * b + s
  BY <1>1, Remainder
<1>3. s \in 0..(n - 1)
  BY <1>1, Remainder
<1> HIDE DEF s
<1>4. n * a + r = n * b + s
  BY <1>2 DEF x
<1>5. r = s
  BY <1>3, <1>4, DivisionUnique
<1> QED  BY <1>5 DEF s, x

\* The multiples of a number: they are the products with it, and closed under sums,
\* differences and further multiples.
LEMMA MultipleHasFactor ==
  ASSUME NEW n \in Nat \ {0}, NEW x \in Int, x % n = 0
  PROVE  \E a \in Int : x = n * a
<1>1. PICK a \in Int : x = n * a + (x % n)
  BY Remainder
<1>2. x = n * a
  BY <1>1
<1> QED  BY <1>2

LEMMA ProductIsMultiple ==
  ASSUME NEW n \in Nat \ {0}, NEW a \in Int
  PROVE  (n * a) % n = 0
<1>1. 0 \in 0..(n - 1)
  OBVIOUS
<1>2. (n * a + 0) % n = 0
  BY <1>1, RemainderIs
<1>3. n * a + 0 = n * a
  OBVIOUS
<1> QED  BY <1>2, <1>3

LEMMA SumIsMultiple ==
  ASSUME NEW n \in Nat \ {0}, NEW x \in Int, NEW y \in Int, x % n = 0, y % n = 0
  PROVE  (x + y) % n = 0 /\ (x - y) % n = 0
<1>1. PICK a \in Int : x = n * a
  BY MultipleHasFactor
<1>2. PICK b \in Int : y = n * b
  BY MultipleHasFactor
<1>3. x + y = n * (a + b) /\ x - y = n * (a - b) /\ a + b \in Int /\ a - b \in Int
  BY <1>1, <1>2
<1>4. (n * (a + b)) % n = 0 /\ (n * (a - b)) % n = 0
  BY <1>3, ProductIsMultiple
<1> QED  BY <1>3, <1>4

LEMMA MultipleOfMultiple ==
  ASSUME NEW n \in Nat \ {0}, NEW m \in Nat \ {0}, NEW x \in Int, m % n = 0, x % m = 0
  PROVE  x % n = 0
<1>1. PICK a \in Int : m = n * a
  BY MultipleHasFactor
<1>2. PICK b \in Int : x = m * b
  BY MultipleHasFactor
<1>3. x = n * (a * b) /\ a * b \in Int
  BY <1>1, <1>2
<1>4. (n * (a * b)) % n = 0
  BY <1>3, ProductIsMultiple
<1> QED  BY <1>3, <1>4

\* The natural numbers are well ordered.
LEMMA LessOnNat ==
  \E R : IsWellFoundedOn(R, Nat) /\ \A x, y \in Nat : x < y => <<x, y>> \in R
<1>1. \A x, y \in Nat : x < y => <<x, y>> \in OpToRel(<, Nat)
  BY DEF OpToRel
<1> QED  BY <1>1, NatLessThanWellFounded, Zenon

\* Every set of numbers that is not empty has a smallest element.
LEMMA LeastElement ==
  ASSUME NEW T \in SUBSET Nat, T # {}
  PROVE  \E x \in T : \A y \in T : x <= y
<1>1. PICK R : IsWellFoundedOn(R, Nat) /\ \A x, y \in Nat : x < y => <<x, y>> \in R
  BY LessOnNat, Zenon
<1>2. PICK x \in T : \A y \in T : <<y, x>> \notin R
  <2>1. IsWellFoundedOn(R, Nat) /\ T \subseteq Nat /\ T # {}
    BY <1>1
  <2> QED  BY ONLY <2>1, WFMin, Zenon
<1>3. \A y \in T : ~(y < x) 
  BY <1>1, <1>2
<1> QED  BY <1>3

\* Induction up to a bound, with the set of the numbers for which the claim holds.
LEMMA InductionUpTo ==
  ASSUME NEW l \in Nat, NEW T, 0 \in T, \A j \in 0..(l - 1) : j \in T => j + 1 \in T
  PROVE  \A n \in 0..l : n \in T
<1> DEFINE bad == {n \in 0..l : n \notin T}
<1> SUFFICES ASSUME bad # {} PROVE FALSE
  OBVIOUS
<1>0. bad \in SUBSET Nat
  OBVIOUS
<1> HIDE DEF bad
<1>1. PICK n \in bad : \A x \in bad : n <= x
  BY <1>0, LeastElement
<1> USE DEF bad
<1>2. n \in 0..l /\ n \notin T /\ n # 0
  BY <1>1
<1>3. PICK j \in 0..(l - 1) : n = j + 1
  BY <1>2
<1>4. j \in T
  BY <1>1, <1>3
<1> QED  BY <1>2, <1>3, <1>4

\* And up to some bound, a largest one.
LEMMA LargestExists ==
  ASSUME NEW n \in Nat, NEW T, T \subseteq 0..n, T # {}
  PROVE  \E j \in T : \A k \in T : k <= j
<1> DEFINE U == {n - j : j \in T}
<1>1. U \in SUBSET Nat /\ U # {}
  <2>1. \A j \in T : j \in 0..n /\ n - j \in Nat
    OBVIOUS
  <2>2. PICK j \in T : TRUE
    OBVIOUS
  <2>3. n - j \in U
    BY <2>2
  <2> QED  BY <2>1, <2>3
<1>2. PICK x \in U : \A y \in U : x <= y
  BY <1>1, LeastElement
<1>3. PICK j \in T : x = n - j
  OBVIOUS
<1>4. \A k \in T : n - k \in U
  OBVIOUS
<1>5. \A k \in T : k <= j
  BY <1>2, <1>3, <1>4
<1> QED  BY <1>5

PrimeNumber(n) == \A k \in 2..(n - 1) : n % k # 0

\* Euclid: a prime that divides neither of two smaller numbers does not divide
\* their product.  For the smallest a with n | a * b, the remainder of n by a
\* is a smaller one.
LEMMA Euclid ==
  ASSUME NEW n \in Nat, PrimeNumber(n), NEW a \in 1..(n - 1), NEW b \in 1..(n - 1)
  PROVE  (a * b) % n # 0
<1> DEFINE S == {x \in 1..(n - 1) : (x * b) % n = 0}
<1>0. n \in Nat \ {0}
  OBVIOUS
<1>1. SUFFICES ASSUME S # {} PROVE FALSE
  OBVIOUS
<1>2. S \in SUBSET Nat
  OBVIOUS
<1>3. PICK x \in S : \A y \in S : x <= y
  BY <1>1, <1>2, LeastElement
<1>4. x \in 1..(n - 1) /\ (x * b) % n = 0
  OBVIOUS
<1>5. x # 1
  <2> SUFFICES ASSUME x = 1 PROVE FALSE
    OBVIOUS
  <2>1. x * b = n * 0 + b
    OBVIOUS
  <2>2. (n * 0 + b) % n = b
    BY <1>0, RemainderIs
  <2> QED  BY <2>1, <2>2, <1>4
<1> DEFINE r == n % x
<1>6. r \in 1..(x - 1)
  <2>1. x \in 2..(n - 1)
    BY <1>4, <1>5
  <2>2. n % x # 0
    BY <2>1 DEF PrimeNumber
  <2>3. n % x \in 0..(x - 1)
    BY <2>1
  <2> QED  BY <2>2, <2>3, <2>1
<1>7. PICK q \in Int : n = x * q + r
  <2>1. x \in Nat \ {0} /\ n \in Int
    BY <1>4
  <2> QED  BY <2>1, Remainder
<1>8. PICK m \in Int : x * b = n * m
  <2>1. x * b \in Int
    BY <1>4
  <2>2. PICK m \in Int : x * b = n * m + ((x * b) % n)
    BY <1>0, <2>1, Remainder
  <2>3. n * m + ((x * b) % n) = n * m
    BY <1>4
  <2> QED  BY <2>2, <2>3
<1> HIDE DEF r, S
<1>9. r * b = n * (b - m * q) + 0
  <2>1. r = n - x * q
    BY <1>4, <1>6, <1>7
  <2>2. r * b = n * b - q * (x * b)
    BY <2>1, <1>4
  <2>3. q * (x * b) = q * (n * m)
    BY <1>8
  <2> QED  BY <2>2, <2>3
<1>10. (r * b) % n = 0
  BY <1>0, <1>9, RemainderIs
<1>11. r \in S
  BY <1>4, <1>6, <1>10 DEF S
<1>12. x <= r
  BY <1>3, <1>11
<1> QED  BY <1>4, <1>6, <1>12

\* Steps of any length below a prime n, from anywhere, visit every number below n
\* in n rounds.
LEMMA StepsVisitAll ==
  ASSUME NEW n \in Nat, PrimeNumber(n), NEW h \in Nat, NEW o \in 1..(n - 1), NEW i \in 0..(n - 1)
  PROVE  \E t \in 0..(n - 1) : (h + t * o) % n = i
<1>0. n \in Nat \ {0}
  OBVIOUS
<1> DEFINE S == 0..(n - 1)
           f == [t \in S |-> (h + t * o) % n]
<1>1. f \in [S -> S]
  <2> SUFFICES ASSUME NEW t \in S PROVE (h + t * o) % n \in S
    OBVIOUS
  <2>1. h + t * o \in Int
    OBVIOUS
  <2> QED  BY <1>0, <2>1, Remainder
<1>2. ASSUME NEW s \in S, NEW t \in S, s < t
      PROVE  (h + s * o) % n # (h + t * o) % n
  <2>1. h + s * o \in Int /\ h + t * o \in Int
    OBVIOUS
  <2>2. PICK a \in Int : h + s * o = n * a + ((h + s * o) % n)
    BY <1>0, <2>1, Remainder
  <2>3. PICK b \in Int : h + t * o = n * b + ((h + t * o) % n)
    BY <1>0, <2>1, Remainder
  <2>4. SUFFICES ASSUME (h + s * o) % n = (h + t * o) % n PROVE FALSE
    OBVIOUS
  <2> DEFINE r == (h + s * o) % n
  <2>5. r \in Int /\ h + s * o = n * a + r /\ h + t * o = n * b + r
    BY <1>0, <2>1, <2>2, <2>3, <2>4, Remainder
  <2> HIDE DEF r
  <2>6. (t - s) * o = n * (b - a) + 0
    BY <2>5
  <2>7. ((t - s) * o) % n = 0
    BY <1>0, <2>6, RemainderIs
  <2>8. t - s \in 1..(n - 1)
    BY <1>2
  <2> QED  BY <2>7, <2>8, Euclid
<1>3. f \in Injection(S, S)
  <2>1. ASSUME NEW s \in S, NEW t \in S, f[s] = f[t] PROVE s = t
    BY <1>2, <2>1
  <2> QED  BY <1>1, <2>1 DEF Injection, IsInjective
<1>4. IsFiniteSet(S)
  BY FS_Interval
<1> HIDE DEF f
<1>5. f \in Surjection(S, S)
  BY <1>3, <1>4, FS_Injection
<1>6. PICK t \in S : f[t] = i
  <2>1. \A x \in S : \E t \in S : f[t] = x
    BY <1>5 DEF Surjection
  <2> QED  BY <2>1
<1> QED  BY <1>6 DEF f

-----------------------------------------------------------------------------
(* Sequences of decisions in their order *)

\* By the first decision in which they differ.
Before(s, t) ==
  \E k \in 1..Len(s) : k <= Len(t) /\ s[k] < t[k] /\ \A i \in 1..(k - 1) : s[i] = t[i]

StartsWith(s, p) == Len(p) <= Len(s) /\ \A k \in 1..Len(p) : s[k] = p[k]

\* s is before p, or goes on from it.
NotAfter(s, p) == Before(s, p) \/ StartsWith(s, p)

\* The first difference decides.
LEMMA BeforeAt ==
  ASSUME NEW s, NEW t, NEW k \in 1..Len(s), k <= Len(t), s[k] < t[k], \A i \in 1..(k - 1) : s[i] = t[i]
  PROVE  Before(s, t)
  BY DEF Before

\* The order, when decision j of p is made one higher and the later ones are dropped.
LEMMA BeforeNext ==
  ASSUME NEW s \in Seq(Nat), NEW p \in Seq(Nat), NEW j \in 1..Len(p), NEW q \in Seq(Nat),
         Len(q) = j, q[j] = p[j] + 1, \A k \in 1..(j - 1) : q[k] = p[k]
  PROVE  /\ Before(s, p) => Before(s, q)
         /\ StartsWith(s, p) => Before(s, q)
         /\ Before(s, q) => Before(s, p) \/ (j <= Len(s) /\ \A k \in 1..j : s[k] = p[k])
<1>0. Len(s) \in Nat /\ Len(p) \in Nat /\ j \in Nat \ {0}
  BY LenProperties
<1>1. /\ \A k \in 1..Len(s) : s[k] \in Nat
      /\ \A k \in 1..Len(p) : p[k] \in Nat
  BY ElementOfSeq
<1>2. ASSUME Before(s, p) PROVE Before(s, q)
  <2>1. PICK k \in 1..Len(s) : k <= Len(p) /\ s[k] < p[k] /\ \A i \in 1..(k - 1) : s[i] = p[i]
    BY <1>2 DEF Before
  <2>2. CASE k < j
    <3>1. k \in 1..(j - 1) /\ k <= Len(q) /\ \A i \in 1..(k - 1) : i \in 1..(j - 1)
      BY <1>0, <2>2
    <3>2. s[k] < q[k] /\ \A i \in 1..(k - 1) : s[i] = q[i]
      BY <2>1, <3>1
    <3> QED  BY <3>1, <3>2, BeforeAt
  <2>3. CASE k = j
    <3>1. PICK x \in Nat, y \in Nat : x = s[k] /\ y = p[k] /\ x < y
      BY <1>1, <2>1, <2>3
    <3>2. x < y + 1
      BY ONLY <3>1
    <3>3. s[k] < q[k]
      BY <2>3, <3>1, <3>2
    <3>4. k <= Len(q) /\ \A i \in 1..(k - 1) : s[i] = q[i]
      BY <1>0, <2>1, <2>3
    <3> QED  BY <3>3, <3>4, BeforeAt
  <2>4. CASE k > j
    <3>1. j \in 1..(k - 1) /\ j \in 1..Len(s) /\ \A i \in 1..(j - 1) : i \in 1..(k - 1)
      BY <1>0, <2>4
    <3>2. s[j] = p[j] /\ p[j] \in Nat /\ \A i \in 1..(j - 1) : s[i] = q[i]
      BY <1>1, <2>1, <3>1
    <3>3. s[j] < q[j]
      BY ONLY <3>2, q[j] = p[j] + 1
    <3>4. j <= Len(q)
      BY <1>0
    <3> QED  BY ONLY <3>1, <3>2, <3>3, <3>4, BeforeAt, SMTT(30)
  <2> QED  BY <1>0, <2>1, <2>2, <2>3, <2>4
<1>3. ASSUME StartsWith(s, p) PROVE Before(s, q)
  <2>1. j \in 1..Len(s) /\ s[j] = p[j] /\ p[j] \in Nat /\ \A i \in 1..(j - 1) : s[i] = p[i]
    BY <1>0, <1>1, <1>3, SMTT(30) DEF StartsWith
  <2>2. s[j] < q[j]
    BY ONLY <2>1, q[j] = p[j] + 1
  <2>3. j <= Len(q) /\ \A i \in 1..(j - 1) : s[i] = q[i]
    BY <1>0, <2>1
  <2> QED  BY ONLY <2>1, <2>2, <2>3, BeforeAt
<1>4. ASSUME Before(s, q)
      PROVE  Before(s, p) \/ (j <= Len(s) /\ \A k \in 1..j : s[k] = p[k])
  <2>1. PICK k \in 1..Len(s) : k <= j /\ s[k] < q[k] /\ \A i \in 1..(k - 1) : s[i] = q[i]
    BY <1>4 DEF Before
  <2>2. k <= Len(p) /\ \A i \in 1..(k - 1) : i \in 1..(j - 1)
    BY <1>0, <2>1
  <2>3. \A i \in 1..(k - 1) : s[i] = p[i]
    BY <2>1, <2>2
  <2>4. CASE s[k] < p[k]
    BY <2>2, <2>3, <2>4, BeforeAt
  <2>5. CASE ~(s[k] < p[k])
    <3>1. k = j
      <4> SUFFICES ASSUME k # j PROVE FALSE
        OBVIOUS
      <4>1. k \in 1..(j - 1)
        BY <1>0, <2>1
      <4> QED  BY <2>1, <2>5, <4>1
    <3>2. PICK x \in Nat, y \in Nat : x = s[j] /\ y = p[j] /\ x < y + 1 /\ ~(x < y)
      BY <1>1, <2>1, <2>5, <3>1, SMTT(20)
    <3>3. x = y
      BY ONLY <3>2
    <3>4. \A i \in 1..j : i \in 1..(k - 1) \/ i = j
      BY <1>0, <3>1
    <3>5. \A i \in 1..j : s[i] = p[i]
      BY <2>3, <3>2, <3>3, <3>4
    <3>6. j <= Len(s)
      BY <1>0, <2>1, <3>1
    <3> QED  BY ONLY <3>5, <3>6, Zenon
  <2> QED  BY <2>4, <2>5
<1> QED  BY <1>2, <1>3, <1>4

\* path[j] of n[j] alternatives are still to be tried where p makes its decision j; and
\* a sequence of S that agrees with p so far takes one of them.
TriesLeft(S, p, path, n) ==
  /\ p \in Seq(Nat) /\ path \in Seq(Nat) /\ Len(p) = Len(path)
  /\ \A j \in 1..Len(p) : n[j] \in Nat /\ path[j] \in 1..n[j] /\ p[j] = n[j] - path[j] + 1
  /\ \A s \in S : s \in Seq(Nat) /\ \A j \in 1..Len(p) :
       (\A i \in 1..(j - 1) : i <= Len(s) => s[i] = p[i]) => j <= Len(s) /\ s[j] \in 1..n[j]

\* Where every decision of p after the J-th is the last alternative, no sequence that
\* agrees with p up to there comes after p.
LEMMA LastTries ==
  ASSUME NEW S, NEW p, NEW path, NEW n, TriesLeft(S, p, path, n), NEW s \in S,
         NEW J \in 0..Len(p), J <= Len(s), \A k \in 1..J : s[k] = p[k],
         \A k \in 1..Len(p) : k > J => path[k] = 1
  PROVE  NotAfter(s, p)
<1>0. Len(p) \in Nat /\ Len(s) \in Nat /\ J \in Nat
  BY LenProperties DEF TriesLeft
<1> DEFINE off == {k \in 1..Len(p) : k > Len(s) \/ s[k] # p[k]}
<1>1. CASE off = {}
  <2>1. \A k \in 1..Len(p) : k <= Len(s) /\ s[k] = p[k]
    BY <1>0, <1>1
  <2>2. Len(p) <= Len(s)
    BY <1>0, <2>1
  <2> QED  BY <2>1, <2>2 DEF StartsWith, NotAfter
<1>2. CASE off # {}
  <2>1. off \in SUBSET Nat
    BY <1>0
  <2>2. PICK k \in off : \A i \in off : k <= i
    <3> HIDE DEF off
    <3> QED  BY <1>2, <2>1, LeastElement
  <2>3. /\ k \in 1..Len(p) /\ (k > Len(s) \/ s[k] # p[k])
        /\ \A i \in 1..(k - 1) : i <= Len(s) /\ s[i] = p[i]
    BY <1>0, <2>2
  <2> HIDE DEF off
  <2>4. path[k] = 1
    BY <1>0, <2>3
  <2>5. k <= Len(s) /\ s[k] \in 1..n[k]
    BY <2>3 DEF TriesLeft
  <2>6. n[k] \in Nat /\ p[k] = n[k] - path[k] + 1
    BY <2>3 DEF TriesLeft
  <2>7. p[k] = n[k]
    BY <2>4, <2>6
  <2>8. k \in 1..Len(s) /\ k <= Len(p) /\ s[k] < p[k]
    BY <1>0, <2>3, <2>5, <2>6, <2>7
  <2> QED  BY <2>3, <2>8 DEF Before, NotAfter
<1> QED  BY <1>1, <1>2

\* To drop decisions without another alternative leaves the same sequences behind.
LEMMA DropLast ==
  ASSUME NEW S, NEW p, NEW path, NEW n, TriesLeft(S, p, path, n), NEW s \in S,
         NEW q \in Seq(Nat), Len(q) <= Len(p), \A k \in 1..Len(q) : q[k] = p[k],
         \A k \in 1..Len(p) : k > Len(q) => path[k] = 1
  PROVE  NotAfter(s, q) <=> NotAfter(s, p)
<1>0. Len(p) \in Nat /\ Len(s) \in Nat /\ Len(q) \in Nat
  BY LenProperties DEF TriesLeft
<1>1. ASSUME StartsWith(s, q) PROVE NotAfter(s, p)
  <2>1. PICK J \in 0..Len(p) : J = Len(q)
    BY <1>0
  <2>2. J <= Len(s) /\ \A k \in 1..J : s[k] = p[k]
    BY <1>1, <2>1 DEF StartsWith
  <2>3. \A k \in 1..Len(p) : k > J => path[k] = 1
    BY <2>1
  <2> QED  BY <2>2, <2>3, LastTries
<1>2. ASSUME Before(s, q) PROVE NotAfter(s, p)
  <2>1. PICK k \in 1..Len(s) : k <= Len(q) /\ s[k] < q[k] /\ \A i \in 1..(k - 1) : s[i] = q[i]
    BY <1>2 DEF Before
  <2>2. k \in 1..Len(q) /\ k <= Len(p) /\ \A i \in 1..(k - 1) : i \in 1..Len(q)
    BY <1>0, <2>1
  <2>3. s[k] < p[k] /\ \A i \in 1..(k - 1) : s[i] = p[i]
    BY <2>1, <2>2
  <2> QED  BY <2>2, <2>3, BeforeAt DEF NotAfter
<1>3. ASSUME StartsWith(s, p) PROVE NotAfter(s, q)
  BY <1>0, <1>3 DEF StartsWith, NotAfter
<1>4. ASSUME Before(s, p) PROVE NotAfter(s, q)
  <2>1. PICK k \in 1..Len(s) : k <= Len(p) /\ s[k] < p[k] /\ \A i \in 1..(k - 1) : s[i] = p[i]
    BY <1>4 DEF Before
  <2>2. CASE k <= Len(q)
    <3>1. k \in 1..Len(q) /\ \A i \in 1..(k - 1) : i \in 1..Len(q)
      BY <1>0, <2>2
    <3>2. s[k] < q[k] /\ \A i \in 1..(k - 1) : s[i] = q[i]
      BY <2>1, <3>1
    <3> QED  BY <2>2, <3>2, BeforeAt DEF NotAfter
  <2>3. CASE ~(k <= Len(q))
    <3>1. Len(q) <= Len(s) /\ \A i \in 1..Len(q) : i \in 1..(k - 1)
      BY <1>0, <2>3
    <3> QED  BY <2>1, <3>1 DEF StartsWith, NotAfter
  <2> QED  BY <2>2, <2>3
<1> QED  BY <1>1, <1>2, <1>3, <1>4 DEF NotAfter

\* To take the next alternative of the last decision that has one moves past p and
\* what goes on from it, and past nothing else.
LEMMA TakeNext ==
  ASSUME NEW S, NEW p, NEW path, NEW n, TriesLeft(S, p, path, n), NEW s \in S,
         NEW j \in 1..Len(p), \A k \in 1..Len(p) : k > j => path[k] = 1,
         NEW q \in Seq(Nat), Len(q) = j, q[j] = p[j] + 1, \A k \in 1..(j - 1) : q[k] = p[k]
  PROVE  Before(s, q) <=> NotAfter(s, p)
<1>0. Len(p) \in Nat /\ p \in Seq(Nat) /\ s \in Seq(Nat) /\ Len(s) \in Nat
  BY LenProperties DEF TriesLeft
<1>1. /\ Before(s, p) => Before(s, q)
      /\ StartsWith(s, p) => Before(s, q)
      /\ Before(s, q) => Before(s, p) \/ (j <= Len(s) /\ \A k \in 1..j : s[k] = p[k])
  BY ONLY <1>0, j \in 1..Len(p), q \in Seq(Nat), Len(q) = j, q[j] = p[j] + 1,
          \A k \in 1..(j - 1) : q[k] = p[k], BeforeNext, ZenonT(40)
<1>2. ASSUME j <= Len(s), \A k \in 1..j : s[k] = p[k] PROVE NotAfter(s, p)
  <2>1. j \in 0..Len(p)
    BY <1>0
  <2> QED  BY <1>2, <2>1, LastTries
<1> QED  BY <1>1, <1>2 DEF NotAfter

\* Nothing comes between p and p with a first alternative more.
LEMMA FirstTry ==
  ASSUME NEW s \in Seq(Nat \ {0}), NEW p \in Seq(Nat), NEW q \in Seq(Nat), Len(q) = Len(p) + 1,
         q[Len(q)] = 1, \A k \in 1..Len(p) : q[k] = p[k]
  PROVE  Before(s, q) <=> Before(s, p)
<1>0. Len(p) \in Nat /\ Len(s) \in Nat /\ \A k \in 1..Len(s) : s[k] \in Nat \ {0}
  BY LenProperties, ElementOfSeq
<1>1. ASSUME Before(s, p) PROVE Before(s, q)
  <2>1. PICK k \in 1..Len(s) : k <= Len(p) /\ s[k] < p[k] /\ \A i \in 1..(k - 1) : s[i] = p[i]
    BY <1>1 DEF Before
  <2>2. k \in 1..Len(p) /\ k <= Len(q) /\ \A i \in 1..(k - 1) : i \in 1..Len(p)
    BY <1>0, <2>1
  <2>3. s[k] < q[k] /\ \A i \in 1..(k - 1) : s[i] = q[i]
    BY <2>1, <2>2
  <2> QED  BY <2>2, <2>3, BeforeAt
<1>2. ASSUME Before(s, q) PROVE Before(s, p)
  <2>1. PICK k \in 1..Len(s) : k <= Len(q) /\ s[k] < q[k] /\ \A i \in 1..(k - 1) : s[i] = q[i]
    BY <1>2 DEF Before
  <2>2. k # Len(q)
    BY <1>0, <2>1
  <2>3. k \in 1..Len(p) /\ k <= Len(p) /\ \A i \in 1..(k - 1) : i \in 1..Len(p)
    BY <1>0, <2>1, <2>2
  <2>4. s[k] < p[k] /\ \A i \in 1..(k - 1) : s[i] = p[i]
    BY <2>1, <2>3
  <2> QED  BY <2>3, <2>4, BeforeAt
<1> QED  BY <1>1, <1>2
=============================================================================
