---------------------------- MODULE GuMapProofs -----------------------------
(***************************************************************************)
(* The hash table implements a finite function, for every set of keys,     *)
(* every hash function and any number of insertions and resizes.           *)
(*                                                                         *)
(* The argument: the probes of a key visit every slot, since the size of   *)
(* the table is prime, and some slot is always free, so that every lookup  *)
(* ends.  A table is sound when the lookup of each key that it holds ends  *)
(* at its slot: putting a new key where its own lookup ends leaves the     *)
(* probes before every other key occupied.  While a table is rebuilt the   *)
(* new one is sound and holds what the slots of the old one that were      *)
(* visited hold.                                                           *)
(***************************************************************************)
EXTENDS MapEnum, ArithmeticLemmas, SequenceTheorems

\* The t-th round of a lookup of key is the one that ends it.
FirstStop(d, key, t) ==
  /\ t \in Slots(d)
  /\ StopsAt(d, key, Probe(d, key, t))
  /\ \A s \in 0..(t - 1) : ~StopsAt(d, key, Probe(d, key, s))

\* A lookup of key ends at slot i.
Reaches(d, key, i) == \E t \in Nat : FirstStop(d, key, t) /\ Probe(d, key, t) = i

\* Table d holds key.
Holds(d, key) == \E i \in Occupied(d) : d.keys[i] = key

\* The size of table d is a prime, and no slot has the number SIZE_MAX.
SizeSound(d) ==
  /\ d.n_entries >= 5
  /\ PrimeNumber(d.n_entries)
  /\ SIZE_MAX \notin Slots(d)

Sound(d) ==
  /\ IsData(d)
  /\ SizeSound(d)
  /\ \A i \in Occupied(d) : Reaches(d, d.keys[i], i)
  /\ d.n_occupied = Cardinality(Occupied(d))
  /\ d.n_occupied < d.n_entries

-----------------------------------------------------------------------------
(* Lookups *)

\* A probe is a slot.
LEMMA ProbeIsSlot ==
  ASSUME NEW d, d.n_entries \in Nat, d.n_entries >= 5, hash \in [Keys -> Nat],
         NEW key \in Keys, NEW t \in Nat
  PROVE  Probe(d, key, t) \in Slots(d)
<1> DEFINE n == d.n_entries
           o == (hash[key] % (n - 2)) + 1
           x == hash[key] + t * o
<1>1. o \in Nat
  <2>1. n - 2 \in Nat \ {0} /\ hash[key] \in Int
    OBVIOUS
  <2>2. hash[key] % (n - 2) \in 0..(n - 3)
    BY <2>1
  <2> QED  BY <2>2
<1> HIDE DEF o
<1>2. x \in Int
  BY <1>1
<1> HIDE DEF x
<1>3. x % n \in 0..(n - 1)
  BY <1>2
<1> QED  BY <1>3 DEF Probe, Offset, Slots, x, o

\* The probes of a key visit every slot.
LEMMA ProbesVisitAll ==
  ASSUME NEW d, d.n_entries \in Nat, SizeSound(d), hash \in [Keys -> Nat],
         NEW key \in Keys, NEW i \in Slots(d)
  PROVE  \E t \in Slots(d) : Probe(d, key, t) = i
<1> DEFINE n == d.n_entries
           o == (hash[key] % (n - 2)) + 1
<1>1. n \in Nat /\ n >= 5 /\ PrimeNumber(n) /\ i \in 0..(n - 1) /\ hash[key] \in Nat
  BY DEF SizeSound, Slots
<1>2. o \in 1..(n - 1)
  <2>1. n - 2 \in Nat \ {0} /\ hash[key] \in Int
    BY <1>1
  <2>2. hash[key] % (n - 2) \in 0..(n - 3)
    BY <2>1
  <2> QED  BY <1>1, <2>2
<1> HIDE DEF n, o
<1>3. PICK t \in 0..(n - 1) : (hash[key] + t * o) % n = i
  BY <1>1, <1>2, StepsVisitAll
<1> QED  BY <1>3 DEF Probe, Offset, Slots, n, o

\* A table has as many slots as n_entries says.
LEMMA SlotsFinite ==
  ASSUME NEW d, d.n_entries \in Nat
  PROVE  /\ IsFiniteSet(Slots(d)) /\ Cardinality(Slots(d)) = d.n_entries
         /\ IsFiniteSet(Occupied(d))
<1> DEFINE m == d.n_entries - 1
<1>1. m \in Int
  OBVIOUS
<1> HIDE DEF m
<1>2. IsFiniteSet(0..m) /\ Cardinality(0..m) = IF 0 > m THEN 0 ELSE m - 0 + 1
  BY <1>1, FS_Interval
<1>3. Slots(d) = 0..m
  BY DEF Slots, m
<1>4. m = d.n_entries - 1
  BY DEF m
<1>5. Cardinality(Slots(d)) = d.n_entries
  BY <1>2, <1>3, <1>4
<1>6. Occupied(d) \in SUBSET Slots(d)
  BY DEF Occupied
<1> QED  BY <1>2, <1>3, <1>5, <1>6, FS_Subset

\* A slot that is not occupied is free, and some slot is.
LEMMA SomeSlotFree ==
  ASSUME NEW d, Sound(d)
  PROVE  \E i \in Slots(d) : gu_map_entry_is_free(d, i)
<1>1. d.n_entries \in Nat /\ d.n_occupied < d.n_entries /\ d.n_occupied = Cardinality(Occupied(d))
  BY DEF Sound, IsData
<1>2. Cardinality(Slots(d)) = d.n_entries
  BY <1>1, SlotsFinite
<1>3. Occupied(d) # Slots(d)
  BY <1>1, <1>2
<1> QED  BY <1>3 DEF Occupied

\* A lookup in a sound table ends, in a round that is the first to stop.
LEMMA LookupStops ==
  ASSUME NEW d, Sound(d), hash \in [Keys -> Nat], NEW key \in Keys
  PROVE  \E t \in Nat : FirstStop(d, key, t)
<1>1. d.n_entries \in Nat /\ SizeSound(d)
  BY DEF Sound, IsData
<1>2. PICK i \in Slots(d) : gu_map_entry_is_free(d, i)
  BY SomeSlotFree
<1>3. PICK u \in Slots(d) : Probe(d, key, u) = i
  BY <1>1, ProbesVisitAll
<1> DEFINE T == {t \in Slots(d) : StopsAt(d, key, Probe(d, key, t))}
<1>4. u \in T
  BY <1>2, <1>3 DEF StopsAt
<1>5. T \in SUBSET Nat
  BY <1>1 DEF Slots
<1>6. PICK t \in T : \A s \in T : t <= s
  BY <1>4, <1>5, LeastElement
<1>7. t \in Slots(d) /\ StopsAt(d, key, Probe(d, key, t))
  OBVIOUS
<1>8. ASSUME NEW s \in 0..(t - 1) PROVE ~StopsAt(d, key, Probe(d, key, s))
  <2>1. s \in Slots(d) /\ ~(t <= s)
    BY <1>1, <1>7 DEF Slots
  <2> QED  BY <1>6, <2>1
<1>9. t \in Nat
  BY <1>5
<1> QED  BY <1>7, <1>8, <1>9 DEF FirstStop

\* The first round that stops is the one that gu_map_lookup chooses.
LEMMA LookupIs ==
  ASSUME NEW d, d.n_entries \in Nat, NEW key, NEW t, FirstStop(d, key, t)
  PROVE  gu_map_lookup(d, key) = Probe(d, key, t)
<1> DEFINE P(r) == /\ StopsAt(d, key, Probe(d, key, r))
                   /\ \A s \in 0..(r - 1) : ~StopsAt(d, key, Probe(d, key, s))
           c == CHOOSE r \in Slots(d) : P(r)
<1>1. t \in Slots(d) /\ P(t)
  BY DEF FirstStop
<1>2. c \in Slots(d) /\ P(c)
  BY <1>1
<1>3. c \in Nat /\ t \in Nat
  BY <1>1, <1>2 DEF Slots
<1> HIDE DEF c
<1>4. ~(c < t) /\ ~(t < c)
  BY <1>1, <1>2, <1>3
<1>5. c = t
  BY <1>3, <1>4
<1> QED  BY <1>5 DEF gu_map_lookup, c

\* Where a lookup in a sound table ends: at the key, if the table holds it, and at
\* a free slot otherwise.
LEMMA LookupFinds ==
  ASSUME NEW d, Sound(d), hash \in [Keys -> Nat], NEW key \in Keys
  PROVE  LET idx == gu_map_lookup(d, key) IN
         /\ idx \in Slots(d)
         /\ Reaches(d, key, idx)
         /\ Ends(d, key)
         /\ Found(d, key) <=> Holds(d, key)
         /\ Found(d, key) => d.keys[idx] = key
         /\ \A i \in Occupied(d) : d.keys[i] = key => idx = i
<1> DEFINE idx == gu_map_lookup(d, key)
<1>1. d.n_entries \in Nat /\ d.n_entries >= 5
  BY DEF Sound, IsData, SizeSound
<1>2. PICK t \in Nat : FirstStop(d, key, t)
  BY LookupStops
<1>3. idx = Probe(d, key, t)
  BY <1>1, <1>2, LookupIs
<1>4. idx \in Slots(d)
  BY <1>1, <1>3, ProbeIsSlot
<1>5. Reaches(d, key, idx) /\ Ends(d, key)
  BY <1>2, <1>3 DEF Reaches, Ends, FirstStop
<1>6. ASSUME NEW i \in Occupied(d), d.keys[i] = key PROVE idx = i
  <2>1. PICK u \in Nat : FirstStop(d, key, u) /\ Probe(d, key, u) = i
    BY <1>6 DEF Sound, Reaches
  <2> QED  BY <1>1, <2>1, LookupIs
<1>7. StopsAt(d, key, idx)
  BY <1>2, <1>3 DEF FirstStop
<1>8. Found(d, key) => d.keys[idx] = key /\ Holds(d, key)
  BY <1>4, <1>7 DEF Found, StopsAt, Holds, Occupied
<1>9. Holds(d, key) => Found(d, key)
  BY <1>6 DEF Holds, Found, Occupied
<1> QED  BY <1>4, <1>5, <1>6, <1>8, <1>9

\* No key is in two slots of a sound table.
LEMMA KeysUnique ==
  ASSUME NEW d, Sound(d), hash \in [Keys -> Nat],
         NEW i \in Occupied(d), NEW j \in Occupied(d), d.keys[i] = d.keys[j]
  PROVE  i = j
<1>1. d.keys[i] \in Keys
  BY DEF Sound, IsData, Occupied
<1> QED  BY <1>1, LookupFinds

\* Soundness depends on the table and the hash function alone.
LEMMA SoundCarries ==
  ASSUME hash' = hash, NEW d, data' = d, Sound(d)
  PROVE  Sound(data)'
  BY DEF Sound, IsData, SizeSound, Occupied, Reaches, FirstStop, StopsAt, Probe, Offset, Slots,
         gu_map_entry_is_free

-----------------------------------------------------------------------------
(* Placing a key *)

\* A table to which a key was added in a slot that was free.
Added(d, idx, key, value) ==
  [keys |-> [d.keys EXCEPT ![idx] = key], values |-> [d.values EXCEPT ![idx] = value],
   n_occupied |-> d.n_occupied + 1, n_entries |-> d.n_entries,
   zero_idx |-> IF key = ZeroKey THEN idx ELSE d.zero_idx]

\* The slots that are occupied, and their contents, after a new key is added.
LEMMA AddedSlots ==
  ASSUME NEW d, IsData(d), NEW key \in Keys, ~Holds(d, key), NEW value,
         NEW idx \in Slots(d), gu_map_entry_is_free(d, idx), SIZE_MAX \notin Slots(d)
  PROVE  LET e == Added(d, idx, key, value) IN
         /\ Slots(e) = Slots(d)
         /\ Occupied(e) = Occupied(d) \cup {idx}
         /\ idx \notin Occupied(d)
         /\ \A i \in Slots(d) : /\ e.keys[i] = IF i = idx THEN key ELSE d.keys[i]
                                /\ e.values[i] = IF i = idx THEN value ELSE d.values[i]
<1> DEFINE e == Added(d, idx, key, value)
<1>1. e.n_entries = d.n_entries /\ e.zero_idx = IF key = ZeroKey THEN idx ELSE d.zero_idx
  BY DEF Added
<1>2. d.keys \in [Slots(d) -> Keys] /\ d.values \in [Slots(d) -> Values \cup {DefaultValue}]
  BY DEF IsData
<1>3. \A i \in Slots(d) : /\ e.keys[i] = IF i = idx THEN key ELSE d.keys[i]
                          /\ e.values[i] = IF i = idx THEN value ELSE d.values[i]
  BY <1>2 DEF Added
<1> HIDE DEF e
<1>4. Slots(e) = Slots(d)
  BY <1>1 DEF Slots
<1>5. idx \notin Occupied(d)
  BY DEF Occupied
<1>6. ~gu_map_entry_is_free(e, idx)
  BY <1>1, <1>3 DEF gu_map_entry_is_free
<1>7. ASSUME NEW i \in Slots(d), i # idx
      PROVE  gu_map_entry_is_free(e, i) <=> gu_map_entry_is_free(d, i)
  <2>1. e.keys[i] = d.keys[i]
    BY <1>3, <1>7
  <2>2. CASE key # ZeroKey
    BY <1>1, <2>1, <2>2 DEF gu_map_entry_is_free
  <2>3. CASE key = ZeroKey
    <3>1. ~(d.keys[i] = ZeroKey /\ d.zero_idx = i)
      BY <2>3 DEF Holds, Occupied, gu_map_entry_is_free
    <3> QED  BY <1>1, <1>7, <2>1, <2>3, <3>1 DEF gu_map_entry_is_free
  <2> QED  BY <2>2, <2>3
<1>8. Occupied(e) = Occupied(d) \cup {idx}
  BY <1>4, <1>6, <1>7 DEF Occupied
<1> QED  BY <1>3, <1>4, <1>5, <1>8 DEF e

\* A key that is added where its own lookup ends is found there, and every other
\* key where it was.
LEMMA AddedReaches ==
  ASSUME NEW d, Sound(d), hash \in [Keys -> Nat], NEW key \in Keys, ~Holds(d, key), NEW value,
         NEW idx \in Slots(d), gu_map_entry_is_free(d, idx), Reaches(d, key, idx)
  PROVE  LET e == Added(d, idx, key, value) IN
         \A i \in Occupied(e) : Reaches(e, e.keys[i], i)
<1> DEFINE e == Added(d, idx, key, value)
<1>1. IsData(d) /\ d.n_entries \in Nat /\ d.n_entries >= 5 /\ SIZE_MAX \notin Slots(d)
  BY DEF Sound, IsData, SizeSound
<1>2. /\ Slots(e) = Slots(d)
      /\ Occupied(e) = Occupied(d) \cup {idx}
      /\ idx \notin Occupied(d)
      /\ \A i \in Slots(d) : e.keys[i] = IF i = idx THEN key ELSE d.keys[i]
  BY <1>1, AddedSlots
<1>3. \A k, t : Probe(e, k, t) = Probe(d, k, t)
  BY DEF Added, Probe, Offset
<1> HIDE DEF e
<1>4. ASSUME NEW k \in Keys, NEW i \in Slots(d), Reaches(d, k, i), e.keys[i] = k,
             k = key \/ Holds(d, k)
      PROVE  Reaches(e, k, i)
  <2>1. PICK t \in Nat : FirstStop(d, k, t) /\ Probe(d, k, t) = i
    BY <1>4 DEF Reaches
  <2>2. t \in Slots(e) /\ StopsAt(e, k, Probe(e, k, t))
    BY <1>2, <1>3, <1>4, <2>1 DEF FirstStop, StopsAt
  <2>3. ASSUME NEW s \in 0..(t - 1) PROVE ~StopsAt(e, k, Probe(e, k, s))
    <3> DEFINE p == Probe(d, k, s)
    <3>1. p \in Slots(d)
      BY <1>1, ProbeIsSlot
    <3>2. ~StopsAt(d, k, p)
      BY <2>1, <2>3 DEF FirstStop
    <3> HIDE DEF p
    <3>3. p \in Occupied(d) /\ d.keys[p] # k
      BY <3>1, <3>2 DEF StopsAt, Occupied
    <3>4. p \in Occupied(e) /\ p # idx /\ e.keys[p] # k
      BY <1>2, <3>1, <3>3
    <3>5. ~StopsAt(e, k, p)
      BY <3>4 DEF StopsAt, Occupied
    <3> QED  BY <1>3, <3>5 DEF p
  <2> QED  BY <1>3, <2>1, <2>2, <2>3 DEF Reaches, FirstStop
<1>5. Reaches(e, e.keys[idx], idx)
  BY <1>2, <1>4
<1>6. ASSUME NEW i \in Occupied(d) PROVE Reaches(e, e.keys[i], i)
  <2>1. i \in Slots(d) /\ d.keys[i] \in Keys /\ Reaches(d, d.keys[i], i) /\ e.keys[i] = d.keys[i]
        /\ Holds(d, d.keys[i])
    BY <1>1, <1>2 DEF Sound, IsData, Occupied, Holds
  <2> QED  BY <1>4, <2>1
<1> QED  BY <1>2, <1>5, <1>6 DEF e

\* Adding a key leaves the table sound, if that leaves a slot free.
LEMMA PlaceSound ==
  ASSUME NEW d, Sound(d), hash \in [Keys -> Nat], NEW key \in Keys, ~Holds(d, key),
         NEW value \in Values \cup {DefaultValue}, d.n_occupied + 1 < d.n_entries
  PROVE  LET e == PlaceKey(d, key, value)
             idx == gu_map_lookup(d, key)
         IN /\ Sound(e)
            /\ e = Added(d, idx, key, value)
            /\ idx \in Slots(d) /\ gu_map_entry_is_free(d, idx)
<1> DEFINE idx == gu_map_lookup(d, key)
           e == Added(d, idx, key, value)
<1>1. IsData(d) /\ d.n_entries \in Nat /\ SizeSound(d) /\ SIZE_MAX \notin Slots(d)
  BY DEF Sound, IsData, SizeSound
<1>2. idx \in Slots(d) /\ Reaches(d, key, idx) /\ gu_map_entry_is_free(d, idx)
  BY LookupFinds DEF Found
<1>3. e = PlaceKey(d, key, value)
  BY DEF PlaceKey, Added
<1> HIDE DEF idx
<1>4. /\ Slots(e) = Slots(d)
      /\ Occupied(e) = Occupied(d) \cup {idx}
      /\ idx \notin Occupied(d)
  BY <1>1, <1>2, AddedSlots
<1>5. \A i \in Occupied(e) : Reaches(e, e.keys[i], i)
  BY <1>2, AddedReaches
<1>6. e.n_entries = d.n_entries /\ e.n_occupied = d.n_occupied + 1
  BY DEF Added
<1>7. e.n_occupied = Cardinality(Occupied(e))
  <2>1. IsFiniteSet(Occupied(d)) /\ d.n_occupied = Cardinality(Occupied(d))
    BY <1>1, SlotsFinite DEF Sound
  <2>2. Cardinality(Occupied(d) \cup {idx}) = Cardinality(Occupied(d)) + 1
    BY <1>4, <2>1, FS_AddElement
  <2> QED  BY <1>4, <1>6, <2>1, <2>2
<1>8. IsData(e)
  BY <1>1, <1>2, <1>4 DEF IsData, Added, Slots
<1>9. SizeSound(e)
  BY <1>1, <1>4, <1>6 DEF SizeSound
<1> HIDE DEF e
<1>10. Sound(e)
  BY <1>5, <1>6, <1>7, <1>8, <1>9 DEF Sound
<1> QED  BY <1>2, <1>3, <1>10 DEF e, idx

\* Storing another value leaves the table sound.
LEMMA ValueSound ==
  ASSUME NEW d, Sound(d), NEW idx \in Slots(d), NEW value \in Values \cup {DefaultValue}
  PROVE  LET e == [d EXCEPT !.values[idx] = value] IN
         /\ Sound(e)
         /\ Occupied(e) = Occupied(d)
         /\ e.keys = d.keys
         /\ e.values = [d.values EXCEPT ![idx] = value]
<1> DEFINE e == [d EXCEPT !.values[idx] = value]
<1>1. IsData(d)
  BY DEF Sound
<1>2. /\ e.keys = d.keys /\ e.n_entries = d.n_entries /\ e.n_occupied = d.n_occupied
      /\ e.zero_idx = d.zero_idx /\ e.values = [d.values EXCEPT ![idx] = value]
  BY <1>1 DEF IsData
<1>3. IsData(e)
  <2>1. Slots(e) = Slots(d)
    BY <1>2 DEF Slots
  <2>2. e.values \in [Slots(d) -> Values \cup {DefaultValue}]
    BY <1>1, <1>2 DEF IsData
  <2> QED  BY <1>1, <1>2, <2>1, <2>2 DEF IsData
<1> HIDE DEF e
<1>4. /\ Slots(e) = Slots(d) /\ Occupied(e) = Occupied(d)
      /\ \A i : gu_map_entry_is_free(e, i) <=> gu_map_entry_is_free(d, i)
      /\ \A k, t : Probe(e, k, t) = Probe(d, k, t)
  BY <1>2 DEF Slots, Occupied, gu_map_entry_is_free, Probe, Offset
<1>5. \A k, i : Reaches(d, k, i) => Reaches(e, k, i)
  BY <1>2, <1>4 DEF Reaches, FirstStop, StopsAt
<1>6. SizeSound(e)
  BY <1>2, <1>4 DEF SizeSound, Sound
<1> QED  BY <1>2, <1>3, <1>4, <1>5, <1>6 DEF Sound, e

-----------------------------------------------------------------------------
(* Sizes *)

\* A table holds no more keys than there are.
LEMMA NoMoreThanKeys ==
  ASSUME NEW d, Sound(d), hash \in [Keys -> Nat]
  PROVE  d.n_occupied \in 0..Cardinality(Keys)
<1> DEFINE f == [i \in Occupied(d) |-> d.keys[i]]
<1>1. d.n_occupied = Cardinality(Occupied(d)) /\ d.n_occupied \in Nat
  BY DEF Sound, IsData
<1>2. \A i \in Occupied(d) : d.keys[i] \in Keys
  BY DEF Sound, IsData, Occupied
<1>3. f \in Injection(Occupied(d), Keys)
  <2>1. ASSUME NEW i \in Occupied(d), NEW j \in Occupied(d), d.keys[i] = d.keys[j] PROVE i = j
    BY <2>1, KeysUnique
  <2> QED  BY <1>2, <2>1 DEF Injection, IsInjective
<1> HIDE DEF f
<1>4. IsFiniteSet(Keys)
  BY TwinPrimesAssumption
<1>5. Cardinality(Keys) \in Nat /\ Cardinality(Occupied(d)) <= Cardinality(Keys)
  BY <1>3, <1>4, FS_Injection, FS_CardinalityType
<1> QED  BY <1>1, <1>5

\* The sizes gu_map_resize chooses are primes above 4/3 of the keys.
LEMMA NewSizeSound ==
  ASSUME NEW n \in 0..Cardinality(Keys), NEW size \in NewSizes(n)
  PROVE  /\ size \in Nat /\ size >= 5
         /\ PrimeNumber(size)
         /\ SIZE_MAX \notin 0..(size - 1)
         /\ size > (n * 4) \div 3
<1> DEFINE least == (n * 4) \div 3 + 1
           req == IF least > MinEntries THEN least ELSE MinEntries
           bound == MinEntries + (Cardinality(Keys) * 4) \div 3 + 1
<1>1. Cardinality(Keys) \in Nat
  BY TwinPrimesAssumption, FS_CardinalityType
<1>2. req \in 0..bound /\ req > (n * 4) \div 3
  BY <1>1, GuMapAssumption
<1>3. PICK extra \in 0..MaxExtra : size = gu_twin_prime_inf(gu_twin_prime_sup(req) + extra)
  BY DEF NewSizes
<1> HIDE DEF req, bound
<1>4. \A m \in 0..bound, x \in 0..MaxExtra :
        LET s == gu_twin_prime_inf(gu_twin_prime_sup(m) + x) IN
        /\ s \in Nat /\ s >= m /\ s >= 5
        /\ \A k \in 2..(s - 1) : s % k # 0
        /\ SIZE_MAX \notin 0..(s - 1)
  BY TwinPrimesAssumption DEF bound
<1>5. /\ size \in Nat /\ size >= req /\ size >= 5
      /\ \A k \in 2..(size - 1) : size % k # 0
      /\ SIZE_MAX \notin 0..(size - 1)
  BY <1>2, <1>3, <1>4
<1> QED  BY <1>1, <1>2, <1>5 DEF PrimeNumber, bound

\* A new table is sound, and empty.
LEMMA FreshSound ==
  ASSUME NEW n \in 0..Cardinality(Keys), NEW size \in NewSizes(n)
  PROVE  /\ Sound(FreshData(size))
         /\ Occupied(FreshData(size)) = {}
         /\ FreshData(size).n_entries = size
         /\ FreshData(size).n_occupied = 0
<1> DEFINE d == FreshData(size)
<1>1. size \in Nat /\ size >= 5 /\ PrimeNumber(size) /\ SIZE_MAX \notin 0..(size - 1)
  BY NewSizeSound
<1>2. /\ d.n_entries = size /\ d.n_occupied = 0 /\ d.zero_idx = SIZE_MAX
      /\ d.keys = [i \in 0..(size - 1) |-> ZeroKey]
      /\ d.values = [i \in 0..(size - 1) |-> DefaultValue]
  BY DEF FreshData
<1>3. IsData(d)
  BY <1>1, GuMapAssumption DEF FreshData, IsData, Slots
<1> HIDE DEF d
<1>4. Occupied(d) = {}
  BY <1>1, <1>2 DEF Occupied, gu_map_entry_is_free, Slots
<1>5. SizeSound(d)
  BY <1>1, <1>2 DEF SizeSound, Slots
<1>6. Sound(d)
  BY <1>1, <1>2, <1>3, <1>4, <1>5, FS_EmptySet DEF Sound
<1> QED  BY <1>2, <1>4, <1>6 DEF d

-----------------------------------------------------------------------------
(* The inductive invariant *)

\* The occupied slots of the old table that Rehash has visited.
Visited == {j \in Occupied(resize.old) : j < resize.i}

\* A table being rebuilt holds what the visited slots of the old one hold, and has
\* room for all of it and for one key more.
RebuildSound ==
  /\ resize = [active |-> TRUE, old |-> resize.old, i |-> resize.i,
               key |-> resize.key, value |-> resize.value]
  /\ Sound(resize.old)
  /\ resize.i \in 0..resize.old.n_entries
  /\ resize.key \in Keys /\ ~Holds(resize.old, resize.key)
  /\ resize.value \in Values \cup {NONE}
  /\ data.n_entries > (resize.old.n_occupied * 4) \div 3
  /\ data.n_occupied = Cardinality(Visited)
  /\ \A s \in Occupied(data) : \E j \in Visited : /\ resize.old.keys[j] = data.keys[s]
                                                  /\ resize.old.values[j] = data.values[s]
  /\ \A j \in Visited : Holds(data, resize.old.keys[j])

MapInv ==
  /\ hash \in Hashes
  /\ Sound(data)
  /\ resize = NoResize \/ RebuildSound

\* Hash functions are functions.
LEMMA HashType ==
  ASSUME hash \in Hashes
  PROVE  hash \in [Keys -> Nat]
  BY GuMapAssumption

\* What was visited is a part of the old table, and all of it at the end.
LEMMA VisitedCount ==
  ASSUME MapInv, RebuildSound
  PROVE  /\ IsFiniteSet(Visited)
         /\ data.n_occupied <= resize.old.n_occupied
         /\ resize.i < resize.old.n_entries /\ ~gu_map_entry_is_free(resize.old, resize.i)
              => data.n_occupied + 1 <= resize.old.n_occupied
<1> DEFINE O == Occupied(resize.old)
<1>1. IsFiniteSet(O) /\ resize.old.n_occupied = Cardinality(O) /\ resize.old.n_entries \in Nat
  <2>1. resize.old.n_entries \in Nat /\ resize.old.n_occupied = Cardinality(O)
    BY DEF RebuildSound, Sound, IsData
  <2> QED  BY <2>1, SlotsFinite
<1>2. Visited \in SUBSET O
  BY DEF Visited
<1>3. IsFiniteSet(Visited) /\ Cardinality(Visited) <= Cardinality(O)
  BY <1>1, <1>2, FS_Subset
<1>4. data.n_occupied = Cardinality(Visited)
  BY DEF RebuildSound
<1>5. ASSUME resize.i < resize.old.n_entries, ~gu_map_entry_is_free(resize.old, resize.i)
      PROVE  data.n_occupied + 1 <= resize.old.n_occupied
  <2>1. resize.i \in O /\ resize.i \notin Visited
    BY <1>1, <1>5 DEF Occupied, Slots, RebuildSound, Visited
  <2>2. Visited \cup {resize.i} \in SUBSET O
    BY <1>2, <2>1
  <2>3. Cardinality(Visited \cup {resize.i}) = Cardinality(Visited) + 1
    BY <1>3, <2>1, FS_AddElement
  <2>4. Cardinality(Visited \cup {resize.i}) <= Cardinality(O)
    BY <1>1, <2>2, FS_Subset
  <2> QED  BY <1>1, <1>4, <2>3, <2>4
<1> QED  BY <1>1, <1>3, <1>4, <1>5

\* The key that is to be inserted next is not in the new table yet.
LEMMA NotThereYet ==
  ASSUME MapInv, RebuildSound
  PROVE  /\ ~Holds(data, resize.key)
         /\ resize.i < resize.old.n_entries /\ ~gu_map_entry_is_free(resize.old, resize.i)
              => ~Holds(data, resize.old.keys[resize.i])
<1>1. ASSUME NEW k, Holds(data, k) PROVE \E j \in Visited : resize.old.keys[j] = k
  BY <1>1 DEF Holds, RebuildSound
<1>2. ~Holds(data, resize.key)
  BY <1>1 DEF RebuildSound, Holds, Visited
<1>3. ASSUME resize.i < resize.old.n_entries, ~gu_map_entry_is_free(resize.old, resize.i),
             Holds(data, resize.old.keys[resize.i])
      PROVE  FALSE
  <2>1. PICK j \in Visited : resize.old.keys[j] = resize.old.keys[resize.i]
    BY <1>1, <1>3
  <2>2. resize.i \in Occupied(resize.old) /\ j \in Occupied(resize.old) /\ j < resize.i
        /\ resize.i \in Int
    BY <1>3 DEF RebuildSound, Sound, IsData, Occupied, Slots, Visited
  <2>3. Sound(resize.old) /\ hash \in [Keys -> Nat]
    BY HashType DEF MapInv, RebuildSound
  <2>4. j = resize.i
    BY <2>1, <2>2, <2>3, KeysUnique
  <2> QED  BY <2>2, <2>4
<1> QED  BY <1>2, <1>3

-----------------------------------------------------------------------------
(* The steps *)

\* An insertion that finds its key.
LEMMA InsertFoundSound ==
  ASSUME MapInv, NEW kv \in Insertions, InsertFound(kv[1], kv[2])
  PROVE  MapInv'
<1> DEFINE key == kv[1]
           idx == gu_map_lookup(data, key)
           v == Stored(data.values[idx], kv[2])
<1>1. key \in Keys /\ kv[2] \in Values \cup {NONE} /\ hash \in [Keys -> Nat] /\ Sound(data)
  BY GuMapAssumption, HashType DEF MapInv
<1>2. idx \in Slots(data)
  BY <1>1, LookupFinds
<1>3. v \in Values \cup {DefaultValue}
  BY <1>1, <1>2 DEF Stored, Sound, IsData
<1>4. data' = [data EXCEPT !.values[idx] = v] /\ hash' = hash /\ resize' = resize
  BY DEF InsertFound
<1> HIDE DEF idx, v
<1>5. Sound([data EXCEPT !.values[idx] = v])
  BY <1>1, <1>2, <1>3, ValueSound
<1>6. Sound(data)'
  BY <1>4, <1>5, SoundCarries
<1>7. resize = NoResize
  BY DEF InsertFound, MapInv, RebuildSound
<1> QED  BY <1>4, <1>6, <1>7 DEF MapInv, NoResize

\* A new key in a table that is not crowded leaves a slot free.
LEMMA InsertPlainSound ==
  ASSUME MapInv, NEW kv \in Insertions, InsertPlain(kv[1], kv[2])
  PROVE  MapInv'
<1> DEFINE key == kv[1]
           v == Stored(DefaultValue, kv[2])
<1>1. key \in Keys /\ kv[2] \in Values \cup {NONE} /\ hash \in [Keys -> Nat] /\ Sound(data)
  BY GuMapAssumption, HashType DEF MapInv
<1>2. v \in Values \cup {DefaultValue}
  BY <1>1 DEF Stored
<1>3. data' = PlaceKey(data, key, v) /\ hash' = hash /\ resize' = resize
  BY DEF InsertPlain
<1>4. ~Holds(data, key)
  BY <1>1, LookupFinds DEF InsertPlain
<1>5. data.n_occupied + 1 < data.n_entries
  BY <1>1 DEF InsertPlain, Crowded, Sound, IsData, SizeSound
<1> HIDE DEF v
<1>6. Sound(PlaceKey(data, key, v))
  BY <1>1, <1>2, <1>4, <1>5, PlaceSound
<1>7. Sound(data)'
  BY <1>3, <1>6, SoundCarries
<1>8. resize = NoResize
  BY DEF InsertPlain, MapInv, RebuildSound
<1> QED  BY <1>3, <1>7, <1>8 DEF MapInv, NoResize

\* The old table stays sound, and holds what it holds, while the hash function and
\* the table stay.
LEMMA OldCarries ==
  ASSUME hash' = hash, NEW d, resize'.old = d
  PROVE  /\ Sound(d) => Sound(resize.old)'
         /\ Holds(resize.old, resize.key)' <=> Holds(d, resize'.key)
<1>1. Sound(d) => Sound(resize.old)'
  BY DEF Sound, IsData, SizeSound, Occupied, Reaches, FirstStop, StopsAt, Probe, Offset, Slots,
         gu_map_entry_is_free
<1>2. Holds(resize.old, resize.key)' <=> Holds(d, resize'.key)
  BY DEF Holds, Occupied, Slots, gu_map_entry_is_free
<1> QED  BY <1>1, <1>2

\* The table that a resize begins with is sound, and empty.
LEMMA BeginResizeSound ==
  ASSUME MapInv, NEW kv \in Insertions, BeginResize(kv[1], kv[2])
  PROVE  MapInv'
<1> DEFINE key == kv[1]
<1>1. key \in Keys /\ kv[2] \in Values \cup {NONE} /\ hash \in [Keys -> Nat] /\ Sound(data)
  BY GuMapAssumption, HashType DEF MapInv
<1>2. PICK size \in NewSizes(data.n_occupied) : data' = FreshData(size)
  BY DEF BeginResize
<1>3. /\ hash' = hash
      /\ resize' = [active |-> TRUE, old |-> data, i |-> 0, key |-> key, value |-> kv[2]]
  BY DEF BeginResize
<1>4. /\ resize'.old = data /\ resize'.i = 0 /\ resize'.key = key /\ resize'.value = kv[2]
      /\ resize' = [active |-> TRUE, old |-> resize'.old, i |-> resize'.i,
                    key |-> resize'.key, value |-> resize'.value]
  BY <1>3
<1>5. data.n_occupied \in 0..Cardinality(Keys)
  BY <1>1, NoMoreThanKeys
<1> DEFINE d == FreshData(size)
<1>6. Sound(d) /\ Occupied(d) = {} /\ d.n_entries = size /\ d.n_occupied = 0
  BY <1>5, FreshSound
<1>7. size > (data.n_occupied * 4) \div 3
  BY <1>5, NewSizeSound
<1> HIDE DEF d
<1>8. data' = d
  BY <1>2 DEF d
<1>9. Sound(data)' /\ Sound(resize.old)'
  BY <1>1, <1>3, <1>4, <1>6, <1>8, SoundCarries, OldCarries
<1>10. ~Holds(resize.old, resize.key)'
  <2>1. ~Holds(data, key)
    BY <1>1, LookupFinds DEF BeginResize
  <2> QED  BY <1>3, <1>4, <2>1, OldCarries
<1>11. Visited' = {}
  BY <1>1, <1>4 DEF Visited, Occupied, Slots, Sound, IsData
<1>12. Occupied(data)' = {}
  BY <1>6, <1>8 DEF Occupied, Slots, gu_map_entry_is_free
<1>13. data'.n_occupied = 0 /\ data'.n_entries > (resize'.old.n_occupied * 4) \div 3
  BY <1>4, <1>6, <1>7, <1>8
<1>14. resize'.i \in 0..resize'.old.n_entries
  BY <1>1, <1>4 DEF Sound, IsData
<1>15. RebuildSound'
  BY <1>1, <1>4, <1>9, <1>10, <1>11, <1>12, <1>13, <1>14, FS_EmptySet DEF RebuildSound
<1> QED  BY <1>3, <1>9, <1>15 DEF MapInv

\* A round of the loop of gu_map_resize.
LEMMA RehashSound ==
  ASSUME MapInv, Rehash
  PROVE  MapInv'
<1>1. RebuildSound /\ hash \in [Keys -> Nat] /\ Sound(data)
  BY HashType DEF Rehash, MapInv, NoResize
<1> DEFINE old == resize.old
           n == resize.i
<1>2. /\ resize = [active |-> TRUE, old |-> old, i |-> n, key |-> resize.key,
                   value |-> resize.value]
      /\ Sound(old) /\ n \in 0..old.n_entries /\ n < old.n_entries /\ hash' = hash
  BY <1>1 DEF RebuildSound, Rehash
<1>3. /\ resize' = [active |-> TRUE, old |-> old, i |-> n + 1, key |-> resize.key,
                    value |-> resize.value]
  BY <1>2 DEF Rehash
<1>4. /\ resize'.old = old /\ resize'.i = n + 1 /\ resize'.key = resize.key
      /\ resize'.value = resize.value
      /\ resize' = [active |-> TRUE, old |-> resize'.old, i |-> resize'.i,
                    key |-> resize'.key, value |-> resize'.value]
  BY <1>3
<1> HIDE DEF old, n
<1>5. n \in Nat /\ old.n_entries \in Nat
  BY <1>2 DEF Sound, IsData
<1>6. Visited' = {j \in Occupied(old) : j < n + 1}
  BY <1>4 DEF Visited, Occupied, Slots, gu_map_entry_is_free
<1>7. /\ Sound(resize.old)' /\ ~Holds(resize.old, resize.key)'
      /\ resize'.i \in 0..resize'.old.n_entries /\ resize'.key \in Keys
      /\ resize'.value \in Values \cup {NONE}
  <2>1. ~Holds(old, resize.key) /\ resize.key \in Keys /\ resize.value \in Values \cup {NONE}
    BY <1>1 DEF RebuildSound, old
  <2> QED  BY <1>2, <1>4, <1>5, <2>1, OldCarries
<1>8. CASE gu_map_entry_is_free(old, n)
  <2>1. data' = data
    BY <1>8 DEF Rehash, old, n
  <2>2. Visited' = Visited
    <3>1. \A j \in Occupied(old) : j # n /\ j \in Int
      BY <1>5, <1>8 DEF Occupied, Slots
    <3>2. \A j \in Occupied(old) : j < n + 1 <=> j < n
      BY <1>5, <3>1
    <3> QED  BY <1>6, <3>2 DEF Visited, old, n
  <2>3. Sound(data)'
    BY <1>1, <1>2, <2>1, SoundCarries
  <2>4. /\ \A s \in Occupied(data)' : \E j \in Visited' : /\ resize'.old.keys[j] = data'.keys[s]
                                                         /\ resize'.old.values[j] = data'.values[s]
        /\ \A j \in Visited' : Holds(data, resize.old.keys[j])'
    <3>1. Occupied(data)' = Occupied(data) /\ \A k : Holds(data, k)' <=> Holds(data, k)
      BY <2>1 DEF Occupied, Slots, gu_map_entry_is_free, Holds
    <3> QED  BY <1>1, <1>4, <2>1, <2>2, <3>1 DEF RebuildSound, old, Holds
  <2>5. RebuildSound'
    BY <1>1, <1>4, <1>7, <2>1, <2>2, <2>4 DEF RebuildSound, old
  <2> QED  BY <1>2, <2>3, <2>5 DEF MapInv
<1>9. CASE ~gu_map_entry_is_free(old, n)
  <2> DEFINE key == old.keys[n]
             v == old.values[n]
  <2>1. data' = PlaceKey(data, key, v)
    BY <1>9 DEF Rehash, old, n
  <2>2. n \in Slots(old) /\ key \in Keys /\ v \in Values \cup {DefaultValue}
    BY <1>2, <1>5 DEF Slots, Sound, IsData
  <2>3. ~Holds(data, key) /\ data.n_occupied + 1 <= old.n_occupied
    BY <1>1, <1>2, <1>9, NotThereYet, VisitedCount DEF old, n
  <2>4. data.n_occupied + 1 < data.n_entries
    <3>1. data.n_entries > (old.n_occupied * 4) \div 3
      BY <1>1 DEF RebuildSound, old
    <3>2. old.n_occupied \in Nat /\ data.n_occupied \in Nat /\ data.n_entries \in Nat
      BY <1>1, <1>2 DEF Sound, IsData
    <3> QED  BY <2>3, <3>1, <3>2
  <2> DEFINE idx == gu_map_lookup(data, key)
             e == Added(data, idx, key, v)
  <2> HIDE DEF key, v
  <2>5. Sound(e) /\ PlaceKey(data, key, v) = e /\ idx \in Slots(data)
        /\ gu_map_entry_is_free(data, idx)
    BY <1>1, <2>2, <2>3, <2>4, PlaceSound
  <2> HIDE DEF idx
  <2>6. /\ Occupied(e) = Occupied(data) \cup {idx}
        /\ \A s \in Slots(data) : /\ e.keys[s] = IF s = idx THEN key ELSE data.keys[s]
                                  /\ e.values[s] = IF s = idx THEN v ELSE data.values[s]
    BY <1>1, <2>2, <2>3, <2>5, AddedSlots DEF Sound, SizeSound
  <2>7. e.n_entries = data.n_entries /\ e.n_occupied = data.n_occupied + 1
    BY DEF Added
  <2> HIDE DEF e
  <2>8. data' = e
    BY <2>1, <2>5
  <2>9. Sound(data)'
    BY <1>2, <2>5, <2>8, SoundCarries
  <2>10. Visited' = Visited \cup {n} /\ n \notin Visited
    <3>1. n \in Occupied(old)
      BY <1>9, <2>2 DEF Occupied
    <3>2. \A j \in Occupied(old) : j \in Int
      BY <1>5 DEF Occupied, Slots
    <3> QED  BY <1>5, <1>6, <3>1, <3>2 DEF Visited, old, n
  <2>11. data'.n_occupied = Cardinality(Visited')
    <3>1. IsFiniteSet(Visited) /\ data.n_occupied = Cardinality(Visited)
      BY <1>1, VisitedCount DEF RebuildSound
    <3> QED  BY <2>7, <2>8, <2>10, <3>1, FS_AddElement
  <2>12. Occupied(data)' = Occupied(data) \cup {idx}
    BY <2>6, <2>8 DEF Occupied, Slots, gu_map_entry_is_free
  <2>13. ASSUME NEW s \in Occupied(data)'
         PROVE  \E j \in Visited' : old.keys[j] = data'.keys[s] /\ old.values[j] = data'.values[s]
    <3>1. CASE s = idx
      BY <2>5, <2>6, <2>8, <2>10, <3>1 DEF key, v
    <3>2. CASE s # idx
      <4>1. s \in Occupied(data) /\ s \in Slots(data)
        BY <2>12, <3>2 DEF Occupied
      <4>2. data'.keys[s] = data.keys[s] /\ data'.values[s] = data.values[s]
        BY <2>6, <2>8, <3>2, <4>1
      <4> QED  BY <1>1, <2>10, <4>1, <4>2 DEF RebuildSound, old
    <3> QED  BY <3>1, <3>2
  <2>14. ASSUME NEW j \in Visited' PROVE Holds(data, resize.old.keys[j])'
    <3>1. \E s \in Occupied(data)' : data'.keys[s] = old.keys[j]
      <4>1. CASE j = n
        BY <2>5, <2>6, <2>8, <2>12, <4>1 DEF key
      <4>2. CASE j # n
        <5>1. PICK s \in Occupied(data) : data.keys[s] = old.keys[j]
          BY <1>1, <2>10, <4>2 DEF RebuildSound, Holds, old
        <5>2. s # idx /\ s \in Slots(data)
          BY <2>5 DEF Occupied
        <5> QED  BY <2>6, <2>8, <2>12, <5>1, <5>2
      <4> QED  BY <4>1, <4>2
    <3> QED  BY <1>4, <3>1 DEF Holds
  <2>15. data'.n_entries > (resize'.old.n_occupied * 4) \div 3
    BY <1>1, <1>4, <2>7, <2>8 DEF RebuildSound, old
  <2>16. RebuildSound'
    BY <1>4, <1>7, <2>11, <2>13, <2>14, <2>15 DEF RebuildSound
  <2> QED  BY <1>2, <2>9, <2>16 DEF MapInv
<1> QED  BY <1>8, <1>9

\* The key that caused the resize goes into the new table.
LEMMA EndResizeSound ==
  ASSUME MapInv, EndResize
  PROVE  MapInv'
<1> DEFINE key == resize.key
           v == Stored(DefaultValue, resize.value)
<1>1. RebuildSound /\ hash \in [Keys -> Nat] /\ Sound(data)
  BY HashType DEF EndResize, MapInv, NoResize
<1>2. key \in Keys /\ v \in Values \cup {DefaultValue}
  BY <1>1 DEF RebuildSound, Stored
<1>3. data' = PlaceKey(data, key, v) /\ hash' = hash /\ resize' = NoResize
  BY DEF EndResize
<1>4. ~Holds(data, key)
  BY <1>1, NotThereYet
<1>5. data.n_occupied + 1 < data.n_entries
  <2>1. data.n_occupied <= resize.old.n_occupied
    BY <1>1, VisitedCount
  <2>2. data.n_entries > (resize.old.n_occupied * 4) \div 3 /\ data.n_entries >= 5
    BY <1>1 DEF RebuildSound, Sound, SizeSound
  <2>3. resize.old.n_occupied \in Nat /\ data.n_occupied \in Nat /\ data.n_entries \in Nat
    BY <1>1 DEF RebuildSound, Sound, IsData
  <2> QED  BY <2>1, <2>2, <2>3
<1> HIDE DEF key, v
<1>6. Sound(PlaceKey(data, key, v))
  BY <1>1, <1>2, <1>4, <1>5, PlaceSound
<1>7. Sound(data)'
  BY <1>3, <1>6, SoundCarries
<1> QED  BY <1>3, <1>7 DEF MapInv

\* A new map is a sound table.
LEMMA InitSound ==
  ASSUME Init
  PROVE  MapInv
<1>1. PICK size \in NewSizes(0) : data = FreshData(size)
  BY DEF Init
<1>2. 0 \in 0..Cardinality(Keys)
  BY TwinPrimesAssumption, FS_CardinalityType
<1>3. Sound(FreshData(size))
  BY <1>2, FreshSound
<1> QED  BY <1>1, <1>3 DEF Init, MapInv

\* Every step keeps the invariant.
LEMMA MapInvStep ==
  ASSUME MapInv, [Next]_vars
  PROVE  MapInv'
<1>1. ASSUME NEW kv \in Insertions, gu_map_insert(kv[1], kv[2]) PROVE MapInv'
  BY <1>1, InsertFoundSound, InsertPlainSound, BeginResizeSound DEF gu_map_insert
<1>2. CASE Rehash
  BY <1>2, RehashSound
<1>3. CASE EndResize
  BY <1>3, EndResizeSound
<1>4. CASE UNCHANGED vars
  <2>1. hash' = hash /\ data' = data /\ resize' = resize
    BY <1>4 DEF vars
  <2>2. Sound(data)'
    BY <2>1, SoundCarries DEF MapInv
  <2>3. RebuildSound => RebuildSound'
    <3> SUFFICES ASSUME RebuildSound PROVE RebuildSound'
      OBVIOUS
    <3>1. resize'.old = resize.old
      BY <2>1
    <3>2. Sound(resize.old)' /\ ~Holds(resize.old, resize.key)'
      BY <2>1, <3>1, OldCarries DEF RebuildSound
    <3>3. Visited' = Visited /\ Occupied(data)' = Occupied(data)
      BY <2>1 DEF Visited, Occupied, Slots, gu_map_entry_is_free
    <3>4. \A j \in Visited : Holds(data, resize.old.keys[j])'
      BY <2>1, <3>3 DEF RebuildSound, Holds
    <3> QED  BY <2>1, <3>2, <3>3, <3>4 DEF RebuildSound
  <2> QED  BY <2>1, <2>2, <2>3 DEF MapInv, NoResize
<1> QED  BY <1>1, <1>2, <1>3, <1>4 DEF Next

\* The invariant holds of every reachable state.
THEOREM MapInvHolds == Spec => []MapInv
<1>1. Init => MapInv
  BY InitSound
<1>2. MapInv /\ [Next]_vars => MapInv'
  BY MapInvStep
<1> QED  BY <1>1, <1>2, PTL DEF Spec

\* Every lookup ends, every key that is stored is found, no key is stored twice
\* and n_occupied counts the keys, in every state of a map (gu_map_lookup).
THEOREM EveryKeyFoundHolds == Spec => []EveryKeyFound
<1>1. MapInv => EveryKeyFound
  <2> SUFFICES ASSUME MapInv PROVE EveryKeyFound
    OBVIOUS
  <2>1. Sound(data) /\ hash \in [Keys -> Nat]
    BY HashType DEF MapInv
  <2>2. TypeOK
    BY DEF MapInv, TypeOK, Sound, RebuildSound, NoResize
  <2>3. LookupEnds
    BY <2>1, LookupFinds DEF LookupEnds
  <2>4. ASSUME NEW i \in Occupied(data) PROVE gu_map_lookup(data, data.keys[i]) = i
    <3>1. data.keys[i] \in Keys
      BY <2>1 DEF Sound, IsData, Occupied
    <3> QED  BY <2>1, <3>1, LookupFinds
  <2> QED  BY <2>1, <2>2, <2>3, <2>4 DEF EveryKeyFound, Sound
<1> QED  BY <1>1, MapInvHolds, PTL

\* The assertions of gu_map_resize and gu_map_insert hold: there is room in the new
\* table, no insertion into it resizes again, and each key is new to it.
THEOREM ResizeSoundHolds == Spec => []ResizeSound
<1>1. MapInv => ResizeSound
  <2> SUFFICES ASSUME MapInv, resize.active PROVE ResizeSound
    BY DEF ResizeSound
  <2>1. RebuildSound /\ Sound(data) /\ Sound(resize.old) /\ hash \in [Keys -> Nat]
    BY HashType DEF MapInv, NoResize, RebuildSound
  <2>2. /\ data.n_occupied <= resize.old.n_occupied
        /\ data.n_entries > (resize.old.n_occupied * 4) \div 3
        /\ data.n_occupied \in Nat /\ resize.old.n_occupied \in Nat /\ data.n_entries \in Nat
    BY <2>1, VisitedCount DEF RebuildSound, Sound, IsData
  <2>3. data.n_entries > resize.old.n_occupied
    BY <2>2
  <2>4. ~Crowded(data)
    BY <2>2 DEF Crowded
  <2>5. ~Found(data, resize.key)
    BY <2>1, NotThereYet, LookupFinds DEF RebuildSound
  <2>6. ASSUME resize.i < resize.old.n_entries, ~gu_map_entry_is_free(resize.old, resize.i)
        PROVE  ~Found(data, resize.old.keys[resize.i])
    <3>1. resize.old.keys[resize.i] \in Keys
      BY <2>1, <2>6 DEF RebuildSound, Sound, IsData, Slots
    <3>2. ~Holds(data, resize.old.keys[resize.i])
      BY <2>1, <2>6, NotThereYet
    <3> QED  BY <2>1, <3>1, <3>2, LookupFinds
  <2> QED  BY <2>3, <2>4, <2>5, <2>6 DEF ResizeSound
<1> QED  BY <1>1, MapInvHolds, PTL

-----------------------------------------------------------------------------
(* The map as a finite function *)

\* Function C is what table d holds.
ContentIs(d, C) ==
  /\ C = [k \in {k \in Keys : Holds(d, k)} |-> C[k]]
  /\ \A i \in Occupied(d) : C[d.keys[i]] = d.values[i]

\* The table that the client sees.
Table == IF resize.active THEN resize.old ELSE data

\* Content is what the table holds that the client sees.
LEMMA ContentNow == MapInv => ContentIs(Table, Content)
<1> SUFFICES ASSUME MapInv PROVE ContentIs(Table, Content)
  OBVIOUS
<1>1. Sound(Table) /\ hash \in [Keys -> Nat]
  BY HashType DEF MapInv, Table, RebuildSound, NoResize
<1>2. Content = [key \in {k \in Keys : Found(Table, k)} |-> gu_map_find(Table, key)]
  BY DEF Content, Table
<1> HIDE DEF Table
<1>3. {k \in Keys : Found(Table, k)} = {k \in Keys : Holds(Table, k)}
  BY <1>1, LookupFinds
<1>4. ASSUME NEW i \in Occupied(Table) PROVE Content[Table.keys[i]] = Table.values[i]
  <2>1. Table.keys[i] \in Keys /\ Holds(Table, Table.keys[i])
    BY <1>1 DEF Sound, IsData, Occupied, Holds
  <2>2. gu_map_lookup(Table, Table.keys[i]) = i
    BY <1>1, <2>1, LookupFinds
  <2> QED  BY <1>2, <1>3, <2>1, <2>2 DEF gu_map_find
<1> QED  BY <1>2, <1>3, <1>4 DEF ContentIs

\* What a table holds after the value of one key is set, or one key added.
LEMMA ContentSet ==
  ASSUME NEW d, NEW e, NEW C, NEW D, ContentIs(d, C), ContentIs(e, D),
         NEW idx, NEW key \in Keys, NEW v,
         Occupied(e) = Occupied(d) \cup {idx}, e.keys[idx] = key, e.values[idx] = v,
         \A i \in Occupied(d) : i # idx => /\ e.keys[i] = d.keys[i] /\ e.values[i] = d.values[i]
                                           /\ d.keys[i] # key,
         idx \in Occupied(d) => d.keys[idx] = key
  PROVE  /\ D = [x \in DOMAIN C \cup {key} |-> IF x = key THEN v ELSE C[x]]
         /\ key \in DOMAIN C <=> idx \in Occupied(d)
<1>1. DOMAIN C = {k \in Keys : Holds(d, k)} /\ DOMAIN D = {k \in Keys : Holds(e, k)}
  BY DEF ContentIs
<1>2. \A k \in Keys : Holds(e, k) <=> Holds(d, k) \/ k = key
  BY DEF Holds
<1>3. DOMAIN D = DOMAIN C \cup {key}
  BY <1>1, <1>2
<1>4. ASSUME NEW x \in DOMAIN D PROVE D[x] = IF x = key THEN v ELSE C[x]
  <2>1. CASE x = key
    BY <2>1 DEF ContentIs
  <2>2. CASE x # key
    <3>1. PICK i \in Occupied(e) : e.keys[i] = x
      BY <1>1, <1>4 DEF Holds
    <3>2. i \in Occupied(d) /\ i # idx
      BY <2>2, <3>1
    <3>3. D[x] = e.values[i]
      BY <3>1 DEF ContentIs
    <3>4. C[x] = d.values[i]
      BY <3>1, <3>2 DEF ContentIs
    <3> QED  BY <2>2, <3>2, <3>3, <3>4
  <2> QED  BY <2>1, <2>2
<1>5. D = [x \in DOMAIN D |-> D[x]]
  BY <1>1 DEF ContentIs
<1>6. key \in DOMAIN C <=> idx \in Occupied(d)
  BY <1>1 DEF Holds
<1> QED  BY <1>3, <1>4, <1>5, <1>6

\* Setting the value of a key, or adding one with the default value, is a step of
\* the abstract map, or leaves it as it was.
LEMMA SetRefines ==
  ASSUME NEW key \in Keys, NEW value \in Values \cup {NONE}, NEW v,
         Content = [x \in DOMAIN Content |-> Content[x]],
         Content' = [x \in DOMAIN Content \cup {key} |-> IF x = key THEN v ELSE Content[x]],
         v = Stored(IF key \in DOMAIN Content THEN Content[key] ELSE DefaultValue, value)
  PROVE  Abs!AbsNext \/ Content' = Content
<1>1. CASE value # NONE
  <2>1. value \in Values /\ v = value
    BY <1>1 DEF Stored
  <2>2. Abs!AbsPut(key, value)
    BY <2>1 DEF Abs!AbsPut, Abs!With
  <2> QED  BY <2>1, <2>2 DEF Abs!AbsNext
<1>2. CASE value = NONE /\ key \in DOMAIN Content
  <2>1. v = Content[key] /\ DOMAIN Content \cup {key} = DOMAIN Content
    BY <1>2 DEF Stored
  <2> QED  BY <2>1
<1>3. CASE value = NONE /\ key \notin DOMAIN Content
  <2>1. v = DefaultValue
    BY <1>3 DEF Stored
  <2>2. Abs!AbsInsert(key)
    BY <1>3, <2>1 DEF Abs!AbsInsert, Abs!With
  <2> QED  BY <2>2 DEF Abs!AbsNext
<1> QED  BY <1>1, <1>2, <1>3

\* An insertion that finds its key sets its value, or does nothing.
LEMMA InsertFoundRefines ==
  ASSUME MapInv, NEW kv \in Insertions, InsertFound(kv[1], kv[2]),
         ContentIs(data, Content), ContentIs(data', Content')
  PROVE  Abs!AbsNext \/ Content' = Content
<1> DEFINE key == kv[1]
           idx == gu_map_lookup(data, key)
           v == Stored(data.values[idx], kv[2])
           e == [data EXCEPT !.values[idx] = v]
<1>1. key \in Keys /\ kv[2] \in Values \cup {NONE} /\ hash \in [Keys -> Nat] /\ Sound(data)
  BY GuMapAssumption, HashType DEF MapInv
<1>2. idx \in Slots(data) /\ idx \in Occupied(data) /\ data.keys[idx] = key
  BY <1>1, LookupFinds DEF InsertFound, Found, Occupied
<1>3. v \in Values \cup {DefaultValue}
  BY <1>1, <1>2 DEF Stored, Sound, IsData
<1>4. data' = e
  BY DEF InsertFound
<1> HIDE DEF idx, v, key
<1>5. Occupied(e) = Occupied(data) /\ e.keys = data.keys
      /\ e.values = [data.values EXCEPT ![idx] = v]
  BY <1>1, <1>2, <1>3, ValueSound
<1> HIDE DEF e
<1>6. e.values[idx] = v /\ \A i \in Occupied(data) : i # idx => e.values[i] = data.values[i]
  BY <1>1, <1>2, <1>5 DEF Sound, IsData, Occupied
<1>7. \A i \in Occupied(data) : i # idx => data.keys[i] # key
  BY <1>1, <1>2, KeysUnique
<1>8. ContentIs(e, Content')
  BY <1>4
<1>9. /\ Content' = [x \in DOMAIN Content \cup {key} |-> IF x = key THEN v ELSE Content[x]]
      /\ key \in DOMAIN Content
  <2>1. Occupied(e) = Occupied(data) \cup {idx} /\ e.keys[idx] = key /\ e.values[idx] = v
    BY <1>2, <1>5, <1>6
  <2>2. \A i \in Occupied(data) : i # idx =>
          e.keys[i] = data.keys[i] /\ e.values[i] = data.values[i] /\ data.keys[i] # key
    BY <1>5, <1>6, <1>7
  <2> QED  BY <1>1, <1>2, <1>8, <2>1, <2>2, ContentSet
<1>10. Content[key] = data.values[idx] /\ Content = [x \in DOMAIN Content |-> Content[x]]
  BY <1>2 DEF ContentIs
<1>11. v = Stored(IF key \in DOMAIN Content THEN Content[key] ELSE DefaultValue, kv[2])
  BY <1>9, <1>10 DEF v
<1> QED  BY <1>1, <1>9, <1>10, <1>11, SetRefines

\* Placing a key in the table adds it to what the table holds.
LEMMA PlaceRefines ==
  ASSUME Sound(data), hash \in [Keys -> Nat], NEW key \in Keys, ~Holds(data, key),
         NEW value \in Values \cup {NONE}, data.n_occupied + 1 < data.n_entries,
         data' = PlaceKey(data, key, Stored(DefaultValue, value)),
         ContentIs(data, Content), ContentIs(data', Content')
  PROVE  Abs!AbsNext \/ Content' = Content
<1> DEFINE v == Stored(DefaultValue, value)
           idx == gu_map_lookup(data, key)
           e == Added(data, idx, key, v)
<1>1. v \in Values \cup {DefaultValue}
  BY DEF Stored
<1>2. data' = PlaceKey(data, key, v)
  OBVIOUS
<1> HIDE DEF v
<1>3. PlaceKey(data, key, v) = e /\ idx \in Slots(data) /\ gu_map_entry_is_free(data, idx)
  BY <1>1, PlaceSound
<1> HIDE DEF idx
<1>4. /\ Occupied(e) = Occupied(data) \cup {idx}
      /\ idx \notin Occupied(data)
      /\ \A i \in Slots(data) : /\ e.keys[i] = IF i = idx THEN key ELSE data.keys[i]
                                /\ e.values[i] = IF i = idx THEN v ELSE data.values[i]
  BY <1>3, AddedSlots DEF Sound, SizeSound
<1> HIDE DEF e
<1>5. \A i \in Occupied(data) : i # idx => /\ e.keys[i] = data.keys[i] /\ e.values[i] = data.values[i]
                                          /\ data.keys[i] # key
  BY <1>4 DEF Occupied, Holds
<1>6. e.keys[idx] = key /\ e.values[idx] = v
  BY <1>3, <1>4
<1>7. ContentIs(e, Content')
  BY <1>2, <1>3
<1>8. /\ Content' = [x \in DOMAIN Content \cup {key} |-> IF x = key THEN v ELSE Content[x]]
      /\ key \notin DOMAIN Content
  BY <1>4, <1>5, <1>6, <1>7, ContentSet
<1>9. Content = [x \in DOMAIN Content |-> Content[x]]
  BY DEF ContentIs
<1>10. v = Stored(IF key \in DOMAIN Content THEN Content[key] ELSE DefaultValue, value)
  BY <1>8 DEF v
<1> QED  BY <1>8, <1>9, <1>10, SetRefines

\* When all of the old table was visited, the new one holds the same.
LEMMA RebuiltSame ==
  ASSUME MapInv, RebuildSound, resize.i = resize.old.n_entries, NEW C, ContentIs(resize.old, C)
  PROVE  ContentIs(data, C)
<1>1. Visited = Occupied(resize.old)
  BY DEF Visited, Occupied, Slots, RebuildSound, Sound, IsData
<1>2. \A k \in Keys : Holds(data, k) <=> Holds(resize.old, k)
  BY <1>1 DEF Holds, RebuildSound
<1>3. C = [k \in {k \in Keys : Holds(data, k)} |-> C[k]]
  BY <1>2 DEF ContentIs
<1>4. ASSUME NEW s \in Occupied(data) PROVE C[data.keys[s]] = data.values[s]
  BY <1>1 DEF RebuildSound, ContentIs
<1> QED  BY <1>3, <1>4 DEF ContentIs

\* Every step of the table is a step of the finite function, or leaves it alone.
LEMMA StepRefines ==
  ASSUME MapInv, MapInv', [Next]_vars, ContentIs(Table, Content), ContentIs(Table, Content)'
  PROVE  Abs!AbsNext \/ Content' = Content
<1>1. ContentIs(Table', Content')
  BY DEF ContentIs, Holds, Occupied, Slots, gu_map_entry_is_free
<1>2. Sound(data) /\ hash \in [Keys -> Nat]
  BY HashType DEF MapInv
<1>3. \/ resize = NoResize /\ ~resize.active
      \/ RebuildSound /\ resize.active
  BY DEF MapInv, NoResize, RebuildSound
<1>4. ASSUME NEW kv \in Insertions, InsertFound(kv[1], kv[2]) PROVE Abs!AbsNext \/ Content' = Content
  <2>1. Table = data /\ Table' = data'
    BY <1>4 DEF InsertFound, Table
  <2> QED  BY <1>1, <1>4, <2>1, InsertFoundRefines
<1>5. ASSUME NEW kv \in Insertions, InsertPlain(kv[1], kv[2]) PROVE Abs!AbsNext \/ Content' = Content
  <2>1. Table = data /\ Table' = data'
    BY <1>5 DEF InsertPlain, Table
  <2>2. kv[1] \in Keys /\ kv[2] \in Values \cup {NONE}
    BY GuMapAssumption
  <2>3. ~Holds(data, kv[1])
    BY <1>2, <1>5, <2>2, LookupFinds DEF InsertPlain
  <2>4. data.n_occupied + 1 < data.n_entries
    BY <1>2, <1>5 DEF InsertPlain, Crowded, Sound, IsData, SizeSound
  <2>5. data' = PlaceKey(data, kv[1], Stored(DefaultValue, kv[2]))
    BY <1>5 DEF InsertPlain
  <2> QED  BY <1>1, <1>2, <2>1, <2>2, <2>3, <2>4, <2>5, PlaceRefines
<1>6. ASSUME Table' = Table PROVE Content' = Content
  BY <1>1, <1>6 DEF ContentIs, Holds
<1>7. ASSUME NEW kv \in Insertions, BeginResize(kv[1], kv[2]) PROVE Content' = Content
  <2>1. Table' = Table
    BY <1>7 DEF BeginResize, Table
  <2> QED  BY <1>6, <2>1
<1>8. CASE Rehash
  <2>1. Table' = Table
    BY <1>3, <1>8 DEF Rehash, Table, RebuildSound
  <2> QED  BY <1>6, <2>1
<1>9. CASE EndResize
  <2>1. Table = resize.old /\ Table' = data' /\ RebuildSound /\ resize.i = resize.old.n_entries
    BY <1>3, <1>9 DEF EndResize, Table, NoResize
  <2>2. ContentIs(data, Content)
    BY <2>1, RebuiltSame
  <2>3. resize.key \in Keys /\ resize.value \in Values \cup {NONE} /\ ~Holds(data, resize.key)
    BY <2>1, NotThereYet DEF RebuildSound
  <2>4. data.n_occupied + 1 < data.n_entries
    <3>1. data.n_occupied <= resize.old.n_occupied
      BY <2>1, VisitedCount
    <3>2. data.n_entries > (resize.old.n_occupied * 4) \div 3 /\ data.n_entries >= 5
      BY <1>2, <2>1 DEF RebuildSound, Sound, SizeSound
    <3>3. resize.old.n_occupied \in Nat /\ data.n_occupied \in Nat /\ data.n_entries \in Nat
      BY <1>2, <2>1 DEF RebuildSound, Sound, IsData
    <3> QED  BY <3>1, <3>2, <3>3
  <2>5. data' = PlaceKey(data, resize.key, Stored(DefaultValue, resize.value))
    BY <1>9 DEF EndResize
  <2> QED  BY <1>1, <1>2, <2>1, <2>2, <2>3, <2>4, <2>5, PlaceRefines
<1>10. CASE UNCHANGED vars
  <2>1. Table' = Table
    BY <1>10 DEF vars, Table
  <2> QED  BY <1>6, <2>1
<1> QED  BY <1>4, <1>5, <1>7, <1>8, <1>9, <1>10 DEF Next, gu_map_insert

\* The table implements the finite function that gu/map.h promises: collisions, the
\* zero key and resizes neither lose, change nor invent an entry.
THEOREM ImplementsMapHolds == Spec => ImplementsMap
<1>1. Init => Abs!AbsInit
  <2> SUFFICES ASSUME Init PROVE Content = <<>>
    BY DEF Abs!AbsInit
  <2>1. PICK size \in NewSizes(0) : data = FreshData(size)
    BY DEF Init
  <2>2. 0 \in 0..Cardinality(Keys)
    BY TwinPrimesAssumption, FS_CardinalityType
  <2>3. Occupied(data) = {}
    BY <2>1, <2>2, FreshSound
  <2>4. Table = data
    BY DEF Init, Table, NoResize
  <2>5. ContentIs(data, Content)
    BY <2>4, InitSound, ContentNow
  <2>6. DOMAIN Content = {}
    BY <2>3, <2>5 DEF ContentIs, Holds
  <2>7. Content = [k \in {} |-> Content[k]]
    BY <2>5, <2>6 DEF ContentIs
  <2> QED  BY <2>7
<1>2. MapInv /\ MapInv' /\ ContentIs(Table, Content) /\ ContentIs(Table, Content)' /\ [Next]_vars
        => [Abs!AbsNext]_Content
  BY StepRefines
<1> QED  BY <1>1, <1>2, ContentNow, MapInvHolds, PTL DEF Spec, ImplementsMap, Abs!AbsSpec

-----------------------------------------------------------------------------
(* The enumerator *)

Enumerators ==
  [active : {TRUE}, i : Nat, given : Seq(Keys), atEnd : BOOLEAN, start : SUBSET Keys,
   resized : BOOLEAN]

\* An enumerator has given distinct keys, from slots behind it; and what there was
\* at its start it has given or has before it, as long as no slot moves.
EnumSound ==
  /\ en \in Enumerators
  /\ resize.active => en.resized
  /\ ~en.resized =>
       /\ \A n \in 1..Len(en.given) :
            \E j \in Occupied(data) : j < en.i /\ data.keys[j] = en.given[n]
       /\ \A m, n \in 1..Len(en.given) : en.given[m] = en.given[n] => m = n
       /\ \A k \in en.start :
            \/ \E n \in 1..Len(en.given) : en.given[n] = k
            \/ ~en.atEnd /\ \E j \in Occupied(data) : j >= en.i /\ data.keys[j] = k

EnumInv == en = [active |-> FALSE] \/ EnumSound

\* A map with an enumerator is a map.
LEMMA EnumIsMap == EnumSpec => Spec
<1>1. EnumInit => Init
  BY DEF EnumInit
<1>2. [EnumNext]_enumVars => [Next]_vars
  BY DEF EnumNext, enumVars, Next, vars, gu_map_keys, gu_map_enum_next, Insert
<1> QED  BY <1>1, <1>2, PTL DEF EnumSpec, Spec

\* An insertion that does not resize moves no key.
LEMMA InsertKeepsSlots ==
  ASSUME MapInv, NEW kv \in Insertions, InsertFound(kv[1], kv[2]) \/ InsertPlain(kv[1], kv[2])
  PROVE  \A i \in Occupied(data) : i \in Occupied(data)' /\ data'.keys[i] = data.keys[i]
<1> DEFINE key == kv[1]
           idx == gu_map_lookup(data, key)
<1>1. key \in Keys /\ kv[2] \in Values \cup {NONE} /\ hash \in [Keys -> Nat] /\ Sound(data)
  BY GuMapAssumption, HashType DEF MapInv
<1>2. idx \in Slots(data)
  BY <1>1, LookupFinds
<1>3. CASE InsertFound(kv[1], kv[2])
  <2> DEFINE v == Stored(data.values[idx], kv[2])
             e == [data EXCEPT !.values[idx] = v]
  <2>1. v \in Values \cup {DefaultValue}
    BY <1>1, <1>2 DEF Stored, Sound, IsData
  <2>2. data' = e
    BY <1>3 DEF InsertFound
  <2> HIDE DEF v, idx
  <2>3. Occupied(e) = Occupied(data) /\ e.keys = data.keys
    BY <1>1, <1>2, <2>1, ValueSound
  <2> HIDE DEF e
  <2>4. Occupied(data)' = Occupied(e)
    BY <2>2 DEF Occupied, Slots, gu_map_entry_is_free
  <2> QED  BY <2>2, <2>3, <2>4
<1>4. CASE InsertPlain(kv[1], kv[2])
  <2> DEFINE v == Stored(DefaultValue, kv[2])
             e == Added(data, idx, key, v)
  <2>1. data' = PlaceKey(data, key, v) /\ v \in Values \cup {DefaultValue}
    BY <1>1, <1>4 DEF InsertPlain, Stored
  <2>2. ~Holds(data, key) /\ gu_map_entry_is_free(data, idx)
    BY <1>1, <1>4, LookupFinds DEF InsertPlain, Found
  <2>3. data' = e
    BY <2>1 DEF PlaceKey, Added
  <2> HIDE DEF v, idx, key
  <2>4. /\ Occupied(e) = Occupied(data) \cup {idx} /\ idx \notin Occupied(data)
        /\ \A i \in Slots(data) : e.keys[i] = IF i = idx THEN key ELSE data.keys[i]
    BY <1>1, <1>2, <2>2, AddedSlots DEF Sound, SizeSound
  <2> HIDE DEF e
  <2>5. Occupied(data)' = Occupied(e)
    BY <2>3 DEF Occupied, Slots, gu_map_entry_is_free
  <2> QED  BY <2>3, <2>4, <2>5 DEF Occupied
<1> QED  BY <1>3, <1>4

\* The steps that leave the enumerator where it is, and the keys in their slots.
LEMMA EnumKept ==
  ASSUME EnumInv, UNCHANGED <<en, resize>>,
         \A i \in Occupied(data) : i \in Occupied(data)' /\ data'.keys[i] = data.keys[i]
  PROVE  EnumInv'
<1>1. en' = en /\ resize' = resize
  OBVIOUS
<1>2. ASSUME EnumSound PROVE EnumSound'
  <2>1. ASSUME ~en.resized
        PROVE  /\ \A n \in 1..Len(en.given) :
                    \E j \in Occupied(data)' : j < en.i /\ data'.keys[j] = en.given[n]
               /\ \A k \in en.start :
                    \/ \E n \in 1..Len(en.given) : en.given[n] = k
                    \/ ~en.atEnd /\ \E j \in Occupied(data)' : j >= en.i /\ data'.keys[j] = k
    BY <1>2, <2>1 DEF EnumSound
  <2> QED  BY <1>1, <1>2, <2>1 DEF EnumSound
<1> QED  BY <1>1, <1>2 DEF EnumInv

\* gu_map_keys
LEMMA EnumBegins ==
  ASSUME MapInv, gu_map_keys
  PROVE  EnumInv'
<1>1. /\ en' = [active |-> TRUE, i |-> 0, given |-> <<>>, atEnd |-> FALSE, start |-> KeySet,
                resized |-> FALSE]
      /\ data' = data /\ resize' = resize /\ ~resize.active
  BY DEF gu_map_keys, vars
<1>2. /\ en'.i = 0 /\ en'.given = <<>> /\ en'.atEnd = FALSE /\ en'.start = KeySet
      /\ en'.resized = FALSE
      /\ en' \in Enumerators
  <2>1. KeySet \in SUBSET Keys
    BY DEF KeySet, MapInv, Sound, IsData, Occupied
  <2> HIDE DEF KeySet
  <2> QED  BY <1>1, <2>1 DEF Enumerators
<1>3. Occupied(data)' = Occupied(data)
  BY <1>1 DEF Occupied, Slots, gu_map_entry_is_free
<1>4. \A j \in Occupied(data) : j \in Nat
  BY DEF MapInv, Sound, IsData, Occupied, Slots
<1>5. ASSUME NEW k \in KeySet PROVE \E j \in Occupied(data) : j >= 0 /\ data.keys[j] = k
  BY <1>4 DEF KeySet
<1>6. en'.given \in Seq(Keys) /\ Len(en'.given) = 0
  BY <1>2
<1> QED  BY <1>1, <1>2, <1>3, <1>5, <1>6 DEF EnumInv, EnumSound

\* gu_map_enum_next
LEMMA EnumAdvances ==
  ASSUME MapInv, EnumInv, gu_map_enum_next
  PROVE  EnumInv'
<1>1. EnumSound /\ ~en.atEnd /\ data' = data /\ resize' = resize
  <2>1. en.active /\ ~en.atEnd /\ UNCHANGED vars
    BY DEF gu_map_enum_next
  <2>2. EnumSound
    BY <2>1 DEF EnumInv
  <2> QED  BY <2>1, <2>2 DEF vars
<1>2. Occupied(data)' = Occupied(data) /\ \A j \in Occupied(data) : j \in Nat /\ data.keys[j] \in Keys
  <2>1. Occupied(data)' = Occupied(data)
    BY <1>1 DEF Occupied, Slots, gu_map_entry_is_free
  <2>2. \A j \in Occupied(data) : j \in Nat /\ data.keys[j] \in Keys
    BY DEF Occupied, Slots, MapInv, Sound, IsData
  <2> QED  BY <2>1, <2>2
<1>3. en \in Enumerators /\ en.i \in Nat /\ en.given \in Seq(Keys)
  BY <1>1 DEF EnumSound, Enumerators
<1>4. data.n_entries \in Nat
  BY DEF MapInv, Sound, IsData
<1>5. CASE Ahead = {}
  <2>1. en' = [en EXCEPT !.i = data.n_entries, !.atEnd = TRUE]
    BY <1>5 DEF gu_map_enum_next
  <2>2. /\ en'.i = data.n_entries /\ en'.given = en.given /\ en'.atEnd = TRUE
        /\ en'.start = en.start /\ en'.resized = en.resized
        /\ en' \in Enumerators
    BY <1>3, <1>4, <2>1 DEF Enumerators
  <2>3. ASSUME ~en.resized, NEW n \in 1..Len(en.given)
        PROVE  \E j \in Occupied(data) : j < data.n_entries /\ data.keys[j] = en.given[n]
    BY <1>1, <1>4, <2>3 DEF EnumSound, Occupied, Slots
  <2>4. ASSUME ~en.resized, NEW k \in en.start
        PROVE  \E n \in 1..Len(en.given) : en.given[n] = k
    BY <1>1, <1>5, <2>4 DEF EnumSound, Ahead
  <2> QED  BY <1>1, <1>2, <1>3, <1>4, <2>2, <2>3, <2>4 DEF EnumInv, EnumSound
<1>6. CASE Ahead # {}
  <2>1. PICK i \in Ahead : /\ \A j \in Ahead : i <= j
                           /\ en' = [en EXCEPT !.i = i + 1, !.given = Append(@, data.keys[i])]
    BY <1>6 DEF gu_map_enum_next
  <2>2. i \in Occupied(data) /\ i \in Nat /\ i >= en.i /\ data.keys[i] \in Keys
    BY <1>2 DEF Ahead
  <2> DEFINE g == Append(en.given, data.keys[i])
             l == Len(en.given)
  <2>3. /\ l \in Nat /\ g \in Seq(Keys) /\ Len(g) = l + 1 /\ g[l + 1] = data.keys[i]
        /\ \A n \in 1..l : g[n] = en.given[n]
    BY <1>3, <2>2, AppendProperties, LenProperties
  <2> HIDE DEF g, l
  <2>4. /\ en'.i = i + 1 /\ en'.given = g /\ en'.atEnd = en.atEnd
        /\ en'.start = en.start /\ en'.resized = en.resized
        /\ en' \in Enumerators
    <3>1. en' = [en EXCEPT !.i = i + 1, !.given = g]
      BY <2>1 DEF g
    <3>2. en \in Enumerators /\ i + 1 \in Nat /\ g \in Seq(Keys)
      BY <1>3, <2>2, <2>3
    <3> QED  BY ONLY <3>1, <3>2 DEF Enumerators
  <2>5. ASSUME ~en.resized
        PROVE  /\ \A n \in 1..Len(g) : \E j \in Occupied(data) : j < i + 1 /\ data.keys[j] = g[n]
               /\ \A m, n \in 1..Len(g) : g[m] = g[n] => m = n
               /\ \A k \in en.start : \/ \E n \in 1..Len(g) : g[n] = k
                                      \/ \E j \in Occupied(data) : j >= i + 1 /\ data.keys[j] = k
    <3>1. \A n \in 1..l : \E j \in Occupied(data) : j < en.i /\ data.keys[j] = g[n]
      BY <1>1, <2>3, <2>5 DEF EnumSound, l
    <3>2. \A m, n \in 1..l : g[m] = g[n] => m = n
      BY <1>1, <2>3, <2>5 DEF EnumSound, l
    <3>3. \A n \in 1..Len(g) : \E j \in Occupied(data) : j < i + 1 /\ data.keys[j] = g[n]
      <4> SUFFICES ASSUME NEW n \in 1..Len(g)
                   PROVE  \E j \in Occupied(data) : j < i + 1 /\ data.keys[j] = g[n]
        OBVIOUS
      <4>1. CASE n = l + 1
        BY <2>2, <2>3, <4>1
      <4>2. CASE n \in 1..l
        <5>1. PICK j \in Occupied(data) : j < en.i /\ data.keys[j] = g[n]
          BY <3>1, <4>2
        <5>2. j \in Nat /\ en.i \in Nat /\ i \in Nat /\ j < en.i /\ en.i <= i
          BY <1>2, <1>3, <2>2, <5>1
        <5>3. j < i + 1
          BY ONLY <5>2
        <5> QED  BY <5>1, <5>3
      <4> QED  BY <2>3, <4>1, <4>2
    <3>4. ASSUME NEW n \in 1..l PROVE g[n] # g[l + 1]
      <4>1. PICK j \in Occupied(data) : j < en.i /\ data.keys[j] = g[n]
        BY <3>1
      <4>2. j # i
        BY <1>2, <1>3, <2>2, <4>1
      <4>3. Sound(data) /\ hash \in [Keys -> Nat]
        BY HashType DEF MapInv
      <4> QED  BY <2>2, <2>3, <4>1, <4>2, <4>3, KeysUnique
    <3>5. \A m, n \in 1..Len(g) : g[m] = g[n] => m = n
      <4>1. \A n \in 1..Len(g) : n = l + 1 \/ n \in 1..l
        BY <2>3
      <4> QED  BY <3>2, <3>4, <4>1
    <3>6. ASSUME NEW k \in en.start
          PROVE  \/ \E n \in 1..Len(g) : g[n] = k
                 \/ \E j \in Occupied(data) : j >= i + 1 /\ data.keys[j] = k
      <4>1. CASE \E n \in 1..l : en.given[n] = k
        BY <2>3, <4>1
      <4>2. CASE \E j \in Occupied(data) : j >= en.i /\ data.keys[j] = k
        <5>1. PICK j \in Occupied(data) : j >= en.i /\ data.keys[j] = k
          BY <4>2
        <5>2. j \in Ahead /\ i <= j /\ j \in Nat
          BY <1>2, <2>1, <5>1 DEF Ahead
        <5>3. CASE j = i
          BY <2>3, <5>1, <5>3
        <5>4. CASE j >= i + 1
          BY <5>1, <5>4
        <5> QED  BY <2>2, <5>2, <5>3, <5>4
      <4> QED  BY <1>1, <2>5, <4>1, <4>2 DEF EnumSound, l
    <3> QED  BY <3>3, <3>5, <3>6
  <2> QED  BY <1>1, <1>2, <2>4, <2>5 DEF EnumInv, EnumSound
<1> QED  BY <1>5, <1>6

\* An insertion moves no key, or resizes the table, which en.resized records.
LEMMA EnumInserts ==
  ASSUME MapInv, EnumInv, Insert
  PROVE  EnumInv'
<1>1. PICK kv \in Insertions : gu_map_insert(kv[1], kv[2])
  BY DEF Insert
<1>2. en' = IF ~en.active \/ ~resize'.active THEN en ELSE [en EXCEPT !.resized = TRUE]
  BY DEF Insert
<1>3. CASE InsertFound(kv[1], kv[2]) \/ InsertPlain(kv[1], kv[2])
  <2>1. resize' = resize /\ ~resize.active
    BY <1>3 DEF InsertFound, InsertPlain
  <2>2. en' = en
    BY <1>2, <2>1
  <2> QED  BY <1>3, <2>1, <2>2, InsertKeepsSlots, EnumKept
<1>4. CASE BeginResize(kv[1], kv[2])
  <2>1. resize'.active = TRUE
    BY <1>4 DEF BeginResize
  <2>2. CASE EnumSound
    <3>1. en \in Enumerators /\ en.i \in Nat /\ en.given \in Seq(Keys)
      BY <2>2 DEF EnumSound, Enumerators
    <3>2. en' = [en EXCEPT !.resized = TRUE]
      BY <1>2, <2>1, <3>1 DEF Enumerators
    <3>3. /\ en'.i = en.i /\ en'.given = en.given /\ en'.resized = TRUE
          /\ en' \in Enumerators
      BY <3>1, <3>2 DEF Enumerators
    <3> QED  BY <3>1, <3>3 DEF EnumInv, EnumSound
  <2>3. CASE en = [active |-> FALSE]
    BY <1>2, <2>3 DEF EnumInv
  <2> QED  BY <2>2, <2>3 DEF EnumInv
<1> QED  BY <1>1, <1>3, <1>4 DEF gu_map_insert

\* Rebuilding the table leaves the enumerator alone.
LEMMA EnumRebuilds ==
  ASSUME EnumInv, Rehash \/ EndResize, UNCHANGED en
  PROVE  EnumInv'
<1>1. resize.active
  BY DEF Rehash, EndResize
<1>2. EnumSound => en.resized
  BY <1>1 DEF EnumSound
<1> QED  BY <1>2 DEF EnumInv, EnumSound

\* An enumerator gives no key twice, and at its end has given every key there was
\* at its start, unless the table was resized under it (gu_map_enum_next).
THEOREM ExactUnlessResizedHolds == EnumSpec => []ExactUnlessResized
<1>1. EnumInit => EnumInv
  BY DEF EnumInit, EnumInv
<1>2. MapInv /\ EnumInv /\ [EnumNext]_enumVars => EnumInv'
  <2> SUFFICES ASSUME MapInv, EnumInv, [EnumNext]_enumVars PROVE EnumInv'
    OBVIOUS
  <2>1. CASE UNCHANGED enumVars
    <3>1. data' = data /\ UNCHANGED <<en, resize>>
      BY <2>1 DEF enumVars
    <3>2. Occupied(data)' = Occupied(data)
      BY <3>1 DEF Occupied, Slots, gu_map_entry_is_free
    <3> QED  BY <3>1, <3>2, EnumKept
  <2> QED  BY <2>1, EnumBegins, EnumAdvances, EnumInserts, EnumRebuilds DEF EnumNext
<1>3. EnumInv => ExactUnlessResized
  <2> SUFFICES ASSUME EnumInv, en.active, ~en.resized PROVE ExactUnlessResized
    BY DEF ExactUnlessResized
  <2> DEFINE l == Len(en.given)
  <2>1. EnumSound
    BY DEF EnumInv
  <2>2. en.given \in [1..l -> Keys] /\ l \in Nat /\ Given = {en.given[n] : n \in 1..l}
    BY <2>1, LenProperties DEF EnumSound, Enumerators, Given
  <2>3. \A m, n \in 1..l : en.given[m] = en.given[n] => m = n
    BY <2>1 DEF EnumSound
  <2> HIDE DEF l
  <2>4. Cardinality(Given) = l
    <3>1. en.given \in Bijection(1..l, Given)
      BY <2>2, <2>3 DEF Bijection, Injection, IsInjective, Surjection
    <3>2. ExistsBijection(1..l, Given)
      BY <3>1 DEF ExistsBijection
    <3> QED  BY <2>2, <3>2, FS_CountingElements
  <2>5. en.atEnd => en.start \subseteq Given
    BY <2>1, <2>2 DEF EnumSound, l
  <2> QED  BY <2>4, <2>5 DEF ExactUnlessResized, l
<1> QED  BY <1>1, <1>2, <1>3, EnumIsMap, MapInvHolds, PTL DEF EnumSpec
=============================================================================
