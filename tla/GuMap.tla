------------------------------- MODULE GuMap -------------------------------
(***************************************************************************)
(* gu/map.c: the hash table under every GuMap and GuSet, with open         *)
(* addressing and double hashing.                                          *)
(*                                                                         *)
(* A slot is free when its key is all zero bytes (ZeroKey), except for the *)
(* slot zero_idx, which really holds that key.  One insertion is one step, *)
(* unless it resizes the table: the loop of gu_map_resize, which inserts   *)
(* the old entries into the new table by gu_map_insert itself, takes a     *)
(* step per entry.                                                         *)
(***************************************************************************)
EXTENDS Prime, FiniteSets

CONSTANTS
  Keys,         \* the keys a client may use
  ZeroKey,      \* the key whose bytes are all zero
  Values,       \* the values a client may store
  DefaultValue, \* default_value, or zero bytes when there is none
  Insertions,   \* the pairs <<key, value>> a client may insert; see Stored
  Hashes,       \* the hash functions a map may have: [Keys -> Nat]
  SIZE_MAX,     \* zero_idx when ZeroKey is not in the map
  NONE,         \* no value to store
  MinEntries,   \* what a table has room for at least: 11 in the code
  MaxExtra      \* bound: entries gu_mem_buf_alloc may give beyond the request

ASSUME GuMapAssumption ==
  /\ ZeroKey \in Keys
  /\ Insertions \subseteq Keys \X (Values \cup {NONE})
  /\ \A h \in Hashes : h \in [Keys -> Nat]
  /\ MinEntries \in Nat /\ MaxExtra \in Nat
  /\ NONE \notin Values

VARIABLES
  hash,   \* map->hasher
  data,   \* map->data
  resize  \* the frame of gu_map_resize and of the insertion that called it, if active

vars == <<hash, data, resize>>

NoResize == [active |-> FALSE]

Slots(d) == 0..(d.n_entries - 1)

gu_map_entry_is_free(d, idx) == d.keys[idx] = ZeroKey /\ d.zero_idx # idx

Occupied(d) == {i \in Slots(d) : ~gu_map_entry_is_free(d, i)}

-----------------------------------------------------------------------------
(* gu_map_lookup *)

Offset(d, key) == (hash[key] % (d.n_entries - 2)) + 1

\* The slot that the t-th round of its loop looks at.
Probe(d, key, t) == (hash[key] + t * Offset(d, key)) % d.n_entries

StopsAt(d, key, idx) == gu_map_entry_is_free(d, idx) \/ d.keys[idx] = key

\* The probes repeat after n_entries rounds, so these are all that matter.
Ends(d, key) == \E t \in Slots(d) : StopsAt(d, key, Probe(d, key, t))

gu_map_lookup(d, key) ==
  LET t == CHOOSE t \in Slots(d) : /\ StopsAt(d, key, Probe(d, key, t))
                                   /\ \A s \in 0..(t - 1) : ~StopsAt(d, key, Probe(d, key, s))
  IN Probe(d, key, t)

Found(d, key) == ~gu_map_entry_is_free(d, gu_map_lookup(d, key))

gu_map_find(d, key) == d.values[gu_map_lookup(d, key)]

-----------------------------------------------------------------------------
(* gu_map_insert and gu_map_resize *)

\* A table of n slots, all free.
FreshData(n) ==
  [keys |-> [i \in 0..(n - 1) |-> ZeroKey], values |-> [i \in 0..(n - 1) |-> DefaultValue],
   n_occupied |-> 0, n_entries |-> n, zero_idx |-> SIZE_MAX]

\* Mutation: no room beyond the keys there are.
NewSizesTight(n) ==
  {gu_twin_prime_sup(IF n > MinEntries THEN n ELSE MinEntries)}

\* The sizes gu_map_resize may choose for a table that is to hold n keys.
NewSizes(n) ==
  LET least == (n * 4) \div 3 + 1
      req_entries == gu_twin_prime_sup(IF least > MinEntries THEN least ELSE MinEntries)
  IN {gu_twin_prime_inf(req_entries + extra) : extra \in 0..MaxExtra}

\* What the tables ask of gu/prime.c, for as many keys as there are: a prime, not
\* below the request (whether there are twin primes above every number is not known).
ASSUME TwinPrimesAssumption ==
  /\ IsFiniteSet(Keys)
  /\ \A n \in 0..(MinEntries + (Cardinality(Keys) * 4) \div 3 + 1), extra \in 0..MaxExtra :
       LET size == gu_twin_prime_inf(gu_twin_prime_sup(n) + extra) IN
       /\ size \in Nat /\ size >= n /\ size >= 5
       /\ \A k \in 2..(size - 1) : size % k # 0
       /\ SIZE_MAX \notin 0..(size - 1)

\* The condition of gu_map_maybe_resize.
Crowded(d) == d.n_entries <= d.n_occupied + (d.n_occupied \div 4)

\* The end of gu_map_insert, for a key that was not found.
PlaceKey(d, key, value) ==
  LET idx == gu_map_lookup(d, key) IN
  [keys |-> [d.keys EXCEPT ![idx] = key], values |-> [d.values EXCEPT ![idx] = value],
   n_occupied |-> d.n_occupied + 1, n_entries |-> d.n_entries,
   zero_idx |-> IF key = ZeroKey THEN idx ELSE d.zero_idx]

\* What a caller stores through the pointer that gu_map_insert returns: nothing
\* (value = NONE), or a value (gu_map_put).
Stored(old, value) == IF value = NONE THEN old ELSE value

\* gu_make_map
Init ==
  /\ hash \in Hashes
  /\ \E n \in NewSizes(0) : data = FreshData(n)
  /\ resize = NoResize

InsertFound(key, value) ==
  /\ ~resize.active
  /\ Found(data, key)
  /\ data' = [data EXCEPT !.values[gu_map_lookup(data, key)] = Stored(@, value)]
  /\ UNCHANGED <<hash, resize>>

InsertPlain(key, value) ==
  /\ ~resize.active
  /\ ~Found(data, key) /\ ~Crowded(data)
  /\ data' = PlaceKey(data, key, Stored(DefaultValue, value))
  /\ UNCHANGED <<hash, resize>>

\* gu_map_resize up to its loop.
BeginResize(key, value) ==
  /\ ~resize.active
  /\ ~Found(data, key) /\ Crowded(data)
  /\ \E n \in NewSizes(data.n_occupied) : data' = FreshData(n)
  /\ resize' = [active |-> TRUE, old |-> data, i |-> 0, key |-> key, value |-> value]
  /\ UNCHANGED hash

\* Mutation: the entries are copied slot by slot instead of being inserted.
RehashInPlace ==
  /\ resize.active /\ resize.i < resize.old.n_entries
  /\ data' = IF gu_map_entry_is_free(resize.old, resize.i) THEN data
             ELSE [data EXCEPT !.keys[resize.i] = resize.old.keys[resize.i],
                               !.values[resize.i] = resize.old.values[resize.i],
                               !.n_occupied = @ + 1]
  /\ resize' = [resize EXCEPT !.i = @ + 1]
  /\ UNCHANGED hash

\* An iteration of its loop.
Rehash ==
  /\ resize.active /\ resize.i < resize.old.n_entries
  /\ data' = IF gu_map_entry_is_free(resize.old, resize.i) THEN data
             ELSE PlaceKey(data, resize.old.keys[resize.i], resize.old.values[resize.i])
  /\ resize' = [resize EXCEPT !.i = @ + 1]
  /\ UNCHANGED hash

\* Back in the gu_map_insert that resized.
EndResize ==
  /\ resize.active /\ resize.i = resize.old.n_entries
  /\ data' = PlaceKey(data, resize.key, Stored(DefaultValue, resize.value))
  /\ resize' = NoResize
  /\ UNCHANGED hash

gu_map_insert(key, value) ==
  InsertFound(key, value) \/ InsertPlain(key, value) \/ BeginResize(key, value)

Next ==
  \/ \E kv \in Insertions : gu_map_insert(kv[1], kv[2])
  \/ Rehash
  \/ EndResize

Spec == Init /\ [][Next]_vars

-----------------------------------------------------------------------------
IsData(d) ==
  d \in [keys : [Slots(d) -> Keys], values : [Slots(d) -> Values \cup {DefaultValue}],
         n_occupied : 0..d.n_entries, n_entries : Nat, zero_idx : Slots(d) \cup {SIZE_MAX}]

TypeOK ==
  /\ hash \in Hashes
  /\ IsData(data)
  /\ resize.active => IsData(resize.old) /\ resize.i \in 0..resize.old.n_entries

\* gu_map_lookup's loop, which has no other exit, meets a free slot or the key,
\* whatever the key hashes to and however full the table: the probes of a key
\* visit every slot, and there is always a free one for a key that is absent.
LookupEnds == \A key \in Keys : Ends(data, key)

\* No key is stored twice, and every key that is stored is where a lookup that
\* starts from its hash will find it (so the slots before it stay occupied); and
\* n_occupied, which alone decides when to resize, is the number of keys.  A
\* lookup of a key that is absent ends too.
EveryKeyFound ==
  /\ TypeOK
  /\ LookupEnds
  /\ \A i \in Occupied(data) : gu_map_lookup(data, data.keys[i]) = i
  /\ data.n_occupied = Cardinality(Occupied(data))

\* The assertions of map.c while a table is rebuilt: the new one has more slots
\* than the old one has keys (map.c:188), inserting them never resizes again,
\* though gu_map_insert asks every time, and none of them, nor the key that caused
\* the resize, is in the new table already (map.c:264, 277).
ResizeSound ==
  resize.active =>
    /\ data.n_entries > resize.old.n_occupied
    /\ ~Crowded(data)
    /\ ~Found(data, resize.key)
    /\ resize.i < resize.old.n_entries /\ ~gu_map_entry_is_free(resize.old, resize.i) =>
         ~Found(data, resize.old.keys[resize.i])

\* The map as its client sees it; during a resize, as it was before.
Content ==
  LET d == IF resize.active THEN resize.old ELSE data IN
  [key \in {k \in Keys : Found(d, k)} |-> gu_map_find(d, key)]

Abs == INSTANCE AbsMap WITH content <- Content

\* The table implements a finite function: collisions, the zero key and resizes
\* neither lose, change nor invent an entry.
ImplementsMap == Abs!AbsSpec
=============================================================================
