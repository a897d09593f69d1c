---------------------------- MODULE ResponseCache -----------------------------
(* The response cache of a server (shared/src/responseCache.ts): a map with   *)
(* a time to live, a limit on entries, a limit on bytes and eviction of the   *)
(* least recently used entry.  A cache is a record of its entries and of the  *)
(* running total totalSizeBytes; the operators are the methods of the class.  *)
(* An entry's slot is its place in the order of insertion of the JavaScript   *)
(* Map, which decides between entries last used in the same millisecond.      *)
EXTENDS Naturals, FiniteSetsExt

CONSTANTS
    Ttl,            \* DEFAULT_TTL_MS
    MaxEntries,     \* DEFAULT_MAX_ENTRIES
    MaxBytes        \* DEFAULT_MAX_SIZE_BYTES

ASSUME CacheAssumption ==
    Ttl \in Nat /\ MaxEntries \in Nat \ {0} /\ MaxBytes \in Nat

IsEntry(e) ==
    e = [key |-> e.key, response |-> e.response, sizeBytes |-> e.sizeBytes,
         createdAt |-> e.createdAt, lastAccessedAt |-> e.lastAccessedAt, slot |-> e.slot]

EmptyCache == [entries |-> {}, totalSizeBytes |-> 0]

Of(cache, key) == {e \in cache.entries : e.key = key}

Expired(e, now) == now - e.createdAt > Ttl

(* The fresh entry under a key, as a set of at most one.                      *)
Fresh(cache, key, now) == {e \in Of(cache, key) : ~Expired(e, now)}

SizeOfAll(entries) == MapThenSumSet(LAMBDA e : e.sizeBytes, entries)

(* delete, of several entries.                                                *)
Without(cache, gone) ==
    [entries |-> cache.entries \ gone,
     totalSizeBytes |-> cache.totalSizeBytes - SizeOfAll(gone)]

(* get, of each of the keys: an expired entry goes, a fresh one is stamped.   *)
Get(cache, keys, now) ==
    LET found == UNION {Of(cache, k) : k \in keys}
        rest == Without(cache, {e \in found : Expired(e, now)})
    IN  [rest EXCEPT !.entries =
            {IF e \in found THEN [e EXCEPT !.lastAccessedAt = now] ELSE e : e \in @}]

(* findLRU returns the entry older than every other.                          *)
Older(e, f) ==
    \/ e.lastAccessedAt < f.lastAccessedAt
    \/ e.lastAccessedAt = f.lastAccessedAt /\ e.slot < f.slot

(* The entries the loop of set evicts to make room for size bytes: it takes   *)
(* the oldest while the rest, from the next oldest on, does not leave room.   *)
Evicted(cache, size) ==
    LET olderThan(e) == {f \in cache.entries : Older(f, e)}
        room(gone) ==
            /\ cache.totalSizeBytes - SizeOfAll(gone) + size <= MaxBytes
            /\ Cardinality(cache.entries \ gone) < MaxEntries
    IN  {e \in cache.entries : ~room(olderThan(e))}

NextSlot(cache) == 1 + Max({0} \cup {e.slot : e \in cache.entries})

SetBeside(cache, key, response, size, now) ==  \* mutant of Set
    LET rest == Without(cache, Evicted(cache, size))
        entry == [key |-> key, response |-> response, sizeBytes |-> size,
                  createdAt |-> now, lastAccessedAt |-> now, slot |-> NextSlot(rest)]
    IN  IF size > MaxBytes
        THEN cache
        ELSE [entries |-> rest.entries \cup {entry},
              totalSizeBytes |-> rest.totalSizeBytes + size]

(* set: the key's entry goes first, even if the new response is too large.    *)
Set(cache, key, response, size, now) ==
    LET old == Without(cache, Of(cache, key))
        rest == Without(old, Evicted(old, size))
        entry == [key |-> key, response |-> response, sizeBytes |-> size,
                  createdAt |-> now, lastAccessedAt |-> now, slot |-> NextSlot(rest)]
    IN  IF size > MaxBytes
        THEN old
        ELSE [entries |-> rest.entries \cup {entry},
              totalSizeBytes |-> rest.totalSizeBytes + size]

(* What the methods keep: the two limits, the running total of the sizes and  *)
(* one entry for a key.                                                       *)
IsCache(c) ==
    /\ c = [entries |-> c.entries, totalSizeBytes |-> c.totalSizeBytes]
    /\ IsFiniteSet(c.entries)
    /\ \A e \in c.entries :
        IsEntry(e) /\ {e.sizeBytes, e.lastAccessedAt, e.slot} \subseteq Nat
    /\ \A e, f \in c.entries : e.key = f.key => e = f
    /\ Cardinality(c.entries) <= MaxEntries
    /\ c.totalSizeBytes <= MaxBytes
    /\ c.totalSizeBytes = SizeOfAll(c.entries)

=============================================================================
