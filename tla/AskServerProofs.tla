---------------------------- MODULE AskServerProofs ----------------------------
(* Proofs about AskServer, for any number of jobs, prompts, sessions and      *)
(* cache sizes: the types, that cached answers are the ones asked for, that a *)
(* job has one process at work, and that a returned answer stands; that the   *)
(* response cache and the sessions keep their limits and the sessions their   *)
(* turns; that change mode's chunks hold exactly the edits of a reply; and    *)
(* that no job or process is forgotten.                                       *)
(*                                                                            *)
(* Sums and folds are reasoned about through the runs of their step function: *)
(* the values it goes through, one more at each element.  Induction over the  *)
(* length of a sequence is stated of sets, not of operators.                  *)
EXTENDS AskServer, FiniteSetTheorems, SequenceTheorems, TLAPS

USE CacheAssumption

-----------------------------------------------------------------------------
(* The response cache                                                         *)

(* Induction over the naturals, for a set of them.                            *)
Less == {ss \in Nat \X Nat : ss[1] < ss[2]}

(* A set of naturals that is not empty has a least one.                       *)
LEMMA LeastNatural ==
    ASSUME NEW T \in SUBSET Nat, T # {}
    PROVE  \E n \in T : \A m \in T : n <= m
<1>1. IsWellFoundedOn(Less, Nat)
  BY NatLessThanWellFounded DEF OpToRel, Less
<1>2. \E n \in T : \A m \in T : ~ (<<m, n>> \in Less)
  BY <1>1, WFMin
<1>3. PICK n \in T : \A m \in T : ~ (<<m, n>> \in Less)
  BY <1>2
<1>4. \A m \in T : ~ (m < n)
  BY <1>3 DEF Less
<1> QED BY <1>4

(* A set of naturals with 0 and every successor is all of them.               *)
LEMMA InductionOnNat ==
    ASSUME NEW S, 0 \in S, \A n \in Nat : n \in S => n + 1 \in S
    PROVE  Nat \subseteq S
<1> DEFINE T == Nat \ S
<1> SUFFICES ASSUME T # {} PROVE FALSE
  OBVIOUS
<1>1. PICK n \in T : \A m \in T : n <= m
  BY LeastNatural
<1>2. n # 0 /\ n - 1 \in Nat
  OBVIOUS
<1>3. n - 1 \in S
  BY <1>1, <1>2
<1>4. (n - 1) + 1 \in S
  BY <1>2, <1>3
<1> QED BY <1>2, <1>4

(* A finite set of naturals has a greatest element.                           *)
LEMMA GreatestNatural ==
    ASSUME NEW S \in SUBSET Nat, IsFiniteSet(S), S # {}
    PROVE  Max(S) \in S /\ \A n \in S : n <= Max(S)
<1> DEFINE P == {k \in Nat : \A T \in SUBSET S :
                    T # {} /\ Cardinality(T) = k => \E m \in T : \A n \in T : n <= m}
<1>1. 0 \in P
  <2>1. \A T \in SUBSET S : Cardinality(T) = 0 => T = {}
    BY FS_Subset, FS_EmptySet
  <2> QED BY <2>1
<1>2. ASSUME NEW k \in Nat, k \in P
      PROVE  k + 1 \in P
  <2> SUFFICES ASSUME NEW T \in SUBSET S, T # {}, Cardinality(T) = k + 1
               PROVE  \E m \in T : \A n \in T : n <= m
    OBVIOUS
  <2>1. PICK x \in T : TRUE
    OBVIOUS
  <2>2. Cardinality(T \ {x}) = k
    <3>1. IsFiniteSet(T) /\ Cardinality(T) \in Nat
      BY FS_Subset, FS_CardinalityType
    <3>2. Cardinality(T \ {x}) = Cardinality(T) - 1
      BY <2>1, <3>1, FS_RemoveElement
    <3> QED BY <3>2
  <2>3. CASE T \ {x} = {}
    BY <2>3
  <2>4. CASE T \ {x} # {}
    <3>1. PICK m \in T \ {x} : \A n \in T \ {x} : n <= m
      BY <1>2, <2>2, <2>4
    <3>2. m \in Nat /\ x \in Nat /\ T \subseteq Nat
      OBVIOUS
    <3>3. CASE x <= m
      BY <3>1, <3>3
    <3>4. CASE ~(x <= m)
      <4>1. \A n \in T : n <= x
        BY <3>1, <3>2, <3>4
      <4> QED BY <4>1
    <3> QED BY <3>3, <3>4
  <2> QED BY <2>3, <2>4
<1> HIDE DEF P
<1>3. Nat \subseteq P
  BY <1>1, <1>2, InductionOnNat
<1>4. Cardinality(S) \in P
  BY <1>3, FS_CardinalityType
<1>5. \E m \in S : \A n \in S : n <= m
  BY <1>4 DEF P
<1>6. \E m \in S : \A n \in S : m >= n
  BY <1>5
<1>7. Max(S) \in S /\ \A n \in S : Max(S) >= n
  BY <1>6 DEF Max
<1> QED BY <1>7

(* Entries whose sizes can be summed: each key names one of them.             *)
Sized(S) ==
    /\ IsFiniteSet(S)
    /\ \A e \in S : e.sizeBytes \in Nat
    /\ \A e, f \in S : e.key = f.key => e = f

(* The bytes of entries, told apart by key and place: their number is the sum *)
(* of the sizes.                                                              *)
BytesOf(e) == {e.key} \X (1..e.sizeBytes)
Bytes(S) == UNION {BytesOf(e) : e \in S}

(* An entry has as many bytes as its size says.                               *)
LEMMA BytesOfIs ==
    ASSUME NEW e, e.sizeBytes \in Nat
    PROVE  IsFiniteSet(BytesOf(e)) /\ Cardinality(BytesOf(e)) = e.sizeBytes
<1>1. IsFiniteSet({e.key}) /\ Cardinality({e.key}) = 1
  BY FS_Singleton
<1>2. IsFiniteSet(1..e.sizeBytes) /\ Cardinality(1..e.sizeBytes) = e.sizeBytes
  BY FS_Interval
<1>3. /\ IsFiniteSet(BytesOf(e))
      /\ Cardinality(BytesOf(e)) = Cardinality({e.key}) * Cardinality(1..e.sizeBytes)
  BY <1>1, <1>2, FS_Product DEF BytesOf
<1> QED BY <1>1, <1>2, <1>3

(* A finite set's image is finite and not larger.                             *)
LEMMA ImageIsFinite ==
    ASSUME NEW S, IsFiniteSet(S), NEW f, f = [x \in S |-> f[x]]
    PROVE  /\ IsFiniteSet({f[x] : x \in S})
           /\ Cardinality({f[x] : x \in S}) <= Cardinality(S)
<1>1. f \in Surjection(S, {f[x] : x \in S})
  BY DEF Surjection
<1> QED BY <1>1, FS_Surjection

(* The bytes of finitely many entries are finitely many.                      *)
LEMMA BytesAreFinite ==
    ASSUME NEW S, Sized(S)
    PROVE  IsFiniteSet(Bytes(S)) /\ Cardinality(Bytes(S)) \in Nat
<1> DEFINE f == [e \in S |-> BytesOf(e)]
<1>1. IsFiniteSet({f[e] : e \in S})
  <2>1. f = [x \in S |-> f[x]] /\ IsFiniteSet(S)
    BY DEF Sized
  <2> HIDE DEF f
  <2> QED BY <2>1, ImageIsFinite
<1>2. {f[e] : e \in S} = {BytesOf(e) : e \in S}
  OBVIOUS
<1>3. \A B \in {BytesOf(e) : e \in S} : IsFiniteSet(B)
  BY BytesOfIs DEF Sized
<1>4. IsFiniteSet(Bytes(S))
  BY <1>1, <1>2, <1>3, FS_UNION DEF Bytes
<1> QED BY <1>4, FS_CardinalityType

(* What is left of sized entries, and what is taken, is sized.                *)
LEMMA SizedSubset ==
    ASSUME NEW S, Sized(S), NEW T \in SUBSET S
    PROVE  Sized(T) /\ Sized(S \ T)
BY FS_Subset, FS_Difference DEF Sized

(* Entries share no bytes: taking some away takes theirs away.                *)
LEMMA BytesOfDifference ==
    ASSUME NEW S, Sized(S), NEW T \in SUBSET S
    PROVE  /\ Bytes(S \ T) = Bytes(S) \ Bytes(T)
           /\ Bytes(T) \subseteq Bytes(S)
           /\ Cardinality(Bytes(S \ T)) = Cardinality(Bytes(S)) - Cardinality(Bytes(T))
           /\ Cardinality(Bytes(T)) <= Cardinality(Bytes(S))
<1>1. Bytes(T) \subseteq Bytes(S)
  BY DEF Bytes
<1>2. ASSUME NEW b
      PROVE  b \in Bytes(S \ T) <=> b \in Bytes(S) /\ b \notin Bytes(T)
  <2>1. ASSUME NEW e \in S, NEW f \in S, b \in BytesOf(e), b \in BytesOf(f)
        PROVE  e = f
    BY <2>1 DEF BytesOf, Sized
  <2> QED BY <2>1 DEF Bytes
<1>3. Bytes(S \ T) = Bytes(S) \ Bytes(T)
  BY <1>2
<1>4. IsFiniteSet(Bytes(S)) /\ Bytes(S) \cap Bytes(T) = Bytes(T)
  BY <1>1, BytesAreFinite
<1>5. Cardinality(Bytes(S) \ Bytes(T)) = Cardinality(Bytes(S)) - Cardinality(Bytes(T))
  BY <1>4, FS_Difference
<1>6. Cardinality(Bytes(T)) <= Cardinality(Bytes(S))
  BY <1>1, <1>4, FS_Subset
<1> QED BY <1>1, <1>3, <1>5, <1>6

(* The step of the sum: one entry's size and the bytes of the others.         *)
LEMMA BytesWithoutOne ==
    ASSUME NEW S, Sized(S), NEW e \in S
    PROVE  Cardinality(Bytes(S)) = e.sizeBytes + Cardinality(Bytes(S \ {e}))
<1>1. {e} \in SUBSET S
  OBVIOUS
<1>2. Cardinality(Bytes(S \ {e})) = Cardinality(Bytes(S)) - Cardinality(Bytes({e}))
  BY <1>1, BytesOfDifference
<1>3. Bytes({e}) = BytesOf(e)
  BY DEF Bytes
<1>4. e.sizeBytes \in Nat /\ Cardinality(BytesOf(e)) = e.sizeBytes
  BY BytesOfIs DEF Sized
<1>5. Cardinality(Bytes(S)) \in Nat
  BY BytesAreFinite
<1> QED BY <1>2, <1>3, <1>4, <1>5

IsSum(g, S) ==
    g = [s \in SUBSET S |->
            IF s = {} THEN 0
            ELSE (CHOOSE x \in s : TRUE).sizeBytes + g[s \ {CHOOSE x \in s : TRUE}]]

(* SizeOfAll is the recursive function its fold is defined by.                *)
LEMMA SizeOfAllIs ==
    ASSUME NEW S
    PROVE  SizeOfAll(S) = (CHOOSE g : IsSum(g, S))[S]
BY DEF SizeOfAll, MapThenSumSet, MapThenFoldSet, IsSum

(* The running total of the sizes is a number of bytes.                       *)
LEMMA SizeIsBytes ==
    ASSUME NEW S, Sized(S)
    PROVE  SizeOfAll(S) = Cardinality(Bytes(S))
<1> DEFINE h == [s \in SUBSET S |-> Cardinality(Bytes(s))]
           one(s) == CHOOSE x \in s : TRUE
           g == CHOOSE g : IsSum(g, S)
           P == {n \in Nat : \A s \in SUBSET S : Cardinality(s) = n => g[s] = h[s]}
<1>1. IsSum(h, S)
  <2>1. ASSUME NEW s \in SUBSET S, s = {}
        PROVE  h[s] = 0
    BY <2>1, FS_EmptySet DEF Bytes
  <2>2. ASSUME NEW s \in SUBSET S, s # {}
        PROVE  h[s] = one(s).sizeBytes + h[s \ {one(s)}]
    <3>1. one(s) \in s
      BY <2>2
    <3> HIDE DEF one
    <3>2. Sized(s)
      BY SizedSubset
    <3>3. Cardinality(Bytes(s)) = one(s).sizeBytes + Cardinality(Bytes(s \ {one(s)}))
      BY <3>1, <3>2, BytesWithoutOne
    <3> QED BY <3>3
  <2> QED BY <2>1, <2>2 DEF IsSum
<1>2. IsSum(g, S)
  BY <1>1
<1> HIDE DEF g
<1>3. \A s \in SUBSET S : g[s] = IF s = {} THEN 0 ELSE one(s).sizeBytes + g[s \ {one(s)}]
  BY <1>2 DEF IsSum
<1>4. \A s \in SUBSET S : h[s] = IF s = {} THEN 0 ELSE one(s).sizeBytes + h[s \ {one(s)}]
  BY <1>1 DEF IsSum
<1>5. \A s \in SUBSET S : IsFiniteSet(s) /\ (Cardinality(s) = 0 <=> s = {})
  BY FS_Subset, FS_EmptySet DEF Sized
<1> HIDE DEF h
<1>6. 0 \in P
  BY <1>3, <1>4, <1>5
<1>7. ASSUME NEW n \in Nat, n \in P
      PROVE  n + 1 \in P
  <2> SUFFICES ASSUME NEW s \in SUBSET S, Cardinality(s) = n + 1
               PROVE  g[s] = h[s]
    OBVIOUS
  <2>1. s # {}
    BY <1>5
  <2>2. one(s) \in s
    BY <2>1
  <2> HIDE DEF one
  <2>3. Cardinality(s \ {one(s)}) = n
    BY <1>5, <2>2, FS_RemoveElement
  <2>4. g[s \ {one(s)}] = h[s \ {one(s)}]
    BY <1>7, <2>3
  <2> QED BY <1>3, <1>4, <2>1, <2>4
<1> HIDE DEF P
<1>8. Nat \subseteq P
  BY <1>6, <1>7, InductionOnNat
<1>9. Cardinality(S) \in P
  BY <1>8, FS_CardinalityType DEF Sized
<1>10. g[S] = h[S]
  BY <1>9 DEF P
<1> QED BY <1>10, SizeOfAllIs DEF g, h

(* The sum of sizes of a part and of the rest.                                *)
LEMMA SizeOfSubset ==
    ASSUME NEW S, Sized(S), NEW T \in SUBSET S
    PROVE  /\ SizeOfAll(S) \in Nat /\ SizeOfAll(T) \in Nat
           /\ SizeOfAll(T) <= SizeOfAll(S)
           /\ SizeOfAll(S \ T) = SizeOfAll(S) - SizeOfAll(T)
<1>1. Sized(T) /\ Sized(S \ T)
  BY SizedSubset
<1>2. /\ SizeOfAll(S) = Cardinality(Bytes(S)) /\ SizeOfAll(T) = Cardinality(Bytes(T))
      /\ SizeOfAll(S \ T) = Cardinality(Bytes(S \ T))
  BY <1>1, SizeIsBytes
<1>3. Cardinality(Bytes(S)) \in Nat /\ Cardinality(Bytes(T)) \in Nat
  BY <1>1, BytesAreFinite
<1> QED BY <1>2, <1>3, BytesOfDifference

(* The sum of sizes with an entry under a new key.                            *)
LEMMA SizeWithOneMore ==
    ASSUME NEW S, NEW e, Sized(S), e.sizeBytes \in Nat, \A f \in S : f.key # e.key
    PROVE  /\ Sized(S \cup {e})
           /\ SizeOfAll(S \cup {e}) = SizeOfAll(S) + e.sizeBytes
           /\ Cardinality(S \cup {e}) = Cardinality(S) + 1
<1>1. e \notin S
  OBVIOUS
<1>2. Sized(S \cup {e})
  BY FS_AddElement DEF Sized
<1>3. (S \cup {e}) \ {e} = S
  BY <1>1
<1>4. Cardinality(Bytes(S \cup {e})) = e.sizeBytes + Cardinality(Bytes(S))
  BY <1>2, <1>3, BytesWithoutOne
<1>5. Cardinality(Bytes(S)) \in Nat
  BY BytesAreFinite
<1>6. Cardinality(S \cup {e}) = Cardinality(S) + 1
  BY <1>1, FS_AddElement DEF Sized
<1> QED BY <1>2, <1>4, <1>5, <1>6, SizeIsBytes

(* What IsCache says of the entries, for the lemmas about sizes.              *)
LEMMA CacheIsSized ==
    ASSUME NEW c, IsCache(c)
    PROVE  /\ Sized(c.entries)
           /\ c.totalSizeBytes = SizeOfAll(c.entries)
           /\ c.totalSizeBytes \in Nat
           /\ Cardinality(c.entries) \in Nat
<1>1. Sized(c.entries)
  BY DEF IsCache, Sized
<1>2. c.totalSizeBytes = SizeOfAll(c.entries)
  BY DEF IsCache
<1>3. c.entries \in SUBSET c.entries
  OBVIOUS
<1>4. SizeOfAll(c.entries) \in Nat
  BY <1>1, <1>3, SizeOfSubset
<1>5. Cardinality(c.entries) \in Nat
  BY FS_CardinalityType DEF IsCache
<1> QED BY <1>1, <1>2, <1>4, <1>5

(* delete keeps the total.                                                    *)
LEMMA WithoutKeeps ==
    ASSUME NEW c, IsCache(c), NEW gone \in SUBSET c.entries
    PROVE  IsCache(Without(c, gone))
<1> DEFINE d == Without(c, gone)
<1>1. d.entries = c.entries \ gone /\ d.totalSizeBytes = c.totalSizeBytes - SizeOfAll(gone)
  BY DEF Without
<1>2. d = [entries |-> d.entries, totalSizeBytes |-> d.totalSizeBytes]
  BY DEF Without
<1> HIDE DEF d
<1>3. d.totalSizeBytes = SizeOfAll(d.entries) /\ d.totalSizeBytes <= c.totalSizeBytes
  <2>1. Sized(c.entries) /\ c.totalSizeBytes = SizeOfAll(c.entries)
    BY CacheIsSized
  <2>2. /\ SizeOfAll(c.entries) \in Nat /\ SizeOfAll(gone) \in Nat
        /\ SizeOfAll(c.entries \ gone) = SizeOfAll(c.entries) - SizeOfAll(gone)
    BY <2>1, SizeOfSubset
  <2> QED BY <1>1, <2>1, <2>2
<1>5. IsFiniteSet(d.entries) /\ Cardinality(d.entries) <= Cardinality(c.entries)
  BY <1>1, FS_Subset DEF IsCache
<1>6. Cardinality(d.entries) <= MaxEntries /\ d.totalSizeBytes <= MaxBytes
  <2>1. Cardinality(d.entries) \in Nat /\ Cardinality(c.entries) \in Nat
    BY <1>5, CacheIsSized, FS_CardinalityType
  <2>2. d.totalSizeBytes \in Nat /\ c.totalSizeBytes \in Nat
    BY <1>1, CacheIsSized, SizeOfSubset
  <2>3. Cardinality(c.entries) <= MaxEntries /\ c.totalSizeBytes <= MaxBytes
    BY DEF IsCache
  <2> QED BY <1>3, <1>5, <2>1, <2>2, <2>3
<1>7. /\ \A e \in d.entries :
            IsEntry(e) /\ {e.sizeBytes, e.lastAccessedAt, e.slot} \subseteq Nat
      /\ \A e, f \in d.entries : e.key = f.key => e = f
  BY <1>1 DEF IsCache
<1>8. IsCache(d)
  BY <1>2, <1>3, <1>5, <1>6, <1>7 DEF IsCache
<1> QED BY <1>8 DEF d

(* The eviction loop of set leaves room for the new entry.                    *)
LEMMA EvictedLeavesRoom ==
    ASSUME NEW c, IsCache(c), NEW size \in Nat, size <= MaxBytes
    PROVE  /\ Evicted(c, size) \subseteq c.entries
           /\ c.totalSizeBytes - SizeOfAll(Evicted(c, size)) + size <= MaxBytes
           /\ Cardinality(c.entries \ Evicted(c, size)) < MaxEntries
<1> DEFINE olderThan(e) == {f \in c.entries : Older(f, e)}
           room(gone) == /\ c.totalSizeBytes - SizeOfAll(gone) + size <= MaxBytes
                         /\ Cardinality(c.entries \ gone) < MaxEntries
           E == Evicted(c, size)
           rest == c.entries \ E
<1>1. E = {e \in c.entries : ~room(olderThan(e))}
  BY DEF Evicted
<1>2. Sized(c.entries) /\ c.totalSizeBytes = SizeOfAll(c.entries) /\ c.totalSizeBytes \in Nat
  BY CacheIsSized
<1>3. IsFiniteSet(c.entries)
  BY DEF IsCache
<1>4. CASE rest = {}
  <2>1. E = c.entries
    BY <1>1, <1>4
  <2>2. Cardinality(c.entries \ E) = 0
    BY <2>1, FS_EmptySet
  <2>3. c.totalSizeBytes - SizeOfAll(E) + size <= MaxBytes
    BY <1>2, <2>1
  <2> QED BY <2>1, <2>2, <2>3
<1>5. CASE rest # {}
  <2> DEFINE T == {Cardinality(olderThan(e)) : e \in rest}
  <2>1. \A e \in c.entries : IsFiniteSet(olderThan(e)) /\ Cardinality(olderThan(e)) \in Nat
    <3> SUFFICES ASSUME NEW e \in c.entries
                 PROVE  IsFiniteSet(olderThan(e)) /\ Cardinality(olderThan(e)) \in Nat
      OBVIOUS
    <3>1. olderThan(e) \in SUBSET c.entries
      OBVIOUS
    <3> HIDE DEF olderThan
    <3> QED BY <1>3, <3>1, FS_Subset, FS_CardinalityType
  <2>2. PICK e \in rest : \A f \in rest :
            Cardinality(olderThan(e)) <= Cardinality(olderThan(f))
    <3>1. T \in SUBSET Nat /\ T # {}
      BY <1>5, <2>1
    <3>2. PICK n \in T : \A m \in T : n <= m
      BY <3>1, LeastNatural
    <3> QED BY <3>2
  <2>3. ASSUME NEW f \in rest
        PROVE  f \notin olderThan(e)
    <3> SUFFICES ASSUME f \in olderThan(e) PROVE FALSE
      OBVIOUS
    <3>1. \A x \in c.entries : x.lastAccessedAt \in Nat /\ x.slot \in Nat
      BY DEF IsCache
    <3>2. olderThan(f) \subseteq olderThan(e)
      BY <3>1 DEF Older
    <3>3. f \notin olderThan(f)
      BY <3>1 DEF Older
    <3> HIDE DEF olderThan
    <3>4. Cardinality(olderThan(f)) <= Cardinality(olderThan(e)) /\ olderThan(f) # olderThan(e)
      BY <2>1, <3>2, <3>3, FS_Subset
    <3>5. Cardinality(olderThan(f)) # Cardinality(olderThan(e))
      BY <2>1, <3>2, <3>4, FS_Subset
    <3> QED BY <2>1, <2>2, <3>4, <3>5
  <2>4. olderThan(e) \in SUBSET E /\ E \in SUBSET c.entries
    BY <1>1, <2>3
  <2>5. room(olderThan(e))
    BY <1>1
  <2> HIDE DEF E, olderThan
  <2>6. SizeOfAll(olderThan(e)) <= SizeOfAll(E)
        /\ SizeOfAll(E) \in Nat /\ SizeOfAll(olderThan(e)) \in Nat
    BY <1>2, <2>4, SizedSubset, SizeOfSubset
  <2>7. c.totalSizeBytes - SizeOfAll(E) + size <= MaxBytes
    BY <1>2, <2>5, <2>6
  <2>8. Cardinality(c.entries \ E) <= Cardinality(c.entries \ olderThan(e))
    <3>1. (c.entries \ E) \in SUBSET (c.entries \ olderThan(e))
      BY <2>4
    <3>2. IsFiniteSet(c.entries \ olderThan(e))
      BY <1>3, FS_Difference
    <3> QED BY <3>1, <3>2, FS_Subset
  <2>9. Cardinality(c.entries \ E) \in Nat /\ Cardinality(c.entries \ olderThan(e)) \in Nat
    BY <1>3, FS_Difference, FS_CardinalityType
  <2>10. Cardinality(c.entries \ E) < MaxEntries
    BY <2>5, <2>8, <2>9
  <2> QED BY <2>4, <2>7, <2>10 DEF E
<1> QED BY <1>4, <1>5

(* There is a next slot.                                                      *)
LEMMA NextSlotIsNatural ==
    ASSUME NEW c, IsCache(c)
    PROVE  NextSlot(c) \in Nat
<1> DEFINE f == [e \in c.entries |-> e.slot]
           S == {0} \cup {f[e] : e \in c.entries}
<1>1. IsFiniteSet({f[e] : e \in c.entries})
  <2>1. f = [x \in c.entries |-> f[x]] /\ IsFiniteSet(c.entries)
    BY DEF IsCache
  <2> HIDE DEF f
  <2> QED BY <2>1, ImageIsFinite
<1>2. IsFiniteSet(S)
  BY <1>1, FS_Singleton, FS_Union
<1>3. S \in SUBSET Nat /\ S # {}
  <2>1. \A e \in c.entries : f[e] \in Nat
    BY DEF IsCache
  <2> HIDE DEF f
  <2> QED BY <2>1
<1>4. S = {0} \cup {e.slot : e \in c.entries}
  OBVIOUS
<1> HIDE DEF S
<1>5. Max(S) \in Nat
  BY <1>2, <1>3, GreatestNatural
<1> QED BY <1>4, <1>5 DEF NextSlot

(* set keeps the limits, the total and one entry for a key.                   *)
LEMMA SetKeeps ==
    ASSUME NEW c, IsCache(c), NEW key, NEW response, NEW size \in Nat, NEW time \in Nat
    PROVE  IsCache(Set(c, key, response, size, time))
<1> DEFINE old == Without(c, Of(c, key))
           rest == Without(old, Evicted(old, size))
           entry == [key |-> key, response |-> response, sizeBytes |-> size,
                     createdAt |-> time, lastAccessedAt |-> time, slot |-> NextSlot(rest)]
           full == [entries |-> rest.entries \cup {entry},
                    totalSizeBytes |-> rest.totalSizeBytes + size]
<1>1. IsCache(old)
  BY WithoutKeeps DEF Of
<1>2. CASE size > MaxBytes
  BY <1>1, <1>2 DEF Set
<1>3. CASE ~(size > MaxBytes)
  <2>1. size <= MaxBytes
    BY <1>3
  <2>2. \A e \in old.entries : e.key # key
    BY DEF Without, Of
  <2> HIDE DEF old
  <2>3. /\ Evicted(old, size) \subseteq old.entries
        /\ old.totalSizeBytes - SizeOfAll(Evicted(old, size)) + size <= MaxBytes
        /\ Cardinality(old.entries \ Evicted(old, size)) < MaxEntries
    BY <1>1, <2>1, EvictedLeavesRoom
  <2>4. IsCache(rest)
    BY <1>1, <2>3, WithoutKeeps
  <2>5. /\ rest.entries \subseteq old.entries
        /\ rest.totalSizeBytes + size <= MaxBytes
        /\ Cardinality(rest.entries) < MaxEntries
    BY <2>3 DEF Without
  <2> HIDE DEF rest
  <2>6. Sized(rest.entries) /\ rest.totalSizeBytes = SizeOfAll(rest.entries)
        /\ Cardinality(rest.entries) \in Nat
    BY <2>4, CacheIsSized
  <2>7. NextSlot(rest) \in Nat
    BY <2>4, NextSlotIsNatural
  <2>8. IsEntry(entry) /\ {entry.sizeBytes, entry.lastAccessedAt, entry.slot} \subseteq Nat
        /\ entry.key = key /\ entry.sizeBytes = size
    BY <2>7 DEF IsEntry
  <2> HIDE DEF entry
  <2>9. \A e \in rest.entries : e.key # entry.key
    BY <2>2, <2>5, <2>8
  <2>10. /\ Sized(full.entries)
         /\ SizeOfAll(full.entries) = SizeOfAll(rest.entries) + size
         /\ Cardinality(full.entries) = Cardinality(rest.entries) + 1
    BY <2>6, <2>8, <2>9, SizeWithOneMore
  <2>11. Cardinality(full.entries) <= MaxEntries
    BY <2>5, <2>6, <2>10
  <2>12. full.totalSizeBytes <= MaxBytes
         /\ full.totalSizeBytes = SizeOfAll(full.entries)
    BY <2>5, <2>6, <2>10
  <2>13. \A e \in full.entries :
            IsEntry(e) /\ {e.sizeBytes, e.lastAccessedAt, e.slot} \subseteq Nat
    BY <2>4, <2>8 DEF IsCache
  <2>14. full = [entries |-> full.entries, totalSizeBytes |-> full.totalSizeBytes]
    OBVIOUS
  <2>15. Set(c, key, response, size, time) = full
    BY <1>3 DEF Set, full, entry, rest, old
  <2> HIDE DEF full
  <2>16. IsCache(full)
    BY <2>10, <2>11, <2>12, <2>13, <2>14 DEF IsCache, Sized
  <2> QED BY <2>15, <2>16
<1> QED BY <1>2, <1>3

(* get keeps them too: a stamped entry has its key and its size.              *)
LEMMA GetKeeps ==
    ASSUME NEW c, IsCache(c), NEW keys, NEW time \in Nat
    PROVE  IsCache(Get(c, keys, time))
<1> DEFINE found == UNION {Of(c, k) : k \in keys}
           rest == Without(c, {e \in found : Expired(e, time)})
           stamp == [e \in rest.entries |->
                        IF e \in found THEN [e EXCEPT !.lastAccessedAt = time] ELSE e]
           S == {stamp[e] : e \in rest.entries}
           got == [entries |-> S, totalSizeBytes |-> rest.totalSizeBytes]
<1>1. found \subseteq c.entries
  BY DEF Of
<1>2. IsCache(rest)
  BY <1>1, WithoutKeeps
<1>3. rest = [entries |-> rest.entries, totalSizeBytes |-> rest.totalSizeBytes]
  BY DEF Without
<1>4. Get(c, keys, time) = got
  <2>1. \A T : [rest EXCEPT !.entries = T]
                    = [entries |-> T, totalSizeBytes |-> rest.totalSizeBytes]
    <3> HIDE DEF rest
    <3> QED BY <1>3
  <2>2. S = {IF e \in found THEN [e EXCEPT !.lastAccessedAt = time] ELSE e : e \in rest.entries}
    OBVIOUS
  <2> QED BY <2>1, <2>2 DEF Get
<1>5. \A e \in rest.entries :
        /\ IsEntry(stamp[e])
        /\ {stamp[e].sizeBytes, stamp[e].lastAccessedAt, stamp[e].slot} \subseteq Nat
        /\ stamp[e].key = e.key /\ stamp[e].sizeBytes = e.sizeBytes
  <2> SUFFICES ASSUME NEW e \in rest.entries
               PROVE  /\ IsEntry(stamp[e])
                      /\ {stamp[e].sizeBytes, stamp[e].lastAccessedAt, stamp[e].slot}
                            \subseteq Nat
                      /\ stamp[e].key = e.key /\ stamp[e].sizeBytes = e.sizeBytes
    OBVIOUS
  <2> DEFINE f == [e EXCEPT !.lastAccessedAt = time]
  <2>1. IsEntry(e) /\ {e.sizeBytes, e.lastAccessedAt, e.slot} \subseteq Nat
    BY <1>2 DEF IsCache
  <2>2. e = [key |-> e.key, response |-> e.response, sizeBytes |-> e.sizeBytes,
             createdAt |-> e.createdAt, lastAccessedAt |-> e.lastAccessedAt, slot |-> e.slot]
    BY <2>1 DEF IsEntry
  <2>3. f = [key |-> e.key, response |-> e.response, sizeBytes |-> e.sizeBytes,
             createdAt |-> e.createdAt, lastAccessedAt |-> time, slot |-> e.slot]
    BY <2>2
  <2>4. stamp[e] = e \/ stamp[e] = f
    OBVIOUS
  <2> QED BY <2>1, <2>3, <2>4 DEF IsEntry
<1>6. stamp = [e \in rest.entries |-> stamp[e]]
  OBVIOUS
<1> HIDE DEF stamp, rest
<1>7. Sized(rest.entries) /\ rest.totalSizeBytes = SizeOfAll(rest.entries)
      /\ Cardinality(rest.entries) \in Nat
  BY <1>2, CacheIsSized
<1>8. IsFiniteSet(S) /\ Cardinality(S) <= Cardinality(rest.entries)
  BY <1>6, <1>7, ImageIsFinite DEF Sized
<1>9. \A e, f \in S : e.key = f.key => e = f
  BY <1>5, <1>7 DEF Sized
<1>10. Sized(S)
  BY <1>5, <1>7, <1>8, <1>9 DEF Sized
<1>11. Bytes(S) = Bytes(rest.entries)
  <2>1. \A e \in rest.entries : BytesOf(stamp[e]) = BytesOf(e)
    BY <1>5 DEF BytesOf
  <2>2. {BytesOf(e) : e \in S} = {BytesOf(e) : e \in rest.entries}
    BY <2>1
  <2> QED BY <2>2 DEF Bytes
<1>12. SizeOfAll(S) = SizeOfAll(rest.entries)
  BY <1>7, <1>10, <1>11, SizeIsBytes
<1>13. rest.totalSizeBytes <= MaxBytes /\ Cardinality(rest.entries) <= MaxEntries
  BY <1>2 DEF IsCache
<1>14. Cardinality(S) <= MaxEntries
  BY <1>7, <1>8, <1>13, FS_CardinalityType
<1>15. got.entries = S /\ got.totalSizeBytes = rest.totalSizeBytes
  OBVIOUS
<1>16. got = [entries |-> got.entries, totalSizeBytes |-> got.totalSizeBytes]
  OBVIOUS
<1>17. \A e \in S : IsEntry(e) /\ {e.sizeBytes, e.lastAccessedAt, e.slot} \subseteq Nat
  BY <1>5
<1> HIDE DEF got, S
<1>18. IsCache(got)
  BY <1>7, <1>8, <1>9, <1>12, <1>13, <1>14, <1>15, <1>16, <1>17 DEF IsCache
<1> QED BY <1>4, <1>18

(* A cache starts empty.                                                      *)
LEMMA EmptyCacheIsCache == IsCache(EmptyCache)
<1>1. IsFiniteSet({}) /\ Cardinality({}) = 0
  BY FS_EmptySet
<1>2. Sized({}) /\ Bytes({}) = {}
  BY <1>1 DEF Sized, Bytes
<1>3. SizeOfAll({}) = 0
  BY <1>1, <1>2, SizeIsBytes
<1> QED BY <1>1, <1>3 DEF IsCache, EmptyCache

(* set adds one entry and otherwise only removes entries.                     *)
LEMMA SetAddsOne ==
    ASSUME NEW c, NEW key, NEW response, NEW size, NEW time,
           NEW e \in Set(c, key, response, size, time).entries
    PROVE  \/ e \in c.entries
           \/ /\ IsEntry(e) /\ e.createdAt = time
              /\ e.key = key /\ e.response = response
BY DEF Set, Without, IsEntry

(* get leaves of an entry all but the time of its last use.                   *)
LEMMA GetKeepsEntries ==
    ASSUME NEW c, NEW keys, NEW time, \A e \in c.entries : IsEntry(e),
           NEW e \in Get(c, keys, time).entries
    PROVE  \E f \in c.entries :
                /\ IsEntry(e) /\ e.createdAt = f.createdAt
                /\ e.key = f.key /\ e.response = f.response
<1>1. PICK f \in c.entries : e = f \/ e = [f EXCEPT !.lastAccessedAt = time]
  BY DEF Get, Without
<1>2. CASE e = f
  BY <1>2
<1>3. CASE e = [f EXCEPT !.lastAccessedAt = time]
  <2>1. f = [key |-> f.key, response |-> f.response, sizeBytes |-> f.sizeBytes,
             createdAt |-> f.createdAt, lastAccessedAt |-> f.lastAccessedAt, slot |-> f.slot]
    BY DEF IsEntry
  <2>2. e = [key |-> f.key, response |-> f.response, sizeBytes |-> f.sizeBytes,
             createdAt |-> f.createdAt, lastAccessedAt |-> time, slot |-> f.slot]
    BY <1>3, <2>1
  <2> QED BY <2>2 DEF IsEntry
<1> QED BY <1>1, <1>2, <1>3

(* The methods of the response cache start from a cache and keep it one,      *)
(* whatever is set and asked for: what ServerAssumption says of WarmCaches    *)
(* holds of every cache that earlier calls can leave.                         *)
THEOREM MethodsKeepCaches ==
    /\ IsCache(EmptyCache)
    /\ \A c : IsCache(c) =>
        /\ \A key, response : \A size, time \in Nat :
                IsCache(Set(c, key, response, size, time))
        /\ \A keys : \A time \in Nat : IsCache(Get(c, keys, time))
BY EmptyCacheIsCache, SetKeeps, GetKeeps

-----------------------------------------------------------------------------
(* Folds over sequences                                                       *)
(* The last position of a set of positions.                                   *)
LEMMA GreatestPosition ==
    ASSUME NEW n \in Nat, NEW S \in SUBSET (1..n)
    PROVE  /\ S # {} => Max(S) \in S /\ \A i \in S : i <= Max(S)
           /\ n \in S => Max(S) = n
<1>1. S \in SUBSET Nat
  OBVIOUS
<1>2. IsFiniteSet(S)
  <2>1. IsFiniteSet(1..n)
    BY FS_Interval
  <2> QED BY <2>1, FS_Subset
<1>3. S # {} => Max(S) \in S /\ \A i \in S : i <= Max(S)
  BY <1>1, <1>2, GreatestNatural
<1>4. ASSUME n \in S
      PROVE  Max(S) = n
  <2> DEFINE m == Max(S)
  <2>1. m \in S /\ n <= m
    BY <1>3, <1>4
  <2>2. \A i \in S : i \in Nat /\ i <= n
    OBVIOUS
  <2> HIDE DEF m
  <2>3. m \in Nat /\ m <= n
    BY <2>1, <2>2
  <2>4. m = n
    BY <2>1, <2>3
  <2> QED BY <2>4 DEF m
<1> QED BY <1>3, <1>4

Picked(s, e, field, value) == IF e[field] = value THEN Append(s, e) ELSE s

(* A fold of elements of T into one of A: its base and its step.              *)
IsStep(T, A, base, step) == base \in A /\ step \in [A \X T -> A]

(* The steps of a fold over a sequence, with the step as a function, and what *)
(* the last of them leaves.                                                   *)
IsRun(f, A, base, step, s) ==
    /\ f \in [0..Len(s) -> A]
    /\ f[0] = base
    /\ \A n \in 0..(Len(s) - 1) : f[n + 1] = step[<<f[n], s[n + 1]>>]

Run(A, base, step, s) == (CHOOSE f : IsRun(f, A, base, step, s))[Len(s)]

(* The function on the sets of positions that FoldLeft is defined by.         *)
IsFold(h, A, base, step, s) ==
    /\ h \in [SUBSET DOMAIN s -> A]
    /\ \A S \in SUBSET DOMAIN s :
        h[S] = IF S = {} THEN base ELSE step[<<h[S \ {Max(S)}], s[Max(S)]>>]

(* Every sequence has a run.                                                  *)
LEMMA RunExists ==
    ASSUME NEW T, NEW A, NEW base, NEW step, IsStep(T, A, base, step), NEW s \in Seq(T)
    PROVE  \E f : IsRun(f, A, base, step, s)
<1> DEFINE N == Len(s)
           IsPart(f, n) == /\ f \in [0..n -> A]
                           /\ f[0] = base
                           /\ \A i \in 0..(n - 1) : f[i + 1] = step[<<f[i], s[i + 1]>>]
           P == {n \in Nat : n <= N => \E f : IsPart(f, n)}
<1>0. base \in A /\ step \in [A \X T -> A]
  BY DEF IsStep
<1>1. N \in Nat
  BY LenProperties
<1>2. 0 \in P
  <2>1. IsPart([i \in 0..0 |-> base], 0)
    BY <1>0
  <2> QED BY <2>1
<1>3. ASSUME NEW n \in Nat, n \in P
      PROVE  n + 1 \in P
  <2> SUFFICES ASSUME n + 1 <= N
               PROVE  \E f : IsPart(f, n + 1)
    OBVIOUS
  <2>1. n <= N
    BY <1>1
  <2>2. PICK f : IsPart(f, n)
    BY <1>3, <2>1
  <2> DEFINE next == step[<<f[n], s[n + 1]>>]
             k == [i \in 0..(n + 1) |-> IF i = n + 1 THEN next ELSE f[i]]
  <2>3. next \in A
    <3>1. n + 1 \in 1..N
      BY <1>1
    <3>2. s[n + 1] \in T
      BY <3>1, ElementOfSeq
    <3>3. f[n] \in A
      BY <2>2
    <3> QED BY <1>0, <3>2, <3>3
  <2>4. \A i \in 0..n : k[i] = f[i]
    OBVIOUS
  <2>5. k[n + 1] = next
    OBVIOUS
  <2>6. k \in [0..(n + 1) -> A]
    <3>1. \A i \in 0..(n + 1) : i # n + 1 => i \in 0..n
      OBVIOUS
    <3> HIDE DEF next
    <3> QED BY <2>2, <2>3, <3>1
  <2> HIDE DEF k
  <2>7. ASSUME NEW i \in 0..n
        PROVE  k[i + 1] = step[<<k[i], s[i + 1]>>]
    <3>1. CASE i = n
      BY <2>4, <2>5, <3>1
    <3>2. CASE i # n
      <4>1. i \in 0..(n - 1) /\ i + 1 \in 0..n
        BY <3>2
      <4> QED BY <2>2, <2>4, <4>1
    <3> QED BY <3>1, <3>2
  <2>8. k[0] = base
    BY <2>2, <2>4
  <2>9. (n + 1) - 1 = n
    OBVIOUS
  <2>10. IsPart(k, n + 1)
    BY <2>6, <2>7, <2>8, <2>9
  <2> HIDE DEF IsPart
  <2> QED BY <2>10
<1> HIDE DEF P
<1>4. N \in P
  BY <1>1, <1>2, <1>3, InductionOnNat
<1> QED BY <1>1, <1>4 DEF P, IsRun

(* Two runs are the same as long as the sequences are.                        *)
LEMMA SameRun ==
    ASSUME NEW A, NEW base, NEW step, NEW s, NEW t, NEW f, NEW k, NEW n \in Nat,
           Len(s) \in Nat, Len(t) \in Nat, n <= Len(s), n <= Len(t),
           \A i \in 1..n : s[i] = t[i],
           IsRun(f, A, base, step, s), IsRun(k, A, base, step, t)
    PROVE  f[n] = k[n]
<1> DEFINE P == {i \in Nat : i <= n => f[i] = k[i]}
<1>1. 0 \in P
  BY DEF IsRun
<1>2. ASSUME NEW i \in Nat, i \in P
      PROVE  i + 1 \in P
  <2> SUFFICES ASSUME i + 1 <= n
               PROVE  f[i + 1] = k[i + 1]
    OBVIOUS
  <2>1. i \in 0..(Len(s) - 1) /\ i \in 0..(Len(t) - 1) /\ i + 1 \in 1..n /\ i <= n
    OBVIOUS
  <2>2. f[i] = k[i] /\ s[i + 1] = t[i + 1]
    BY <1>2, <2>1
  <2> QED BY <2>1, <2>2 DEF IsRun
<1> HIDE DEF P
<1>3. n \in P
  BY <1>1, <1>2, InductionOnNat
<1> QED BY <1>3 DEF P

(* Run is where any run of the sequence ends.                                 *)
LEMMA RunIs ==
    ASSUME NEW T, NEW A, NEW base, NEW step, IsStep(T, A, base, step), NEW s \in Seq(T), NEW f,
           IsRun(f, A, base, step, s)
    PROVE  Run(A, base, step, s) = f[Len(s)]
<1> DEFINE k == CHOOSE k : IsRun(k, A, base, step, s)
<1>1. IsRun(k, A, base, step, s)
  OBVIOUS
<1> HIDE DEF k
<1>2. Len(s) \in Nat
  BY LenProperties
<1>3. k[Len(s)] = f[Len(s)]
  BY <1>1, <1>2, SameRun
<1> QED BY <1>3 DEF Run, k

(* A run over nothing stays at the base.                                      *)
LEMMA RunEmpty ==
    ASSUME NEW T, NEW A, NEW base, NEW step, IsStep(T, A, base, step)
    PROVE  Run(A, base, step, <<>>) = base
<1> DEFINE none == <<>>
<1>1. none \in Seq(T)
  OBVIOUS
<1>2. Len(none) = 0
  OBVIOUS
<1> HIDE DEF none
<1>3. PICK k : IsRun(k, A, base, step, none)
  BY <1>1, RunExists
<1>4. Run(A, base, step, none) = k[Len(none)]
  BY <1>1, <1>3, RunIs
<1> QED BY <1>2, <1>3, <1>4 DEF IsRun, none

(* What a run returns, and that it takes one step for an element more.        *)
LEMMA RunSteps ==
    ASSUME NEW T, NEW A, NEW base, NEW step, IsStep(T, A, base, step), NEW s \in Seq(T)
    PROVE  /\ Run(A, base, step, s) \in A
           /\ \A e \in T :
                Run(A, base, step, Append(s, e)) = step[<<Run(A, base, step, s), e>>]
<1> DEFINE N == Len(s)
<1>1. N \in Nat /\ N \in 0..N
  BY LenProperties
<1>2. PICK f : IsRun(f, A, base, step, s)
  BY RunExists
<1>3. Run(A, base, step, s) = f[N]
  BY <1>2, RunIs
<1>4. f[N] \in A
  BY <1>1, <1>2 DEF IsRun
<1>6. ASSUME NEW e \in T
      PROVE  Run(A, base, step, Append(s, e)) = step[<<f[N], e>>]
  <2> DEFINE t == Append(s, e)
  <2>1. /\ t \in Seq(T) /\ Len(t) = N + 1 /\ t[N + 1] = e
        /\ \A i \in 1..N : s[i] = t[i]
    BY AppendProperties
  <2> HIDE DEF t
  <2>2. PICK k : IsRun(k, A, base, step, t)
    BY <2>1, RunExists
  <2>3. Run(A, base, step, t) = k[N + 1]
    BY <2>1, <2>2, RunIs
  <2>4. f[N] = k[N]
    <3>1. Len(t) \in Nat /\ N <= Len(s) /\ N <= Len(t)
      BY <1>1, <2>1
    <3> QED BY <1>1, <1>2, <2>1, <2>2, <3>1, SameRun
  <2>5. N \in 0..(Len(t) - 1)
    BY <1>1, <2>1
  <2>6. k[N + 1] = step[<<k[N], t[N + 1]>>]
    BY <2>2, <2>5 DEF IsRun
  <2> QED BY <2>1, <2>3, <2>4, <2>6 DEF t
<1> QED BY <1>3, <1>4, <1>6

(* The sets of positions 1..n, one step of the fold after the other.          *)
LEMMA NextPosition ==
    ASSUME NEW N \in Nat, NEW n \in 0..(N - 1)
    PROVE  /\ n \in Nat /\ n \in 0..N /\ n + 1 \in 0..N /\ n + 1 \in 1..N
           /\ 1..(n + 1) \in SUBSET (1..N) /\ 1..(n + 1) # {}
           /\ Max(1..(n + 1)) = n + 1
           /\ (1..(n + 1)) \ {n + 1} = 1..n
<1>1. n \in Nat /\ n + 1 \in Nat
  OBVIOUS
<1>2. n + 1 \in 1..(n + 1)
  BY <1>1
<1>3. Max(1..(n + 1)) = n + 1
  BY <1>1, <1>2, GreatestPosition
<1>4. 1..(n + 1) # {}
  BY <1>2
<1>5. 1..(n + 1) \in SUBSET (1..N)
  <2> SUFFICES ASSUME NEW i \in 1..(n + 1)
               PROVE  i \in 1..N
    OBVIOUS
  <2> QED OBVIOUS
<1>6. (1..(n + 1)) \ {n + 1} = 1..n
  BY <1>1
<1> QED BY <1>1, <1>3, <1>4, <1>5, <1>6

(* The function that a fold is defined by exists.                             *)
LEMMA FoldExists ==
    ASSUME NEW T, NEW A, NEW base, NEW step, IsStep(T, A, base, step), NEW s \in Seq(T)
    PROVE  /\ \E h : IsFold(h, A, base, step, s)
           /\ \A S \in SUBSET DOMAIN s :
                S # {} => s[Max(S)] \in T /\ S \ {Max(S)} \in SUBSET DOMAIN s
<1> DEFINE N == Len(s)
           IsPart(h, n) ==
                /\ h \in [SUBSET (1..n) -> A]
                /\ \A S \in SUBSET (1..n) :
                    h[S] = IF S = {} THEN base ELSE step[<<h[S \ {Max(S)}], s[Max(S)]>>]
           P == {n \in Nat : n <= N => \E h : IsPart(h, n)}
<1>0. base \in A /\ step \in [A \X T -> A]
  BY DEF IsStep
<1>1. N \in Nat /\ DOMAIN s = 1..N
  BY LenProperties
<1>2. \A i \in 1..N : s[i] \in T
  BY ElementOfSeq
<1>3. \A S \in SUBSET DOMAIN s :
        S # {} => s[Max(S)] \in T /\ S \ {Max(S)} \in SUBSET DOMAIN s
  <2>1. \A S \in SUBSET (1..N) : S # {} => Max(S) \in 1..N
    BY <1>1, GreatestPosition
  <2> HIDE DEF N
  <2> QED BY <1>1, <1>2, <2>1
<1>4. 0 \in P
  <2>1. SUBSET (1..0) = {{}}
    OBVIOUS
  <2>2. IsPart([S \in SUBSET (1..0) |-> base], 0)
    BY <1>0, <2>1
  <2> QED BY <2>2
<1>5. ASSUME NEW n \in Nat, n \in P
      PROVE  n + 1 \in P
  <2> SUFFICES ASSUME n + 1 <= N
               PROVE  \E h : IsPart(h, n + 1)
    <3> HIDE DEF IsPart, N
    <3> QED OBVIOUS
  <2> DEFINE m == n + 1
  <2>1. PICK h : IsPart(h, n)
    <3>1. n <= N
      BY <1>1
    <3> QED BY <1>5, <3>1
  <2> DEFINE k == [S \in SUBSET (1..m) |->
                    IF m \in S THEN step[<<h[S \ {m}], s[m]>>] ELSE h[S]]
  <2>2. m \in Nat /\ s[m] \in T
    <3>1. m \in 1..N
      BY <1>1
    <3> QED BY <1>2, <3>1
  <2>3. \A S \in SUBSET (1..m) : S \ {m} \in SUBSET (1..n)
    OBVIOUS
  <2>4. \A S \in SUBSET (1..m) : m \notin S => S \in SUBSET (1..n)
    OBVIOUS
  <2>5. \A S \in SUBSET (1..m) : m \in S => Max(S) = m
    BY <2>2, GreatestPosition
  <2> HIDE DEF m
  <2>6. k \in [SUBSET (1..m) -> A]
    <3>1. \A S \in SUBSET (1..n) : h[S] \in A
      BY <2>1
    <3>2. \A x \in A : step[<<x, s[m]>>] \in A
      BY <1>0, <2>2
    <3> QED BY <2>3, <2>4, <3>1, <3>2
  <2>7. ASSUME NEW S \in SUBSET (1..m)
        PROVE  k[S] = IF S = {} THEN base ELSE step[<<k[S \ {Max(S)}], s[Max(S)]>>]
    <3>1. CASE m \in S
      <4>1. Max(S) = m
        BY <2>5, <3>1
      <4>2. S \ {m} \in SUBSET (1..m) /\ m \notin S \ {m}
        OBVIOUS
      <4>3. k[S \ {m}] = h[S \ {m}]
        BY <4>2
      <4> QED BY <3>1, <4>1, <4>3
    <3>2. CASE m \notin S
      <4>1. S \in SUBSET (1..n)
        BY <2>4, <3>2
      <4>2. k[S] = h[S] /\ k[S \ {Max(S)}] = h[S \ {Max(S)}]
        BY <3>2
      <4> QED BY <2>1, <4>1, <4>2
    <3> QED BY <3>1, <3>2
  <2> HIDE DEF k
  <2>8. IsPart(k, m)
    BY <2>6, <2>7
  <2> HIDE DEF IsPart
  <2> QED BY <2>8 DEF m
<1> HIDE DEF P
<1>6. N \in P
  BY <1>1, <1>4, <1>5, InductionOnNat
<1>7. PICK h : IsPart(h, N)
  <2> HIDE DEF IsPart
  <2> QED BY <1>1, <1>6 DEF P
<1>8. IsFold(h, A, base, step, s)
  <2> HIDE DEF N
  <2> QED BY <1>1, <1>7 DEF IsFold
<1> HIDE DEF IsPart, N
<1> QED BY <1>3, <1>8

(* A function that folds as step does, where step is defined, is a run of it. *)
FoldsAs(g, A, base, step, s) ==
    /\ g[{}] = base
    /\ \A S \in SUBSET DOMAIN s : S # {} /\ g[S \ {Max(S)}] \in A
            => g[S] = step[<<g[S \ {Max(S)}], s[Max(S)]>>]

(* A fold ends where the run of its step ends.                                *)
LEMMA FoldIsRun ==
    ASSUME NEW T, NEW A, NEW base, NEW step, IsStep(T, A, base, step), NEW s \in Seq(T), NEW g,
           FoldsAs(g, A, base, step, s)
    PROVE  g[DOMAIN s] = Run(A, base, step, s)
<1> DEFINE N == Len(s)
           f == [n \in 0..N |-> g[1..n]]
           P == {n \in Nat : n <= N => f[n] \in A}
<1>0. base \in A /\ step \in [A \X T -> A]
  BY DEF IsStep
<1>1. N \in Nat /\ DOMAIN s = 1..N
  BY LenProperties
<1>2. f[0] = base
  <2>1. 0 \in 0..N /\ 1..0 = {}
    BY <1>1
  <2> QED BY <2>1 DEF FoldsAs
<1>3. ASSUME NEW n \in 0..(N - 1), f[n] \in A
      PROVE  f[n + 1] = step[<<f[n], s[n + 1]>>] /\ f[n + 1] \in A
  <2>1. /\ n \in 0..N /\ n + 1 \in 0..N /\ n + 1 \in 1..N
        /\ 1..(n + 1) \in SUBSET (1..N) /\ 1..(n + 1) # {}
        /\ Max(1..(n + 1)) = n + 1
        /\ (1..(n + 1)) \ {n + 1} = 1..n
    BY <1>1, NextPosition
  <2>2. g[1..n] \in A
    BY <1>3, <2>1
  <2>3. g[1..(n + 1)] = step[<<g[1..n], s[n + 1]>>]
    BY <1>1, <2>1, <2>2 DEF FoldsAs
  <2>4. f[n + 1] = step[<<f[n], s[n + 1]>>]
    BY <2>1, <2>3
  <2>5. s[n + 1] \in T
    BY <2>1, ElementOfSeq
  <2> HIDE DEF f
  <2> QED BY <1>0, <1>3, <2>4, <2>5
<1> HIDE DEF f
<1>4. 0 \in P
  BY <1>0, <1>2
<1>5. ASSUME NEW n \in Nat, n \in P
      PROVE  n + 1 \in P
  <2> SUFFICES ASSUME n + 1 <= N
               PROVE  f[n + 1] \in A
    OBVIOUS
  <2>1. n \in 0..(N - 1) /\ n <= N
    BY <1>1
  <2> QED BY <1>3, <1>5, <2>1
<1>6. \A n \in 0..N : f[n] \in A
  <2> HIDE DEF P
  <2>1. Nat \subseteq P
    BY <1>4, <1>5, InductionOnNat
  <2> QED BY <2>1 DEF P
<1>7. IsRun(f, A, base, step, s)
  <2>1. f \in [0..N -> A]
    BY <1>6 DEF f
  <2>2. \A n \in 0..(N - 1) : n \in 0..N
    BY <1>1
  <2> QED BY <1>2, <1>3, <1>6, <2>1, <2>2 DEF IsRun
<1>8. Run(A, base, step, s) = f[N]
  BY <1>7, RunIs
<1>9. f[N] = g[1..N]
  BY <1>1 DEF f
<1> QED BY <1>1, <1>8, <1>9

(* The total size of edits, from the first to the last.                        *)
TotalSizeStep == [x \in Nat \X Edit |-> x[1] + x[2].size]

(* TotalSize is a run, and so: its type, its base and its step.               *)
LEMMA TotalSizeIsRun ==
    ASSUME NEW s \in Seq(Edit)
    PROVE  /\ TotalSize(s) = Run(Nat, 0, TotalSizeStep, s)
           /\ IsStep(Edit, Nat, 0, TotalSizeStep)
<1> DEFINE IsIter(g) == g = [S \in SUBSET DOMAIN s |->
                IF S = {} THEN 0 ELSE g[S \ {Max(S)}] + s[Max(S)].size]
           g == CHOOSE g : IsIter(g)
           step == TotalSizeStep
<1>1. TotalSize(s) = g[DOMAIN s]
  BY DEF TotalSize, FoldLeft, MapThenFoldSet
<1>2. IsStep(Edit, Nat, 0, step)
  BY DEF TotalSizeStep, IsStep, Edit
<1>3. \A a \in Nat, e \in Edit : step[<<a, e>>] = a + e.size
  BY DEF TotalSizeStep
<1> HIDE DEF step
<1>4. \A S \in SUBSET DOMAIN s :
        S # {} => s[Max(S)] \in Edit /\ S \ {Max(S)} \in SUBSET DOMAIN s
  BY <1>2, FoldExists
<1>5. PICK h : IsFold(h, Nat, 0, step, s)
  BY <1>2, FoldExists
<1>6. IsIter(h)
  <2>1. \A S \in SUBSET DOMAIN s : S # {} => h[S \ {Max(S)}] \in Nat
    BY <1>4, <1>5 DEF IsFold
  <2>2. \A S \in SUBSET DOMAIN s :
            h[S] = IF S = {} THEN 0 ELSE h[S \ {Max(S)}] + s[Max(S)].size
    BY <1>3, <1>4, <1>5, <2>1 DEF IsFold
  <2>3. h = [S \in SUBSET DOMAIN s |-> h[S]]
    BY <1>5 DEF IsFold
  <2> QED BY <2>2, <2>3
<1>7. IsIter(g)
  <2> HIDE DEF IsIter
  <2> QED BY <1>6
<1> HIDE DEF g
<1>8. FoldsAs(g, Nat, 0, step, s)
  BY <1>3, <1>4, <1>7 DEF FoldsAs
<1> HIDE DEF IsIter
<1>9. g[DOMAIN s] = Run(Nat, 0, step, s)
  BY <1>2, <1>8, FoldIsRun
<1> QED BY <1>1, <1>2, <1>9 DEF step

LEMMA TotalSizeType ==
    ASSUME NEW s \in Seq(Edit)
    PROVE  TotalSize(s) \in Nat
BY TotalSizeIsRun, RunSteps

LEMMA TotalSizeEmpty == TotalSize(<<>>) = 0
<1> DEFINE none == <<>>
           step == TotalSizeStep
<1>1. none \in Seq(Edit)
  OBVIOUS
<1> HIDE DEF none, step
<1>2. TotalSize(none) = Run(Nat, 0, step, none) /\ IsStep(Edit, Nat, 0, step)
  BY <1>1, TotalSizeIsRun DEF step
<1>3. Run(Nat, 0, step, <<>>) = 0
  BY <1>2, RunEmpty
<1> QED BY <1>2, <1>3 DEF none

LEMMA TotalSizeAppend ==
    ASSUME NEW s \in Seq(Edit), NEW e \in Edit
    PROVE  TotalSize(Append(s, e)) = TotalSize(s) + e.size
<1> DEFINE step == TotalSizeStep
<1>1. TotalSize(s) = Run(Nat, 0, step, s) /\ IsStep(Edit, Nat, 0, step)
  BY TotalSizeIsRun
<1>2. Append(s, e) \in Seq(Edit)
  OBVIOUS
<1>3. TotalSize(Append(s, e)) = Run(Nat, 0, step, Append(s, e))
  BY <1>2, TotalSizeIsRun
<1>4. TotalSize(s) \in Nat
  BY TotalSizeType
<1>5. step[<<TotalSize(s), e>>] = TotalSize(s) + e.size
  BY <1>4 DEF TotalSizeStep
<1> HIDE DEF step
<1>6. Run(Nat, 0, step, Append(s, e)) = step[<<Run(Nat, 0, step, s), e>>]
  BY <1>1, RunSteps
<1> QED BY <1>1, <1>3, <1>5, <1>6

(* The edits with a value in a field.                                         *)
WhereStep(field, value) == [x \in Seq(Edit) \X Edit |-> Picked(x[1], x[2], field, value)]

(* Where is a run, and so: its type, its base and its step.                   *)
LEMMA WhereIsRun ==
    ASSUME NEW field, NEW value, NEW s \in Seq(Edit)
    PROVE  /\ Where(s, field, value) = Run(Seq(Edit), <<>>, WhereStep(field, value), s)
           /\ IsStep(Edit, Seq(Edit), <<>>, WhereStep(field, value))
<1> DEFINE IsIter(g) == g = [S \in SUBSET DOMAIN s |->
                IF S = {} THEN <<>> ELSE Picked(g[S \ {Max(S)}], s[Max(S)], field, value)]
           g == CHOOSE g : IsIter(g)
           step == WhereStep(field, value)
<1>1. Where(s, field, value) = g[DOMAIN s]
  BY DEF Picked, Where, FoldLeft, MapThenFoldSet
<1>2. IsStep(Edit, Seq(Edit), <<>>, step)
  BY DEF WhereStep, IsStep, Picked
<1>3. \A a \in Seq(Edit), e \in Edit : step[<<a, e>>] = Picked(a, e, field, value)
  BY DEF WhereStep
<1> HIDE DEF step
<1>4. \A S \in SUBSET DOMAIN s :
        S # {} => s[Max(S)] \in Edit /\ S \ {Max(S)} \in SUBSET DOMAIN s
  BY <1>2, FoldExists
<1>5. PICK h : IsFold(h, Seq(Edit), <<>>, step, s)
  BY <1>2, FoldExists
<1>6. IsIter(h)
  <2>1. \A S \in SUBSET DOMAIN s : S # {} => h[S \ {Max(S)}] \in Seq(Edit)
    BY <1>4, <1>5 DEF IsFold
  <2>2. \A S \in SUBSET DOMAIN s :
            h[S] = IF S = {} THEN <<>> ELSE Picked(h[S \ {Max(S)}], s[Max(S)], field, value)
    BY <1>3, <1>4, <1>5, <2>1 DEF IsFold
  <2>3. h = [S \in SUBSET DOMAIN s |-> h[S]]
    BY <1>5 DEF IsFold
  <2> QED BY <2>2, <2>3
<1>7. IsIter(g)
  <2> HIDE DEF IsIter
  <2> QED BY <1>6
<1> HIDE DEF g
<1>8. FoldsAs(g, Seq(Edit), <<>>, step, s)
  BY <1>3, <1>4, <1>7 DEF FoldsAs
<1> HIDE DEF IsIter
<1>9. g[DOMAIN s] = Run(Seq(Edit), <<>>, step, s)
  BY <1>2, <1>8, FoldIsRun
<1> QED BY <1>1, <1>2, <1>9 DEF step

LEMMA WhereType ==
    ASSUME NEW field, NEW value, NEW s \in Seq(Edit)
    PROVE  Where(s, field, value) \in Seq(Edit)
BY WhereIsRun, RunSteps

LEMMA WhereEmpty ==
    ASSUME NEW field, NEW value
    PROVE  Where(<<>>, field, value) = <<>>
<1> DEFINE none == <<>>
           step == WhereStep(field, value)
<1>1. none \in Seq(Edit)
  OBVIOUS
<1> HIDE DEF none, step
<1>2. Where(none, field, value) = Run(Seq(Edit), <<>>, step, none) /\ IsStep(Edit, Seq(Edit), <<>>, step)
  BY <1>1, WhereIsRun DEF step
<1>3. Run(Seq(Edit), <<>>, step, <<>>) = <<>>
  BY <1>2, RunEmpty
<1> QED BY <1>2, <1>3 DEF none

LEMMA WhereAppend ==
    ASSUME NEW field, NEW value, NEW s \in Seq(Edit), NEW e \in Edit
    PROVE  Where(Append(s, e), field, value) = Picked(Where(s, field, value), e, field, value)
<1> DEFINE step == WhereStep(field, value)
<1>1. Where(s, field, value) = Run(Seq(Edit), <<>>, step, s) /\ IsStep(Edit, Seq(Edit), <<>>, step)
  BY WhereIsRun
<1>2. Append(s, e) \in Seq(Edit)
  OBVIOUS
<1>3. Where(Append(s, e), field, value) = Run(Seq(Edit), <<>>, step, Append(s, e))
  BY <1>2, WhereIsRun
<1>4. Where(s, field, value) \in Seq(Edit)
  BY WhereType
<1>5. step[<<Where(s, field, value), e>>] = Picked(Where(s, field, value), e, field, value)
  BY <1>4 DEF WhereStep
<1> HIDE DEF step
<1>6. Run(Seq(Edit), <<>>, step, Append(s, e)) = step[<<Run(Seq(Edit), <<>>, step, s), e>>]
  BY <1>1, RunSteps
<1> QED BY <1>1, <1>3, <1>5, <1>6

(* Grouping an edit leaves groups of edits.                                   *)
LEMMA GroupedType ==
    ASSUME NEW groups \in Seq(Seq(Edit)), NEW e \in Edit
    PROVE  Grouped(groups, e) \in Seq(Seq(Edit))
<1> DEFINE N == Len(groups)
           joined == [g \in DOMAIN groups |->
                IF groups[g][1].filename = e.filename
                THEN Append(groups[g], e) ELSE groups[g]]
<1>1. N \in Nat /\ DOMAIN groups = 1..N
  BY LenProperties
<1>2. \A g \in 1..N : groups[g] \in Seq(Edit)
  BY ElementOfSeq
<1>3. \A g \in 1..N : Append(groups[g], e) \in Seq(Edit)
  BY <1>2
<1>4. joined \in [1..N -> Seq(Edit)]
  BY <1>1, <1>2, <1>3
<1>5. joined \in Seq(Seq(Edit))
  BY <1>1, <1>4
<1>6. <<e>> \in Seq(Edit)
  OBVIOUS
<1>7. Append(groups, <<e>>) \in Seq(Seq(Edit))
  BY <1>6
<1> QED BY <1>5, <1>7 DEF Grouped

(* groupEditsByFile, edit by edit.                                            *)
GroupsStep == [x \in Seq(Seq(Edit)) \X Edit |-> Grouped(x[1], x[2])]

(* groupEditsByFile is a run, and so: its type, its base and its step.        *)
LEMMA GroupsIsRun ==
    ASSUME NEW s \in Seq(Edit)
    PROVE  /\ groupEditsByFile(s) = Run(Seq(Seq(Edit)), <<>>, GroupsStep, s)
           /\ IsStep(Edit, Seq(Seq(Edit)), <<>>, GroupsStep)
<1> DEFINE IsIter(g) == g = [S \in SUBSET DOMAIN s |->
                IF S = {} THEN <<>> ELSE Grouped(g[S \ {Max(S)}], s[Max(S)])]
           g == CHOOSE g : IsIter(g)
           step == GroupsStep
<1>1. groupEditsByFile(s) = g[DOMAIN s]
  BY DEF groupEditsByFile, FoldLeft, MapThenFoldSet
<1>2. IsStep(Edit, Seq(Seq(Edit)), <<>>, step)
  BY GroupedType DEF GroupsStep, IsStep
<1>3. \A a \in Seq(Seq(Edit)), e \in Edit : step[<<a, e>>] = Grouped(a, e)
  BY DEF GroupsStep
<1> HIDE DEF step
<1>4. \A S \in SUBSET DOMAIN s :
        S # {} => s[Max(S)] \in Edit /\ S \ {Max(S)} \in SUBSET DOMAIN s
  BY <1>2, FoldExists
<1>5. PICK h : IsFold(h, Seq(Seq(Edit)), <<>>, step, s)
  BY <1>2, FoldExists
<1>6. IsIter(h)
  <2>1. \A S \in SUBSET DOMAIN s : S # {} => h[S \ {Max(S)}] \in Seq(Seq(Edit))
    BY <1>4, <1>5 DEF IsFold
  <2>2. \A S \in SUBSET DOMAIN s :
            h[S] = IF S = {} THEN <<>> ELSE Grouped(h[S \ {Max(S)}], s[Max(S)])
    BY <1>3, <1>4, <1>5, <2>1 DEF IsFold
  <2>3. h = [S \in SUBSET DOMAIN s |-> h[S]]
    BY <1>5 DEF IsFold
  <2> QED BY <2>2, <2>3
<1>7. IsIter(g)
  <2> HIDE DEF IsIter
  <2> QED BY <1>6
<1> HIDE DEF g
<1>8. FoldsAs(g, Seq(Seq(Edit)), <<>>, step, s)
  BY <1>3, <1>4, <1>7 DEF FoldsAs
<1> HIDE DEF IsIter
<1>9. g[DOMAIN s] = Run(Seq(Seq(Edit)), <<>>, step, s)
  BY <1>2, <1>8, FoldIsRun
<1> QED BY <1>1, <1>2, <1>9 DEF step

LEMMA GroupsType ==
    ASSUME NEW s \in Seq(Edit)
    PROVE  groupEditsByFile(s) \in Seq(Seq(Edit))
BY GroupsIsRun, RunSteps

LEMMA GroupsEmpty == groupEditsByFile(<<>>) = <<>>
<1> DEFINE none == <<>>
           step == GroupsStep
<1>1. none \in Seq(Edit)
  OBVIOUS
<1> HIDE DEF none, step
<1>2. groupEditsByFile(none) = Run(Seq(Seq(Edit)), <<>>, step, none) /\ IsStep(Edit, Seq(Seq(Edit)), <<>>, step)
  BY <1>1, GroupsIsRun DEF step
<1>3. Run(Seq(Seq(Edit)), <<>>, step, <<>>) = <<>>
  BY <1>2, RunEmpty
<1> QED BY <1>2, <1>3 DEF none

LEMMA GroupsAppend ==
    ASSUME NEW s \in Seq(Edit), NEW e \in Edit
    PROVE  groupEditsByFile(Append(s, e)) = Grouped(groupEditsByFile(s), e)
<1> DEFINE step == GroupsStep
<1>1. groupEditsByFile(s) = Run(Seq(Seq(Edit)), <<>>, step, s) /\ IsStep(Edit, Seq(Seq(Edit)), <<>>, step)
  BY GroupsIsRun
<1>2. Append(s, e) \in Seq(Edit)
  OBVIOUS
<1>3. groupEditsByFile(Append(s, e)) = Run(Seq(Seq(Edit)), <<>>, step, Append(s, e))
  BY <1>2, GroupsIsRun
<1>4. groupEditsByFile(s) \in Seq(Seq(Edit))
  BY GroupsType
<1>5. step[<<groupEditsByFile(s), e>>] = Grouped(groupEditsByFile(s), e)
  BY <1>4 DEF GroupsStep
<1> HIDE DEF step
<1>6. Run(Seq(Seq(Edit)), <<>>, step, Append(s, e)) = step[<<Run(Seq(Seq(Edit)), <<>>, step, s), e>>]
  BY <1>1, RunSteps
<1> QED BY <1>1, <1>3, <1>5, <1>6

CuttingState == [chunks : Seq(Seq(Edit)), current : Seq(Edit), size : Nat]

(* Cutting and adding lead from states of the cutting to such states.         *)
LEMMA CutType ==
    ASSUME NEW c \in CuttingState
    PROVE  Cut(c) \in CuttingState
<1>1. /\ c.chunks \in Seq(Seq(Edit)) /\ c.current \in Seq(Edit) /\ c.size \in Nat
      /\ <<>> \in Seq(Edit)
  BY DEF CuttingState
<1>2. Append(c.chunks, c.current) \in Seq(Seq(Edit))
  BY <1>1
<1> QED BY <1>1, <1>2 DEF Cut, CuttingState

LEMMA AddType ==
    ASSUME NEW c \in CuttingState, NEW s \in Seq(Edit)
    PROVE  Add(c, s) \in CuttingState
<1> DEFINE room == IF c.size + TotalSize(s) > MaxChars THEN Cut(c) ELSE c
<1>1. room \in CuttingState
  BY CutType
<1> HIDE DEF room
<1>2. TotalSize(s) \in Nat
  BY TotalSizeType
<1>3. room.current \in Seq(Edit) /\ room.size \in Nat
  BY <1>1 DEF CuttingState
<1>4. room.current \o s \in Seq(Edit) /\ room.size + TotalSize(s) \in Nat
  BY <1>2, <1>3
<1>5. [room EXCEPT !.current = @ \o s, !.size = @ + TotalSize(s)] \in CuttingState
  BY <1>1, <1>3, <1>4 DEF CuttingState
<1> QED BY <1>5 DEF Add, room

LEMMA AddOneType ==
    ASSUME NEW c \in CuttingState, NEW e \in Edit
    PROVE  Add(c, <<e>>) \in CuttingState
<1>1. <<e>> \in Seq(Edit)
  OBVIOUS
<1> QED BY <1>1, AddType

(* The edits of a large file, one by one.                                     *)
AddEachStep(c) == [x \in CuttingState \X Edit |-> Add(x[1], <<x[2]>>)]

(* AddEach is a run, and so: its type, its base and its step.                 *)
LEMMA AddEachIsRun ==
    ASSUME NEW c \in CuttingState, NEW s \in Seq(Edit)
    PROVE  /\ AddEach(c, s) = Run(CuttingState, c, AddEachStep(c), s)
           /\ IsStep(Edit, CuttingState, c, AddEachStep(c))
<1> DEFINE IsIter(g) == g = [S \in SUBSET DOMAIN s |->
                IF S = {} THEN c ELSE Add(g[S \ {Max(S)}], <<s[Max(S)]>>)]
           g == CHOOSE g : IsIter(g)
           step == AddEachStep(c)
<1>1. AddEach(c, s) = g[DOMAIN s]
  BY DEF AddEach, FoldLeft, MapThenFoldSet
<1>2. IsStep(Edit, CuttingState, c, step)
  BY AddOneType DEF AddEachStep, IsStep
<1>3. \A a \in CuttingState, e \in Edit : step[<<a, e>>] = Add(a, <<e>>)
  BY DEF AddEachStep
<1> HIDE DEF step
<1>4. \A S \in SUBSET DOMAIN s :
        S # {} => s[Max(S)] \in Edit /\ S \ {Max(S)} \in SUBSET DOMAIN s
  BY <1>2, FoldExists
<1>5. PICK h : IsFold(h, CuttingState, c, step, s)
  BY <1>2, FoldExists
<1>6. IsIter(h)
  <2>1. \A S \in SUBSET DOMAIN s : S # {} => h[S \ {Max(S)}] \in CuttingState
    BY <1>4, <1>5 DEF IsFold
  <2>2. \A S \in SUBSET DOMAIN s :
            h[S] = IF S = {} THEN c ELSE Add(h[S \ {Max(S)}], <<s[Max(S)]>>)
    BY <1>3, <1>4, <1>5, <2>1 DEF IsFold
  <2>3. h = [S \in SUBSET DOMAIN s |-> h[S]]
    BY <1>5 DEF IsFold
  <2> QED BY <2>2, <2>3
<1>7. IsIter(g)
  <2> HIDE DEF IsIter
  <2> QED BY <1>6
<1> HIDE DEF g
<1>8. FoldsAs(g, CuttingState, c, step, s)
  BY <1>3, <1>4, <1>7 DEF FoldsAs
<1> HIDE DEF IsIter
<1>9. g[DOMAIN s] = Run(CuttingState, c, step, s)
  BY <1>2, <1>8, FoldIsRun
<1> QED BY <1>1, <1>2, <1>9 DEF step

LEMMA AddEachType ==
    ASSUME NEW c \in CuttingState, NEW s \in Seq(Edit)
    PROVE  AddEach(c, s) \in CuttingState
BY AddEachIsRun, RunSteps

LEMMA AddEachEmpty ==
    ASSUME NEW c \in CuttingState
    PROVE  AddEach(c, <<>>) = c
<1> DEFINE none == <<>>
           step == AddEachStep(c)
<1>1. none \in Seq(Edit)
  OBVIOUS
<1> HIDE DEF none, step
<1>2. AddEach(c, none) = Run(CuttingState, c, step, none) /\ IsStep(Edit, CuttingState, c, step)
  BY <1>1, AddEachIsRun DEF step
<1>3. Run(CuttingState, c, step, <<>>) = c
  BY <1>2, RunEmpty
<1> QED BY <1>2, <1>3 DEF none

LEMMA AddEachAppend ==
    ASSUME NEW c \in CuttingState, NEW s \in Seq(Edit), NEW e \in Edit
    PROVE  AddEach(c, Append(s, e)) = Add(AddEach(c, s), <<e>>)
<1> DEFINE step == AddEachStep(c)
<1>1. AddEach(c, s) = Run(CuttingState, c, step, s) /\ IsStep(Edit, CuttingState, c, step)
  BY AddEachIsRun
<1>2. Append(s, e) \in Seq(Edit)
  OBVIOUS
<1>3. AddEach(c, Append(s, e)) = Run(CuttingState, c, step, Append(s, e))
  BY <1>2, AddEachIsRun
<1>4. AddEach(c, s) \in CuttingState
  BY AddEachType
<1>5. step[<<AddEach(c, s), e>>] = Add(AddEach(c, s), <<e>>)
  BY <1>4 DEF AddEachStep
<1> HIDE DEF step
<1>6. Run(CuttingState, c, step, Append(s, e)) = step[<<Run(CuttingState, c, step, s), e>>]
  BY <1>1, RunSteps
<1> QED BY <1>1, <1>3, <1>5, <1>6

(* A file leads from a state of the cutting to another.                       *)
LEMMA AddFileType ==
    ASSUME NEW c \in CuttingState, NEW s \in Seq(Edit)
    PROVE  AddFile(c, s) \in CuttingState
<1>1. Cut(c) \in CuttingState
  BY CutType
<1>2. AddEach(Cut(c), s) \in CuttingState
  BY <1>1, AddEachType
<1> QED BY <1>2, AddType DEF AddFile

LEMMA NoChunksType == NoChunks \in CuttingState
BY DEF NoChunks, CuttingState

(* The files, one by one.                                                     *)
AddFilesStep == [x \in CuttingState \X Seq(Edit) |-> AddFile(x[1], x[2])]

(* AddFiles is a run, and so: its type, its base and its step.                *)
LEMMA AddFilesIsRun ==
    ASSUME NEW s \in Seq(Seq(Edit))
    PROVE  /\ AddFiles(s) = Run(CuttingState, NoChunks, AddFilesStep, s)
           /\ IsStep(Seq(Edit), CuttingState, NoChunks, AddFilesStep)
<1> DEFINE IsIter(g) == g = [S \in SUBSET DOMAIN s |->
                IF S = {} THEN NoChunks ELSE AddFile(g[S \ {Max(S)}], s[Max(S)])]
           g == CHOOSE g : IsIter(g)
           step == AddFilesStep
<1>1. AddFiles(s) = g[DOMAIN s]
  BY DEF AddFiles, FoldLeft, MapThenFoldSet
<1>2. IsStep(Seq(Edit), CuttingState, NoChunks, step)
  BY AddFileType, NoChunksType DEF AddFilesStep, IsStep
<1>3. \A a \in CuttingState, e \in Seq(Edit) : step[<<a, e>>] = AddFile(a, e)
  BY DEF AddFilesStep
<1> HIDE DEF step
<1>4. \A S \in SUBSET DOMAIN s :
        S # {} => s[Max(S)] \in Seq(Edit) /\ S \ {Max(S)} \in SUBSET DOMAIN s
  BY <1>2, FoldExists
<1>5. PICK h : IsFold(h, CuttingState, NoChunks, step, s)
  BY <1>2, FoldExists
<1>6. IsIter(h)
  <2>1. \A S \in SUBSET DOMAIN s : S # {} => h[S \ {Max(S)}] \in CuttingState
    BY <1>4, <1>5 DEF IsFold
  <2>2. \A S \in SUBSET DOMAIN s :
            h[S] = IF S = {} THEN NoChunks ELSE AddFile(h[S \ {Max(S)}], s[Max(S)])
    BY <1>3, <1>4, <1>5, <2>1 DEF IsFold
  <2>3. h = [S \in SUBSET DOMAIN s |-> h[S]]
    BY <1>5 DEF IsFold
  <2> QED BY <2>2, <2>3
<1>7. IsIter(g)
  <2> HIDE DEF IsIter
  <2> QED BY <1>6
<1> HIDE DEF g
<1>8. FoldsAs(g, CuttingState, NoChunks, step, s)
  BY <1>3, <1>4, <1>7 DEF FoldsAs
<1> HIDE DEF IsIter
<1>9. g[DOMAIN s] = Run(CuttingState, NoChunks, step, s)
  BY <1>2, <1>8, FoldIsRun
<1> QED BY <1>1, <1>2, <1>9 DEF step

LEMMA AddFilesType ==
    ASSUME NEW s \in Seq(Seq(Edit))
    PROVE  AddFiles(s) \in CuttingState
BY AddFilesIsRun, RunSteps

LEMMA AddFilesEmpty == AddFiles(<<>>) = NoChunks
<1> DEFINE none == <<>>
           step == AddFilesStep
<1>1. none \in Seq(Seq(Edit))
  OBVIOUS
<1> HIDE DEF none, step
<1>2. AddFiles(none) = Run(CuttingState, NoChunks, step, none) /\ IsStep(Seq(Edit), CuttingState, NoChunks, step)
  BY <1>1, AddFilesIsRun DEF step
<1>3. Run(CuttingState, NoChunks, step, <<>>) = NoChunks
  BY <1>2, RunEmpty
<1> QED BY <1>2, <1>3 DEF none

LEMMA AddFilesAppend ==
    ASSUME NEW s \in Seq(Seq(Edit)), NEW e \in Seq(Edit)
    PROVE  AddFiles(Append(s, e)) = AddFile(AddFiles(s), e)
<1> DEFINE step == AddFilesStep
<1>1. AddFiles(s) = Run(CuttingState, NoChunks, step, s) /\ IsStep(Seq(Edit), CuttingState, NoChunks, step)
  BY AddFilesIsRun
<1>2. Append(s, e) \in Seq(Seq(Edit))
  OBVIOUS
<1>3. AddFiles(Append(s, e)) = Run(CuttingState, NoChunks, step, Append(s, e))
  BY <1>2, AddFilesIsRun
<1>4. AddFiles(s) \in CuttingState
  BY AddFilesType
<1>5. step[<<AddFiles(s), e>>] = AddFile(AddFiles(s), e)
  BY <1>4 DEF AddFilesStep
<1> HIDE DEF step
<1>6. Run(CuttingState, NoChunks, step, Append(s, e)) = step[<<Run(CuttingState, NoChunks, step, s), e>>]
  BY <1>1, RunSteps
<1> QED BY <1>1, <1>3, <1>5, <1>6

(* The chunks one after another.                                              *)
FlattenStep == [x \in Seq(Edit) \X Seq(Edit) |-> x[1] \o x[2]]

(* FlattenSeq is a run, and so: its type, its base and its step.              *)
LEMMA FlattenIsRun ==
    ASSUME NEW s \in Seq(Seq(Edit))
    PROVE  /\ FlattenSeq(s) = Run(Seq(Edit), <<>>, FlattenStep, s)
           /\ IsStep(Seq(Edit), Seq(Edit), <<>>, FlattenStep)
<1> DEFINE N == Len(s)
           step == FlattenStep
           IsFlat(g) == g = [i \in 1..N |-> IF i = 1 THEN s[i] ELSE g[i - 1] \o s[i]]
           g == CHOOSE g : IsFlat(g)
<1>1. N \in Nat /\ DOMAIN s = 1..N
  BY LenProperties
<1>2. \A i \in 1..N : s[i] \in Seq(Edit)
  BY ElementOfSeq
<1>3. IsStep(Seq(Edit), Seq(Edit), <<>>, step)
  <2>1. \A t, u \in Seq(Edit) : t \o u \in Seq(Edit)
    BY ConcatProperties
  <2> QED BY <2>1 DEF FlattenStep, IsStep
<1>4. \A t, u \in Seq(Edit) : step[<<t, u>>] = t \o u
  BY DEF FlattenStep
<1> HIDE DEF step
<1>5. PICK f : IsRun(f, Seq(Edit), <<>>, step, s)
  BY <1>3, RunExists
<1>6. f \in [0..N -> Seq(Edit)] /\ f[0] = <<>>
  BY <1>5 DEF IsRun
<1>7. ASSUME NEW n \in 0..(N - 1)
      PROVE  f[n + 1] = f[n] \o s[n + 1]
  <2>1. n \in 0..N /\ n + 1 \in 1..N
    BY <1>1
  <2>2. f[n] \in Seq(Edit) /\ s[n + 1] \in Seq(Edit)
    BY <1>2, <1>6, <2>1
  <2> QED BY <1>4, <1>5, <2>2 DEF IsRun
<1>8. IsFlat([i \in 1..N |-> f[i]])
  <2> DEFINE k == [i \in 1..N |-> f[i]]
  <2>1. ASSUME NEW i \in 1..N, i # 1
        PROVE  k[i] = k[i - 1] \o s[i]
    <3>1. i - 1 \in 1..N /\ i - 1 \in 0..(N - 1) /\ (i - 1) + 1 = i
      BY <1>1, <2>1
    <3> QED BY <1>7, <3>1
  <2>2. ASSUME 1 \in 1..N
        PROVE  k[1] = s[1]
    <3>1. 0 \in 0..(N - 1) /\ 0 + 1 = 1
      BY <1>1, <2>2
    <3>2. f[1] = f[0] \o s[1]
      BY <1>7, <3>1
    <3>3. s[1] \in Seq(Edit)
      BY <1>2, <2>2
    <3>4. <<>> \o s[1] = s[1]
      BY <3>3
    <3> QED BY <1>6, <2>2, <3>2, <3>4
  <2> QED BY <2>1, <2>2
<1>9. IsFlat(g)
  <2> HIDE DEF IsFlat
  <2> QED BY <1>8
<1> HIDE DEF g
<1>10. \A i \in 1..N : g[i] = f[i]
  <2> DEFINE P == {i \in Nat : i \in 1..N => g[i] = f[i]}
  <2>1. 0 \in P
    OBVIOUS
  <2>2. ASSUME NEW i \in Nat, i \in P
        PROVE  i + 1 \in P
    <3> SUFFICES ASSUME i + 1 \in 1..N
                 PROVE  g[i + 1] = f[i + 1]
      OBVIOUS
    <3>1. f[i + 1] = f[i] \o s[i + 1]
      <4>1. i \in 0..(N - 1)
        BY <1>1
      <4> HIDE DEF N
      <4> QED BY <1>7, <4>1
    <3>2. CASE i = 0
      <4>1. i + 1 = 1
        BY <3>2
      <4>2. g[i + 1] = s[i + 1]
        BY <1>9, <4>1
      <4>3. s[i + 1] \in Seq(Edit)
        BY <1>2
      <4>4. <<>> \o s[i + 1] = s[i + 1]
        BY <4>3
      <4> QED BY <1>6, <3>1, <3>2, <4>2, <4>4
    <3>3. CASE i # 0
      <4>1. i \in 1..N /\ i + 1 # 1 /\ (i + 1) - 1 = i
        BY <1>1, <3>3
      <4>2. g[i + 1] = g[i] \o s[i + 1]
        BY <1>9, <4>1
      <4>3. g[i] = f[i]
        BY <2>2, <4>1
      <4> QED BY <3>1, <4>2, <4>3
    <3> QED BY <3>2, <3>3
  <2> HIDE DEF P
  <2>3. Nat \subseteq P
    BY <2>1, <2>2, InductionOnNat
  <2> QED BY <2>3 DEF P
<1>11. FlattenSeq(s) = f[N]
  <2>1. CASE N = 0
    <3>1. s = <<>>
      BY <2>1, EmptySeq
    <3> QED BY <1>6, <2>1, <3>1 DEF FlattenSeq
  <2>2. CASE N # 0
    <3>1. FlattenSeq(s) = g[N]
      BY <2>2 DEF FlattenSeq, g
    <3>2. N \in 1..N
      BY <1>1, <2>2
    <3> QED BY <1>10, <3>1, <3>2
  <2> QED BY <2>1, <2>2
<1>12. Run(Seq(Edit), <<>>, step, s) = f[N]
  BY <1>3, <1>5, RunIs
<1> QED BY <1>3, <1>11, <1>12 DEF step

LEMMA FlattenType ==
    ASSUME NEW s \in Seq(Seq(Edit))
    PROVE  FlattenSeq(s) \in Seq(Edit)
BY FlattenIsRun, RunSteps

LEMMA FlattenEmpty == FlattenSeq(<<>>) = <<>>
<1> DEFINE none == <<>>
           step == FlattenStep
<1>1. none \in Seq(Seq(Edit))
  OBVIOUS
<1> HIDE DEF none, step
<1>2. FlattenSeq(none) = Run(Seq(Edit), <<>>, step, none) /\ IsStep(Seq(Edit), Seq(Edit), <<>>, step)
  BY <1>1, FlattenIsRun DEF step
<1>3. Run(Seq(Edit), <<>>, step, <<>>) = <<>>
  BY <1>2, RunEmpty
<1> QED BY <1>2, <1>3 DEF none

LEMMA FlattenAppend ==
    ASSUME NEW s \in Seq(Seq(Edit)), NEW e \in Seq(Edit)
    PROVE  FlattenSeq(Append(s, e)) = FlattenSeq(s) \o e
<1> DEFINE step == FlattenStep
<1>1. FlattenSeq(s) = Run(Seq(Edit), <<>>, step, s) /\ IsStep(Seq(Edit), Seq(Edit), <<>>, step)
  BY FlattenIsRun
<1>2. Append(s, e) \in Seq(Seq(Edit))
  OBVIOUS
<1>3. FlattenSeq(Append(s, e)) = Run(Seq(Edit), <<>>, step, Append(s, e))
  BY <1>2, FlattenIsRun
<1>4. FlattenSeq(s) \in Seq(Edit)
  BY FlattenType
<1>5. step[<<FlattenSeq(s), e>>] = FlattenSeq(s) \o e
  BY <1>4 DEF FlattenStep
<1> HIDE DEF step
<1>6. Run(Seq(Edit), <<>>, step, Append(s, e)) = step[<<Run(Seq(Edit), <<>>, step, s), e>>]
  BY <1>1, RunSteps
<1> QED BY <1>1, <1>3, <1>5, <1>6

-----------------------------------------------------------------------------
(* Induction over sequences, for a set of them.                               *)
LEMMA InductionOnSeq ==
    ASSUME NEW S, NEW P, <<>> \in P,
           \A s \in Seq(S), e \in S : s \in P => Append(s, e) \in P
    PROVE  Seq(S) \subseteq P
<1> DEFINE Q == {n \in Nat : \A s \in Seq(S) : Len(s) = n => s \in P}
<1>1. 0 \in Q
  <2>1. \A s \in Seq(S) : Len(s) = 0 => s = <<>>
    BY EmptySeq
  <2> QED BY <2>1
<1>2. ASSUME NEW n \in Nat, n \in Q
      PROVE  n + 1 \in Q
  <2> SUFFICES ASSUME NEW t \in Seq(S), Len(t) = n + 1
               PROVE  t \in P
    OBVIOUS
  <2>1. t # <<>>
    BY EmptySeq
  <2>2. PICK s \in Seq(S), e \in S : t = Append(s, e)
    BY <2>1, SequenceEmptyOrAppend
  <2>3. Len(s) \in Nat /\ Len(t) = Len(s) + 1
    BY <2>2, LenProperties, AppendProperties
  <2>4. Len(s) = n
    BY <2>3
  <2>5. s \in P
    BY <1>2, <2>4
  <2> QED BY <2>2, <2>5
<1> HIDE DEF Q
<1>3. Nat \subseteq Q
  BY <1>1, <1>2, InductionOnNat
<1>4. \A s \in Seq(S) : Len(s) \in Q
  BY <1>3, LenProperties
<1> QED BY <1>4 DEF Q

(* Appending to the second of two sequences joined.                           *)
LEMMA AppendConcat ==
    ASSUME NEW S, NEW s \in Seq(S), NEW t \in Seq(S), NEW e \in S
    PROVE  /\ s \o t \in Seq(S)
           /\ s \o Append(t, e) = Append(s \o t, e)
           /\ s \o <<>> = s /\ <<>> \o s = s
           /\ <<e>> = Append(<<>>, e)
<1>1. s \o Append(t, e) = Append(s \o t, e)
  BY AppendIsConcat, ConcatAssociative
<1> QED BY <1>1, ConcatEmptySeq, ConcatProperties

-----------------------------------------------------------------------------
(* The sizes, the files and the edits of a file of two sequences joined.      *)
Files(s) == {s[i].filename : i \in DOMAIN s}

(* The files of nothing, of one edit more, and of the first edit.             *)
LEMMA FilesOf ==
    ASSUME NEW s \in Seq(Edit), NEW e \in Edit
    PROVE  /\ Files(<<>>) = {}
           /\ Files(Append(s, e)) = Files(s) \cup {e.filename}
           /\ s # <<>> => s[1].filename \in Files(s)
<1>1. Files(<<>>) = {}
  BY DEF Files
<1>2. Files(Append(s, e)) = Files(s) \cup {e.filename}
  <2> DEFINE t == Append(s, e)
             n == Len(s)
  <2>1. /\ n \in Nat /\ DOMAIN s = 1..n /\ DOMAIN t = 1..(n + 1)
        /\ t[n + 1] = e /\ \A i \in 1..n : t[i] = s[i]
    BY LenProperties, AppendProperties
  <2> HIDE DEF t, n
  <2>2. 1..(n + 1) = 1..n \cup {n + 1}
    BY <2>1
  <2>3. {t[i].filename : i \in 1..(n + 1)} = {s[i].filename : i \in 1..n} \cup {e.filename}
    BY <2>1, <2>2
  <2> QED BY <2>1, <2>3 DEF Files, t
<1>3. s # <<>> => s[1].filename \in Files(s)
  <2>1. s # <<>> => 1 \in DOMAIN s
    BY EmptySeq, LenProperties
  <2> QED BY <2>1 DEF Files
<1> QED BY <1>1, <1>2, <1>3

(* The edits of a file: their type, and those of one edit more.               *)
LEMMA EditsOfType ==
    ASSUME NEW s \in Seq(Edit), NEW file
    PROVE  EditsOf(s, file) \in Seq(Edit) /\ EditsOf(<<>>, file) = <<>>
<1> DEFINE name == "filename"
<1>1. Where(s, name, file) \in Seq(Edit) /\ Where(<<>>, name, file) = <<>>
  <2> HIDE DEF name
  <2> QED BY WhereType, WhereEmpty
<1> QED BY <1>1 DEF EditsOf

LEMMA EditsOfAppend ==
    ASSUME NEW s \in Seq(Edit), NEW e \in Edit, NEW file
    PROVE  /\ e.filename = file => EditsOf(Append(s, e), file) = Append(EditsOf(s, file), e)
           /\ e.filename # file => EditsOf(Append(s, e), file) = EditsOf(s, file)
<1> DEFINE name == "filename"
<1>1. Where(Append(s, e), name, file) = Picked(Where(s, name, file), e, name, file)
  <2> HIDE DEF name
  <2> QED BY WhereAppend
<1> QED BY <1>1 DEF EditsOf, Picked

(* Sizes, files and the edits of a file of two sequences joined.              *)
LEMMA Joined ==
    ASSUME NEW s \in Seq(Edit), NEW t \in Seq(Edit)
    PROVE  /\ TotalSize(s \o t) = TotalSize(s) + TotalSize(t)
           /\ Files(s \o t) = Files(s) \cup Files(t)
           /\ \A file : EditsOf(s \o t, file) = EditsOf(s, file) \o EditsOf(t, file)
<1> DEFINE P == {u \in Seq(Edit) :
                    /\ TotalSize(s \o u) = TotalSize(s) + TotalSize(u)
                    /\ Files(s \o u) = Files(s) \cup Files(u)
                    /\ \A file : EditsOf(s \o u, file) = EditsOf(s, file) \o EditsOf(u, file)}
<1>0. TotalSize(s) \in Nat /\ \A file : EditsOf(s, file) \in Seq(Edit)
  BY TotalSizeType, EditsOfType
<1>1. <<>> \in P
  <2>1. <<>> \in Seq(Edit) /\ s \o <<>> = s
    BY ConcatEmptySeq
  <2>2. TotalSize(s) + TotalSize(<<>>) = TotalSize(s)
    BY <1>0, TotalSizeEmpty
  <2>3. Files(<<>>) = {}
    BY DEF Files
  <2>4. \A file : EditsOf(s, file) \o EditsOf(<<>>, file) = EditsOf(s, file)
    BY <1>0, EditsOfType, ConcatEmptySeq
  <2> QED BY <2>1, <2>2, <2>3, <2>4
<1>2. ASSUME NEW u \in Seq(Edit), NEW e \in Edit, u \in P
      PROVE  Append(u, e) \in P
  <2>1. /\ Append(u, e) \in Seq(Edit)
        /\ s \o u \in Seq(Edit)
        /\ s \o Append(u, e) = Append(s \o u, e)
    BY AppendConcat
  <2>2. TotalSize(Append(s \o u, e)) = TotalSize(s) + TotalSize(Append(u, e))
    <3>1. TotalSize(u) \in Nat /\ e.size \in Nat
      BY TotalSizeType DEF Edit
    <3>2. /\ TotalSize(Append(s \o u, e)) = TotalSize(s \o u) + e.size
          /\ TotalSize(Append(u, e)) = TotalSize(u) + e.size
      BY <2>1, TotalSizeAppend
    <3> QED BY <1>0, <1>2, <3>1, <3>2
  <2>3. Files(Append(s \o u, e)) = Files(s) \cup Files(Append(u, e))
    <3>1. /\ Files(Append(s \o u, e)) = Files(s \o u) \cup {e.filename}
          /\ Files(Append(u, e)) = Files(u) \cup {e.filename}
      BY <2>1, FilesOf
    <3>2. Files(s \o u) = Files(s) \cup Files(u)
      BY <1>2
    <3> QED BY <3>1, <3>2
  <2>4. ASSUME NEW file
        PROVE  EditsOf(Append(s \o u, e), file) = EditsOf(s, file) \o EditsOf(Append(u, e), file)
    <3>1. EditsOf(s \o u, file) = EditsOf(s, file) \o EditsOf(u, file)
      BY <1>2
    <3>2. EditsOf(u, file) \in Seq(Edit) /\ EditsOf(s, file) \in Seq(Edit)
      BY EditsOfType
    <3>3. EditsOf(s, file) \o Append(EditsOf(u, file), e)
            = Append(EditsOf(s, file) \o EditsOf(u, file), e)
      BY <3>2, AppendConcat
    <3>4. CASE e.filename = file
      <4>1. /\ EditsOf(Append(u, e), file) = Append(EditsOf(u, file), e)
            /\ EditsOf(Append(s \o u, e), file) = Append(EditsOf(s \o u, file), e)
        BY <2>1, <3>4, EditsOfAppend
      <4> QED BY <3>1, <3>3, <4>1
    <3>5. CASE e.filename # file
      <4>1. /\ EditsOf(Append(u, e), file) = EditsOf(u, file)
            /\ EditsOf(Append(s \o u, e), file) = EditsOf(s \o u, file)
        BY <2>1, <3>5, EditsOfAppend
      <4> QED BY <3>1, <4>1
    <3> QED BY <3>4, <3>5
  <2> QED BY <2>1, <2>2, <2>3, <2>4
<1> HIDE DEF P
<1>3. t \in P
  BY <1>1, <1>2, InductionOnSeq
<1> QED BY <1>3 DEF P

(* The edits of a file are all of one file's edits and none of another's.     *)
LEMMA EditsOfFile ==
    ASSUME NEW s \in Seq(Edit), NEW file
    PROVE  /\ file \notin Files(s) => EditsOf(s, file) = <<>>
           /\ Files(s) \subseteq {file} => EditsOf(s, file) = s
           /\ Files(EditsOf(s, file)) \subseteq {file}
<1> DEFINE P == {u \in Seq(Edit) :
                    /\ file \notin Files(u) => EditsOf(u, file) = <<>>
                    /\ Files(u) \subseteq {file} => EditsOf(u, file) = u
                    /\ Files(EditsOf(u, file)) \subseteq {file}}
<1>1. <<>> \in P
  <2>1. <<>> \in Seq(Edit) /\ EditsOf(<<>>, file) = <<>>
    BY EditsOfType
  <2>2. Files(<<>>) = {}
    BY DEF Files
  <2> QED BY <2>1, <2>2
<1>2. ASSUME NEW u \in Seq(Edit), NEW e \in Edit, u \in P
      PROVE  Append(u, e) \in P
  <2>1. Append(u, e) \in Seq(Edit) /\ EditsOf(u, file) \in Seq(Edit)
    BY EditsOfType
  <2>2. Files(Append(u, e)) = Files(u) \cup {e.filename}
    BY FilesOf
  <2>3. CASE e.filename = file
    <3>1. EditsOf(Append(u, e), file) = Append(EditsOf(u, file), e)
      BY <2>3, EditsOfAppend
    <3>2. Files(Append(EditsOf(u, file), e)) = Files(EditsOf(u, file)) \cup {file}
      BY <2>1, <2>3, FilesOf
    <3> QED BY <1>2, <2>1, <2>2, <2>3, <3>1, <3>2
  <2>4. CASE e.filename # file
    <3>1. EditsOf(Append(u, e), file) = EditsOf(u, file)
      BY <2>4, EditsOfAppend
    <3> QED BY <1>2, <2>1, <2>2, <2>4, <3>1
  <2> QED BY <2>3, <2>4
<1> HIDE DEF P
<1>3. s \in P
  BY <1>1, <1>2, InductionOnSeq
<1> QED BY <1>3 DEF P

-----------------------------------------------------------------------------
(* What groupEditsByFile returns: the edits of a file are one group.          *)
FileOf(group) == group[1].filename
FilesOfGroups(groups) == {FileOf(groups[g]) : g \in DOMAIN groups}

(* The groups are of files of their own, each the edits of its file in edits. *)
GroupsOf(groups, edits) ==
    /\ \A g \in DOMAIN groups :
        groups[g] # <<>> /\ groups[g] = EditsOf(edits, FileOf(groups[g]))
    /\ \A g, h \in DOMAIN groups : FileOf(groups[g]) = FileOf(groups[h]) => g = h

(* Grouping one edit more keeps the groups those of the files so far.         *)
LEMMA GroupedKeeps ==
    ASSUME NEW groups \in Seq(Seq(Edit)), NEW s \in Seq(Edit), NEW e \in Edit,
           GroupsOf(groups, s), Files(s) = FilesOfGroups(groups)
    PROVE  /\ GroupsOf(Grouped(groups, e), Append(s, e))
           /\ Files(Append(s, e)) = FilesOfGroups(Grouped(groups, e))
<1> DEFINE N == Len(groups)
           new == Grouped(groups, e)
           t == Append(s, e)
<1>1. N \in Nat /\ DOMAIN groups = 1..N
  BY LenProperties
<1>2. \A g \in 1..N : groups[g] \in Seq(Edit)
  BY ElementOfSeq
<1>3. \A file : /\ e.filename = file => EditsOf(t, file) = Append(EditsOf(s, file), e)
                /\ e.filename # file => EditsOf(t, file) = EditsOf(s, file)
  BY EditsOfAppend
<1>4. Files(t) = Files(s) \cup {e.filename}
  BY FilesOf
<1>5. /\ \A g \in 1..N : groups[g] # <<>> /\ groups[g] = EditsOf(s, FileOf(groups[g]))
      /\ \A g, h \in 1..N : FileOf(groups[g]) = FileOf(groups[h]) => g = h
      /\ Files(s) = {FileOf(groups[g]) : g \in 1..N}
  BY <1>1 DEF GroupsOf, FilesOfGroups
<1> HIDE DEF t, N
<1>6. CASE \E g \in 1..N : FileOf(groups[g]) = e.filename
  <2>1. new = [g \in 1..N |-> IF FileOf(groups[g]) = e.filename
                             THEN Append(groups[g], e) ELSE groups[g]]
    BY <1>1, <1>6 DEF Grouped, FileOf
  <2>2. DOMAIN new = 1..N
    BY <2>1
  <2>3. ASSUME NEW g \in 1..N
        PROVE  /\ new[g] # <<>>
               /\ FileOf(new[g]) = FileOf(groups[g])
               /\ new[g] = EditsOf(t, FileOf(groups[g]))
    <3>1. groups[g] \in Seq(Edit) /\ groups[g] # <<>>
             /\ groups[g] = EditsOf(s, FileOf(groups[g]))
      BY <1>2, <1>5
    <3>2. CASE FileOf(groups[g]) = e.filename
      <4>1. new[g] = Append(groups[g], e)
        BY <2>1, <3>2
      <4>2. Len(groups[g]) \in Nat /\ Len(groups[g]) > 0
        BY <3>1, EmptySeq
      <4>3. \A u \in Seq(Edit) : Len(u) > 0 => Append(u, e)[1] = u[1] /\ Append(u, e) # <<>>
        <5> SUFFICES ASSUME NEW u \in Seq(Edit), Len(u) > 0
                     PROVE  Append(u, e)[1] = u[1] /\ Append(u, e) # <<>>
          OBVIOUS
        <5>1. Len(u) \in Nat /\ 1 \in 1..Len(u)
          BY LenProperties
        <5> QED BY <5>1, AppendProperties
      <4>4. new[g][1] = groups[g][1] /\ new[g] # <<>>
        BY <3>1, <4>1, <4>2, <4>3
      <4>5. FileOf(new[g]) = FileOf(groups[g])
        BY <4>4 DEF FileOf
      <4>6. EditsOf(t, e.filename) = Append(groups[g], e)
        BY <1>3, <3>1, <3>2
      <4> QED BY <3>2, <4>1, <4>4, <4>5, <4>6
    <3>3. CASE FileOf(groups[g]) # e.filename
      BY <1>3, <2>1, <3>1, <3>3
    <3> QED BY <3>2, <3>3
  <2> HIDE DEF new
  <2>4. GroupsOf(new, t)
    BY <1>5, <2>2, <2>3 DEF GroupsOf
  <2>5. FilesOfGroups(new) = {FileOf(groups[g]) : g \in 1..N}
    BY <2>2, <2>3 DEF FilesOfGroups
  <2>6. Files(t) = FilesOfGroups(new)
    <3>1. e.filename \in {FileOf(groups[g]) : g \in 1..N}
      BY <1>6
    <3> QED BY <1>4, <1>5, <2>5, <3>1
  <2> QED BY <2>4, <2>6 DEF new, t
<1>7. CASE ~ \E g \in 1..N : FileOf(groups[g]) = e.filename
  <2>1. new = Append(groups, <<e>>)
    BY <1>1, <1>7 DEF Grouped, FileOf
  <2>2. <<e>> \in Seq(Edit)
    OBVIOUS
  <2>3. /\ DOMAIN new = 1..(N + 1)
        /\ new[N + 1] = <<e>>
        /\ \A g \in 1..N : new[g] = groups[g]
    BY <2>1, <2>2, LenProperties, AppendProperties DEF N
  <2>4. FileOf(<<e>>) = e.filename /\ <<e>> # <<>>
    BY DEF FileOf
  <2> HIDE DEF new
  <2>5. EditsOf(t, e.filename) = <<e>>
    <3>1. EditsOf(s, e.filename) = <<>>
      BY <1>5, <1>7, EditsOfFile
    <3>2. EditsOf(t, e.filename) = Append(<<>>, e)
      BY <1>3, <3>1
    <3> QED BY <3>2
  <2>6. \A g \in 1..N : FileOf(new[g]) # e.filename
    BY <1>7, <2>3
  <2>7. \A g \in 1..(N + 1) : g \in 1..N \/ g = N + 1
    BY <1>1
  <2>8. ASSUME NEW g \in 1..(N + 1)
        PROVE  new[g] # <<>> /\ new[g] = EditsOf(t, FileOf(new[g]))
    <3>1. CASE g = N + 1
      BY <2>3, <2>4, <2>5, <3>1
    <3>2. CASE g \in 1..N
      BY <1>3, <1>5, <2>3, <2>6, <3>2
    <3> QED BY <2>7, <3>1, <3>2
  <2>9. \A g, h \in 1..(N + 1) : FileOf(new[g]) = FileOf(new[h]) => g = h
    BY <1>5, <2>3, <2>4, <2>6, <2>7
  <2>10. GroupsOf(new, t)
    BY <2>3, <2>8, <2>9 DEF GroupsOf
  <2>11. FilesOfGroups(new) = Files(s) \cup {e.filename}
    <3>1. {FileOf(new[g]) : g \in 1..(N + 1)} = {FileOf(new[g]) : g \in 1..N} \cup {FileOf(new[N + 1])}
      <4> DEFINE R == 1..(N + 1)
      <4>1. \A g : g \in R <=> g \in 1..N \/ g = N + 1
        BY <1>1
      <4> HIDE DEF R
      <4>2. {FileOf(new[g]) : g \in R} = {FileOf(new[g]) : g \in 1..N} \cup {FileOf(new[N + 1])}
        BY ONLY <4>1
      <4> QED BY <4>2 DEF R
    <3>2. {FileOf(new[g]) : g \in 1..N} = {FileOf(groups[g]) : g \in 1..N}
      BY <2>3
    <3> QED BY <1>5, <2>3, <2>4, <3>1, <3>2 DEF FilesOfGroups
  <2> QED BY <1>4, <2>10, <2>11 DEF new, t
<1> QED BY <1>6, <1>7

(* groupEditsByFile: one group for a file, with its edits in order.           *)
LEMMA GroupsAreOfFiles ==
    ASSUME NEW edits \in Seq(Edit)
    PROVE  /\ groupEditsByFile(edits) \in Seq(Seq(Edit))
           /\ GroupsOf(groupEditsByFile(edits), edits)
           /\ Files(edits) = FilesOfGroups(groupEditsByFile(edits))
<1> DEFINE P == {s \in Seq(Edit) :
                    /\ GroupsOf(groupEditsByFile(s), s)
                    /\ Files(s) = FilesOfGroups(groupEditsByFile(s))}
<1>1. <<>> \in P
  <2>1. groupEditsByFile(<<>>) = <<>>
    BY GroupsEmpty
  <2>2. GroupsOf(<<>>, <<>>) /\ Files(<<>>) = {} /\ FilesOfGroups(<<>>) = {}
    BY DEF GroupsOf, Files, FilesOfGroups
  <2>3. <<>> \in Seq(Edit)
    OBVIOUS
  <2> QED BY <2>1, <2>2, <2>3
<1>2. ASSUME NEW s \in Seq(Edit), NEW e \in Edit, s \in P
      PROVE  Append(s, e) \in P
  <2>1. /\ groupEditsByFile(s) \in Seq(Seq(Edit))
        /\ GroupsOf(groupEditsByFile(s), s)
        /\ Files(s) = FilesOfGroups(groupEditsByFile(s))
    BY <1>2, GroupsType
  <2>2. groupEditsByFile(Append(s, e)) = Grouped(groupEditsByFile(s), e)
    BY GroupsAppend
  <2>3. Append(s, e) \in Seq(Edit)
    OBVIOUS
  <2> QED BY <2>1, <2>2, <2>3, GroupedKeeps
<1> HIDE DEF P
<1>3. edits \in P
  BY <1>1, <1>2, InductionOnSeq
<1> QED BY <1>3, GroupsType DEF P

-----------------------------------------------------------------------------
(* Three sequences of edits joined, either way.                               *)
LEMMA ThreeInOne ==
    ASSUME NEW s \in Seq(Edit), NEW t \in Seq(Edit), NEW u \in Seq(Edit)
    PROVE  (s \o t) \o u = s \o (t \o u)
BY ConcatAssociative

(* What every chunk is, and the chunk being filled: within the limit unless   *)
(* it is one edit, and whole in the files that fit.                           *)
Fits(edits, file) == TotalSize(EditsOf(edits, file)) <= MaxChars

WholeIn(edits, s) ==
    \A file \in Files(s) : Fits(edits, file) => EditsOf(s, file) = EditsOf(edits, file)

WithinLimit(s) == s # <<>> /\ (TotalSize(s) > MaxChars => Len(s) = 1)

(* The state of chunkChangeModeEdits once the edits in done were added.       *)
CutSoFar(edits, done, c) ==
    /\ c \in CuttingState
    /\ c.size = TotalSize(c.current)
    /\ FlattenSeq(c.chunks) \o c.current = done
    /\ \A i \in DOMAIN c.chunks : WithinLimit(c.chunks[i]) /\ WholeIn(edits, c.chunks[i])
    /\ c.current # <<>> => WithinLimit(c.current) /\ WholeIn(edits, c.current)

(* Cutting loses no edit and keeps the limit.                                 *)
LEMMA CutKeeps ==
    ASSUME NEW edits \in Seq(Edit), NEW done \in Seq(Edit), NEW c,
           CutSoFar(edits, done, c)
    PROVE  /\ CutSoFar(edits, done, Cut(c))
           /\ Cut(c).current = <<>> /\ Cut(c).size = 0
<1>1. CASE c.current = <<>>
  <2>1. c.size = 0
    BY <1>1, TotalSizeEmpty DEF CutSoFar
  <2> QED BY <1>1, <2>1 DEF Cut
<1>2. CASE c.current # <<>>
  <2> DEFINE d == Cut(c)
             x == Append(c.chunks, c.current)
             N == Len(c.chunks)
  <2>1. d.chunks = x /\ d.current = <<>> /\ d.size = 0
    BY <1>2 DEF Cut
  <2>2. c.chunks \in Seq(Seq(Edit)) /\ c.current \in Seq(Edit)
    BY DEF CutSoFar, CuttingState
  <2>3. /\ N \in Nat /\ DOMAIN c.chunks = 1..N
        /\ DOMAIN x = 1..(N + 1) /\ x[N + 1] = c.current
        /\ \A i \in 1..N : x[i] = c.chunks[i]
    BY <2>2, LenProperties, AppendProperties
  <2>4. FlattenSeq(x) = FlattenSeq(c.chunks) \o c.current
    BY <2>2, FlattenAppend
  <2>5. FlattenSeq(x) = done /\ done \o <<>> = done
    BY <2>4, ConcatEmptySeq DEF CutSoFar
  <2>6. d \in CuttingState
    BY CutType DEF CutSoFar
  <2> HIDE DEF d, x, N
  <2>7. \A i \in 1..(N + 1) : i \in 1..N \/ i = N + 1
    BY <2>3
  <2>8. \A i \in DOMAIN x : WithinLimit(x[i]) /\ WholeIn(edits, x[i])
    BY <1>2, <2>3, <2>7 DEF CutSoFar
  <2>9. CutSoFar(edits, done, d)
    BY <2>1, <2>5, <2>6, <2>8, TotalSizeEmpty DEF CutSoFar
  <2> QED BY <2>1, <2>9 DEF d
<1> QED BY <1>1, <1>2

(* Adding edits that may be a chunk by themselves, of files that the chunks   *)
(* so far have no edits of or that need not stay whole.                       *)
LEMMA AddKeeps ==
    ASSUME NEW edits \in Seq(Edit), NEW done \in Seq(Edit), NEW s \in Seq(Edit), NEW c,
           CutSoFar(edits, done, c), WithinLimit(s), WholeIn(edits, s),
           \A file \in Files(s) \cap Files(done) : ~ Fits(edits, file)
    PROVE  CutSoFar(edits, done \o s, Add(c, s))
<1> DEFINE tooLarge == c.size + TotalSize(s) > MaxChars
           room == IF tooLarge THEN Cut(c) ELSE c
           d == Add(c, s)
<1>1. CutSoFar(edits, done, room)
  BY CutKeeps
<1>2. tooLarge => room.current = <<>> /\ room.size = 0
  BY CutKeeps
<1>3. ~tooLarge => room.size + TotalSize(s) <= MaxChars
  <2>1. TotalSize(s) \in Nat /\ c.size \in Nat
    BY TotalSizeType DEF CutSoFar, CuttingState
  <2> QED BY <2>1, ChunkAssumption
<1>4. /\ d.chunks = room.chunks
      /\ d.current = room.current \o s
      /\ d.size = room.size + TotalSize(s)
  <2>1. room \in CuttingState
    BY <1>1 DEF CutSoFar
  <2>2. d = [room EXCEPT !.current = @ \o s, !.size = @ + TotalSize(s)]
    BY DEF Add
  <2> HIDE DEF room, d
  <2> QED BY <2>1, <2>2 DEF CuttingState
<1>5. d \in CuttingState
  BY AddType DEF CutSoFar
<1> HIDE DEF room, d, tooLarge
<1>6. /\ room.chunks \in Seq(Seq(Edit)) /\ room.current \in Seq(Edit)
      /\ FlattenSeq(room.chunks) \in Seq(Edit)
      /\ FlattenSeq(room.chunks) \o room.current = done
      /\ room.size = TotalSize(room.current)
  BY <1>1, FlattenType DEF CutSoFar, CuttingState
<1>7. d.size = TotalSize(d.current)
  BY <1>4, <1>6, Joined
<1>8. FlattenSeq(d.chunks) \o d.current = done \o s
  <2> DEFINE all == FlattenSeq(room.chunks)
             last == room.current
  <2>1. all \in Seq(Edit) /\ last \in Seq(Edit) /\ all \o last = done
    BY <1>6
  <2>2. d.current = last \o s /\ FlattenSeq(d.chunks) = all
    BY <1>4
  <2> HIDE DEF all, last
  <2>3. (all \o last) \o s = all \o (last \o s)
    <3>1. all \in Seq(Edit) /\ last \in Seq(Edit) /\ s \in Seq(Edit)
      BY <2>1
    <3> QED BY ONLY <3>1, ThreeInOne
  <2> QED BY <2>1, <2>2, <2>3
<1>9. WithinLimit(d.current)
  <2>1. CASE tooLarge
    <3>1. d.current = s
      BY <1>2, <1>4, <2>1, ConcatEmptySeq
    <3> QED BY <3>1
  <2>2. CASE ~tooLarge
    <3>1. d.current # <<>>
      BY <1>4, <1>6, ConcatEqualIffEmpty DEF WithinLimit
    <3>2. TotalSize(d.current) <= MaxChars /\ TotalSize(d.current) \in Nat
      BY <1>3, <1>4, <1>5, <1>7, <2>2 DEF CuttingState
    <3> QED BY <3>1, <3>2, ChunkAssumption DEF WithinLimit
  <2> QED BY <2>1, <2>2
<1>10. WholeIn(edits, d.current)
  <2> SUFFICES ASSUME NEW file \in Files(d.current), Fits(edits, file)
               PROVE  EditsOf(d.current, file) = EditsOf(edits, file)
    BY DEF WholeIn
  <2>1. /\ EditsOf(d.current, file) = EditsOf(room.current, file) \o EditsOf(s, file)
        /\ Files(d.current) = Files(room.current) \cup Files(s)
    <3> DEFINE last == room.current
    <3>1. last \in Seq(Edit)
      BY <1>6
    <3>2. d.current = last \o s
      BY <1>4
    <3> HIDE DEF last
    <3>3. Files(last \o s) = Files(last) \cup Files(s)
      BY <3>1, Joined
    <3>4. EditsOf(last \o s, file) = EditsOf(last, file) \o EditsOf(s, file)
      BY <3>1, Joined
    <3> QED BY <3>2, <3>3, <3>4 DEF last
  <2>2. Files(room.current) \subseteq Files(done)
    <3> DEFINE all == FlattenSeq(room.chunks)
               last == room.current
    <3>1. all \in Seq(Edit) /\ last \in Seq(Edit) /\ all \o last = done
      BY <1>6
    <3> HIDE DEF all, last
    <3>2. Files(all \o last) = Files(all) \cup Files(last)
      BY <3>1, Joined
    <3>3. Files(last) \subseteq Files(done)
      BY <3>1, <3>2
    <3> QED BY <3>3 DEF last
  <2>3. EditsOf(room.current, file) \in Seq(Edit) /\ EditsOf(s, file) \in Seq(Edit)
    BY <1>6, EditsOfType
  <2>4. CASE file \in Files(s)
    <3>1. file \notin Files(room.current)
      BY <2>2, <2>4
    <3>2. EditsOf(room.current, file) = <<>>
      BY <1>6, <3>1, EditsOfFile
    <3>3. EditsOf(s, file) = EditsOf(edits, file)
      BY <2>4 DEF WholeIn
    <3> QED BY <2>1, <2>3, <3>2, <3>3, ConcatEmptySeq
  <2>5. CASE file \notin Files(s)
    <3>1. file \in Files(room.current) /\ room.current # <<>>
      <4>1. file \in Files(room.current)
        BY <2>1, <2>5
      <4>2. Files(<<>>) = {}
        BY DEF Files
      <4> QED BY <4>1, <4>2
    <3>2. EditsOf(s, file) = <<>>
      BY <2>5, EditsOfFile
    <3>3. EditsOf(room.current, file) = EditsOf(edits, file)
      BY <1>1, <3>1 DEF CutSoFar, WholeIn
    <3> QED BY <2>1, <2>3, <3>2, <3>3, ConcatEmptySeq
  <2> QED BY <2>4, <2>5
<1>11. \A i \in DOMAIN d.chunks : WithinLimit(d.chunks[i]) /\ WholeIn(edits, d.chunks[i])
  BY <1>1, <1>4 DEF CutSoFar
<1>12. CutSoFar(edits, done \o s, d)
  BY <1>5, <1>7, <1>8, <1>9, <1>10, <1>11 DEF CutSoFar
<1> QED BY <1>12 DEF d

(* Adding the edits of a file that does not fit, one by one.                  *)
LEMMA AddEachKeeps ==
    ASSUME NEW edits \in Seq(Edit), NEW done \in Seq(Edit), NEW s \in Seq(Edit),
           NEW c \in CuttingState, CutSoFar(edits, done, c),
           \A file \in Files(s) : ~ Fits(edits, file)
    PROVE  CutSoFar(edits, done \o s, AddEach(c, s))
<1> DEFINE P == {u \in Seq(Edit) :
                    (\A file \in Files(u) : ~ Fits(edits, file))
                        => CutSoFar(edits, done \o u, AddEach(c, u))}
<1>1. <<>> \in P
  <2>1. <<>> \in Seq(Edit) /\ done \o <<>> = done /\ AddEach(c, <<>>) = c
    BY ConcatEmptySeq, AddEachEmpty
  <2> QED BY <2>1
<1>2. ASSUME NEW u \in Seq(Edit), NEW e \in Edit, u \in P
      PROVE  Append(u, e) \in P
  <2> SUFFICES ASSUME \A file \in Files(Append(u, e)) : ~ Fits(edits, file)
               PROVE  CutSoFar(edits, done \o Append(u, e), AddEach(c, Append(u, e)))
    OBVIOUS
  <2>1. Files(Append(u, e)) = Files(u) \cup {e.filename}
    BY FilesOf
  <2>2. CutSoFar(edits, done \o u, AddEach(c, u))
    BY <1>2, <2>1
  <2>3. AddEach(c, Append(u, e)) = Add(AddEach(c, u), <<e>>)
    BY AddEachAppend
  <2>4. <<e>> \in Seq(Edit) /\ Len(<<e>>) = 1 /\ <<e>> # <<>> /\ done \o u \in Seq(Edit)
    BY ConcatProperties
  <2>5. Files(<<e>>) = {e.filename}
    BY DEF Files
  <2>6. ~ Fits(edits, e.filename)
    BY <2>1
  <2>7. WithinLimit(<<e>>) /\ WholeIn(edits, <<e>>)
    BY <2>4, <2>5, <2>6 DEF WithinLimit, WholeIn
  <2>8. CutSoFar(edits, (done \o u) \o <<e>>, Add(AddEach(c, u), <<e>>))
    <3>1. \A file \in Files(<<e>>) \cap Files(done \o u) : ~ Fits(edits, file)
      BY <2>5, <2>6
    <3> QED BY <2>2, <2>4, <2>7, <3>1, AddKeeps
  <2>9. (done \o u) \o <<e>> = done \o Append(u, e)
    <3>1. Append(u, e) = u \o <<e>>
      BY AppendIsConcat
    <3> QED BY <2>4, <3>1, ConcatAssociative
  <2> QED BY <2>3, <2>8, <2>9
<1> HIDE DEF P
<1>3. s \in P
  BY <1>1, <1>2, InductionOnSeq
<1> QED BY <1>3 DEF P

(* A file of one group is added whole, or edit by edit if it exceeds a chunk. *)
LEMMA AddFileKeeps ==
    ASSUME NEW edits \in Seq(Edit), NEW done \in Seq(Edit), NEW s \in Seq(Edit), NEW c,
           CutSoFar(edits, done, c), s # <<>>, s = EditsOf(edits, FileOf(s)),
           FileOf(s) \notin Files(done)
    PROVE  CutSoFar(edits, done \o s, AddFile(c, s))
<1> DEFINE file == FileOf(s)
<1>1. Files(s) = {file}
  <2>1. file \in Files(s)
    BY FilesOf DEF FileOf
  <2>2. Files(EditsOf(edits, file)) \subseteq {file}
    BY EditsOfFile
  <2> QED BY <2>1, <2>2
<1> HIDE DEF file
<1>2. TotalSize(s) \in Nat
  BY TotalSizeType
<1>3. CASE TotalSize(s) > MaxChars
  <2>1. AddFile(c, s) = AddEach(Cut(c), s)
    BY <1>3 DEF AddFile
  <2>2. CutSoFar(edits, done, Cut(c))
    BY CutKeeps
  <2>3. ~ Fits(edits, file)
    BY <1>2, <1>3, ChunkAssumption DEF Fits, file
  <2>4. \A f \in Files(s) : ~ Fits(edits, f)
    BY <1>1, <2>3
  <2>5. Cut(c) \in CuttingState
    BY <2>2 DEF CutSoFar
  <2> QED BY <2>1, <2>2, <2>4, <2>5, AddEachKeeps
<1>4. CASE ~(TotalSize(s) > MaxChars)
  <2>1. AddFile(c, s) = Add(c, s)
    BY <1>4 DEF AddFile
  <2>2. WithinLimit(s)
    BY <1>4 DEF WithinLimit
  <2>3. EditsOf(s, file) = EditsOf(edits, file)
    BY <1>1, EditsOfFile DEF file
  <2>4. WholeIn(edits, s)
    BY <1>1, <2>3 DEF WholeIn
  <2>5. \A f \in Files(s) \cap Files(done) : ~ Fits(edits, f)
    BY <1>1 DEF file
  <2> QED BY <2>1, <2>2, <2>4, <2>5, AddKeeps
<1> QED BY <1>3, <1>4

(* Adding the groups one by one: what was added is the edits of their files.  *)
LEMMA AddFilesKeeps ==
    ASSUME NEW edits \in Seq(Edit), NEW groups \in Seq(Seq(Edit)), GroupsOf(groups, edits)
    PROVE  /\ CutSoFar(edits, FlattenSeq(groups), AddFiles(groups))
           /\ Files(FlattenSeq(groups)) = FilesOfGroups(groups)
           /\ \A file \in FilesOfGroups(groups) :
                EditsOf(FlattenSeq(groups), file) = EditsOf(edits, file)
<1> DEFINE Done(gs) ==
                /\ CutSoFar(edits, FlattenSeq(gs), AddFiles(gs))
                /\ Files(FlattenSeq(gs)) = FilesOfGroups(gs)
                /\ \A file \in FilesOfGroups(gs) :
                    EditsOf(FlattenSeq(gs), file) = EditsOf(edits, file)
           P == {gs \in Seq(Seq(Edit)) : GroupsOf(gs, edits) => Done(gs)}
<1>1. <<>> \in P
  <2>1. FlattenSeq(<<>>) = <<>> /\ AddFiles(<<>>) = NoChunks /\ <<>> \in Seq(Seq(Edit))
    BY FlattenEmpty, AddFilesEmpty
  <2>2. Files(<<>>) = {} /\ FilesOfGroups(<<>>) = {}
    BY DEF Files, FilesOfGroups
  <2>3. CutSoFar(edits, <<>>, NoChunks)
    <3>1. <<>> \in Seq(Edit) /\ <<>> \o <<>> = <<>>
      BY ConcatEmptySeq
    <3> QED BY <2>1, <3>1, NoChunksType, TotalSizeEmpty DEF CutSoFar, NoChunks
  <2> QED BY <2>1, <2>2, <2>3
<1>2. ASSUME NEW gs \in Seq(Seq(Edit)), NEW s \in Seq(Edit), gs \in P
      PROVE  Append(gs, s) \in P
  <2> DEFINE new == Append(gs, s)
             N == Len(gs)
             done == FlattenSeq(gs)
  <2>1. /\ N \in Nat /\ DOMAIN gs = 1..N
        /\ new \in Seq(Seq(Edit))
        /\ DOMAIN new = 1..(N + 1) /\ new[N + 1] = s
        /\ \A g \in 1..N : new[g] = gs[g]
    BY LenProperties, AppendProperties
  <2> SUFFICES ASSUME GroupsOf(new, edits)
               PROVE  Done(new)
    BY <2>1
  <2>2. FlattenSeq(new) = done \o s /\ AddFiles(new) = AddFile(AddFiles(gs), s)
    BY FlattenAppend, AddFilesAppend
  <2>3. done \in Seq(Edit)
    BY FlattenType
  <2> HIDE DEF new, N
  <2>4. \A g \in 1..N : g \in 1..(N + 1) /\ g # N + 1 /\ N + 1 \in 1..(N + 1)
    BY <2>1
  <2>5. N + 1 \in 1..(N + 1) /\ \A g \in 1..(N + 1) : g \in 1..N \/ g = N + 1
    BY <2>1
  <2>6. GroupsOf(gs, edits)
    BY <2>1, <2>4 DEF GroupsOf
  <2>7. Done(gs)
    BY <1>2, <2>6
  <2>8. s # <<>> /\ s = EditsOf(edits, FileOf(s))
    BY <2>1, <2>5 DEF GroupsOf
  <2>9. \A g \in 1..N : FileOf(gs[g]) # FileOf(s)
    BY <2>1, <2>4 DEF GroupsOf
  <2>10. FileOf(s) \notin FilesOfGroups(gs)
    BY <2>1, <2>9 DEF FilesOfGroups
  <2> HIDE DEF done
  <2>11. /\ CutSoFar(edits, done, AddFiles(gs))
         /\ Files(done) = FilesOfGroups(gs)
         /\ \A file \in FilesOfGroups(gs) : EditsOf(done, file) = EditsOf(edits, file)
    BY <2>7 DEF done
  <2>12. CutSoFar(edits, FlattenSeq(new), AddFiles(new))
    BY <2>2, <2>3, <2>8, <2>10, <2>11, AddFileKeeps
  <2>13. Files(s) = {FileOf(s)}
    <3>1. FileOf(s) \in Files(s)
      BY <2>8, FilesOf DEF FileOf
    <3>2. Files(EditsOf(edits, FileOf(s))) \subseteq {FileOf(s)}
      BY EditsOfFile
    <3> QED BY <2>8, <3>1, <3>2
  <2>14. FilesOfGroups(new) = FilesOfGroups(gs) \cup {FileOf(s)}
    <3>1. {FileOf(new[g]) : g \in 1..(N + 1)}
                = {FileOf(new[g]) : g \in 1..N} \cup {FileOf(new[N + 1])}
      BY <2>1, <2>5
    <3>2. {FileOf(new[g]) : g \in 1..N} = {FileOf(gs[g]) : g \in 1..N}
      BY <2>1
    <3> QED BY <2>1, <3>1, <3>2 DEF FilesOfGroups
  <2>15. Files(done \o s) = Files(done) \cup Files(s)
    BY <2>3, Joined
  <2>16. ASSUME NEW file \in FilesOfGroups(new)
         PROVE  EditsOf(done \o s, file) = EditsOf(edits, file)
    <3>1. /\ EditsOf(done \o s, file) = EditsOf(done, file) \o EditsOf(s, file)
          /\ EditsOf(done, file) \in Seq(Edit) /\ EditsOf(s, file) \in Seq(Edit)
      BY <2>3, Joined, EditsOfType
    <3>2. CASE file = FileOf(s)
      <4>1. EditsOf(done, file) = <<>>
        BY <2>3, <2>10, <2>11, <3>2, EditsOfFile
      <4>2. EditsOf(s, file) = s
        BY <2>13, <3>2, EditsOfFile
      <4> QED BY <2>8, <3>1, <3>2, <4>1, <4>2, ConcatEmptySeq
    <3>3. CASE file # FileOf(s)
      <4>1. EditsOf(s, file) = <<>>
        BY <2>13, <3>3, EditsOfFile
      <4>2. EditsOf(done, file) = EditsOf(edits, file)
        BY <2>11, <2>14, <3>3
      <4> QED BY <3>1, <4>1, <4>2, ConcatEmptySeq
    <3> QED BY <3>2, <3>3
  <2> QED BY <2>2, <2>11, <2>12, <2>13, <2>14, <2>15, <2>16
<1> HIDE DEF P
<1>3. groups \in P
  BY <1>1, <1>2, InductionOnSeq
<1> QED BY <1>3 DEF P

(* chunkChangeModeEdits keeps what it promises, for every sequence of edits.  *)
THEOREM ChunkingIsExact ==
    ASSUME NEW edits \in Seq(Edit)
    PROVE  /\ KeepsEveryEdit(edits, chunkChangeModeEdits(edits))
           /\ KeepsTheLimit(chunkChangeModeEdits(edits))
           /\ KeepsFilesWhole(edits, chunkChangeModeEdits(edits))
<1> DEFINE groups == groupEditsByFile(edits)
           all == FlattenSeq(groups)
           c == Cut(AddFiles(groups))
           chunks == c.chunks
<1>1. chunks = chunkChangeModeEdits(edits)
  BY DEF chunkChangeModeEdits
<1>2. groups \in Seq(Seq(Edit)) /\ GroupsOf(groups, edits) /\ Files(edits) = FilesOfGroups(groups)
  BY GroupsAreOfFiles
<1> HIDE DEF groups
<1>3. all \in Seq(Edit)
  BY <1>2, FlattenType
<1>4. /\ CutSoFar(edits, all, AddFiles(groups))
      /\ Files(all) = FilesOfGroups(groups)
      /\ \A file \in FilesOfGroups(groups) : EditsOf(all, file) = EditsOf(edits, file)
  BY <1>2, AddFilesKeeps
<1> HIDE DEF all
<1>5. CutSoFar(edits, all, c) /\ c.current = <<>>
  BY <1>3, <1>4, CutKeeps
<1> HIDE DEF c
<1>6. chunks \in Seq(Seq(Edit)) /\ \A i \in DOMAIN chunks : chunks[i] \in Seq(Edit)
  <2>1. chunks \in Seq(Seq(Edit))
    BY <1>5 DEF CutSoFar, CuttingState
  <2> HIDE DEF chunks
  <2> QED BY <2>1, ElementOfSeq, LenProperties
<1>7. FlattenSeq(chunks) = all
  <2>1. FlattenSeq(chunks) \in Seq(Edit)
    BY <1>6, FlattenType
  <2>2. FlattenSeq(chunks) \o <<>> = all
    BY <1>5 DEF CutSoFar
  <2> QED BY <2>1, <2>2, ConcatEmptySeq
<1>8. \A i \in DOMAIN chunks : WithinLimit(chunks[i]) /\ WholeIn(edits, chunks[i])
  BY <1>5 DEF CutSoFar
<1> HIDE DEF chunks
<1>9. KeepsEveryEdit(edits, chunks)
  <2>1. \A file \in Files(edits) \cup Files(all) : EditsOf(all, file) = EditsOf(edits, file)
    BY <1>2, <1>4
  <2> QED BY <1>7, <2>1 DEF KeepsEveryEdit, Files
<1>10. KeepsTheLimit(chunks)
  BY <1>8 DEF KeepsTheLimit, WithinLimit
<1>11. KeepsFilesWhole(edits, chunks)
  <2> SUFFICES ASSUME NEW i \in DOMAIN chunks,
                      NEW n \in DOMAIN chunks[i],
                      TotalSize(EditsOf(edits, chunks[i][n].filename)) <= MaxChars
               PROVE  EditsOf(chunks[i], chunks[i][n].filename)
                        = EditsOf(edits, chunks[i][n].filename)
    BY DEF KeepsFilesWhole
  <2> QED BY <1>8 DEF WholeIn, Files, Fits
<1> QED BY <1>1, <1>9, <1>10, <1>11

(* What the parser and the chunking return.                                   *)
LEMMA ParsedEdits ==
    ASSUME NEW blocks \in Seq(Edit)
    PROVE  parseChangeModeOutput(blocks) \in Seq(Edit)
BY WhereType DEF parseChangeModeOutput

(* Chunks are sequences of edits.                                             *)
LEMMA ChunksType ==
    ASSUME NEW edits \in Seq(Edit)
    PROVE  chunkChangeModeEdits(edits) \in Seq(Seq(Edit))
<1> DEFINE groups == groupEditsByFile(edits)
           c == AddFiles(groups)
<1>1. groups \in Seq(Seq(Edit))
  BY GroupsType
<1> HIDE DEF groups
<1>2. c \in CuttingState
  BY <1>1, AddFilesType
<1>3. chunkChangeModeEdits(edits) = Cut(c).chunks
  BY DEF chunkChangeModeEdits, groups
<1> HIDE DEF c
<1>4. Cut(c) \in CuttingState
  BY <1>2, CutType
<1> QED BY <1>3, <1>4 DEF CuttingState

-----------------------------------------------------------------------------
(* Directories of files, oldest first                                         *)

(* The youngest of files, and the files without one.                          *)
LEMMA LastOfIs ==
    ASSUME NEW S, NEW s \in Seq(S), NEW n \in Nat
    PROVE  /\ LastOf(s, n) \in Seq(S)
           /\ Len(LastOf(s, n)) <= n /\ Len(LastOf(s, n)) <= Len(s)
           /\ \A i \in 1..Len(LastOf(s, n)) :
                LastOf(s, n)[i] = s[i + (Len(s) - Len(LastOf(s, n)))]
           /\ n > 0 /\ s # <<>> => LastOf(s, n) # <<>>
<1>0. Len(s) \in Nat /\ \A i \in 1..Len(s) : s[i] \in S
  BY ElementOfSeq, LenProperties
<1>1. CASE Len(s) > n
  <2> DEFINE t == SubSeq(s, Len(s) - n + 1, Len(s))
  <2>1. /\ t \in Seq(S)
        /\ Len(t) = IF Len(s) - n + 1 <= Len(s) THEN Len(s) - (Len(s) - n + 1) + 1 ELSE 0
        /\ \A i \in 1..(Len(s) - (Len(s) - n + 1) + 1) : t[i] = s[(Len(s) - n + 1) + i - 1]
    <3>1. Len(s) - n + 1 \in Int /\ Len(s) \in Int
      BY <1>0
    <3>2. \A i \in (Len(s) - n + 1)..Len(s) : s[i] \in S
      BY <1>0, <1>1
    <3> QED BY <3>1, <3>2, SubSeqProperties
  <2>2. LastOf(s, n) = t
    BY <1>1 DEF LastOf
  <2> HIDE DEF t
  <2>3. Len(t) = n
    BY <1>0, <2>1
  <2>4. \A i \in 1..n : t[i] = s[i + (Len(s) - n)]
    BY <1>0, <2>1
  <2>5. n > 0 => t # <<>>
    BY <2>3, EmptySeq
  <2>6. Len(t) <= n /\ Len(t) <= Len(s)
        /\ \A i \in 1..Len(t) : t[i] = s[i + (Len(s) - Len(t))]
    BY <1>0, <1>1, <2>3, <2>4
  <2> QED BY <2>1, <2>2, <2>5, <2>6
<1>2. CASE ~(Len(s) > n)
  <2>1. LastOf(s, n) = s
    BY <1>2 DEF LastOf
  <2> QED BY <1>0, <1>2, <2>1
<1> QED BY <1>1, <1>2

(* RemoveAt, position by position.                                            *)
LEMMA RemoveAtIs ==
    ASSUME NEW S, NEW s \in Seq(S), NEW k \in 1..Len(s)
    PROVE  /\ RemoveAt(s, k) \in Seq(S)
           /\ Len(RemoveAt(s, k)) = Len(s) - 1
           /\ \A i \in 1..(Len(s) - 1) : RemoveAt(s, k)[i] = IF i < k THEN s[i] ELSE s[i + 1]
<1> DEFINE t == SubSeq(s, 1, k - 1)
           u == SubSeq(s, k + 1, Len(s))
<1>0. Len(s) \in Nat /\ \A i \in 1..Len(s) : s[i] \in S
  BY ElementOfSeq, LenProperties
<1>1. t \in Seq(S) /\ Len(t) = k - 1 /\ \A i \in 1..(k - 1) : t[i] = s[i]
  <2>1. /\ t \in Seq(S)
        /\ Len(t) = IF 1 <= k - 1 THEN k - 1 - 1 + 1 ELSE 0
        /\ \A i \in 1..(k - 1 - 1 + 1) : t[i] = s[1 + i - 1]
    <3>1. \A i \in 1..(k - 1) : s[i] \in S
      BY <1>0
    <3> QED BY <1>0, <3>1, SubSeqProperties
  <2> QED BY <1>0, <2>1
<1>2. u \in Seq(S) /\ Len(u) = Len(s) - k /\ \A i \in 1..(Len(s) - k) : u[i] = s[i + k]
  <2>1. /\ u \in Seq(S)
        /\ Len(u) = IF k + 1 <= Len(s) THEN Len(s) - (k + 1) + 1 ELSE 0
        /\ \A i \in 1..(Len(s) - (k + 1) + 1) : u[i] = s[k + 1 + i - 1]
    <3>1. \A i \in (k + 1)..Len(s) : s[i] \in S
      BY <1>0
    <3> QED BY <1>0, <3>1, SubSeqProperties
  <2> QED BY <1>0, <2>1
<1>3. RemoveAt(s, k) = t \o u
  BY DEF RemoveAt
<1> HIDE DEF t, u
<1>4. /\ t \o u \in Seq(S)
      /\ Len(t \o u) = Len(t) + Len(u)
      /\ \A i \in 1..(Len(t) + Len(u)) :
            (t \o u)[i] = IF i <= Len(t) THEN t[i] ELSE u[i - Len(t)]
  BY <1>1, <1>2, ConcatProperties
<1>5. \A i \in 1..(Len(s) - 1) : (t \o u)[i] = IF i < k THEN s[i] ELSE s[i + 1]
  <2> SUFFICES ASSUME NEW i \in 1..(Len(s) - 1)
               PROVE  (t \o u)[i] = IF i < k THEN s[i] ELSE s[i + 1]
    OBVIOUS
  <2>1. (t \o u)[i] = IF i <= k - 1 THEN t[i] ELSE u[i - (k - 1)]
    BY <1>0, <1>1, <1>2, <1>4
  <2>2. CASE i < k
    BY <1>0, <1>1, <2>1, <2>2
  <2>3. CASE ~(i < k)
    <3>1. i - (k - 1) \in 1..(Len(s) - k)
      BY <1>0, <2>3
    <3>2. u[i - (k - 1)] = s[(i - (k - 1)) + k] /\ (i - (k - 1)) + k = i + 1
      BY <1>0, <1>2, <3>1
    <3> QED BY <1>0, <2>1, <2>3, <3>2
  <2> QED BY <2>2, <2>3
<1>6. Len(t) + Len(u) = Len(s) - 1
  BY <1>0, <1>1, <1>2
<1> QED BY <1>3, <1>4, <1>5, <1>6

(* Files with names of their own; what a name stands for.                     *)
UniqueIds(files) ==
    \A i, k \in 1..Len(files) : files[i].id = files[k].id => i = k

(* Where every file was among others, or is the one written.                  *)
FilesFrom(files, before, file) ==
    /\ UniqueIds(files)
    /\ \A i \in 1..Len(files) :
        files[i] = file \/ \E k \in 1..Len(before) : files[i] = before[k] /\ before[k].id # file.id

(* A directory without one of its files.                                      *)
LEMMA RemoveAtKeepsFiles ==
    ASSUME NEW F, NEW files \in Seq(F), UniqueIds(files), NEW k \in 1..Len(files)
    PROVE  /\ RemoveAt(files, k) \in Seq(F)
           /\ UniqueIds(RemoveAt(files, k))
           /\ Len(RemoveAt(files, k)) = Len(files) - 1
           /\ \A i \in 1..Len(RemoveAt(files, k)) :
                \E n \in 1..Len(files) : n # k /\ RemoveAt(files, k)[i] = files[n]
<1> DEFINE rest == RemoveAt(files, k)
           at(i) == IF i < k THEN i ELSE i + 1
<1>0. Len(files) \in Nat
  BY LenProperties
<1>1. /\ rest \in Seq(F) /\ Len(rest) = Len(files) - 1
      /\ \A i \in 1..(Len(files) - 1) : rest[i] = IF i < k THEN files[i] ELSE files[i + 1]
  BY RemoveAtIs
<1>2. \A i \in 1..(Len(files) - 1) : at(i) \in 1..Len(files) /\ at(i) # k /\ rest[i] = files[at(i)]
  BY <1>0, <1>1
<1>3. \A i, m \in 1..(Len(files) - 1) : at(i) = at(m) => i = m
  BY <1>0
<1> HIDE DEF rest, at
<1>4. UniqueIds(rest)
  BY <1>1, <1>2, <1>3 DEF UniqueIds
<1> QED BY <1>1, <1>2, <1>4 DEF rest

(* A directory after a save: the file is in it, every other was before.       *)
LEMMA SavedIs ==
    ASSUME NEW F, NEW files \in Seq(F), UniqueIds(files), NEW file \in F, NEW limit \in Nat \ {0}
    PROVE  /\ Saved(files, file, limit) \in Seq(F)
           /\ Len(Saved(files, file, limit)) <= limit
           /\ \E i \in 1..Len(Saved(files, file, limit)) : Saved(files, file, limit)[i] = file
           /\ FilesFrom(Saved(files, file, limit), files, file)
<1> DEFINE same == {i \in DOMAIN files : files[i].id = file.id}
           others == IF same = {} THEN files ELSE RemoveAt(files, CHOOSE i \in same : TRUE)
           all == Append(others, file)
           saved == LastOf(all, limit)
<1>0. Len(files) \in Nat /\ DOMAIN files = 1..Len(files)
  BY LenProperties
<1>1. /\ others \in Seq(F) /\ UniqueIds(others)
      /\ \A i \in 1..Len(others) : \E n \in 1..Len(files) :
            others[i] = files[n] /\ files[n].id # file.id
  <2>1. CASE same = {}
    BY <1>0, <2>1
  <2>2. CASE same # {}
    <3> DEFINE k == CHOOSE i \in same : TRUE
    <3>1. k \in same
      BY <2>2
    <3>2. others = RemoveAt(files, k) /\ k \in 1..Len(files)
      BY <1>0, <2>2, <3>1
    <3>3. \A n \in 1..Len(files) : n # k => files[n].id # file.id
      BY <1>0, <3>1 DEF UniqueIds
    <3> HIDE DEF k, others, same
    <3>4. /\ RemoveAt(files, k) \in Seq(F) /\ UniqueIds(RemoveAt(files, k))
          /\ \A i \in 1..Len(RemoveAt(files, k)) :
                \E n \in 1..Len(files) : n # k /\ RemoveAt(files, k)[i] = files[n]
      BY <3>2, RemoveAtKeepsFiles
    <3> QED BY <3>2, <3>3, <3>4
  <2> QED BY <2>1, <2>2
<1>2. Saved(files, file, limit) = saved
  BY DEF Saved
<1> HIDE DEF others, same
<1>3. /\ all \in Seq(F) /\ Len(all) = Len(others) + 1 /\ Len(others) \in Nat
      /\ \A i \in 1..Len(others) : all[i] = others[i]
      /\ all[Len(others) + 1] = file
  BY <1>1, AppendProperties, LenProperties
<1> HIDE DEF all
<1>4. UniqueIds(all)
  <2> SUFFICES ASSUME NEW i \in 1..Len(all), NEW k \in 1..Len(all), all[i].id = all[k].id
               PROVE  i = k
    BY DEF UniqueIds
  <2>1. CASE i \in 1..Len(others) /\ k \in 1..Len(others)
    BY <1>1, <1>3, <2>1 DEF UniqueIds
  <2>2. CASE i \notin 1..Len(others)
    <3>1. all[i] = file /\ i = Len(others) + 1
      BY <1>3, <2>2
    <3>2. k \notin 1..Len(others)
      BY <1>1, <1>3, <3>1
    <3> QED BY <1>3, <3>1, <3>2
  <2>3. CASE k \notin 1..Len(others)
    <3>1. all[k] = file /\ k = Len(others) + 1
      BY <1>3, <2>3
    <3>2. i \notin 1..Len(others)
      BY <1>1, <1>3, <3>1
    <3> QED BY <1>3, <3>1, <3>2
  <2> QED BY <2>1, <2>2, <2>3
<1>5. \A i \in 1..Len(all) :
        all[i] = file \/ \E k \in 1..Len(files) : all[i] = files[k] /\ files[k].id # file.id
  <2> SUFFICES ASSUME NEW i \in 1..Len(all)
               PROVE  all[i] = file \/ \E k \in 1..Len(files) :
                                            all[i] = files[k] /\ files[k].id # file.id
    OBVIOUS
  <2>1. i = Len(others) + 1 \/ i \in 1..Len(others)
    BY <1>3
  <2> QED BY <1>1, <1>3, <2>1
<1>6. /\ saved \in Seq(F) /\ Len(saved) <= limit /\ Len(saved) <= Len(all)
      /\ \A i \in 1..Len(saved) : saved[i] = all[i + (Len(all) - Len(saved))]
      /\ saved # <<>>
  <2>1. all # <<>>
    BY <1>3, EmptySeq
  <2>2. limit \in Nat /\ limit > 0
    OBVIOUS
  <2>3. /\ LastOf(all, limit) \in Seq(F)
        /\ Len(LastOf(all, limit)) <= limit /\ Len(LastOf(all, limit)) <= Len(all)
        /\ \A i \in 1..Len(LastOf(all, limit)) :
                LastOf(all, limit)[i] = all[i + (Len(all) - Len(LastOf(all, limit)))]
        /\ limit > 0 /\ all # <<>> => LastOf(all, limit) # <<>>
    BY <1>3, <2>2, LastOfIs
  <2> QED BY <2>1, <2>2, <2>3
<1> HIDE DEF saved
<1>7. Len(saved) \in Nat \ {0} /\ Len(all) \in Nat
  BY <1>3, <1>6, EmptySeq, LenProperties
<1>8. \A i \in 1..Len(saved) : i + (Len(all) - Len(saved)) \in 1..Len(all)
  BY <1>6, <1>7
<1>9. saved[Len(saved)] = file
  <2>1. Len(saved) \in 1..Len(saved) /\ Len(saved) + (Len(all) - Len(saved)) = Len(all)
    BY <1>7
  <2> QED BY <1>3, <1>6, <2>1
<1>10. UniqueIds(saved)
  <2> SUFFICES ASSUME NEW i \in 1..Len(saved), NEW k \in 1..Len(saved), saved[i].id = saved[k].id
               PROVE  i = k
    BY DEF UniqueIds
  <2>1. i + (Len(all) - Len(saved)) = k + (Len(all) - Len(saved))
    BY <1>4, <1>6, <1>8 DEF UniqueIds
  <2> QED BY <1>7, <2>1
<1>11. \A i \in 1..Len(saved) :
        saved[i] = file \/ \E k \in 1..Len(files) : saved[i] = files[k] /\ files[k].id # file.id
  BY <1>5, <1>6, <1>8
<1>12. \E i \in 1..Len(saved) : saved[i] = file
  BY <1>7, <1>9
<1> QED BY <1>2, <1>6, <1>10, <1>11, <1>12 DEF FilesFrom

(* What a session id stands for among files.                                  *)
MessagesOf(files, s) ==
    IF \E i \in DOMAIN files : files[i].id = s
    THEN (CHOOSE f \in {files[i] : i \in DOMAIN files} : f.id = s).messages
    ELSE <<>>

(* The messages of a session with a file, and of one without.                 *)
LEMMA MessagesOfIs ==
    ASSUME NEW F, NEW files \in Seq(F), UniqueIds(files)
    PROVE  /\ \A i \in 1..Len(files) : MessagesOf(files, files[i].id) = files[i].messages
           /\ \A s : (\A i \in 1..Len(files) : files[i].id # s) => MessagesOf(files, s) = <<>>
<1>0. DOMAIN files = 1..Len(files)
  BY LenProperties
<1>1. ASSUME NEW i \in 1..Len(files)
      PROVE  MessagesOf(files, files[i].id) = files[i].messages
  <2> DEFINE fs == {files[k] : k \in DOMAIN files}
             f == CHOOSE f \in fs : f.id = files[i].id
  <2>1. files[i] \in fs
    BY <1>0
  <2>2. f \in fs /\ f.id = files[i].id
    BY <2>1
  <2>3. f = files[i]
    BY <1>0, <2>2 DEF UniqueIds
  <2> QED BY <1>0, <2>3 DEF MessagesOf
<1>2. \A s : (\A i \in 1..Len(files) : files[i].id # s) => MessagesOf(files, s) = <<>>
  BY <1>0 DEF MessagesOf
<1> QED BY <1>1, <1>2

(* Files that were there before: a session has its messages or none.          *)
LEMMA KeptMessages ==
    ASSUME NEW F, NEW files \in Seq(F), UniqueIds(files), NEW left \in Seq(F), UniqueIds(left),
           NEW s, \A i \in 1..Len(left) : left[i].id = s =>
                    \E k \in 1..Len(files) : left[i] = files[k]
    PROVE  MessagesOf(left, s) \in {MessagesOf(files, s), <<>>}
<1>1. CASE \A i \in 1..Len(left) : left[i].id # s
  BY <1>1, MessagesOfIs
<1>2. CASE \E i \in 1..Len(left) : left[i].id = s
  <2>1. PICK i \in 1..Len(left) : left[i].id = s
    BY <1>2
  <2>2. PICK k \in 1..Len(files) : left[i] = files[k]
    BY <2>1
  <2>3. MessagesOf(left, s) = left[i].messages
    BY <2>1, MessagesOfIs
  <2>4. MessagesOf(files, s) = files[k].messages
    BY <2>1, <2>2, MessagesOfIs
  <2> QED BY <2>2, <2>3, <2>4
<1> QED BY <1>1, <1>2

-----------------------------------------------------------------------------
(* Tool calls                                                                 *)

USE ServerAssumption

LEMMA ThreeAreFinite ==
    ASSUME NEW x, NEW y, NEW z
    PROVE  IsFiniteSet({x, y, z})
<1>1. IsFiniteSet({x})
  BY FS_Singleton
<1>2. IsFiniteSet({x} \cup {y})
  BY <1>1, FS_AddElement
<1>3. IsFiniteSet(({x} \cup {y}) \cup {z})
  BY <1>2, FS_AddElement
<1>4. {x, y, z} = ({x} \cup {y}) \cup {z}
  OBVIOUS
<1> QED BY <1>3, <1>4

(* What multi-llm starts is one request per provider, in some order.          *)
LEMMA MultiLlmRequests ==
    ASSUME NEW p \in Prompts, NEW ps \in SUBSET Providers
    PROVE  \E n \in Nat :
            SetToSeq({[tool |-> "ask", provider |-> q, prompt |-> p,
                       model |-> "default", session |-> NoSession] : q \in ps})
                \in [1..n -> Request]
<1> DEFINE of(q) == [tool |-> "ask", provider |-> q, prompt |-> p,
                     model |-> "default", session |-> NoSession]
           S == {of(q) : q \in ps}
<1>1. S \subseteq Request
  BY DEF Request, Providers, Models
<1>2. IsFiniteSet(S)
  <2>1. IsFiniteSet({of("gemini"), of("codex"), of("ollama")})
    BY ThreeAreFinite
  <2>2. S \subseteq {of("gemini"), of("codex"), of("ollama")}
    BY DEF Providers
  <2> HIDE DEF S, of
  <2> QED BY <2>1, <2>2, FS_Subset
<1> HIDE DEF S
<1>3. Cardinality(S) \in Nat /\ ExistsBijection(1..Cardinality(S), S)
  BY <1>2, FS_CardinalityType
<1>4. \E f \in [1..Cardinality(S) -> S] : IsInjective(f)
  BY <1>3 DEF ExistsBijection, Bijection, Injection, Surjection, IsInjective
<1>5. SetToSeq(S) \in [1..Cardinality(S) -> S]
  BY <1>4 DEF SetToSeq
<1>6. SetToSeq(S) \in [1..Cardinality(S) -> Request]
  BY <1>5, <1>1
<1> QED BY <1>6, <1>3 DEF S

(* Init and the start of jobs keep the invariant.                             *)
LEMMA InitHolds == Init => IInv
<1> SUFFICES ASSUME Init PROVE IInv
  OBVIOUS
<1>1. TypeOK
  <2>1. /\ now \in 0..MaxTime /\ begun \in 0..JobBound
        /\ answered \subseteq Jobs /\ hung \in BOOLEAN
    <3>1. JobBound \in Nat /\ MaxTime \in Nat
      OBVIOUS
    <3>2. now = 0 /\ begun = 0 /\ answered = {} /\ hung = FALSE
      BY DEF Init
    <3>3. now \in 0..MaxTime /\ begun \in 0..JobBound
      BY <3>1, <3>2
    <3> QED BY <3>2, <3>3, Zenon
  <2>2. /\ call \in [Jobs -> 0..JobBound]
        /\ request \in [Jobs -> Request \cup {NoRequest}]
        /\ settled \in [Jobs -> [Attempts -> BOOLEAN]]
        /\ killTimer \in [Jobs -> [Attempts -> BOOLEAN]]
        /\ usage \in [Providers -> [calls : Nat, fellBack : Nat]]
    BY DEF Init
  <2>3. process \in [Jobs -> [Attempts -> States]]
    BY DEF Init, States
  <2>4. \A j \in Jobs : request[j] = NoRequest /\ j > begun
    BY DEF Init, Jobs
  <2>5. result = [j \in Jobs |-> result[j]] /\ \A j \in Jobs : result[j].from = "pending"
    BY DEF Init, Pending
  <2>6. \A e \in cache.entries : e.response \in Response /\ e.createdAt \in 0..now
    <3>1. now = 0 /\ cache \in WarmCaches
      BY DEF Init
    <3>2. \A e \in cache.entries : e.response \in Response /\ e.createdAt = 0
      BY <3>1
    <3> QED BY <3>1, <3>2
  <2>7. \A j \in Jobs :
        /\ result[j].from \in {"pending", "failed", "cache"} \cup Attempts
        /\ result[j].from \in {"cache"} \cup Attempts => result[j].response \in Response
    BY <2>5 DEF Attempts
  <2>8. \A j \in Jobs : request[j] = NoRequest <=> j > begun
    BY <2>4
  <2> QED BY <2>1, <2>2, <2>3, <2>5, <2>6, <2>7, <2>8 DEF TypeOK
<1>2. NotBegun /\ LateEndsAreSettled /\ OneProcessPerJob /\ CachedAnswersAreAsked
  BY DEF Init, NotBegun, LateEndsAreSettled, OneProcessPerJob, CachedAnswersAreAsked,
         Attempts, Pending
<1>3. IsCache(cache) /\ CacheIsTrue
  BY DEF Init, CacheIsTrue
<1> QED BY <1>1, <1>2, <1>3 DEF IInv

(* The jobs of a tool call begin.                                             *)
LEMMA BeginKeeps ==
    ASSUME IInv, NEW n \in Nat, NEW rs \in [1..n -> Request], Begin(rs)
    PROVE  IInv'
<1> DEFINE new == (begun + 1)..(begun + n)
           asked(j) == rs[j - begun]
           hit(j) == IF isCacheable(asked(j)) THEN Fresh(cache, buildKey(asked(j)), now) ELSE {}
<1>1. DOMAIN rs = 1..n /\ Len(rs) = n
  OBVIOUS
<1>2. begun \in Nat /\ now \in Nat /\ JobBound \in Nat /\ MaxTime \in Nat
  BY DEF IInv, TypeOK
<1>3. {begun + i : i \in DOMAIN rs} = new
  <2>1. \A j \in new : j - begun \in 1..n /\ j = begun + (j - begun)
    BY <1>2
  <2>2. \A i \in 1..n : begun + i \in new
    BY <1>2
  <2> QED BY <1>1, <2>1, <2>2
<1>4. /\ begun' = begun + n /\ begun' <= JobBound
      /\ now' = now /\ settled' = settled /\ killTimer' = killTimer
      /\ answered' = answered /\ usage' = usage /\ hung' = hung
  BY <1>1 DEF Begin
<1>5. request' = [j \in Jobs |-> IF j \in new THEN asked(j) ELSE request[j]]
  BY <1>3 DEF Begin
<1>6. call' = [j \in Jobs |-> IF j \in new THEN begun + 1 ELSE call[j]]
  BY <1>3 DEF Begin
<1>7. process' = [j \in Jobs |->
                IF j \in new /\ hit(j) = {}
                THEN [process[j] EXCEPT !["first"] = "running"] ELSE process[j]]
  BY <1>3 DEF Begin
<1>8. result' = [j \in Jobs |->
                IF j \in new /\ hit(j) # {}
                THEN LET e == CHOOSE e \in hit(j) : TRUE
                     IN  [from |-> "cache", response |-> e.response, age |-> now - e.createdAt]
                ELSE result[j]]
  BY <1>3 DEF Begin
<1>9. \A j \in new : asked(j) \in Request
  BY <1>2
<1>10. \A j \in new : hit(j) # {} =>
        /\ isCacheable(asked(j))
        /\ \E e \in cache.entries :
            /\ result'[j] = [from |-> "cache", response |-> e.response, age |-> now - e.createdAt]
            /\ e.key = buildKey(asked(j))
            /\ ~Expired(e, now)
  <2> SUFFICES ASSUME NEW j \in new, hit(j) # {}
               PROVE  /\ isCacheable(asked(j))
                      /\ \E e \in cache.entries :
                          /\ result'[j] = [from |-> "cache", response |-> e.response,
                                           age |-> now - e.createdAt]
                          /\ e.key = buildKey(asked(j))
                          /\ ~Expired(e, now)
    OBVIOUS
  <2>1. isCacheable(asked(j)) /\ hit(j) = Fresh(cache, buildKey(asked(j)), now)
    OBVIOUS
  <2>2. j \in Jobs
    BY <1>2, <1>4 DEF Jobs
  <2>3. (CHOOSE e \in hit(j) : TRUE) \in hit(j)
    OBVIOUS
  <2> HIDE DEF hit, asked, new
  <2>4. result'[j] = LET e == CHOOSE e \in hit(j) : TRUE
                     IN  [from |-> "cache", response |-> e.response, age |-> now - e.createdAt]
    BY <1>8, <2>2
  <2> QED BY <2>1, <2>3, <2>4 DEF Fresh, Of
<1>11. \A j \in Jobs : hit(j) = {} \/ j \notin new => result'[j] = result[j]
  BY <1>8
<1> HIDE DEF hit, asked, new
<1>12. \A e \in cache'.entries : \E f \in cache.entries :
            IsEntry(e) /\ e.createdAt = f.createdAt /\ e.key = f.key /\ e.response = f.response
  <2>1. PICK keys : cache' = Get(cache, keys, now)
    BY DEF Begin
  <2>2. \A e \in cache.entries : IsEntry(e)
    BY DEF IInv, IsCache
  <2> QED BY <2>1, <2>2, GetKeepsEntries
<1>13. IsCache(cache') /\ CacheIsTrue'
  <2>1. PICK keys : cache' = Get(cache, keys, now)
    BY DEF Begin
  <2>2. IsCache(cache')
    BY <1>2, <2>1, GetKeeps DEF IInv
  <2> QED BY <1>12, <2>2 DEF IInv, CacheIsTrue
<1>14. TypeOK'
  <2>1. begun' \in 0..JobBound /\ now' \in 0..MaxTime /\ answered' \subseteq Jobs
    BY <1>2, <1>4 DEF IInv, TypeOK
  <2>2. /\ settled' \in [Jobs -> [Attempts -> BOOLEAN]]
        /\ killTimer' \in [Jobs -> [Attempts -> BOOLEAN]]
        /\ usage' \in [Providers -> [calls : Nat, fellBack : Nat]] /\ hung' \in BOOLEAN
    BY <1>4 DEF IInv, TypeOK
  <2>3. call' \in [Jobs -> 0..JobBound]
    BY <1>2, <1>4, <1>6 DEF IInv, TypeOK, new
  <2>4. request' \in [Jobs -> Request \cup {NoRequest}]
    BY <1>5, <1>9 DEF IInv, TypeOK
  <2>5. \A j \in Jobs : request'[j] = NoRequest <=> j > begun'
    <3>1. NoRequest \notin Request
      BY DEF NoRequest, Request
    <3>2. \A j \in Jobs : request[j] = NoRequest <=> j > begun
      BY DEF IInv, TypeOK
    <3>3. \A j \in Jobs : j \in new <=> (j > begun /\ ~(j > begun'))
      BY <1>2, <1>4 DEF new, Jobs
    <3>4. \A j \in Jobs : j > begun' => j > begun
      BY <1>2, <1>4 DEF Jobs
    <3> QED BY <1>5, <1>9, <3>1, <3>2, <3>3, <3>4
  <2>6. process' \in [Jobs -> [Attempts -> States]]
    BY <1>7 DEF IInv, TypeOK, Attempts, States
  <2>7. result' = [j \in Jobs |-> result'[j]]
    BY <1>8
  <2>8. \A j \in Jobs :
        /\ result'[j].from \in {"pending", "failed", "cache"} \cup Attempts
        /\ result'[j].from \in {"cache"} \cup Attempts => result'[j].response \in Response
    <3>1. \A e \in cache.entries : e.response \in Response
      BY DEF IInv, TypeOK
    <3>2. \A j \in Jobs : j \in new /\ hit(j) # {} =>
            result'[j].from = "cache" /\ result'[j].response \in Response
      <4> SUFFICES ASSUME NEW j \in Jobs, j \in new, hit(j) # {}
                   PROVE  result'[j].from = "cache" /\ result'[j].response \in Response
        OBVIOUS
      <4>1. PICK e \in cache.entries :
                result'[j] = [from |-> "cache", response |-> e.response, age |-> now - e.createdAt]
        BY <1>10
      <4> QED BY <3>1, <4>1
    <3>3. \A j \in Jobs :
        /\ result[j].from \in {"pending", "failed", "cache"} \cup Attempts
        /\ result[j].from \in {"cache"} \cup Attempts => result[j].response \in Response
      BY DEF IInv, TypeOK
    <3> QED BY <1>11, <3>2, <3>3
  <2>9. \A e \in cache'.entries : e.response \in Response /\ e.createdAt \in 0..now'
    BY <1>4, <1>12 DEF IInv, TypeOK
  <2> QED BY <2>1, <2>2, <2>3, <2>4, <2>5, <2>6, <2>7, <2>8, <2>9 DEF TypeOK
<1>15. NotBegun'
  <2>1. \A j \in Jobs : j > begun' => j > begun /\ j \notin new
    BY <1>2, <1>4 DEF new, Jobs
  <2> QED BY <1>7, <1>11, <2>1 DEF IInv, NotBegun
<1>16. \A j \in new : j \in Jobs => result[j] = Pending /\ process[j] = [a \in Attempts |-> "none"]
  BY <1>2 DEF IInv, NotBegun, new, Jobs
<1>17. LateEndsAreSettled'
  <2>1. \A j \in Jobs : j \in new /\ hit(j) # {} => process'[j] = [a \in Attempts |-> "none"]
    BY <1>7, <1>16
  <2>2. \A j \in Jobs : j \in new /\ hit(j) = {} => result'[j] = Pending
    BY <1>11, <1>16
  <2>3. \A j \in Jobs : j \notin new => result'[j] = result[j] /\ process'[j] = process[j]
    BY <1>7, <1>11
  <2> QED BY <1>4, <2>1, <2>2, <2>3 DEF IInv, LateEndsAreSettled
<1>18. OneProcessPerJob'
  <2>1. \A j \in Jobs : j \in new => process'[j]["second"] = "none"
    BY <1>7, <1>16 DEF IInv, TypeOK, Attempts
  <2>2. \A j \in Jobs : j \notin new => process'[j] = process[j] /\ request'[j] = request[j]
    BY <1>5, <1>7
  <2> QED BY <1>4, <2>1, <2>2 DEF IInv, OneProcessPerJob, TimeoutIsQuota
<1>19. CachedAnswersAreAsked'
  <2>1. \A j \in Jobs : j \in new /\ hit(j) # {} =>
            /\ isCacheable(request'[j])
            /\ result'[j].response = buildKey(request'[j])
            /\ result'[j].age <= Ttl
    <3>1. \A e \in cache.entries : e.response = e.key /\ e.createdAt \in 0..now
      BY DEF IInv, TypeOK, CacheIsTrue
    <3>2. \A e \in cache.entries : ~Expired(e, now) => now - e.createdAt <= Ttl
      BY <1>2, <3>1 DEF Expired
    <3>3. \A j \in Jobs : j \in new => request'[j] = asked(j)
      BY <1>5
    <3> SUFFICES ASSUME NEW j \in Jobs, j \in new, hit(j) # {}
                 PROVE  /\ isCacheable(request'[j])
                        /\ result'[j].response = buildKey(request'[j])
                        /\ result'[j].age <= Ttl
      OBVIOUS
    <3>4. PICK e \in cache.entries :
            /\ result'[j] = [from |-> "cache", response |-> e.response, age |-> now - e.createdAt]
            /\ e.key = buildKey(asked(j))
            /\ ~Expired(e, now)
      BY <1>10
    <3> QED BY <1>10, <3>1, <3>2, <3>3, <3>4
  <2>2. \A j \in Jobs : j \in new /\ hit(j) = {} => result'[j].from # "cache"
    BY <1>11, <1>16 DEF Pending
  <2>3. \A j \in Jobs : j \notin new => result'[j] = result[j] /\ request'[j] = request[j]
    BY <1>5, <1>11
  <2> QED BY <2>1, <2>2, <2>3 DEF IInv, CachedAnswersAreAsked
<1> QED BY <1>13, <1>14, <1>15, <1>17, <1>18, <1>19 DEF IInv

LEMMA AskKeeps == IInv /\ Ask => IInv'
<1> SUFFICES ASSUME IInv, NEW r \in Requests, Begin(<<r>>) PROVE IInv'
  BY DEF Ask
<1>1. <<r>> \in [1..1 -> Request]
  OBVIOUS
<1> QED BY <1>1, BeginKeeps

LEMMA MultiLlmKeeps == IInv /\ MultiLlm => IInv'
<1> SUFFICES ASSUME IInv, NEW p \in Prompts, NEW ps \in SUBSET Providers,
                    Begin(SetToSeq({[tool |-> "ask", provider |-> q, prompt |-> p,
                           model |-> "default", session |-> NoSession] : q \in ps}))
             PROVE  IInv'
  BY DEF MultiLlm
<1> QED BY MultiLlmRequests, BeginKeeps

-----------------------------------------------------------------------------
(* The ends of processes                                                      *)

(* A job that a process works for was started.                                *)
LEMMA WorkedForIsBegun ==
    ASSUME IInv, NEW j \in Jobs, NEW a \in Attempts, process[j][a] # "none"
    PROVE  ~(j > begun) /\ request[j] \in Request
<1>1. ~(j > begun)
  BY DEF IInv, NotBegun
<1> QED BY <1>1 DEF IInv, TypeOK

(* A job with an attempt still listened to has no result yet, and of its      *)
(* other attempt nothing is left, or nobody listens to it.                    *)
LEMMA ListenedToIsLast ==
    ASSUME IInv, NEW j \in Jobs, NEW a \in Attempts,
           process[j][a] \notin {"none", "closed"}, ~settled[j][a]
    PROVE  /\ result[j] = Pending
           /\ a = "first" => process[j]["second"] = "none"
           /\ \A b \in Attempts \ {a} :
                process[j][b] \notin {"none", "closed"} => settled[j][b]
<1>1. result[j] = Pending
  BY DEF IInv, LateEndsAreSettled
<1>2. CASE a = "first"
  BY <1>1, <1>2 DEF IInv, OneProcessPerJob, Attempts
<1>3. CASE a = "second"
  BY <1>1, <1>3 DEF IInv, OneProcessPerJob, Attempts
<1> QED BY <1>2, <1>3 DEF Attempts

LEMMA ProcessEndsKeeps ==
    ASSUME IInv, NEW j \in Jobs, NEW a \in Attempts, ProcessEnds(j, a)
    PROVE  IInv'
<1>1. PICK e \in Endings : process' = [process EXCEPT ![j][a] = e]
  BY DEF ProcessEnds, Endings
<1>2. process[j][a] = "running" /\ e \notin {"none", "closed"} /\ e \in States
  BY <1>1 DEF ProcessEnds, Endings, States
<1>3. /\ UNCHANGED <<now, begun, call, request, settled, killTimer, context, result,
                     answered, cache, usage, sessions, chunkFiles, hung>>
  BY DEF ProcessEnds
<1>4. process \in [Jobs -> [Attempts -> States]]
  BY DEF IInv, TypeOK
<1>5. TypeOK'
  <2>1. process' \in [Jobs -> [Attempts -> States]]
    BY <1>1, <1>2, <1>4
  <2> QED BY <1>3, <2>1 DEF IInv, TypeOK
<1>6. \A i \in Jobs : i > begun => i # j
  BY <1>2, WorkedForIsBegun
<1>7. NotBegun'
  BY <1>1, <1>3, <1>4, <1>6 DEF IInv, NotBegun
<1>8. \A i \in Jobs, b \in Attempts :
        /\ process'[i][b] \in {"none", "closed"} <=> process[i][b] \in {"none", "closed"}
        /\ process[i][b] = "none" <=> process'[i][b] = "none"
        /\ process[i][b] = "closed" => process'[i][b] = "closed"
  BY <1>1, <1>2, <1>4
<1>9. LateEndsAreSettled'
  BY <1>3, <1>8 DEF IInv, LateEndsAreSettled
<1>10. OneProcessPerJob'
  BY <1>3, <1>8 DEF IInv, OneProcessPerJob, Attempts, TimeoutIsQuota
<1>11. IsCache(cache') /\ CacheIsTrue' /\ CachedAnswersAreAsked'
  BY <1>3 DEF IInv, CacheIsTrue, CachedAnswersAreAsked
<1> QED BY <1>5, <1>7, <1>9, <1>10, <1>11 DEF IInv

(* SIGKILL ends a process that still runs.                                    *)
LEMMA KillTimerFiresKeeps ==
    ASSUME IInv, NEW j \in Jobs, NEW a \in Attempts, KillTimerFires(j, a)
    PROVE  IInv'
<1>1. process' = IF process[j][a] = "running"
                 THEN [process EXCEPT ![j][a] = "error"] ELSE process
  BY DEF KillTimerFires
<1>2. killTimer' = [killTimer EXCEPT ![j][a] = FALSE]
  BY DEF KillTimerFires
<1>3. /\ UNCHANGED <<now, begun, call, request, settled, context, result,
                     answered, cache, usage, sessions, chunkFiles, hung>>
  BY DEF KillTimerFires
<1>4. process \in [Jobs -> [Attempts -> States]]
  BY DEF IInv, TypeOK
<1>5. TypeOK'
  <2>1. process' \in [Jobs -> [Attempts -> States]]
    BY <1>1, <1>4 DEF States, Endings
  <2>2. killTimer' \in [Jobs -> [Attempts -> BOOLEAN]]
    BY <1>2 DEF IInv, TypeOK
  <2> QED BY <1>3, <2>1, <2>2 DEF IInv, TypeOK
<1>6. \A i \in Jobs : i > begun => process'[i] = process[i]
  BY <1>1, <1>4, WorkedForIsBegun
<1>7. NotBegun'
  BY <1>3, <1>6 DEF IInv, NotBegun
<1>8. \A i \in Jobs, b \in Attempts :
        /\ process'[i][b] \in {"none", "closed"} <=> process[i][b] \in {"none", "closed"}
        /\ process[i][b] = "none" <=> process'[i][b] = "none"
        /\ process[i][b] = "closed" => process'[i][b] = "closed"
  BY <1>1, <1>4
<1>9. LateEndsAreSettled'
  BY <1>3, <1>8 DEF IInv, LateEndsAreSettled
<1>10. OneProcessPerJob'
  BY <1>3, <1>8 DEF IInv, OneProcessPerJob, Attempts, TimeoutIsQuota
<1>11. IsCache(cache') /\ CacheIsTrue' /\ CachedAnswersAreAsked'
  BY <1>3 DEF IInv, CacheIsTrue, CachedAnswersAreAsked
<1> QED BY <1>5, <1>7, <1>9, <1>10, <1>11 DEF IInv

-----------------------------------------------------------------------------
(* The promise of an attempt settles                                          *)

(* The attempt that settles closes, or goes on when its timer settled it.     *)
Ended(j, a) == {process, [process EXCEPT ![j][a] = "closed"]}

LEMMA EndedIs ==
    ASSUME IInv, NEW j \in Jobs, NEW a \in Attempts, NEW ended \in Ended(j, a),
           process[j][a] \notin {"none", "closed"}
    PROVE  /\ ended \in [Jobs -> [Attempts -> States]]
           /\ \A i \in Jobs, b \in Attempts : i # j \/ b # a => ended[i][b] = process[i][b]
           /\ \A i \in Jobs : i # j => ended[i] = process[i]
           /\ ended[j][a] \in {process[j][a], "closed"}
<1>1. process \in [Jobs -> [Attempts -> States]]
  BY DEF IInv, TypeOK
<1>2. "closed" \in States
  BY DEF States
<1>3. process[j][a] \in States
  BY <1>1
<1>4. CASE ended = process
  BY <1>1, <1>4
<1>5. CASE ended = [process EXCEPT ![j][a] = "closed"]
  BY <1>1, <1>2, <1>5
<1> QED BY <1>4, <1>5 DEF Ended

(* The job has a result, or keeps the one it has not.                         *)
LEMMA SettlingKeeps ==
    ASSUME IInv, NEW j \in Jobs, NEW a \in Attempts, NEW ended \in Ended(j, a),
           process[j][a] \notin {"none", "closed"}, ~settled[j][a],
           settled' = [settled EXCEPT ![j][a] = TRUE],
           process' = ended,
           NEW v, v.from # "cache",
           result' = result \/ result' = [result EXCEPT ![j] = v],
           UNCHANGED <<begun, request>>
    PROVE  NotBegun' /\ LateEndsAreSettled' /\ OneProcessPerJob' /\ CachedAnswersAreAsked'
<1>1. /\ ended \in [Jobs -> [Attempts -> States]]
      /\ \A i \in Jobs, b \in Attempts : i # j \/ b # a => ended[i][b] = process[i][b]
      /\ \A i \in Jobs : i # j => ended[i] = process[i]
      /\ ended[j][a] \in {process[j][a], "closed"}
  BY EndedIs
<1>2. /\ settled \in [Jobs -> [Attempts -> BOOLEAN]]
      /\ result = [i \in Jobs |-> result[i]]
  BY DEF IInv, TypeOK
<1>3. \A i \in Jobs : i # j => result'[i] = result[i]
  BY <1>2
<1>4. \A i \in Jobs, b \in Attempts : settled'[i][b] <=> settled[i][b] \/ (i = j /\ b = a)
  BY <1>2
<1>5. NotBegun'
  <2>1. ~(j > begun)
    BY WorkedForIsBegun
  <2> QED BY <1>1, <1>3, <2>1 DEF IInv, NotBegun
<1>6. LateEndsAreSettled'
  <2>1. \A b \in Attempts \ {a} : process[j][b] \notin {"none", "closed"} => settled[j][b]
    BY ListenedToIsLast
  <2>2. \A i \in Jobs, b \in Attempts :
            i # j /\ result[i] # Pending /\ process[i][b] \notin {"none", "closed"}
                => settled[i][b]
    BY DEF IInv, LateEndsAreSettled
  <2> QED BY <1>1, <1>3, <1>4, <2>1, <2>2 DEF LateEndsAreSettled
<1>7. OneProcessPerJob'
  <2>1. \A i \in Jobs : process[i]["second"] # "none" =>
            \/ process[i]["first"] = "closed"
            \/ TimeoutIsQuota(request[i]) /\ settled[i]["first"]
    BY DEF IInv, OneProcessPerJob
  <2>2. \A i \in Jobs : ended[i]["second"] # "none" => process[i]["second"] # "none"
    BY <1>1 DEF Attempts
  <2>3. \A i \in Jobs : process[i]["first"] = "closed" => ended[i]["first"] = "closed"
    BY <1>1 DEF Attempts
  <2>4. \A i \in Jobs : settled[i]["first"] => settled'[i]["first"]
    BY <1>4 DEF Attempts
  <2> QED BY <2>1, <2>2, <2>3, <2>4 DEF OneProcessPerJob, TimeoutIsQuota
<1>8. CachedAnswersAreAsked'
  <2>1. result'[j].from # "cache" \/ result' = result
    BY <1>2
  <2> QED BY <1>3, <2>1 DEF IInv, CachedAnswersAreAsked
<1> QED BY <1>5, <1>6, <1>7, <1>8

(* The fallback model starts when the first attempt is over, or was a timeout *)
(* that reads as a quota error.                                               *)
LEMMA FallbackKeeps ==
    ASSUME IInv, NEW j \in Jobs, NEW ended \in Ended(j, "first"),
           process[j]["first"] \notin {"none", "closed"}, ~settled[j]["first"],
           settled' = [settled EXCEPT ![j]["first"] = TRUE],
           ended = [process EXCEPT ![j]["first"] = "closed"] \/ TimeoutIsQuota(request[j]),
           process' = [ended EXCEPT ![j]["second"] = "running"],
           UNCHANGED <<begun, request, result>>
    PROVE  NotBegun' /\ LateEndsAreSettled' /\ OneProcessPerJob' /\ CachedAnswersAreAsked'
<1> "first" \in Attempts /\ "second" \in Attempts
  BY DEF Attempts
<1>1. /\ ended \in [Jobs -> [Attempts -> States]]
      /\ \A i \in Jobs : i # j => ended[i] = process[i]
  BY EndedIs
<1>2. \A i \in Jobs : i # j => process'[i] = process[i]
  BY <1>1
<1>3. settled \in [Jobs -> [Attempts -> BOOLEAN]] /\ process \in [Jobs -> [Attempts -> States]]
  BY DEF IInv, TypeOK
<1>4. \A i \in Jobs, b \in Attempts :
        settled'[i][b] <=> settled[i][b] \/ (i = j /\ b = "first")
  BY <1>3
<1>5. result[j] = Pending
  BY ListenedToIsLast
<1>6. NotBegun'
  <2>1. ~(j > begun)
    BY WorkedForIsBegun
  <2> QED BY <1>2, <2>1 DEF IInv, NotBegun
<1>7. LateEndsAreSettled'
  BY <1>2, <1>4, <1>5 DEF IInv, LateEndsAreSettled
<1>8. OneProcessPerJob'
  <2>1. CASE ended = [process EXCEPT ![j]["first"] = "closed"]
    <3>1. process'[j]["first"] = "closed"
      BY <1>1, <1>3, <2>1
    <3> QED BY <1>2, <1>4, <3>1 DEF IInv, OneProcessPerJob, TimeoutIsQuota
  <2>2. CASE TimeoutIsQuota(request[j])
    BY <1>2, <1>4, <2>2 DEF IInv, OneProcessPerJob, TimeoutIsQuota
  <2> QED BY <2>1, <2>2
<1>9. CachedAnswersAreAsked'
  BY DEF IInv, CachedAnswersAreAsked
<1> QED BY <1>6, <1>7, <1>8, <1>9

(* An attempt that failed.                                                    *)
LEMMA RejectedKeeps ==
    ASSUME IInv, NEW j \in Jobs, NEW a \in Attempts, NEW e, NEW ended \in Ended(j, a),
           process[j][a] \notin {"none", "closed"}, ~settled[j][a],
           settled' = [settled EXCEPT ![j][a] = TRUE],
           ended = [process EXCEPT ![j][a] = "closed"] \/ e \in {"timeout", "error"},
           Rejected(j, a, e, ended),
           killTimer' \in [Jobs -> [Attempts -> BOOLEAN]],
           UNCHANGED <<now, begun, call, request, answered>>
    PROVE  IInv'
<1>1. ended \in [Jobs -> [Attempts -> States]]
  BY EndedIs
<1>2. UNCHANGED <<cache, usage, sessions, chunkFiles, hung>>
  BY DEF Rejected
<1>3. settled' \in [Jobs -> [Attempts -> BOOLEAN]] /\ result = [i \in Jobs |-> result[i]]
  BY DEF IInv, TypeOK
<1>4. CASE CallsForFallback(request[j], a, e)
  <2>1. process' = [ended EXCEPT ![j]["second"] = "running"] /\ result' = result
    BY <1>4 DEF Rejected
  <2>2. a = "first" /\ (e = "timeout" => TimeoutIsQuota(request[j]))
    BY <1>4 DEF CallsForFallback
  <2>a. ended = [process EXCEPT ![j][a] = "closed"] \/ e = "timeout"
    BY <1>4 DEF CallsForFallback
  <2>3. process' \in [Jobs -> [Attempts -> States]]
    BY <1>1, <2>1 DEF States
  <2>4. TypeOK'
    BY <1>2, <1>3, <2>1, <2>3 DEF IInv, TypeOK
  <2>5. NotBegun' /\ LateEndsAreSettled' /\ OneProcessPerJob' /\ CachedAnswersAreAsked'
    BY <2>1, <2>2, <2>a, FallbackKeeps
  <2>6. IsCache(cache') /\ CacheIsTrue'
    BY <1>2 DEF IInv, CacheIsTrue
  <2> QED BY <2>4, <2>5, <2>6 DEF IInv
<1>5. CASE ~CallsForFallback(request[j], a, e)
  <2>1. process' = ended /\ result' = [result EXCEPT ![j] = Failed]
    BY <1>5 DEF Rejected
  <2>2. Failed.from = "failed"
    BY DEF Failed
  <2>3. TypeOK'
    <3>1. result' = [i \in Jobs |-> result'[i]]
      BY <1>3, <2>1
    <3>2. \A i \in Jobs : result'[i] = result[i] \/ result'[i].from = "failed"
      BY <1>3, <2>1, <2>2
    <3>3. \A i \in Jobs :
            /\ result'[i].from \in {"pending", "failed", "cache"} \cup Attempts
            /\ result'[i].from \in {"cache"} \cup Attempts => result'[i].response \in Response
      BY <3>2 DEF IInv, TypeOK, Attempts
    <3> QED BY <1>1, <1>2, <1>3, <2>1, <3>1, <3>3 DEF IInv, TypeOK
  <2>4. NotBegun' /\ LateEndsAreSettled' /\ OneProcessPerJob' /\ CachedAnswersAreAsked'
    BY <2>1, <2>2, SettlingKeeps
  <2>5. IsCache(cache') /\ CacheIsTrue'
    BY <1>2 DEF IInv, CacheIsTrue
  <2> QED BY <2>3, <2>4, <2>5 DEF IInv
<1> QED BY <1>4, <1>5

(* What an attempt with a reply does to the cache and the usage.              *)
LEMMA CacheAfterIsCache ==
    ASSUME IInv, NEW j \in Jobs, NEW a \in Attempts, NEW e, request[j] \in Request
    PROVE  IsCache(CacheAfter(j, a, e))
<1> DEFINE r == request[j]
           response == [provider |-> r.provider, prompt |-> r.prompt, model |-> ModelOf(j, a)]
<1>1. IsCache(cache) /\ now \in Nat /\ MaxTime \in Nat
  BY DEF IInv, TypeOK
<1>2. ByteSize[r.prompt] \in Nat
  BY DEF Request
<1>3. IsCache(Set(cache, buildKey(r), response, ByteSize[r.prompt], now))
  BY <1>1, <1>2, SetKeeps
<1> QED BY <1>1, <1>3 DEF CacheAfter

LEMMA CacheAfterKeeps ==
    ASSUME IInv, NEW j \in Jobs, NEW a \in Attempts, NEW e, request[j] \in Request,
           NEW f \in CacheAfter(j, a, e).entries
    PROVE  \/ f \in cache.entries
           \/ /\ IsEntry(f) /\ f.response = f.key
              /\ f.response \in Response /\ f.createdAt = now
<1> DEFINE r == request[j]
           response == [provider |-> r.provider, prompt |-> r.prompt, model |-> ModelOf(j, a)]
<1>1. CASE IsCached(r, a, e)
  <2>1. a = "first" /\ response = buildKey(r)
    BY <1>1 DEF IsCached, ModelOf, buildKey
  <2>2. buildKey(r) \in Response
    BY DEF buildKey, Request, Response
  <2>3. CacheAfter(j, a, e) = Set(cache, buildKey(r), response, ByteSize[r.prompt], now)
    BY <1>1 DEF CacheAfter
  <2> HIDE DEF r, response
  <2> QED BY <2>1, <2>2, <2>3, SetAddsOne
<1>2. CASE ~IsCached(r, a, e)
  BY <1>2 DEF CacheAfter
<1> QED BY <1>1, <1>2

LEMMA UsageAfterTypes ==
    ASSUME IInv, NEW j \in Jobs, NEW a \in Attempts, NEW e, request[j] \in Request
    PROVE  UsageAfter(j, a, e) \in [Providers -> [calls : Nat, fellBack : Nat]]
<1> DEFINE p == request[j].provider
           d == IF a = "second" THEN 1 ELSE 0
<1>1. usage \in [Providers -> [calls : Nat, fellBack : Nat]] /\ d \in Nat
  BY DEF IInv, TypeOK
<1>2. p \in Providers
  BY DEF Request
<1>3. usage[p].calls + 1 \in Nat /\ usage[p].fellBack + d \in Nat
  BY <1>1, <1>2
<1> HIDE DEF p, d
<1>4. [usage EXCEPT ![p].calls = @ + 1, ![p].fellBack = @ + d]
        \in [Providers -> [calls : Nat, fellBack : Nat]]
  BY <1>1, <1>2, <1>3
<1> QED BY <1>1, <1>4 DEF UsageAfter, p, d

(* An attempt that replied.                                                   *)
LEMMA ResolvedKeeps ==
    ASSUME IInv, NEW j \in Jobs, NEW a \in Attempts, NEW e, NEW ended \in Ended(j, a),
           process[j][a] \notin {"none", "closed"}, ~settled[j][a],
           settled' = [settled EXCEPT ![j][a] = TRUE],
           Resolved(j, a, e, ended),
           UNCHANGED <<now, begun, call, request, killTimer, answered>>
    PROVE  IInv'
<1>1. request[j] \in Request
  BY WorkedForIsBegun
<1>2. ended \in [Jobs -> [Attempts -> States]]
  BY EndedIs
<1>3. process' = ended /\ usage' = UsageAfter(j, a, e)
  BY DEF Resolved
<1>4. /\ settled' \in [Jobs -> [Attempts -> BOOLEAN]]
      /\ usage' \in [Providers -> [calls : Nat, fellBack : Nat]]
  BY <1>1, <1>3, UsageAfterTypes DEF IInv, TypeOK
<1>5. \E v : /\ v.from = a /\ v.response \in Response
             /\ \/ result' = result /\ hung' = TRUE /\ cache' = cache
                \/ /\ result' = [result EXCEPT ![j] = v] /\ hung' = hung
                   /\ cache' = CacheAfter(j, a, e)
  <2>1. PICK blocks : \/ hung' = TRUE /\ UNCHANGED <<result, cache>>
                      \/ /\ result' = [result EXCEPT ![j] =
                                [from |-> a, edits |-> parseChangeModeOutput(blocks),
                                 response |-> [provider |-> request[j].provider,
                                               prompt |-> request[j].prompt,
                                               model |-> ModelOf(j, a)]]]
                         /\ cache' = CacheAfter(j, a, e)
                         /\ UNCHANGED hung
    BY DEF Resolved
  <2> DEFINE response == [provider |-> request[j].provider,
                          prompt |-> request[j].prompt, model |-> ModelOf(j, a)]
             v == [from |-> a, edits |-> parseChangeModeOutput(blocks), response |-> response]
  <2>2. ModelOf(j, a) \in Models
    BY <1>1 DEF ModelOf, Models, Request
  <2>3. response \in Response
    BY <1>1, <2>2 DEF Request, Response
  <2> HIDE DEF response
  <2>4. v.from = a /\ v.response \in Response
    BY <2>3
  <2>5. \/ result' = result /\ hung' = TRUE /\ cache' = cache
        \/ /\ result' = [result EXCEPT ![j] = v] /\ hung' = hung
           /\ cache' = CacheAfter(j, a, e)
    BY <2>1 DEF response
  <2> HIDE DEF v
  <2> QED BY <2>4, <2>5
<1>6. PICK v : /\ v.from = a /\ v.response \in Response
               /\ \/ result' = result /\ hung' = TRUE /\ cache' = cache
                  \/ /\ result' = [result EXCEPT ![j] = v] /\ hung' = hung
                     /\ cache' = CacheAfter(j, a, e)
  BY <1>5
<1>7. v.from # "cache"
  BY <1>6 DEF Attempts
<1>8. NotBegun' /\ LateEndsAreSettled' /\ OneProcessPerJob' /\ CachedAnswersAreAsked'
  BY <1>3, <1>6, <1>7, SettlingKeeps
<1>9. \A f \in cache'.entries :
        \/ f \in cache.entries
        \/ /\ IsEntry(f) /\ f.response = f.key
           /\ f.response \in Response /\ f.createdAt = now
  BY <1>1, <1>6, CacheAfterKeeps
<1>10. IsCache(cache') /\ CacheIsTrue'
  <2>1. IsCache(cache')
    BY <1>1, <1>6, CacheAfterIsCache DEF IInv
  <2> QED BY <1>9, <2>1 DEF IInv, CacheIsTrue
<1>11. TypeOK'
  <2>1. result = [i \in Jobs |-> result[i]]
    BY DEF IInv, TypeOK
  <2>2. result' = [i \in Jobs |-> result'[i]]
    BY <1>6, <2>1
  <2>3. \A i \in Jobs : \/ result'[i] = result[i]
                        \/ result'[i].from = a /\ result'[i].response \in Response
    BY <1>6, <2>1
  <2>4. \A i \in Jobs :
        /\ result'[i].from \in {"pending", "failed", "cache"} \cup Attempts
        /\ result'[i].from \in {"cache"} \cup Attempts => result'[i].response \in Response
    BY <2>3 DEF IInv, TypeOK
  <2>5. \A f \in cache'.entries : f.response \in Response /\ f.createdAt \in 0..now'
    BY <1>9 DEF IInv, TypeOK
  <2>6. hung' \in BOOLEAN
    BY <1>6 DEF IInv, TypeOK
  <2> QED BY <1>2, <1>3, <1>4, <2>2, <2>4, <2>5, <2>6 DEF IInv, TypeOK
<1> QED BY <1>8, <1>10, <1>11 DEF IInv

(* A late end is not listened to.                                             *)
LEMMA CloseKeeps ==
    ASSUME IInv, NEW j \in Jobs, NEW a \in Attempts, Close(j, a)
    PROVE  IInv'
<1> DEFINE e == process[j][a]
           ended == [process EXCEPT ![j][a] = "closed"]
<1>1. e \notin {"none", "closed"} /\ ended \in Ended(j, a)
  BY DEF Close, Endings, Ended
<1>2. /\ settled' = [settled EXCEPT ![j][a] = TRUE]
      /\ UNCHANGED <<now, begun, call, request, killTimer, context, answered>>
  BY DEF Close
<1>3. CASE settled[j][a]
  <2>1. process' = ended /\ UNCHANGED <<result, cache, usage, sessions, chunkFiles, hung>>
    BY <1>3 DEF Close
  <2>2. settled' = settled
    BY <1>2, <1>3 DEF IInv, TypeOK
  <2>3. /\ ended \in [Jobs -> [Attempts -> States]]
        /\ \A i \in Jobs, b \in Attempts : i # j \/ b # a => ended[i][b] = process[i][b]
        /\ \A i \in Jobs : i # j => ended[i] = process[i]
        /\ ended[j][a] = "closed"
    <3>1. process \in [Jobs -> [Attempts -> States]]
      BY DEF IInv, TypeOK
    <3>2. ended[j][a] = "closed"
      BY <3>1
    <3> HIDE DEF ended, e
    <3>3. process[j][a] \notin {"none", "closed"}
      BY <1>1 DEF e
    <3> QED BY <1>1, <3>2, <3>3, EndedIs
  <2> HIDE DEF ended
  <2>4. TypeOK'
    BY <1>2, <2>1, <2>2, <2>3 DEF IInv, TypeOK
  <2>5. NotBegun'
    <3>1. ~(j > begun)
      BY <1>1, WorkedForIsBegun
    <3> QED BY <1>2, <2>1, <2>3, <3>1 DEF IInv, NotBegun
  <2>6. LateEndsAreSettled'
    BY <2>1, <2>2, <2>3 DEF IInv, LateEndsAreSettled
  <2>7. OneProcessPerJob'
    <3>1. \A i \in Jobs : ended[i]["second"] # "none" => process[i]["second"] # "none"
      BY <1>1, <2>3 DEF Attempts
    <3>2. \A i \in Jobs : process[i]["first"] = "closed" => ended[i]["first"] = "closed"
      BY <2>3 DEF Attempts
    <3> QED BY <1>2, <2>1, <2>2, <3>1, <3>2 DEF IInv, OneProcessPerJob, TimeoutIsQuota
  <2>8. IsCache(cache') /\ CacheIsTrue' /\ CachedAnswersAreAsked'
    BY <1>2, <2>1 DEF IInv, CacheIsTrue, CachedAnswersAreAsked
  <2> QED BY <2>4, <2>5, <2>6, <2>7, <2>8 DEF IInv
<1>4. CASE ~settled[j][a]
  <2>1. CASE Resolved(j, a, e, ended)
    BY <1>1, <1>2, <1>4, <2>1, ResolvedKeeps
  <2>2. CASE Rejected(j, a, e, ended)
    <3>1. killTimer' \in [Jobs -> [Attempts -> BOOLEAN]]
      BY <1>2 DEF IInv, TypeOK
    <3> QED BY <1>1, <1>2, <1>4, <2>2, <3>1, RejectedKeeps
  <2>3. CASE SaveThrows(j, a, e, ended)
    <3>1. killTimer' \in [Jobs -> [Attempts -> BOOLEAN]]
      BY <1>2 DEF IInv, TypeOK
    <3>2. Rejected(j, a, "error", ended)
      BY <2>3 DEF SaveThrows
    <3> QED BY <1>1, <1>2, <1>4, <3>1, <3>2, RejectedKeeps
  <2> QED BY <1>4, <2>1, <2>2, <2>3 DEF Close
<1> QED BY <1>3, <1>4

LEMMA TimeoutKeeps ==
    ASSUME IInv, NEW j \in Jobs, NEW a \in Attempts, Timeout(j, a)
    PROVE  IInv'
<1>1. killTimer' \in [Jobs -> [Attempts -> BOOLEAN]]
  BY DEF Timeout, IInv, TypeOK
<1>2. process \in Ended(j, a)
  BY DEF Ended
<1>3. /\ process[j][a] \notin {"none", "closed"} /\ ~settled[j][a]
      /\ settled' = [settled EXCEPT ![j][a] = TRUE]
      /\ Rejected(j, a, "timeout", process)
      /\ UNCHANGED <<now, begun, call, request, answered>>
  BY DEF Timeout
<1> QED BY <1>1, <1>2, <1>3, RejectedKeeps

LEMMA SpawnFailsKeeps ==
    ASSUME IInv, NEW j \in Jobs, NEW a \in Attempts, SpawnFails(j, a)
    PROVE  IInv'
<1>1. killTimer' \in [Jobs -> [Attempts -> BOOLEAN]]
  BY DEF SpawnFails, IInv, TypeOK
<1>2. process \in Ended(j, a)
  BY DEF Ended
<1>3. /\ process[j][a] \notin {"none", "closed"} /\ ~settled[j][a]
      /\ settled' = [settled EXCEPT ![j][a] = TRUE]
      /\ Rejected(j, a, "error", process)
      /\ UNCHANGED <<now, begun, call, request, answered>>
  BY DEF SpawnFails
<1> QED BY <1>1, <1>2, <1>3, RejectedKeeps

(* An answer to the client, a file that expires, and the clock.               *)
LEMMA RestKeeps ==
    ASSUME IInv, (\E c \in Jobs : Respond(c)) \/ SessionExpires \/ ChunkFileExpires \/ Tick
    PROVE  IInv'
<1>1. /\ UNCHANGED <<begun, call, request, process, settled, killTimer, result,
                     cache, usage, hung>>
      /\ answered' \subseteq Jobs
      /\ now' \in 0..MaxTime /\ now <= now'
  BY DEF Respond, SessionExpires, ChunkFileExpires, Tick, IInv, TypeOK
<1>2. TypeOK'
  <2>1. now \in Nat /\ now' \in Nat
    BY <1>1 DEF IInv, TypeOK
  <2>2. \A e \in cache'.entries : e.response \in Response /\ e.createdAt \in 0..now'
    BY <1>1, <2>1 DEF IInv, TypeOK
  <2> QED BY <1>1, <2>2 DEF IInv, TypeOK
<1>3. NotBegun' /\ LateEndsAreSettled' /\ IsCache(cache') /\ CacheIsTrue'
  BY <1>1 DEF IInv, NotBegun, LateEndsAreSettled, CacheIsTrue
<1>4. OneProcessPerJob' /\ CachedAnswersAreAsked'
  BY <1>1 DEF IInv, OneProcessPerJob, CachedAnswersAreAsked, TimeoutIsQuota
<1> QED BY <1>2, <1>3, <1>4 DEF IInv

LEMMA NextKeeps == IInv /\ [Next]_vars => IInv'
<1> SUFFICES ASSUME IInv, [Next]_vars PROVE IInv'
  OBVIOUS
<1>1. CASE Ask
  BY <1>1, AskKeeps
<1>2. CASE MultiLlm
  BY <1>2, MultiLlmKeeps
<1>3. ASSUME NEW j \in Jobs, NEW a \in Attempts,
             \/ ProcessEnds(j, a) \/ Close(j, a) \/ SpawnFails(j, a)
             \/ Timeout(j, a) \/ KillTimerFires(j, a)
      PROVE  IInv'
  BY <1>3, ProcessEndsKeeps, CloseKeeps, SpawnFailsKeeps, TimeoutKeeps, KillTimerFiresKeeps
<1>4. CASE (\E c \in Jobs : Respond(c)) \/ SessionExpires \/ ChunkFileExpires \/ Tick
  BY <1>4, RestKeeps
<1>5. CASE UNCHANGED vars
  BY <1>5 DEF vars, IInv, TypeOK, NotBegun, LateEndsAreSettled, CacheIsTrue,
              OneProcessPerJob, CachedAnswersAreAsked, TimeoutIsQuota
<1> QED BY <1>1, <1>2, <1>3, <1>4, <1>5 DEF Next

(* Of a job that has its result, a step changes at most processes nobody      *)
(* listens to.                                                                *)
LEMMA StepsLetAnswersStand ==
    ASSUME IInv, [Next]_vars, NEW j \in Jobs, result[j] # Pending
    PROVE  /\ result'[j] = result[j]
           /\ \A a \in Attempts : process[j][a] # process'[j][a] =>
                UNCHANGED <<cache, usage, sessions, chunkFiles>>
<1> DEFINE Stands == /\ result'[j] = result[j]
                     /\ \A a \in Attempts : process[j][a] # process'[j][a] =>
                            UNCHANGED <<cache, usage, sessions, chunkFiles>>
<1>1. /\ result = [i \in Jobs |-> result[i]]
      /\ process \in [Jobs -> [Attempts -> States]]
      /\ j <= begun
  BY DEF IInv, TypeOK, NotBegun, Jobs
<1>2. ASSUME NEW n \in Nat, NEW rs \in [1..n -> Request], Begin(rs)
      PROVE  Stands
  <2>1. begun \in Nat /\ \A k \in DOMAIN rs : begun + k # j
    BY <1>1 DEF IInv, TypeOK, Jobs
  <2>2. j \notin {begun + k : k \in DOMAIN rs}
    BY <2>1
  <2>3. result'[j] = result[j] /\ process'[j] = process[j]
    BY <1>2, <2>2 DEF Begin
  <2> QED BY <2>3
<1>3. CASE Ask
  <2>1. PICK r \in Requests : Begin(<<r>>)
    BY <1>3 DEF Ask
  <2>2. <<r>> \in [1..1 -> Request]
    OBVIOUS
  <2> QED BY <1>2, <2>1, <2>2
<1>4. CASE MultiLlm
  <2>1. PICK p \in Prompts, ps \in SUBSET Providers :
            Begin(SetToSeq({[tool |-> "ask", provider |-> q, prompt |-> p,
                             model |-> "default", session |-> NoSession] : q \in ps}))
    BY <1>4 DEF MultiLlm
  <2> QED BY <1>2, <2>1, MultiLlmRequests
<1>5. ASSUME NEW i \in Jobs, NEW a \in Attempts, ProcessEnds(i, a) \/ KillTimerFires(i, a)
      PROVE  Stands
  BY <1>5 DEF ProcessEnds, KillTimerFires
<1>6. ASSUME NEW i \in Jobs, NEW a \in Attempts, Close(i, a)
      PROVE  Stands
  <2>1. process[i][a] \notin {"none", "closed"}
    BY <1>6 DEF Close, Endings
  <2>2. CASE settled[i][a]
    BY <1>6, <2>2 DEF Close
  <2>3. CASE ~settled[i][a]
    <3>1. i # j
      BY <2>1, <2>3, ListenedToIsLast
    <3>2. process'[j] = process[j] /\ result'[j] = result[j]
      BY <1>1, <1>6, <2>3, <3>1 DEF Close, Resolved, SaveThrows, Rejected
    <3> QED BY <3>2
  <2> QED BY <2>2, <2>3
<1>7. ASSUME NEW i \in Jobs, NEW a \in Attempts, SpawnFails(i, a) \/ Timeout(i, a)
      PROVE  Stands
  <2>1. i # j
    BY <1>7, ListenedToIsLast DEF SpawnFails, Timeout
  <2> QED BY <1>1, <1>7, <2>1 DEF SpawnFails, Timeout, Rejected
<1>8. CASE (\E c \in Jobs : Respond(c)) \/ SessionExpires \/ ChunkFileExpires \/ Tick
  BY <1>8 DEF Respond, SessionExpires, ChunkFileExpires, Tick
<1>9. CASE UNCHANGED vars
  BY <1>9 DEF vars
<1> QED BY <1>3, <1>4, <1>5, <1>6, <1>7, <1>8, <1>9 DEF Next

-----------------------------------------------------------------------------
(* Nobody is forgotten                                                        *)

(* The parts of NobodyIsForgotten about one job, and about its processes.     *)
IsListenedTo(j) ==
    hung \/ \E a \in Attempts : process[j][a] \notin {"none", "closed"} /\ ~settled[j][a]

IsAttended(j) ==
    \A a \in Attempts :
        /\ settled[j][a] /\ process[j][a] = "running" => killTimer[j][a]
        /\ process[j][a] = "none" => ~settled[j][a]

JobsAreAttended ==
    \A j \in Jobs : IsAttended(j) /\ (j <= begun /\ result[j] = Pending => IsListenedTo(j))

(* Only the calls are left once the jobs are attended to.                     *)
CallsAreComplete ==
    \A j \in Jobs :
        /\ call[j] \in answered => result[j] # Pending
        /\ j > begun => call[j] = 0 /\ j \notin answered

LEMMA NobodyIsForgottenIs ==
    ASSUME IInv
    PROVE  NobodyIsForgotten /\ NothingBeforeItsStart <=> JobsAreAttended /\ CallsAreComplete
<1>1. begun \in Nat /\ begun <= JobBound /\ JobBound \in Nat
  BY DEF IInv, TypeOK
<1>2. \A j : j \in 1..begun <=> j \in Jobs /\ j <= begun
  BY <1>1 DEF Jobs
<1> QED BY <1>2 DEF NobodyIsForgotten, NothingBeforeItsStart, JobsAreAttended,
                    CallsAreComplete, IsAttended, IsListenedTo

(* A job that begins has a process at work, or its result.                    *)
LEMMA BeginAttends ==
    ASSUME IInv, JobsAreAttended, CallsAreComplete,
           NEW n \in Nat, NEW rs \in [1..n -> Request], Begin(rs)
    PROVE  JobsAreAttended' /\ CallsAreComplete'
<1> DEFINE new == (begun + 1)..(begun + n)
           asked(j) == rs[j - begun]
           hit(j) == IF isCacheable(asked(j)) THEN Fresh(cache, buildKey(asked(j)), now) ELSE {}
<1>1. DOMAIN rs = 1..n /\ Len(rs) = n
  OBVIOUS
<1>2. begun \in Nat /\ JobBound \in Nat
  BY DEF IInv, TypeOK
<1>3. {begun + i : i \in DOMAIN rs} = new
  <2>1. \A j \in new : j - begun \in 1..n /\ j = begun + (j - begun)
    BY <1>2
  <2>2. \A i \in 1..n : begun + i \in new
    BY <1>2
  <2> QED BY <1>1, <2>1, <2>2
<1>4. /\ begun' = begun + n
      /\ UNCHANGED <<settled, killTimer, answered, hung>>
  BY <1>1 DEF Begin
<1>5. call' = [j \in Jobs |-> IF j \in new THEN begun + 1 ELSE call[j]]
  BY <1>3 DEF Begin
<1>6. process' = [j \in Jobs |->
                IF j \in new /\ hit(j) = {}
                THEN [process[j] EXCEPT !["first"] = "running"] ELSE process[j]]
  BY <1>3 DEF Begin
<1>7. result' = [j \in Jobs |->
                IF j \in new /\ hit(j) # {}
                THEN LET e == CHOOSE e \in hit(j) : TRUE
                     IN  [from |-> "cache", response |-> e.response, age |-> now - e.createdAt]
                ELSE result[j]]
  BY <1>3 DEF Begin
<1>8. \A j \in Jobs : j \in new /\ hit(j) # {} => result'[j] # Pending
  <2> HIDE DEF hit, new
  <2> QED BY <1>7 DEF Pending
<1>9. \A j \in Jobs : hit(j) = {} \/ j \notin new => result'[j] = result[j]
  BY <1>7
<1> HIDE DEF hit, asked
<1>10. \A j \in Jobs : j \in new => process[j] = [a \in Attempts |-> "none"]
  BY <1>2 DEF IInv, NotBegun, Jobs
<1>11. \A j \in Jobs : j > begun' => j > begun /\ j \notin new
  BY <1>2, <1>4 DEF Jobs
<1>12. \A j \in Jobs : j <= begun' /\ j \notin new => j <= begun
  BY <1>2, <1>4 DEF Jobs
<1>13. \A j \in Jobs : j \in new => \A a \in Attempts : ~settled[j][a]
  BY <1>10 DEF JobsAreAttended, IsAttended
<1>14. begun + 1 \notin answered \/ new \cap Jobs = {}
  <2>1. ASSUME NEW j \in Jobs, j \in new
        PROVE  begun + 1 \in Jobs /\ begun + 1 > begun
    BY <1>2, <2>1 DEF Jobs
  <2> QED BY <2>1 DEF CallsAreComplete
<1> HIDE DEF new
<1>15. ASSUME NEW j \in Jobs
       PROVE  IsAttended(j)' /\ (j <= begun' /\ result'[j] = Pending => IsListenedTo(j)')
  <2>1. CASE j \notin new
    <3>1. process'[j] = process[j] /\ result'[j] = result[j]
      BY <1>6, <1>9, <2>1
    <3> QED BY <1>4, <1>12, <2>1, <3>1 DEF JobsAreAttended, IsAttended, IsListenedTo
  <2>2. CASE j \in new
    <3>1. \A a \in Attempts : ~settled'[j][a]
      BY <1>4, <1>13, <2>2
    <3>2. hit(j) = {} => process'[j]["first"] = "running"
      BY <1>6, <1>10, <2>2 DEF Attempts
    <3> QED BY <1>8, <2>2, <3>1, <3>2 DEF IsAttended, IsListenedTo, Attempts
  <2> QED BY <2>1, <2>2
<1>16. JobsAreAttended'
  BY <1>15 DEF JobsAreAttended
<1>17. CallsAreComplete'
  <2>1. \A j \in Jobs : j \in new => call'[j] \notin answered'
    BY <1>4, <1>5, <1>14
  <2>2. \A j \in Jobs : j \notin new => call'[j] = call[j] /\ result'[j] = result[j]
    BY <1>5, <1>9
  <2> QED BY <1>4, <1>11, <2>1, <2>2 DEF CallsAreComplete
<1> QED BY <1>16, <1>17

(* An attempt that settles is followed by the fallback, or the job has its    *)
(* result, or the server hangs; a process that may run on has SIGKILL due.    *)
GoesOn(j, a, ended) ==
    \/ process' = ended /\ \E v : v # Pending /\ result' = [result EXCEPT ![j] = v]
    \/ process' = ended /\ result' = result /\ hung'
    \/ /\ a = "first" /\ process' = [ended EXCEPT ![j]["second"] = "running"]
       /\ result' = result

IsOverOrKilled(j, a, ended) ==
    \/ ended = [process EXCEPT ![j][a] = "closed"] /\ killTimer' = killTimer
    \/ ended[j][a] = "error" /\ killTimer' = killTimer
    \/ killTimer' = [killTimer EXCEPT ![j][a] = TRUE]

LEMMA SettlingAttends ==
    ASSUME IInv, JobsAreAttended, NEW j \in Jobs, NEW a \in Attempts, NEW ended \in Ended(j, a),
           process[j][a] \notin {"none", "closed"}, ~settled[j][a],
           settled' = [settled EXCEPT ![j][a] = TRUE],
           IsOverOrKilled(j, a, ended), GoesOn(j, a, ended),
           begun' = begun, hung => hung'
    PROVE  JobsAreAttended'
<1> "first" \in Attempts /\ "second" \in Attempts
  BY DEF Attempts
<1>1. /\ ended \in [Jobs -> [Attempts -> States]]
      /\ \A i \in Jobs, b \in Attempts : i # j \/ b # a => ended[i][b] = process[i][b]
      /\ \A i \in Jobs : i # j => ended[i] = process[i]
      /\ ended[j][a] \in {process[j][a], "closed"}
  BY EndedIs
<1>2. /\ settled \in [Jobs -> [Attempts -> BOOLEAN]]
      /\ killTimer \in [Jobs -> [Attempts -> BOOLEAN]]
      /\ process \in [Jobs -> [Attempts -> States]]
      /\ result = [i \in Jobs |-> result[i]]
  BY DEF IInv, TypeOK
<1>3. \A i \in Jobs, b \in Attempts :
        /\ settled'[i][b] <=> settled[i][b] \/ (i = j /\ b = a)
        /\ killTimer[i][b] => killTimer'[i][b]
  BY <1>2 DEF IsOverOrKilled
<1>4. ASSUME NEW i \in Jobs, i # j
      PROVE  IsAttended(i)' /\ (i <= begun' /\ result'[i] = Pending => IsListenedTo(i)')
  <2>1. process'[i] = process[i] /\ result'[i] = result[i] /\ begun' = begun /\ (hung => hung')
    BY <1>1, <1>2, <1>4 DEF GoesOn
  <2>2. \A b \in Attempts : settled'[i][b] <=> settled[i][b]
    BY <1>3, <1>4
  <2>3. \A b \in Attempts : killTimer[i][b] => killTimer'[i][b]
    BY <1>3
  <2>4. IsAttended(i) /\ (i <= begun /\ result[i] = Pending => IsListenedTo(i))
    BY DEF JobsAreAttended
  <2> QED BY <2>1, <2>2, <2>3, <2>4 DEF IsAttended, IsListenedTo
<1>5. IsAttended(j)
  BY DEF JobsAreAttended
<1>6. a = "first" => process[j]["second"] = "none"
  BY ListenedToIsLast
<1>7. a = "first" => ~settled'[j]["second"]
  BY <1>3, <1>5, <1>6 DEF IsAttended
<1>8. ended[j][a] = "running" => killTimer'[j][a]
  BY <1>2 DEF IsOverOrKilled
<1>9. ended[j][a] # "none"
  BY <1>1
<1>10. CASE process' = ended
  <2>1. IsAttended(j)'
    <3> SUFFICES ASSUME NEW b \in Attempts
                 PROVE  /\ settled'[j][b] /\ process'[j][b] = "running" => killTimer'[j][b]
                        /\ process'[j][b] = "none" => ~settled'[j][b]
      BY DEF IsAttended
    <3>1. CASE b = a
      BY <1>8, <1>9, <1>10, <3>1
    <3>2. CASE b # a
      BY <1>1, <1>3, <1>5, <1>10, <3>2 DEF IsAttended
    <3> QED BY <3>1, <3>2
  <2>2. result'[j] = Pending => IsListenedTo(j)'
    <3>1. CASE \E v : v # Pending /\ result' = [result EXCEPT ![j] = v]
      BY <1>2, <3>1
    <3>2. CASE hung'
      BY <3>2 DEF IsListenedTo
    <3>3. CASE process' = [ended EXCEPT ![j]["second"] = "running"] /\ a = "first"
      <4>1. process'[j]["second"] = "running"
        BY <1>1, <3>3
      <4> QED BY <1>7, <3>3, <4>1 DEF IsListenedTo
    <3> QED BY <3>1, <3>2, <3>3 DEF GoesOn
  <2> QED BY <1>4, <2>1, <2>2 DEF JobsAreAttended
<1>11. CASE a = "first" /\ process' = [ended EXCEPT ![j]["second"] = "running"]
  <2>1. process'[j]["second"] = "running" /\ process'[j]["first"] = ended[j]["first"]
    BY <1>1, <1>11
  <2>2. IsAttended(j)' /\ IsListenedTo(j)'
    BY <1>7, <1>8, <1>9, <1>11, <2>1 DEF IsAttended, IsListenedTo, Attempts
  <2> QED BY <1>4, <2>2 DEF JobsAreAttended
<1> QED BY <1>10, <1>11 DEF GoesOn

LEMMA RejectedAttends ==
    ASSUME IInv, JobsAreAttended, NEW j \in Jobs, NEW a \in Attempts, NEW e,
           NEW ended \in Ended(j, a),
           process[j][a] \notin {"none", "closed"}, ~settled[j][a],
           settled' = [settled EXCEPT ![j][a] = TRUE],
           IsOverOrKilled(j, a, ended), Rejected(j, a, e, ended),
           begun' = begun
    PROVE  JobsAreAttended'
<1>1. Failed # Pending
  BY DEF Failed, Pending
<1>2. GoesOn(j, a, ended)
  BY <1>1 DEF GoesOn, Rejected, CallsForFallback
<1>3. hung => hung'
  BY DEF Rejected
<1> QED BY <1>2, <1>3, SettlingAttends

LEMMA CloseAttends ==
    ASSUME IInv, JobsAreAttended, NEW j \in Jobs, NEW a \in Attempts, Close(j, a)
    PROVE  JobsAreAttended'
<1> DEFINE ended == [process EXCEPT ![j][a] = "closed"]
           e == process[j][a]
<1>1. /\ process[j][a] \notin {"none", "closed"}
      /\ settled' = [settled EXCEPT ![j][a] = TRUE]
      /\ killTimer' = killTimer /\ begun' = begun
  BY DEF Close, Endings
<1>2. ended \in Ended(j, a)
  BY DEF Ended
<1>3. CASE settled[j][a]
  <2>1. process' = ended /\ result' = result /\ hung' = hung
    BY <1>3 DEF Close
  <2>2. /\ settled \in [Jobs -> [Attempts -> BOOLEAN]]
        /\ process \in [Jobs -> [Attempts -> States]]
    BY DEF IInv, TypeOK
  <2>3. \A i \in Jobs, b \in Attempts : settled'[i][b] <=> settled[i][b]
    BY <1>1, <1>3, <2>2
  <2>4. \A i \in Jobs, b \in Attempts :
            process'[i][b] = IF i = j /\ b = a THEN "closed" ELSE process[i][b]
    BY <2>1, <2>2
  <2> QED BY <1>1, <1>3, <2>1, <2>3, <2>4 DEF JobsAreAttended, IsAttended, IsListenedTo
<1>4. CASE ~settled[j][a] /\ Rejected(j, a, e, ended)
  <2>1. IsOverOrKilled(j, a, ended)
    BY <1>1 DEF IsOverOrKilled
  <2> HIDE DEF ended, e
  <2> QED BY <1>1, <1>2, <1>4, <2>1, RejectedAttends
<1>5. CASE ~settled[j][a] /\ Resolved(j, a, e, ended)
  <2>1. process' = ended /\ (hung => hung')
    BY <1>5 DEF Resolved
  <2>2. GoesOn(j, a, ended)
    <3>1. \A x, y : [from |-> a, edits |-> x, response |-> y] # Pending
      BY DEF Pending, Attempts
    <3> QED BY <1>5, <3>1 DEF Resolved, GoesOn
  <2>3. IsOverOrKilled(j, a, ended)
    BY <1>1 DEF IsOverOrKilled
  <2> HIDE DEF ended, e
  <2> QED BY <1>1, <1>2, <1>5, <2>1, <2>2, <2>3, SettlingAttends
<1>6. CASE ~settled[j][a] /\ SaveThrows(j, a, e, ended)
  <2>1. IsOverOrKilled(j, a, ended) /\ Rejected(j, a, "error", ended)
    BY <1>1, <1>6 DEF IsOverOrKilled, SaveThrows
  <2> HIDE DEF ended, e
  <2> QED BY <1>1, <1>2, <1>6, <2>1, RejectedAttends
<1> QED BY <1>3, <1>4, <1>5, <1>6 DEF Close

LEMMA SpawnFailsAttends ==
    ASSUME IInv, JobsAreAttended, NEW j \in Jobs, NEW a \in Attempts, SpawnFails(j, a)
    PROVE  JobsAreAttended'
<1>1. process \in Ended(j, a)
  BY DEF Ended
<1>2. /\ process[j][a] \notin {"none", "closed"} /\ ~settled[j][a]
      /\ settled' = [settled EXCEPT ![j][a] = TRUE]
      /\ Rejected(j, a, "error", process) /\ begun' = begun
  BY DEF SpawnFails
<1>3. IsOverOrKilled(j, a, process)
  BY DEF SpawnFails, IsOverOrKilled
<1> QED BY <1>1, <1>2, <1>3, RejectedAttends

LEMMA TimeoutAttends ==
    ASSUME IInv, JobsAreAttended, NEW j \in Jobs, NEW a \in Attempts, Timeout(j, a)
    PROVE  JobsAreAttended'
<1>1. process \in Ended(j, a)
  BY DEF Ended
<1>2. /\ process[j][a] \notin {"none", "closed"} /\ ~settled[j][a]
      /\ settled' = [settled EXCEPT ![j][a] = TRUE]
      /\ killTimer' = [killTimer EXCEPT ![j][a] = TRUE]
      /\ Rejected(j, a, "timeout", process) /\ begun' = begun
  BY DEF Timeout
<1>3. IsOverOrKilled(j, a, process)
  BY <1>2 DEF IsOverOrKilled
<1> QED BY <1>1, <1>2, <1>3, RejectedAttends

(* A process ends, by itself or by SIGKILL.                                   *)
LEMMA EndingAttends ==
    ASSUME IInv, JobsAreAttended, NEW j \in Jobs, NEW a \in Attempts,
           ProcessEnds(j, a) \/ KillTimerFires(j, a)
    PROVE  JobsAreAttended'
<1>1. /\ process \in [Jobs -> [Attempts -> States]]
      /\ killTimer \in [Jobs -> [Attempts -> BOOLEAN]]
  BY DEF IInv, TypeOK
<1>2. UNCHANGED <<begun, settled, result, hung>>
  BY DEF ProcessEnds, KillTimerFires
<1>3. \A i \in Jobs, b \in Attempts :
        /\ process'[i][b] # process[i][b] =>
            process[i][b] = "running" /\ process'[i][b] \in Endings
        /\ killTimer'[i][b] # killTimer[i][b] => process'[i][b] # "running"
  <2>1. CASE ProcessEnds(j, a)
    BY <1>1, <2>1 DEF ProcessEnds, Endings
  <2>2. CASE KillTimerFires(j, a)
    BY <1>1, <2>2 DEF KillTimerFires, Endings
  <2> QED BY <2>1, <2>2
<1>4. \A i \in Jobs, b \in Attempts :
        /\ process'[i][b] \in {"none", "closed"} <=> process[i][b] \in {"none", "closed"}
        /\ process'[i][b] = "none" <=> process[i][b] = "none"
        /\ process'[i][b] = "running" =>
                process[i][b] = "running" /\ killTimer'[i][b] = killTimer[i][b]
  BY <1>3 DEF Endings
<1> QED BY <1>2, <1>4 DEF JobsAreAttended, IsAttended, IsListenedTo

(* An answer is given once all jobs of its call have a result.                *)
LEMMA CallsStayComplete ==
    ASSUME IInv, CallsAreComplete, [Next]_vars, UNCHANGED <<call, begun>>
    PROVE  CallsAreComplete'
<1>1. \A j \in Jobs : result[j] # Pending => result'[j] # Pending
  BY StepsLetAnswersStand
<1>2. CASE answered' = answered
  BY <1>1, <1>2 DEF CallsAreComplete
<1>3. ASSUME NEW c \in Jobs, Respond(c)
      PROVE  CallsAreComplete'
  <2>1. /\ answered' = answered \cup {c} /\ call[c] = c
        /\ \A j \in Jobs : call[j] = c => result[j] # Pending
        /\ result' = result
    BY <1>3 DEF Respond
  <2>2. c # 0
    BY DEF Jobs
  <2>3. ~(c > begun)
    BY <2>1, <2>2 DEF CallsAreComplete
  <2> QED BY <2>1, <2>3 DEF CallsAreComplete
<1>4. answered' = answered \/ \E c \in Jobs : Respond(c)
  <2>1. CASE Ask \/ MultiLlm
    BY <2>1 DEF Ask, MultiLlm, Begin
  <2>2. ASSUME NEW j \in Jobs, NEW a \in Attempts,
               \/ ProcessEnds(j, a) \/ Close(j, a) \/ SpawnFails(j, a)
             \/ Timeout(j, a) \/ KillTimerFires(j, a)
        PROVE  answered' = answered
    BY <2>2 DEF ProcessEnds, Close, SpawnFails, Timeout, KillTimerFires
  <2>3. CASE SessionExpires \/ ChunkFileExpires \/ Tick \/ UNCHANGED vars
    BY <2>3 DEF SessionExpires, ChunkFileExpires, Tick, vars
  <2> QED BY <2>1, <2>2, <2>3 DEF Next
<1> QED BY <1>2, <1>3, <1>4

LEMMA NextAttends ==
    ASSUME IInv, JobsAreAttended, CallsAreComplete, [Next]_vars
    PROVE  JobsAreAttended' /\ CallsAreComplete'
<1> DEFINE Goal == JobsAreAttended' /\ CallsAreComplete'
<1>1. CASE Ask
  <2>1. PICK r \in Requests : Begin(<<r>>)
    BY <1>1 DEF Ask
  <2>2. <<r>> \in [1..1 -> Request]
    OBVIOUS
  <2> QED BY <2>1, <2>2, BeginAttends
<1>2. CASE MultiLlm
  <2>1. PICK p \in Prompts, ps \in SUBSET Providers :
            Begin(SetToSeq({[tool |-> "ask", provider |-> q, prompt |-> p,
                             model |-> "default", session |-> NoSession] : q \in ps}))
    BY <1>2 DEF MultiLlm
  <2> QED BY <2>1, MultiLlmRequests, BeginAttends
<1>3. ASSUME NEW j \in Jobs, NEW a \in Attempts,
             \/ ProcessEnds(j, a) \/ Close(j, a) \/ SpawnFails(j, a)
             \/ Timeout(j, a) \/ KillTimerFires(j, a)
      PROVE  Goal
  <2>1. JobsAreAttended'
    BY <1>3, CloseAttends, SpawnFailsAttends, TimeoutAttends, EndingAttends
  <2>2. UNCHANGED <<call, begun>>
    BY <1>3 DEF ProcessEnds, Close, SpawnFails, Timeout, KillTimerFires
  <2> QED BY <2>1, <2>2, CallsStayComplete
<1>4. CASE UNCHANGED <<call, begun, process, settled, killTimer, result, hung>>
  <2>1. JobsAreAttended'
    BY <1>4 DEF JobsAreAttended, IsAttended, IsListenedTo
  <2> QED BY <1>4, <2>1, CallsStayComplete
<1>5. CASE (\E c \in Jobs : Respond(c)) \/ SessionExpires \/ ChunkFileExpires \/ Tick
           \/ UNCHANGED vars
  BY <1>4, <1>5 DEF Respond, SessionExpires, ChunkFileExpires, Tick, vars
<1> QED BY <1>1, <1>2, <1>3, <1>5 DEF Next

-----------------------------------------------------------------------------
(* Session files                                                              *)

(* What a step does to the session files: it removes one, or saves one with a *)
(* turn of some job after what its session has.                               *)
SessionAfter(s, j, text) ==
    [id |-> s, messages |-> LastOf(loadSession(s) \o Turn(j, text), MaxMessages)]

SessionsStep ==
    \/ sessions' = sessions
    \/ \E i \in DOMAIN sessions : sessions' = RemoveAt(sessions, i)
    \/ \E s \in Sessions, j \in Jobs, text \in {"content", "empty"} :
            sessions' = Saved(sessions, SessionAfter(s, j, text), MaxSessions)

(* Every step of the server is such a step.                                   *)
LEMMA StepsOfSessions ==
    ASSUME IInv, [Next]_vars
    PROVE  SessionsStep
<1>1. CASE Ask \/ MultiLlm
  BY <1>1 DEF Ask, MultiLlm, Begin, SessionsStep
<1>2. ASSUME NEW j \in Jobs, NEW a \in Attempts,
             \/ ProcessEnds(j, a) \/ SpawnFails(j, a)
             \/ Timeout(j, a) \/ KillTimerFires(j, a)
      PROVE  SessionsStep
  BY <1>2 DEF ProcessEnds, SpawnFails, Timeout, Rejected, KillTimerFires, SessionsStep
<1>3. ASSUME NEW j \in Jobs, NEW a \in Attempts, Close(j, a)
      PROVE  SessionsStep
  <2>1. request[j] \in Request
    <3>1. process[j][a] # "none"
      BY <1>3 DEF Close, Endings
    <3> QED BY <3>1, WorkedForIsBegun
  <2>2. sessions' = sessions \/ sessions' = SessionsAfter(j, a, process[j][a])
    BY <1>3 DEF Close, Resolved, SaveThrows, Rejected
  <2>3. StoresTurn(request[j], a, process[j][a]) => request[j].session \in Sessions
    BY <2>1 DEF StoresTurn, Request
  <2> DEFINE text == IF process[j][a] = "reply" THEN "content" ELSE "empty"
  <2>4. CASE sessions' = SessionsAfter(j, a, process[j][a])
    <3>1. text \in {"content", "empty"}
      OBVIOUS
    <3>2. \/ sessions' = sessions
          \/ /\ request[j].session \in Sessions
             /\ sessions' = Saved(sessions, SessionAfter(request[j].session, j, text), MaxSessions)
      BY <2>3, <2>4 DEF SessionsAfter, SessionAfter
    <3> HIDE DEF text
    <3> QED BY <3>1, <3>2 DEF SessionsStep
  <2> QED BY <2>2, <2>4 DEF SessionsStep
<1>4. CASE (\E c \in Jobs : Respond(c)) \/ SessionExpires \/ ChunkFileExpires \/ Tick
  BY <1>4 DEF Respond, SessionExpires, ChunkFileExpires, Tick, SessionsStep
<1>5. CASE UNCHANGED vars
  BY <1>5 DEF vars, SessionsStep
<1> QED BY <1>1, <1>2, <1>3, <1>4, <1>5 DEF Next

(* A turn added to a session makes a session file within the limit.           *)
LEMMA SessionAfterIs ==
    ASSUME SessionsWithinLimits, NEW s \in Sessions, NEW j \in Jobs,
           NEW text \in {"content", "empty"}
    PROVE  /\ SessionAfter(s, j, text) \in SessionFile
           /\ SessionAfter(s, j, text).id = s
           /\ Len(SessionAfter(s, j, text).messages) <= MaxMessages
<1> DEFINE before == MessagesOf(sessions, s)
           t == LastOf(before \o Turn(j, text), MaxMessages)
<1>1. UniqueIds(sessions) /\ sessions \in Seq(SessionFile)
  BY DEF SessionsWithinLimits, UniqueIds
<1>2. before \in Seq(Message)
  <2>1. CASE \E i \in 1..Len(sessions) : sessions[i].id = s
    <3>1. PICK i \in 1..Len(sessions) : sessions[i].id = s
      BY <2>1
    <3>2. before = sessions[i].messages
      BY <1>1, <3>1, MessagesOfIs
    <3>3. sessions[i] \in SessionFile
      BY <1>1, <3>1, ElementOfSeq
    <3> QED BY <3>2, <3>3 DEF SessionFile
  <2>2. CASE \A i \in 1..Len(sessions) : sessions[i].id # s
    BY <1>1, <2>2, MessagesOfIs, EmptySeq
  <2> QED BY <2>1, <2>2
<1>3. Turn(j, text) \in Seq(Message)
  BY DEF Turn, Message
<1>4. before \o Turn(j, text) \in Seq(Message)
  BY <1>2, <1>3, ConcatProperties
<1>5. t \in Seq(Message) /\ Len(t) <= MaxMessages
  BY <1>4, LastOfIs
<1>6. SessionAfter(s, j, text) = [id |-> s, messages |-> t]
  BY DEF SessionAfter, loadSession, MessagesOf
<1> HIDE DEF t
<1> QED BY <1>5, <1>6 DEF SessionFile

(* Saving and removing keep the limits of the directory.                      *)
LEMMA SessionsStepKeeps ==
    ASSUME SessionsWithinLimits, SessionsStep
    PROVE  SessionsWithinLimits'
<1>1. UniqueIds(sessions) /\ sessions \in Seq(SessionFile) /\ DOMAIN sessions = 1..Len(sessions)
      /\ Len(sessions) \in Nat /\ Len(sessions) <= MaxSessions
      /\ \A i \in 1..Len(sessions) : Len(sessions[i].messages) <= MaxMessages
  BY LenProperties DEF SessionsWithinLimits, UniqueIds
<1>2. CASE sessions' = sessions
  BY <1>2 DEF SessionsWithinLimits
<1>3. ASSUME NEW i \in DOMAIN sessions, sessions' = RemoveAt(sessions, i)
      PROVE  SessionsWithinLimits'
  <2>1. /\ sessions' \in Seq(SessionFile) /\ UniqueIds(sessions')
        /\ Len(sessions') = Len(sessions) - 1
        /\ \A k \in 1..Len(sessions') : \E n \in 1..Len(sessions) : sessions'[k] = sessions[n]
    <3>1. /\ RemoveAt(sessions, i) \in Seq(SessionFile) /\ UniqueIds(RemoveAt(sessions, i))
          /\ Len(RemoveAt(sessions, i)) = Len(sessions) - 1
          /\ \A k \in 1..Len(RemoveAt(sessions, i)) :
                \E n \in 1..Len(sessions) : n # i /\ RemoveAt(sessions, i)[k] = sessions[n]
      <4>1. sessions \in Seq(SessionFile) /\ UniqueIds(sessions) /\ i \in 1..Len(sessions)
        BY <1>1, <1>3
      <4> QED BY <4>1, RemoveAtKeepsFiles
    <3> QED BY <1>3, <3>1
  <2>2. Len(sessions') <= MaxSessions
    <3>1. MaxSessions \in Nat
      OBVIOUS
    <3>2. Len(sessions) \in Nat /\ Len(sessions) <= MaxSessions
      BY <1>1
    <3> QED BY <2>1, <3>1, <3>2
  <2> QED BY <1>1, <2>1, <2>2 DEF SessionsWithinLimits, UniqueIds
<1>4. ASSUME NEW s \in Sessions, NEW j \in Jobs, NEW text \in {"content", "empty"},
             sessions' = Saved(sessions, SessionAfter(s, j, text), MaxSessions)
      PROVE  SessionsWithinLimits'
  <2> DEFINE file == SessionAfter(s, j, text)
  <2>1. file \in SessionFile /\ Len(file.messages) <= MaxMessages
    BY SessionAfterIs
  <2> HIDE DEF file
  <2>2. /\ sessions' \in Seq(SessionFile) /\ Len(sessions') <= MaxSessions
        /\ FilesFrom(sessions', sessions, file)
    BY <1>1, <1>4, <2>1, SavedIs DEF file
  <2>3. \A i \in 1..Len(sessions') : Len(sessions'[i].messages) <= MaxMessages
    BY <1>1, <2>1, <2>2 DEF FilesFrom
  <2> QED BY <2>2, <2>3 DEF SessionsWithinLimits, FilesFrom, UniqueIds
<1> QED BY <1>2, <1>3, <1>4 DEF SessionsStep

(* A step leaves a session as it is, forgets it, or adds a turn to its end.   *)
LEMMA SessionsStepKeepsTurns ==
    ASSUME SessionsWithinLimits, SessionsStep, NEW s \in Sessions
    PROVE  \/ loadSession(s)' \in {loadSession(s), <<>>}
           \/ \E j \in Jobs, text \in {"content", "empty"} :
                loadSession(s)' = LastOf(loadSession(s) \o Turn(j, text), MaxMessages)
<1>1. UniqueIds(sessions) /\ sessions \in Seq(SessionFile) /\ DOMAIN sessions = 1..Len(sessions)
  BY LenProperties DEF SessionsWithinLimits, UniqueIds
<1>2. loadSession(s) = MessagesOf(sessions, s) /\ loadSession(s)' = MessagesOf(sessions', s)
  BY DEF loadSession, MessagesOf
<1>3. CASE sessions' = sessions
  BY <1>2, <1>3
<1>4. ASSUME NEW i \in DOMAIN sessions, sessions' = RemoveAt(sessions, i)
      PROVE  loadSession(s)' \in {loadSession(s), <<>>}
  <2>1. /\ sessions' \in Seq(SessionFile) /\ UniqueIds(sessions')
        /\ \A k \in 1..Len(sessions') : \E n \in 1..Len(sessions) : sessions'[k] = sessions[n]
    BY <1>1, <1>4, RemoveAtKeepsFiles
  <2>2. MessagesOf(sessions', s) \in {MessagesOf(sessions, s), <<>>}
    BY <1>1, <2>1, KeptMessages
  <2> QED BY <1>2, <2>2
<1>5. ASSUME NEW t \in Sessions, NEW j \in Jobs, NEW text \in {"content", "empty"},
             sessions' = Saved(sessions, SessionAfter(t, j, text), MaxSessions)
      PROVE  \/ loadSession(s)' \in {loadSession(s), <<>>}
             \/ loadSession(s)' = LastOf(loadSession(s) \o Turn(j, text), MaxMessages)
  <2> DEFINE file == SessionAfter(t, j, text)
  <2>1. file \in SessionFile /\ file.id = t
    BY SessionAfterIs
  <2>2. file.messages = LastOf(loadSession(t) \o Turn(j, text), MaxMessages)
    BY DEF SessionAfter
  <2> HIDE DEF file
  <2>3. /\ sessions' \in Seq(SessionFile) /\ FilesFrom(sessions', sessions, file)
        /\ \E i \in 1..Len(sessions') : sessions'[i] = file
    BY <1>1, <1>5, <2>1, SavedIs DEF file
  <2>4. UniqueIds(sessions')
    BY <2>3 DEF FilesFrom
  <2>5. CASE s = t
    <3>1. MessagesOf(sessions', s) = file.messages
      BY <2>1, <2>3, <2>4, <2>5, MessagesOfIs
    <3> QED BY <1>2, <2>2, <2>5, <3>1
  <2>6. CASE s # t
    <3>1. \A i \in 1..Len(sessions') : sessions'[i].id = s =>
                \E k \in 1..Len(sessions) : sessions'[i] = sessions[k]
      BY <2>1, <2>3, <2>6 DEF FilesFrom
    <3>2. MessagesOf(sessions', s) \in {MessagesOf(sessions, s), <<>>}
      BY <1>1, <2>3, <2>4, <3>1, KeptMessages
    <3> QED BY <1>2, <3>2
  <2> QED BY <2>5, <2>6
<1> QED BY <1>3, <1>4, <1>5 DEF SessionsStep

-----------------------------------------------------------------------------
(* Chunk files                                                                *)

(* Once a result of a provider is there, it holds edits and its request       *)
(* stands.                                                                    *)
LEMMA RepliesAreEdits ==
    ASSUME IInv, [Next]_vars, NEW i \in Jobs, result'[i] # result[i],
           result'[i].from \in Attempts
    PROVE  result'[i].edits \in Seq(Edit)
<1> DEFINE Goal == result'[i].edits \in Seq(Edit)
<1>1. result = [k \in Jobs |-> result[k]]
  BY DEF IInv, TypeOK
<1>2. ASSUME NEW rs, Begin(rs)
      PROVE  FALSE
  BY <1>2 DEF Begin, Attempts
<1>3. ASSUME NEW j \in Jobs, NEW a \in Attempts, Close(j, a)
      PROVE  Goal
  <2> DEFINE ended == [process EXCEPT ![j][a] = "closed"]
             e == process[j][a]
  <2>1. \/ Resolved(j, a, e, ended)
        \/ Rejected(j, a, e, ended) \/ Rejected(j, a, "error", ended)
    BY <1>3 DEF Close, SaveThrows
  <2>2. ~Rejected(j, a, e, ended) /\ ~Rejected(j, a, "error", ended)
    BY <1>1 DEF Rejected, Failed, Attempts
  <2>3. PICK blocks \in (IF request[j].tool = "edit" THEN EditReplies ELSE {<<>>}) :
            result' = [result EXCEPT ![j] =
                [from |-> a, edits |-> parseChangeModeOutput(blocks),
                 response |-> [provider |-> request[j].provider,
                               prompt |-> request[j].prompt, model |-> ModelOf(j, a)]]]
    BY <2>1, <2>2 DEF Resolved
  <2>4. result'[i].edits = parseChangeModeOutput(blocks)
    BY <1>1, <2>3
  <2>5. blocks \in Seq(Edit)
    BY <2>3, EmptySeq
  <2> QED BY <2>4, <2>5, ParsedEdits
<1>4. ASSUME NEW j \in Jobs, NEW a \in Attempts,
             \/ ProcessEnds(j, a) \/ SpawnFails(j, a)
             \/ Timeout(j, a) \/ KillTimerFires(j, a)
      PROVE  FALSE
  BY <1>1, <1>4 DEF ProcessEnds, SpawnFails, Timeout, KillTimerFires, Rejected, Failed, Attempts
<1>5. CASE (\E c \in Jobs : Respond(c)) \/ SessionExpires \/ ChunkFileExpires \/ Tick
  BY <1>5 DEF Respond, SessionExpires, ChunkFileExpires, Tick
<1>6. CASE UNCHANGED vars
  BY <1>6 DEF vars
<1> QED BY <1>2, <1>3, <1>4, <1>5, <1>6 DEF Next, Ask, MultiLlm

(* A job that was started keeps its request.                                  *)
LEMMA RequestsStand ==
    ASSUME IInv, [Next]_vars, NEW i \in Jobs, i <= begun
    PROVE  request'[i] = request[i]
<1> DEFINE Stands == request'[i] = request[i]
<1>1. ASSUME NEW n \in Nat, NEW rs \in [1..n -> Request], Begin(rs)
      PROVE  Stands
  <2>1. begun \in Nat /\ i \notin {begun + k : k \in DOMAIN rs}
    BY DEF IInv, TypeOK, Jobs
  <2> QED BY <1>1, <2>1 DEF Begin
<1>2. CASE Ask
  <2>1. PICK r \in Requests : Begin(<<r>>)
    BY <1>2 DEF Ask
  <2>2. <<r>> \in [1..1 -> Request]
    OBVIOUS
  <2> QED BY <1>1, <2>1, <2>2
<1>3. CASE MultiLlm
  <2>1. PICK p \in Prompts, ps \in SUBSET Providers :
            Begin(SetToSeq({[tool |-> "ask", provider |-> q, prompt |-> p,
                             model |-> "default", session |-> NoSession] : q \in ps}))
    BY <1>3 DEF MultiLlm
  <2> QED BY <1>1, <2>1, MultiLlmRequests
<1>4. ASSUME NEW j \in Jobs, NEW a \in Attempts,
             \/ ProcessEnds(j, a) \/ Close(j, a) \/ SpawnFails(j, a)
             \/ Timeout(j, a) \/ KillTimerFires(j, a)
      PROVE  Stands
  BY <1>4 DEF ProcessEnds, Close, SpawnFails, Timeout, KillTimerFires
<1>5. CASE (\E c \in Jobs : Respond(c)) \/ SessionExpires \/ ChunkFileExpires \/ Tick
  BY <1>5 DEF Respond, SessionExpires, ChunkFileExpires, Tick
<1>6. CASE UNCHANGED vars
  BY <1>6 DEF vars
<1> QED BY <1>2, <1>3, <1>4, <1>5, <1>6 DEF Next

(* What a step does to the chunk files: it removes one, or saves the chunking *)
(* of the reply it takes.                                                     *)
ChunkFileOf(j, edits) ==
    [id |-> request[j].prompt, chunks |-> chunkChangeModeEdits(edits)]

ChunksStep ==
    \/ chunkFiles' = chunkFiles
    \/ \E i \in DOMAIN chunkFiles : chunkFiles' = RemoveAt(chunkFiles, i)
    \/ \E j \in Jobs, edits \in Seq(Edit) :
            /\ request[j] \in Request /\ request[j].tool = "edit"
            /\ request' = request
            /\ result'[j].from \in Attempts /\ result'[j].edits = edits
            /\ chunkFiles' = Saved(chunkFiles, ChunkFileOf(j, edits), MaxChunkFiles)

(* Every step of the server is such a step.                                   *)
LEMMA StepsOfChunks ==
    ASSUME IInv, [Next]_vars
    PROVE  ChunksStep
<1>1. CASE Ask \/ MultiLlm
  BY <1>1 DEF Ask, MultiLlm, Begin, ChunksStep
<1>2. ASSUME NEW j \in Jobs, NEW a \in Attempts,
             \/ ProcessEnds(j, a) \/ SpawnFails(j, a)
             \/ Timeout(j, a) \/ KillTimerFires(j, a)
      PROVE  ChunksStep
  BY <1>2 DEF ProcessEnds, SpawnFails, Timeout, Rejected, KillTimerFires, ChunksStep
<1>3. ASSUME NEW j \in Jobs, NEW a \in Attempts, Close(j, a), chunkFiles' # chunkFiles
      PROVE  ChunksStep
  <2> DEFINE ended == [process EXCEPT ![j][a] = "closed"]
             e == process[j][a]
  <2>1. request[j] \in Request /\ request' = request
    <3>1. process[j][a] # "none"
      BY <1>3 DEF Close, Endings
    <3> QED BY <1>3, <3>1, WorkedForIsBegun DEF Close
  <2>2. Resolved(j, a, e, ended)
    BY <1>3 DEF Close, SaveThrows, Rejected
  <2>3. PICK blocks \in (IF request[j].tool = "edit" THEN EditReplies ELSE {<<>>}) :
            /\ result' = [result EXCEPT ![j] =
                    [from |-> a, edits |-> parseChangeModeOutput(blocks),
                     response |-> [provider |-> request[j].provider,
                                   prompt |-> request[j].prompt, model |-> ModelOf(j, a)]]]
            /\ chunkFiles' = ChunkFilesAfter(j, parseChangeModeOutput(blocks))
    BY <1>3, <2>2 DEF Resolved
  <2> DEFINE edits == parseChangeModeOutput(blocks)
  <2>4. blocks \in Seq(Edit)
    BY <2>3, EmptySeq
  <2>5. edits \in Seq(Edit)
    BY <2>4, ParsedEdits
  <2>6. result'[j].from \in Attempts /\ result'[j].edits = edits
    <3>1. result = [k \in Jobs |-> result[k]]
      BY DEF IInv, TypeOK
    <3> QED BY <2>3, <3>1
  <2>7. request[j].tool = "edit"
        /\ chunkFiles' = Saved(chunkFiles, ChunkFileOf(j, edits), MaxChunkFiles)
    BY <1>3, <2>3 DEF ChunkFilesAfter, cacheChunks, ChunkFileOf
  <2> HIDE DEF edits
  <2> QED BY <2>1, <2>5, <2>6, <2>7 DEF ChunksStep
<1>4. CASE (\E c \in Jobs : Respond(c)) \/ SessionExpires \/ ChunkFileExpires \/ Tick
  BY <1>4 DEF Respond, SessionExpires, ChunkFileExpires, Tick, ChunksStep
<1>5. CASE UNCHANGED vars
  BY <1>5 DEF vars, ChunksStep
<1>6. CASE chunkFiles' = chunkFiles
  BY <1>6 DEF ChunksStep
<1> QED BY <1>1, <1>2, <1>3, <1>4, <1>5, <1>6 DEF Next

(* A chunk file stays the chunking of the reply it is of.                     *)
StaysChunkingOf(file, j) ==
    /\ request'[j].tool = "edit" /\ request'[j].prompt = file.id
    /\ result'[j].from \in Attempts
    /\ file.chunks = chunkChangeModeEdits(result'[j].edits)

LEMMA ChunkingsStand ==
    ASSUME IInv, [Next]_vars, NEW i \in 1..Len(chunkFiles), NEW j \in Jobs,
           IsChunkingOf(chunkFiles[i], j)
    PROVE  StaysChunkingOf(chunkFiles[i], j)
<1>1. result[j] # Pending
  BY DEF IsChunkingOf, Pending, Attempts
<1>2. result'[j] = result[j]
  BY <1>1, StepsLetAnswersStand
<1>3. j <= begun
  BY <1>1 DEF IInv, TypeOK, NotBegun, Jobs
<1>4. request'[j] = request[j]
  BY <1>3, RequestsStand
<1> QED BY <1>2, <1>4 DEF IsChunkingOf, StaysChunkingOf

(* Saving, removing and new results keep what the chunk files are.            *)
LEMMA ChunksStepKeeps ==
    ASSUME IInv, ChunksAreOfReplies, [Next]_vars
    PROVE  ChunksAreOfReplies'
<1>1. /\ UniqueIds(chunkFiles) /\ chunkFiles \in Seq(ChunkFile)
      /\ DOMAIN chunkFiles = 1..Len(chunkFiles)
      /\ Len(chunkFiles) \in Nat /\ Len(chunkFiles) <= MaxChunkFiles
      /\ \A i \in 1..Len(chunkFiles) : \E j \in Jobs : IsChunkingOf(chunkFiles[i], j)
  BY LenProperties DEF ChunksAreOfReplies, UniqueIds
<1>2. \A i \in 1..Len(chunkFiles) : \E j \in Jobs : StaysChunkingOf(chunkFiles[i], j)
  BY <1>1, ChunkingsStand
<1>3. \A j \in Jobs : result'[j].from \in Attempts => result'[j].edits \in Seq(Edit)
  BY RepliesAreEdits DEF ChunksAreOfReplies
<1> DEFINE Goal == /\ UniqueIds(chunkFiles') /\ chunkFiles' \in Seq(ChunkFile)
                   /\ Len(chunkFiles') <= MaxChunkFiles
                   /\ \A i \in 1..Len(chunkFiles') :
                        \E j \in Jobs : StaysChunkingOf(chunkFiles'[i], j)
<1>4. ASSUME chunkFiles' = chunkFiles
      PROVE  Goal
  <2>1. UniqueIds(chunkFiles')
    BY <1>1, <1>4 DEF UniqueIds
  <2>2. chunkFiles' \in Seq(ChunkFile) /\ Len(chunkFiles') <= MaxChunkFiles
    BY <1>1, <1>4
  <2>3. \A i \in 1..Len(chunkFiles') : \E j \in Jobs : StaysChunkingOf(chunkFiles'[i], j)
    BY <1>2, <1>4
  <2> QED BY <2>1, <2>2, <2>3
<1>5. ASSUME NEW i \in DOMAIN chunkFiles, chunkFiles' = RemoveAt(chunkFiles, i)
      PROVE  Goal
  <2>1. /\ RemoveAt(chunkFiles, i) \in Seq(ChunkFile) /\ UniqueIds(RemoveAt(chunkFiles, i))
        /\ Len(RemoveAt(chunkFiles, i)) = Len(chunkFiles) - 1
        /\ \A k \in 1..Len(RemoveAt(chunkFiles, i)) :
            \E n \in 1..Len(chunkFiles) : n # i /\ RemoveAt(chunkFiles, i)[k] = chunkFiles[n]
    <3>1. chunkFiles \in Seq(ChunkFile) /\ UniqueIds(chunkFiles) /\ i \in 1..Len(chunkFiles)
      BY <1>1, <1>5
    <3> QED BY ONLY <3>1, RemoveAtKeepsFiles
  <2>2. Len(chunkFiles') <= MaxChunkFiles
    <3>1. MaxChunkFiles \in Nat
      OBVIOUS
    <3>2. Len(chunkFiles') = Len(chunkFiles) - 1
      BY <1>5, <2>1
    <3> QED BY <1>1, <3>1, <3>2
  <2>3. \A k \in 1..Len(chunkFiles') : \E n \in 1..Len(chunkFiles) : chunkFiles'[k] = chunkFiles[n]
    BY <1>5, <2>1
  <2>4. \A k \in 1..Len(chunkFiles') : \E j \in Jobs : StaysChunkingOf(chunkFiles'[k], j)
    BY <1>2, <2>3
  <2> QED BY <1>5, <2>1, <2>2, <2>4
<1>6. ASSUME NEW j \in Jobs, NEW edits \in Seq(Edit),
             request[j] \in Request, request[j].tool = "edit", request' = request,
             result'[j].from \in Attempts, result'[j].edits = edits,
             chunkFiles' = Saved(chunkFiles, ChunkFileOf(j, edits), MaxChunkFiles)
      PROVE  Goal
  <2> DEFINE file == ChunkFileOf(j, edits)
  <2>1. StaysChunkingOf(file, j)
    BY <1>6 DEF StaysChunkingOf, ChunkFileOf
  <2>2. file \in ChunkFile
    <3>1. request[j].prompt \in Prompts
      BY <1>6 DEF Request
    <3> QED BY <3>1, ChunksType DEF ChunkFileOf, ChunkFile
  <2> HIDE DEF file
  <2>3. /\ chunkFiles' \in Seq(ChunkFile) /\ Len(chunkFiles') <= MaxChunkFiles
        /\ FilesFrom(chunkFiles', chunkFiles, file)
    BY <1>1, <1>6, <2>2, SavedIs DEF file
  <2>4. \A i \in 1..Len(chunkFiles') : \E n \in Jobs : StaysChunkingOf(chunkFiles'[i], n)
    BY <1>2, <2>1, <2>3 DEF FilesFrom
  <2> QED BY <2>3, <2>4 DEF FilesFrom
<1>7. Goal
  <2>1. CASE \E i \in DOMAIN chunkFiles : chunkFiles' = RemoveAt(chunkFiles, i)
    BY <1>5, <2>1
  <2>2. CASE \E j \in Jobs, edits \in Seq(Edit) :
                /\ request[j] \in Request /\ request[j].tool = "edit"
                /\ request' = request
                /\ result'[j].from \in Attempts /\ result'[j].edits = edits
                /\ chunkFiles' = Saved(chunkFiles, ChunkFileOf(j, edits), MaxChunkFiles)
    BY <1>6, <2>2
  <2> HIDE DEF Goal
  <2> QED BY <1>4, <2>1, <2>2, StepsOfChunks DEF ChunksStep
<1> QED BY <1>3, <1>7 DEF ChunksAreOfReplies, IsChunkingOf, StaysChunkingOf, UniqueIds

-----------------------------------------------------------------------------
(* Theorems                                                                   *)

(* The inductive invariant holds of every behaviour.                          *)
THEOREM Invariant == Spec => []IInv
<1>1. IInv /\ [Next]_vars => IInv'
  BY NextKeeps
<1> QED BY InitHolds, <1>1, PTL DEF Spec

(* The server's state keeps its types, the provenance of a result and the age *)
(* of what the cache holds included.                                          *)
THEOREM TypeCorrect == Spec => []TypeOK
BY Invariant, PTL DEF IInv

(* Whatever tool calls overlap, and however their processes end, an answer    *)
(* from the cache is one of the provider and the model that was asked.        *)
THEOREM CachedAnswersAreTrue == Spec => []CachedAnswersAreAsked
BY Invariant, PTL DEF IInv

(* The response cache keeps its limits, its running total and one entry for a *)
(* key, whatever is set, replaced, evicted, expired or larger than the cache. *)
THEOREM CacheKeepsItsLimits == Spec => []CacheWithinLimits
<1>1. IInv => CacheWithinLimits
  BY DEF IInv, IsCache, CacheWithinLimits
<1> QED BY Invariant, <1>1, PTL

(* The fallback starts after the first process is gone, except where Codex's  *)
(* timeout reads as a quota error.                                            *)
THEOREM OneProcessAtATime == Spec => []OneProcessPerJob
BY Invariant, PTL DEF IInv

(* What an executor returned stands, whichever of the close, the error and    *)
(* the timers of its processes still come.                                    *)
THEOREM AnswersAreFinal == Spec => AnswersStand
<1>1. IInv /\ [Next]_vars =>
        [\A j \in Jobs : result[j] # Pending =>
            /\ result'[j] = result[j]
            /\ \A a \in Attempts : process[j][a] # process'[j][a] =>
                UNCHANGED <<cache, usage, sessions, chunkFiles>>]_vars
  BY StepsLetAnswersStand
<1> QED BY Invariant, <1>1, PTL DEF Spec, AnswersStand

(* The chunks of every edit reply are exact, and a chunk file is the chunking *)
(* of one whole reply to its prompt.                                          *)
THEOREM ChunksStayExact == Spec => []ChunksAreExact
<1>1. Init => ChunksAreOfReplies
  BY EmptySeq DEF Init, ChunksAreOfReplies, Pending, Attempts
<1>2. IInv /\ ChunksAreOfReplies /\ [Next]_vars => ChunksAreOfReplies'
  BY ChunksStepKeeps
<1>3. ChunksAreOfReplies => ChunksAreExact
  <2> SUFFICES ASSUME ChunksAreOfReplies PROVE ChunksAreExact
    OBVIOUS
  <2>1. \A j \in Jobs :
            request[j].tool = "edit" /\ result[j].from \in Attempts =>
                LET edits == result[j].edits
                    chunks == chunkChangeModeEdits(edits)
                IN  KeepsEveryEdit(edits, chunks)
                    /\ KeepsTheLimit(chunks)
                    /\ KeepsFilesWhole(edits, chunks)
    BY ChunkingIsExact DEF ChunksAreOfReplies
  <2>2. DOMAIN chunkFiles = 1..Len(chunkFiles)
    BY LenProperties DEF ChunksAreOfReplies
  <2>3. \A i \in DOMAIN chunkFiles : \E j \in Jobs : IsChunkingOf(chunkFiles[i], j)
    BY <2>2 DEF ChunksAreOfReplies
  <2> QED BY <2>1, <2>3 DEF ChunksAreExact, IsChunkingOf
<1> QED BY Invariant, <1>1, <1>2, <1>3, PTL DEF Spec

(* Whatever the CLIs do, however many jobs there are: a job without a result  *)
(* has an attempt that is listened to, what runs on after its timeout has     *)
(* SIGKILL due, and an answered call has the results of all its jobs.         *)
THEOREM NobodyIsLeftWaiting == Spec => []NobodyIsForgotten
<1> DEFINE Inv == NobodyIsForgotten /\ NothingBeforeItsStart
<1>1. Init => Inv
  <2> SUFFICES ASSUME Init PROVE Inv
    OBVIOUS
  <2>1. begun = 0 /\ answered = {} /\ \A j \in Jobs : call[j] = 0
    BY DEF Init
  <2>2. \A j \in Jobs, a \in Attempts : process[j][a] = "none" /\ ~settled[j][a]
    BY DEF Init
  <2> QED BY <2>1, <2>2 DEF NobodyIsForgotten, NothingBeforeItsStart
<1>2. IInv /\ Inv /\ [Next]_vars => Inv'
  <2> SUFFICES ASSUME IInv, Inv, [Next]_vars PROVE Inv'
    OBVIOUS
  <2>1. JobsAreAttended /\ CallsAreComplete
    BY NobodyIsForgottenIs
  <2>2. JobsAreAttended' /\ CallsAreComplete'
    BY <2>1, NextAttends
  <2>3. IInv'
    BY NextKeeps
  <2>4. \A j : j \in 1..begun' => j \in Jobs /\ j <= begun'
    BY <2>3 DEF IInv, TypeOK, Jobs
  <2> QED BY <2>2, <2>4 DEF NobodyIsForgotten, NothingBeforeItsStart, JobsAreAttended,
                            CallsAreComplete, IsAttended, IsListenedTo
<1>3. Inv => NobodyIsForgotten
  OBVIOUS
<1> QED BY Invariant, <1>1, <1>2, <1>3, PTL DEF Spec

(* The session directory keeps its limits: one file for a session, no more    *)
(* files and no more messages in one than sessions.ts allows.                 *)
THEOREM SessionsKeepTheirLimits == Spec => []SessionsWithinLimits
<1>1. Init => SessionsWithinLimits
  BY EmptySeq DEF Init, SessionsWithinLimits
<1>2. IInv /\ SessionsWithinLimits /\ [Next]_vars => SessionsWithinLimits'
  BY StepsOfSessions, SessionsStepKeeps
<1> QED BY Invariant, <1>1, <1>2, PTL DEF Spec

(* Jobs that overlap in a session lose none of each other's turns: a session  *)
(* only changes by whole turns at its end, or is forgotten.                   *)
THEOREM TurnsAreKept == Spec => SessionsKeepTurns
<1>1. IInv /\ SessionsWithinLimits /\ [Next]_vars =>
        [\A s \in Sessions : loadSession(s)' # loadSession(s) =>
            \/ loadSession(s)' = <<>>
            \/ \E j \in Jobs, text \in {"content", "empty"} :
                loadSession(s)' = LastOf(loadSession(s) \o Turn(j, text), MaxMessages)]_vars
  <2> SUFFICES ASSUME IInv, SessionsWithinLimits, [Next]_vars, NEW s \in Sessions
               PROVE  \/ loadSession(s)' = loadSession(s)
                      \/ loadSession(s)' = <<>>
                      \/ \E j \in Jobs, text \in {"content", "empty"} :
                            loadSession(s)' = LastOf(loadSession(s) \o Turn(j, text), MaxMessages)
    OBVIOUS
  <2>1. SessionsStep
    BY StepsOfSessions
  <2> QED BY <2>1, SessionsStepKeepsTurns
<1> QED BY Invariant, SessionsKeepTheirLimits, <1>1, PTL DEF Spec, SessionsKeepTurns

=============================================================================
