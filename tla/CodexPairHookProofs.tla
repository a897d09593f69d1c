------------------------- MODULE CodexPairHookProofs --------------------------
(* Theorems about CodexPairHook for any number of edits, contents, concerns *)
(* and hooks that die, with their proofs.                                   *)
EXTENDS CodexPairHook, FiniteSetTheorems, TLAPS

USE HookAssumption DEF Hooks

LEMMA CountsStayCounts ==
    ASSUME NEW counts \in Counts, NEW flagged \in SUBSET Concerns
    PROVE  Flag(counts, flagged) \in Counts /\ Increment(counts, flagged) \in Counts
BY DEF Counts, Flag, Increment

LEMMA InitTypeOK == Init => TypeOK
BY DEF Init, TypeOK, Controls, NoCounts, Counts

(* What is shown of the file is made of contents.                           *)
LEMMA ShownIsView ==
    ASSUME NEW strategy \in {"full", "diff", "cut"}, NEW outline \in Contents, NEW body \in Contents
    PROVE  Shown(strategy, outline, body) \in View
BY DEF Shown, View

(* The view a hook builds of a big file is one.                             *)
LEMMA AdaptiveContextIsView ==
    ASSUME TypeOK, HooksAreOrderly, NEW h \in Hooks, BuildAdaptiveContext(h)
    PROVE  \E view \in View : sent' = [sent EXCEPT ![h] = view]
<1>1. seen[h] \in 1..Len(history) /\ history \in Seq(Contents)
      BY DEF BuildAdaptiveContext, HooksAreOrderly, TypeOK
<1>2. /\ Len(history) \in 1..Len(history)
      /\ history[seen[h]] \in Contents /\ history[Len(history)] \in Contents
      BY <1>1
<1>3. Outline[history[seen[h]]] \in Contents
      BY <1>2
<1>4. CASE GitDiff(h)
      BY <1>2, <1>3, <1>4, ShownIsView DEF GitDiff
<1>5. CASE CutOff(h)
      BY <1>3, <1>5, ShownIsView DEF CutOff
<1> QED
    BY <1>4, <1>5 DEF BuildAdaptiveContext

TypeInv == TypeOK /\ HooksAreOrderly

LEMMA NextTypeOK == TypeInv /\ [Next]_vars => TypeOK'
<1> SUFFICES ASSUME TypeInv, [Next]_vars PROVE TypeOK'
    OBVIOUS
<1>0. TypeOK /\ HooksAreOrderly
      BY DEF TypeInv
<1> USE DEF Goto, At, Emit, hookVars, codexVars, cacheVars, lockVars, Controls, Critical, Ends, Dead
<1>1. ASSUME NEW c \in Contents, Edit(c) PROVE TypeOK'
      BY <1>0, <1>1 DEF TypeOK, Edit
<1>2. ASSUME NEW h \in Hooks, Skip(h) \/ Unreadable(h) PROVE TypeOK'
      BY <1>0, <1>2 DEF TypeOK, Skip, Unreadable
<1>3. ASSUME NEW h \in Hooks, ReadFile(h) PROVE TypeOK'
  <2>1. \A view \in View : [sent EXCEPT ![h] = view] \in [Hooks -> View \cup {NoView}]
        BY <1>0 DEF TypeOK
  <2>2. ~(h > Len(history)) /\ Len(history) \in Nat
        BY <1>0, <1>3 DEF TypeOK, ReadFile, HooksAreOrderly
  <2>3. Len(history) \in Nat /\ Len(history) > 0
        BY <2>2
  <2>4. history[Len(history)] \in Contents
        BY <1>0, <2>3 DEF TypeOK
  <2>5. sent' \in [Hooks -> View \cup {NoView}]
    <3>1. Shown("full", history[Len(history)], history[Len(history)]) \in View
          BY <2>4, ShownIsView
    <3> QED
        BY <1>0, <1>3, <2>1, <3>1 DEF ReadFile, TypeOK
  <2> QED
      BY <1>0, <1>3, <2>3, <2>5 DEF TypeOK, ReadFile
<1>20. ASSUME NEW h \in Hooks, BuildAdaptiveContext(h) PROVE TypeOK'
  <2>1. PICK view \in View : sent' = [sent EXCEPT ![h] = view]
        BY <1>0, <1>20, AdaptiveContextIsView
  <2>2. sent' \in [Hooks -> View \cup {NoView}]
        BY <1>0, <2>1 DEF TypeOK
  <2>3. seen' \in [Hooks -> Nat]
    <3>1. seen' = [seen EXCEPT ![h] = Len(history)] \/ seen' = seen
          BY ONLY <1>20 DEF BuildAdaptiveContext, GitDiff, CutOff
    <3>2. seen \in [Hooks -> Nat] /\ Len(history) \in Nat
          BY <1>0 DEF TypeOK
    <3> QED
        BY ONLY <3>1, <3>2
  <2> QED
      BY <1>0, <1>20, <2>2, <2>3 DEF TypeOK, BuildAdaptiveContext
<1>4. ASSUME NEW h \in Hooks, CheckCache(h) PROVE TypeOK'
      BY <1>0, <1>4 DEF TypeOK, CheckCache, FreshEntries, Entry
<1>5. ASSUME NEW h \in Hooks, EmitCached(h) PROVE TypeOK'
      BY <1>0, <1>5 DEF TypeOK, EmitCached, MessageFor
<1>6. ASSUME NEW h \in Hooks, Acquire(h) \/ Recover(h) PROVE TypeOK'
      BY <1>0, <1>6 DEF TypeOK, Acquire, Recover
<1>7. ASSUME NEW h \in Hooks, Coalesce(h) PROVE TypeOK'
      BY <1>0, <1>7 DEF TypeOK, Coalesce
<1>8. ASSUME NEW h \in Hooks, LockFails(h) PROVE TypeOK'
      BY <1>0, <1>8 DEF TypeOK, LockFails
<1>9. ASSUME NEW h \in Hooks, ReviewSucceeds(h) PROVE TypeOK'
  <2>1. sent[h] \in View
        BY <1>0, <1>9 DEF ReviewSucceeds, HooksAreOrderly
  <2>2. PICK concerns \in SUBSET Concerns :
            /\ found' = [found EXCEPT ![h] = concerns]
            /\ reviews' = reviews \cup {[view |-> sent[h], concerns |-> concerns]}
            /\ tally' = Increment(tally, concerns)
        BY <1>9 DEF ReviewSucceeds
  <2>3. tally' \in Counts
        BY <1>0, <2>2, CountsStayCounts DEF TypeOK
  <2> QED
      BY <1>0, <1>9, <2>1, <2>2, <2>3 DEF TypeOK, ReviewSucceeds
<1>10. ASSUME NEW h \in Hooks, ReviewFails(h) PROVE TypeOK'
       BY <1>0, <1>10 DEF TypeOK, ReviewFails
<1>11. ASSUME NEW h \in Hooks, WriteCache(h) PROVE TypeOK'
  <2> DEFINE entry == [view |-> sent[h], concerns |-> found[h],
                       written |-> writes + 1, fresh |-> TRUE]
  <2>1. sent[h] \in View
        BY <1>0, <1>11 DEF WriteCache, HooksAreOrderly
  <2>2. entry \in Entry
        BY <1>0, <2>1 DEF TypeOK, Entry
  <2>3. cache' \in SUBSET Entry /\ writes' \in Nat
    <3>1. CASE UNCHANGED cacheVars
          BY <1>0, <3>1 DEF TypeOK
    <3>2. CASE /\ cache' = {e \in cache : e.view # sent[h]} \cup {entry}
               /\ writes' = writes + 1
      <4> HIDE DEF entry
      <4> QED
          BY <1>0, <2>2, <3>2 DEF TypeOK
    <3> QED
        BY <1>11, <3>1, <3>2 DEF WriteCache, CacheKey
  <2>4. UNCHANGED <<history, hookVars, message, lockVars, shard, codexVars>>
        BY <1>11 DEF WriteCache
  <2>5. pc' \in [Hooks -> Controls]
        BY <1>0, <1>11 DEF TypeOK, WriteCache
  <2> QED
      BY ONLY <1>0, <2>3, <2>4, <2>5 DEF TypeOK, hookVars, codexVars, lockVars
<1>12. ASSUME NEW h \in Hooks, EvictOldest(h) PROVE TypeOK'
       BY <1>0, <1>12 DEF TypeOK, EvictOldest
<1>13. ASSUME NEW h \in Hooks, LoadShard(h) PROVE TypeOK'
       BY <1>0, <1>13 DEF TypeOK, LoadShard
<1>14. ASSUME NEW h \in Hooks, SaveShard(h) PROVE TypeOK'
       BY <1>0, <1>14, CountsStayCounts DEF TypeOK, SaveShard
<1>15. ASSUME NEW h \in Hooks, EmitVerdict(h) PROVE TypeOK'
       BY <1>0, <1>15 DEF TypeOK, EmitVerdict, MessageFor
<1>16. ASSUME NEW h \in Hooks, Exit(h) \/ Crash(h) PROVE TypeOK'
       BY <1>0, <1>16 DEF TypeOK, Exit, Crash, ReleaseLock
<1>17. ASSUME NEW h \in Hooks, Kill(h) PROVE TypeOK'
       BY <1>0, <1>17 DEF TypeOK, Kill
<1>18. ASSUME NEW e \in cache, Expire(e) PROVE TypeOK'
  <2>1. [e EXCEPT !.fresh = FALSE] \in Entry
        BY <1>0 DEF TypeOK, Entry
  <2> QED
      BY <1>0, <1>18, <2>1 DEF TypeOK, Expire
<1>19. CASE UNCHANGED vars
       BY <1>0, <1>19 DEF TypeOK, vars
<1>21. CASE Sweep
       BY <1>0, <1>21 DEF TypeOK, Sweep, NoCounts, Counts
<1> QED
    BY <1>1, <1>2, <1>3, <1>4, <1>5, <1>6, <1>7, <1>8, <1>9, <1>10, <1>11, <1>12, <1>13,
       <1>14, <1>15, <1>16, <1>17, <1>18, <1>19, <1>20, <1>21 DEF Next, HookStep

-----------------------------------------------------------------------------
(* Order: who has started, who has read, who has reported                   *)

LEMMA InitOrderly == Init => HooksAreOrderly
BY DEF Init, HooksAreOrderly, At, Critical

LEMMA NextOrderly == TypeInv /\ [Next]_vars => HooksAreOrderly'
<1> SUFFICES ASSUME TypeInv, [Next]_vars, NEW g \in Hooks
             PROVE  /\ g > Len(history') => pc'[g] = "none"
                    /\ pc'[g] = "big" => seen'[g] \in 1..Len(history')
                    /\ pc'[g] \in {"read", "hit", "missed"} \cup Critical => sent'[g] \in View
                    /\ message'[g] # "none"
                           => pc'[g] \in {"skipped", "served", "leaving", "done", "crashed", "killed"}
    BY DEF HooksAreOrderly, At, Dead
<1>0. /\ TypeOK /\ TypeOK'
      /\ g > Len(history) => pc[g] = "none"
      /\ pc[g] = "big" => seen[g] \in 1..Len(history)
      /\ pc[g] \in {"read", "hit", "missed"} \cup Critical => sent[g] \in View
      /\ message[g] # "none" => pc[g] \in {"skipped", "served", "leaving", "done", "crashed", "killed"}
      BY NextTypeOK DEF TypeInv, HooksAreOrderly, At, Dead
<1>l. Len(history) \in Nat /\ EditBound \in Nat
      BY <1>0 DEF TypeOK
<1> USE <1>0, <1>l DEF Goto, At, Emit, hookVars, codexVars, cacheVars, lockVars, Critical
<1> DEFINE Orderly ==
        /\ g > Len(history') => pc'[g] = "none"
        /\ pc'[g] = "big" => seen'[g] \in 1..Len(history')
        /\ pc'[g] \in {"read", "hit", "missed"} \cup Critical => sent'[g] \in View
        /\ message'[g] # "none" => pc'[g] \in {"skipped", "served", "leaving", "done", "crashed", "killed"}
<1>1. ASSUME NEW c \in Contents, Edit(c) PROVE Orderly
  <2>1. Len(history') = Len(history) + 1 /\ Len(history) + 1 \in Hooks
        BY <1>1 DEF Edit, TypeOK
  <2> QED
      BY <1>1, <2>1 DEF Edit, TypeOK
<1>2. ASSUME NEW h \in Hooks, Skip(h) \/ Unreadable(h) PROVE Orderly
      BY <1>2 DEF TypeOK, Skip, Unreadable
<1>3. ASSUME NEW h \in Hooks, ReadFile(h) PROVE Orderly
  <2>1. pc[h] = "started" /\ Len(history) \in 1..Len(history)
        BY <1>3 DEF ReadFile, TypeInv, HooksAreOrderly
  <2>2. history[Len(history)] \in Contents
        BY <2>1 DEF TypeOK
  <2>3. CASE g = h
    <3>1. seen'[g] = Len(history) /\ history' = history /\ message' = message
          BY <1>3, <2>3 DEF ReadFile, TypeOK
    <3>2. CASE pc'[g] = "big"
          BY <2>1, <2>3, <3>1, <3>2
    <3>3. CASE pc'[g] = "read" /\ sent'[g] \in View
          BY <2>1, <2>3, <3>1, <3>3
    <3> QED
        BY <1>3, <2>2, <2>3, <3>2, <3>3, ShownIsView DEF ReadFile, TypeOK
  <2>4. CASE g # h
        BY <1>3, <2>4 DEF ReadFile, TypeOK
  <2> QED
      BY <2>3, <2>4
<1>14. ASSUME NEW h \in Hooks, BuildAdaptiveContext(h) PROVE Orderly
  <2>1. PICK view \in View : sent' = [sent EXCEPT ![h] = view]
        BY <1>14, AdaptiveContextIsView DEF TypeInv
  <2> QED
      BY <1>14, <2>1 DEF BuildAdaptiveContext, GitDiff, CutOff, TypeOK
<1>4. ASSUME NEW h \in Hooks, CheckCache(h) PROVE Orderly
      BY <1>4 DEF TypeOK, CheckCache
<1>5. ASSUME NEW h \in Hooks, EmitCached(h) PROVE Orderly
      BY <1>5 DEF TypeOK, EmitCached
<1>6. ASSUME NEW h \in Hooks, Acquire(h) \/ Recover(h) \/ Coalesce(h) \/ LockFails(h) PROVE Orderly
      BY <1>6 DEF TypeOK, Acquire, Recover, Coalesce, LockFails
<1>7. ASSUME NEW h \in Hooks, ReviewSucceeds(h) \/ ReviewFails(h) PROVE Orderly
      BY <1>7 DEF TypeOK, ReviewSucceeds, ReviewFails
<1>8. ASSUME NEW h \in Hooks, WriteCache(h) \/ EvictOldest(h) PROVE Orderly
      BY <1>8 DEF TypeOK, WriteCache, EvictOldest
<1>9. ASSUME NEW h \in Hooks, LoadShard(h) \/ SaveShard(h) PROVE Orderly
      BY <1>9 DEF TypeOK, LoadShard, SaveShard
<1>10. ASSUME NEW h \in Hooks, EmitVerdict(h) PROVE Orderly
      BY <1>10 DEF TypeOK, EmitVerdict
<1>11. ASSUME NEW h \in Hooks, Exit(h) \/ Crash(h) \/ Kill(h) PROVE Orderly
      BY <1>11 DEF TypeOK, Exit, Crash, Kill
<1>12. ASSUME NEW e \in cache, Expire(e) PROVE Orderly
      BY <1>12 DEF Expire
<1>13. CASE UNCHANGED vars
      BY <1>13 DEF vars
<1>15. CASE Sweep
      BY <1>15 DEF Sweep
<1> QED
    BY <1>1, <1>2, <1>3, <1>4, <1>5, <1>6, <1>7, <1>8, <1>9, <1>10, <1>11, <1>12, <1>13, <1>14, <1>15
       DEF Next, HookStep

THEOREM TypeInvariant == Spec => []TypeInv
<1>1. Init => TypeInv
      BY InitTypeOK, InitOrderly DEF TypeInv
<1>2. TypeInv /\ [Next]_vars => TypeInv'
      BY NextTypeOK, NextOrderly DEF TypeInv
<1> QED
    BY <1>1, <1>2, PTL DEF Spec

(* Type correctness of the hooks.                                           *)
THEOREM TypeCorrect == Spec => []TypeOK
BY TypeInvariant, PTL DEF TypeInv

-----------------------------------------------------------------------------
(* The lock                                                                 *)

LEMMA InitHolder == Init => HolderHasLock
BY DEF Init, HolderHasLock, Critical

(* A lock left behind or taken stays so.                                    *)
LEMMA TrustIsLost == [Next]_vars /\ trusted' /\ TypeOK => trusted
BY DEF Next, HookStep, Edit, Skip, Unreadable, ReadFile, BuildAdaptiveContext, CheckCache,
   EmitCached, Acquire, Recover, Coalesce, LockFails, ReviewSucceeds, ReviewFails, WriteCache,
   EvictOldest, LoadShard, SaveShard, EmitVerdict, Exit, Crash, Kill, ReleaseLock, Expire,
   Sweep, vars, lockVars, TypeOK

LEMMA NextHolder == TypeInv /\ HolderHasLock /\ [Next]_vars => HolderHasLock'
<1> SUFFICES ASSUME TypeInv, HolderHasLock, [Next]_vars, trusted', NEW g \in Hooks
             PROVE  pc'[g] \in Critical <=> lock' = g
    BY DEF HolderHasLock
<1>0. TypeOK /\ HooksAreOrderly /\ TypeOK' /\ trusted
      BY NextTypeOK, TrustIsLost DEF TypeInv
<1> USE <1>0 DEF HolderHasLock, Goto, At, hookVars, codexVars, cacheVars, lockVars, Critical
<1> DEFINE Held == pc'[g] \in Critical <=> lock' = g
<1>1. ASSUME NEW c \in Contents, Edit(c) PROVE Held
  <2>1. Len(history) + 1 \in Hooks /\ pc[Len(history) + 1] = "none"
        BY <1>1 DEF Edit, TypeOK, HooksAreOrderly
  <2> QED
      BY <1>1, <2>1 DEF Edit, TypeOK
<1>2. ASSUME NEW h \in Hooks,
             Skip(h) \/ Unreadable(h) \/ ReadFile(h) \/ BuildAdaptiveContext(h)
      PROVE  Held
      BY <1>2 DEF TypeOK, Skip, Unreadable, ReadFile, BuildAdaptiveContext, GitDiff, CutOff
<1>3. ASSUME NEW h \in Hooks, CheckCache(h) \/ EmitCached(h) PROVE Held
      BY <1>3 DEF TypeOK, CheckCache, EmitCached
<1>4. ASSUME NEW h \in Hooks, Acquire(h) \/ Recover(h) PROVE Held
      BY <1>4 DEF TypeOK, Acquire, Recover
<1>5. ASSUME NEW h \in Hooks, Coalesce(h) \/ LockFails(h) PROVE Held
      BY <1>5 DEF TypeOK, Coalesce, LockFails
<1>6. ASSUME NEW h \in Hooks, ReviewSucceeds(h) \/ ReviewFails(h) PROVE Held
      BY <1>6 DEF TypeOK, ReviewSucceeds, ReviewFails
<1>7. ASSUME NEW h \in Hooks, WriteCache(h) \/ EvictOldest(h) PROVE Held
      BY <1>7 DEF TypeOK, WriteCache, EvictOldest
<1>8. ASSUME NEW h \in Hooks, LoadShard(h) \/ SaveShard(h) \/ EmitVerdict(h) PROVE Held
      BY <1>8 DEF TypeOK, LoadShard, SaveShard, EmitVerdict
<1>9. ASSUME NEW h \in Hooks, Exit(h) PROVE Held
      BY <1>9 DEF TypeOK, Exit, ReleaseLock
<1>10. ASSUME NEW h \in Hooks, Crash(h) PROVE Held
       BY <1>10 DEF TypeOK, Crash, ReleaseLock
<1>11. ASSUME NEW h \in Hooks, Kill(h) PROVE Held
       BY <1>11 DEF TypeOK, Kill
<1>12. ASSUME NEW e \in cache, Expire(e) PROVE Held
       BY <1>12 DEF Expire
<1>13. CASE UNCHANGED vars
       BY <1>13 DEF vars
<1>14. CASE Sweep
       BY <1>14 DEF Sweep
<1> QED
    BY <1>1, <1>2, <1>3, <1>4, <1>5, <1>6, <1>7, <1>8, <1>9, <1>10, <1>11, <1>12, <1>13, <1>14
       DEF Next, HookStep

-----------------------------------------------------------------------------
(* The shard                                                                *)

LEMMA NextLoaded ==
    TypeInv /\ HolderHasLock /\ LoadIsCurrent /\ [Next]_vars => LoadIsCurrent'
<1> SUFFICES ASSUME TypeInv, HolderHasLock, LoadIsCurrent, [Next]_vars, trusted',
                    NEW g \in Hooks
             PROVE  pc'[g] = "loaded" => shard' \in {loaded'[g], NoCounts}
    BY DEF LoadIsCurrent, At
<1>0. TypeOK /\ HooksAreOrderly /\ TypeOK' /\ trusted
      BY NextTypeOK, TrustIsLost DEF TypeInv
<1> USE <1>0 DEF LoadIsCurrent, Goto, At, hookVars, codexVars, cacheVars, lockVars, Critical
<1> DEFINE Current == pc'[g] = "loaded" => shard' \in {loaded'[g], NoCounts}
<1>1. ASSUME NEW c \in Contents, Edit(c) PROVE Current
      BY <1>1 DEF Edit, TypeOK
<1>2. ASSUME NEW h \in Hooks, 
             Skip(h) \/ Unreadable(h) \/ ReadFile(h) \/ BuildAdaptiveContext(h)
      PROVE  Current
      BY <1>2 DEF TypeOK, Skip, Unreadable, ReadFile, BuildAdaptiveContext, GitDiff, CutOff
<1>3. ASSUME NEW h \in Hooks, CheckCache(h) \/ EmitCached(h) PROVE Current
      BY <1>3 DEF TypeOK, CheckCache, EmitCached
<1>4. ASSUME NEW h \in Hooks, Acquire(h) \/ Recover(h) \/ Coalesce(h) \/ LockFails(h) PROVE Current
      BY <1>4 DEF TypeOK, Acquire, Recover, Coalesce, LockFails
<1>5. ASSUME NEW h \in Hooks, ReviewSucceeds(h) \/ ReviewFails(h) PROVE Current
      BY <1>5 DEF TypeOK, ReviewSucceeds, ReviewFails
<1>6. ASSUME NEW h \in Hooks, WriteCache(h) \/ EvictOldest(h) PROVE Current
      BY <1>6 DEF TypeOK, WriteCache, EvictOldest
<1>7. ASSUME NEW h \in Hooks, LoadShard(h) PROVE Current
      BY <1>7 DEF TypeOK, LoadShard
<1>8. ASSUME NEW h \in Hooks, SaveShard(h) PROVE Current
      BY <1>8 DEF TypeOK, SaveShard, HolderHasLock
<1>9. ASSUME NEW h \in Hooks, EmitVerdict(h) \/ Exit(h) \/ Crash(h) \/ Kill(h) PROVE Current
      BY <1>9 DEF TypeOK, EmitVerdict, Exit, Crash, Kill
<1>10. ASSUME NEW e \in cache, Expire(e) PROVE Current
       BY <1>10 DEF Expire
<1>11. CASE UNCHANGED vars
       BY <1>11 DEF vars
<1>12. CASE Sweep
       BY <1>12 DEF Sweep
<1> QED
    BY <1>1, <1>2, <1>3, <1>4, <1>5, <1>6, <1>7, <1>8, <1>9, <1>10, <1>11, <1>12
       DEF Next, HookStep

ShardInv == TypeInv /\ HolderHasLock /\ LoadIsCurrent

LEMMA NextShardInv == ShardInv /\ [Next]_vars => ShardInv'
BY NextTypeOK, NextOrderly, NextHolder, NextLoaded DEF ShardInv, TypeInv

THEOREM ShardInvariant == Spec => []ShardInv
<1>1. Init => ShardInv
  <2>1. Init => LoadIsCurrent
        BY DEF Init, LoadIsCurrent, At
  <2> QED
      BY <2>1, InitTypeOK, InitOrderly, InitHolder DEF ShardInv, TypeInv
<1> QED
    BY <1>1, NextShardInv, PTL DEF Spec

(* What is remembered is what the one hook has loaded that will save it,    *)
(* and else what the shard holds.                                           *)
MemoryIsLoaded ==
    /\ \A h \in Hooks : At(h, "loaded") => Remembered = loaded[h]
    /\ (\A h \in Hooks : ~At(h, "loaded")) => Remembered = shard

LEMMA ShardIsRemembered == ShardInv /\ trusted => MemoryIsLoaded
<1> SUFFICES ASSUME ShardInv, trusted, NEW h \in Hooks, At(h, "loaded")
             PROVE  Remembered = loaded[h]
    BY DEF MemoryIsLoaded, Remembered
<1>1. \A g \in Hooks : At(g, "loaded") => g = h
      BY DEF ShardInv, HolderHasLock, At, Critical
<1>2. (CHOOSE g \in Hooks : At(g, "loaded")) = h
      BY <1>1
<1>3. shard \in {loaded[h], NoCounts}
      BY DEF ShardInv, LoadIsCurrent
<1> QED
    BY <1>2, <1>3 DEF Remembered

(* A step that is none of the shard's keeps what is remembered.             *)
LEMMA QuietStepKeepsMemory ==
    ASSUME MemoryIsLoaded, MemoryIsLoaded', UNCHANGED <<shard, loaded>>,
           \A g \in Hooks : pc'[g] = "loaded" <=> pc[g] = "loaded"
    PROVE  Remembered' = Remembered
<1>1. CASE \E g \in Hooks : pc[g] = "loaded"
  <2>1. PICK g \in Hooks : pc[g] = "loaded"
        BY <1>1
  <2>2. Remembered = loaded[g]
        BY <2>1 DEF MemoryIsLoaded, At
  <2>3. Remembered' = loaded'[g]
        BY <2>1 DEF MemoryIsLoaded, At
  <2> QED
      BY <2>2, <2>3
<1>2. CASE \A g \in Hooks : pc[g] # "loaded"
  <2>1. Remembered = shard
        BY <1>2 DEF MemoryIsLoaded, At
  <2>2. Remembered' = shard'
        BY <1>2 DEF MemoryIsLoaded, At
  <2> QED
      BY <2>1, <2>2
<1> QED
    BY <1>1, <1>2

(* No increment is lost or made twice: as long as the lock is exclusive,    *)
(* load and save of the shard are one step of RepetitionCounter, even if    *)
(* the shard is swept in between.                                           *)
THEOREM RepetitionsAreCounted == Spec => CountsReviews
<1>1. Init => Counter!Init
      BY DEF Init, Counter!Init, NoCounts, Remembered, At
<1>2. ShardInv /\ [Next]_vars /\ (trusted => MemoryIsLoaded) /\ (trusted => MemoryIsLoaded)'
          => [Counter!Next]_<<Remembered, trusted>>
  <2> SUFFICES ASSUME ShardInv, [Next]_vars, trusted => MemoryIsLoaded,
                      trusted' => MemoryIsLoaded', trusted'
               PROVE  Counter!Next \/ UNCHANGED <<Remembered, trusted>>
      BY DEF Counter!Next, Counter!Overlapped
  <2>t. trusted /\ trusted' = trusted
        BY TrustIsLost DEF ShardInv, TypeInv, TypeOK
  <2> SUFFICES ASSUME MemoryIsLoaded, MemoryIsLoaded'
               PROVE  Counter!Next \/ Remembered' = Remembered
      BY <2>t
  <2> USE <2>t
  <2>0. TypeOK /\ HooksAreOrderly /\ HolderHasLock /\ LoadIsCurrent
        BY DEF ShardInv, TypeInv
  <2>a. Remembered' = NoCounts => Counter!Next
        BY DEF Counter!Next, Counter!Forget, NoCounts
  <2>b. ASSUME NEW h \in Hooks, pc[h] = "loaded", pc'[h] # "loaded",
               \A g \in Hooks \ {h} : pc'[g] = pc[g]
        PROVE  /\ Remembered = loaded[h] /\ Remembered' = shard'
               /\ shard \in {Remembered, NoCounts}
    <3>1. \A g \in Hooks : pc'[g] # "loaded"
          BY <2>0, <2>b DEF HolderHasLock, Critical
    <3> QED
        BY <2>0, <2>b, <3>1 DEF MemoryIsLoaded, LoadIsCurrent, At
  <2> USE DEF Goto, At, hookVars, codexVars, cacheVars, lockVars
  <2>1. ASSUME NEW h \in Hooks, SaveShard(h) PROVE Counter!Next \/ Remembered' = Remembered
    <3>1. Remembered = loaded[h] /\ Remembered' = shard' /\ shard \in {Remembered, NoCounts}
          BY <2>0, <2>1, <2>b DEF SaveShard, TypeOK
    <3>2. found[h] \in SUBSET Concerns
          BY <2>0 DEF TypeOK
    <3>3. shard' = Flag(Remembered, found[h]) \/ shard' = shard
          BY <2>1, <3>1 DEF SaveShard
    <3>4. CASE shard' = Flag(Remembered, found[h])
          BY <3>1, <3>2, <3>4 DEF Flag, Counter!Next, Counter!Count
    <3>5. CASE shard' = shard
          BY <2>a, <3>1, <3>5
    <3> QED
        BY <3>3, <3>4, <3>5
  <2>2. ASSUME NEW h \in Hooks, LoadShard(h) PROVE Remembered' = Remembered
    <3>1. pc[h] = "evicted" /\ pc'[h] = "loaded" /\ loaded'[h] = shard
          BY <2>0, <2>2 DEF LoadShard, TypeOK
    <3>2. Remembered' = shard
          BY <3>1 DEF MemoryIsLoaded
    <3>3. \A g \in Hooks : pc[g] # "loaded"
          BY <2>0, <3>1 DEF HolderHasLock, Critical
    <3> QED
        BY <3>2, <3>3 DEF MemoryIsLoaded
  <2>3. ASSUME Sweep PROVE Counter!Next \/ Remembered' = Remembered
    <3>1. UNCHANGED <<pc, loaded>> /\ shard' = NoCounts
          BY <2>3 DEF Sweep
    <3>2. CASE \E g \in Hooks : pc[g] = "loaded"
      <4>1. PICK g \in Hooks : pc[g] = "loaded"
            BY <3>2
      <4>2. Remembered = loaded[g]
            BY <4>1 DEF MemoryIsLoaded
      <4>3. Remembered' = loaded'[g]
            BY <3>1, <4>1 DEF MemoryIsLoaded
      <4> QED
          BY <3>1, <4>2, <4>3
    <3>3. CASE \A g \in Hooks : pc[g] # "loaded"
          BY <2>a, <3>1, <3>3 DEF MemoryIsLoaded
    <3> QED
        BY <3>2, <3>3
  <2>4. ASSUME NEW h \in Hooks, Crash(h) \/ Kill(h)
        PROVE  Counter!Next \/ Remembered' = Remembered
    <3>1. /\ UNCHANGED <<shard, loaded>> /\ pc'[h] \in {"crashed", "killed"}
          /\ \A g \in Hooks \ {h} : pc'[g] = pc[g]
          BY <2>0, <2>4 DEF Crash, Kill, TypeOK
    <3>2. CASE pc[h] = "loaded"
          BY <2>a, <2>b, <3>1, <3>2
    <3>3. CASE pc[h] # "loaded"
          BY <3>1, <3>3, QuietStepKeepsMemory
    <3> QED
        BY <3>2, <3>3
  <2> DEFINE Quiet == /\ UNCHANGED <<shard, loaded>>
                      /\ \A g \in Hooks : pc'[g] = "loaded" <=> pc[g] = "loaded"
  <2>5. ASSUME NEW h \in Hooks,
               \/ Skip(h) \/ Unreadable(h) \/ ReadFile(h) \/ BuildAdaptiveContext(h)
               \/ CheckCache(h) \/ EmitCached(h) \/ Acquire(h) \/ Recover(h) \/ Coalesce(h) \/ LockFails(h)
        PROVE  Quiet
        BY <2>0, <2>5 DEF TypeOK, Skip, Unreadable, ReadFile, BuildAdaptiveContext, GitDiff,
           CutOff, CheckCache, EmitCached, Acquire, Recover, Coalesce, LockFails
  <2>6. ASSUME NEW h \in Hooks,
               \/ ReviewSucceeds(h) \/ ReviewFails(h) \/ WriteCache(h) \/ EvictOldest(h)
               \/ EmitVerdict(h) \/ Exit(h)
        PROVE  Quiet
        BY <2>0, <2>6 DEF TypeOK, ReviewSucceeds, ReviewFails, WriteCache, EvictOldest,
           EmitVerdict, Exit
  <2>7. ASSUME NEW c \in Contents, Edit(c) PROVE Quiet
    <3>1. Len(history) + 1 \in Hooks /\ pc[Len(history) + 1] = "none"
          BY <2>0, <2>7 DEF Edit, TypeOK, HooksAreOrderly
    <3> QED
        BY <2>0, <2>7, <3>1 DEF Edit, TypeOK
  <2>8. ASSUME (\E e \in cache : Expire(e)) \/ UNCHANGED vars PROVE Quiet
        BY <2>8 DEF Expire, vars
  <2>9. Quiet => Remembered' = Remembered
        BY QuietStepKeepsMemory
  <2> HIDE DEF Quiet
  <2> QED
      BY <2>1, <2>2, <2>3, <2>4, <2>5, <2>6, <2>7, <2>8, <2>9 DEF Next, HookStep
<1> QED
    BY <1>1, <1>2, ShardIsRemembered, ShardInvariant, PTL DEF Spec, CountsReviews, Counter!Spec

-----------------------------------------------------------------------------
(* The banner                                                               *)

(* How the size of a set of hooks compares with that of others.             *)
LEMMA HooksCount ==
    ASSUME NEW S \in SUBSET Hooks
    PROVE  /\ Cardinality(S) \in Nat
           /\ \A T \in SUBSET S : Cardinality(T) \in Nat /\ Cardinality(T) <= Cardinality(S)
           /\ \A h \in S : Cardinality(S \ {h}) = Cardinality(S) - 1
           /\ \A h \in Hooks : Cardinality(S \cup {h}) <= Cardinality(S) + 1
<1>1. IsFiniteSet(Hooks)
      BY FS_Interval
<1>2. IsFiniteSet(S) /\ Cardinality(S) \in Nat
      BY <1>1, FS_Subset, FS_CardinalityType
<1>3. \A T \in SUBSET S : Cardinality(T) \in Nat /\ Cardinality(T) <= Cardinality(S)
      BY <1>2, FS_Subset, FS_CardinalityType
<1>4. \A h \in S : Cardinality(S \ {h}) = Cardinality(S) - 1
      BY <1>2, FS_RemoveElement
<1>5. \A h \in Hooks : Cardinality(S \cup {h}) <= Cardinality(S) + 1
  <2> TAKE h \in Hooks
  <2>1. Cardinality(S \cup {h}) = IF h \in S THEN Cardinality(S) ELSE Cardinality(S) + 1
        BY <1>2, FS_AddElement, Zenon
  <2> QED
      BY <1>2, <2>1
<1> QED
    BY <1>2, <1>3, <1>4, <1>5

(* What the invariant says of one concern, and the numbers in it.           *)
EarnedCount(c) ==
    /\ shard[c] + Cardinality(Uncounted(c)) <= tally[c]
    /\ \A h \in Hooks :
           /\ At(h, "loaded") => loaded[h][c] + Cardinality(Uncounted(c)) <= tally[c]
           /\ At(h, "saved") => Flag(loaded[h], found[h])[c] <= tally[c]

LEMMA Numbers ==
    ASSUME TypeOK, NEW c \in Concerns
    PROVE  /\ shard[c] \in Nat /\ tally[c] \in Nat
           /\ \A h \in Hooks : loaded[h][c] \in Nat
           /\ Uncounted(c) \in SUBSET Hooks /\ Cardinality(Uncounted(c)) \in Nat
<1>1. Uncounted(c) \in SUBSET Hooks
      BY DEF Uncounted
<1> QED
    BY <1>1, HooksCount DEF TypeOK, Counts

(* A review that flags a concern earns it one more count.                   *)
LEMMA ReviewEarns ==
    ASSUME TypeOK, CountsAreEarned, NEW h \in Hooks, ReviewSucceeds(h)
    PROVE  CountsAreEarned'
<1> SUFFICES ASSUME NEW c \in Concerns PROVE EarnedCount(c)'
    BY DEF CountsAreEarned, EarnedCount
<1>1. PICK concerns \in SUBSET Concerns :
          found' = [found EXCEPT ![h] = concerns] /\ tally' = Increment(tally, concerns)
      BY DEF ReviewSucceeds
<1>2. tally'[c] = IF c \in concerns THEN tally[c] + 1 ELSE tally[c]
      BY <1>1 DEF Increment
<1>3. /\ UNCHANGED <<shard, loaded>> /\ pc[h] = "locked"
      /\ pc' = [pc EXCEPT ![h] = "reviewed"]
      BY DEF ReviewSucceeds, At, Goto
<1>4. \A g \in Hooks \ {h} : found'[g] = found[g] /\ pc'[g] = pc[g]
      BY <1>1, <1>3 DEF TypeOK
<1>5. pc'[h] = "reviewed" /\ found'[h] = concerns
      BY <1>1, <1>3 DEF TypeOK
<1>6. Uncounted(c)' \subseteq Uncounted(c) \cup (IF c \in concerns THEN {h} ELSE {})
      BY <1>4, <1>5 DEF Uncounted
<1>n. /\ shard[c] \in Nat /\ tally[c] \in Nat /\ \A g \in Hooks : loaded[g][c] \in Nat
      /\ Uncounted(c) \in SUBSET Hooks /\ Cardinality(Uncounted(c)) \in Nat
      BY Numbers
<1>7. /\ Cardinality(Uncounted(c)') \in Nat
      /\ Cardinality(Uncounted(c)') <= Cardinality(Uncounted(c)) + (IF c \in concerns THEN 1 ELSE 0)
  <2>1. CASE c \in concerns
    <3>1. Uncounted(c) \cup {h} \in SUBSET Hooks
          BY <1>n
    <3>2. /\ Cardinality(Uncounted(c)') \in Nat
          /\ Cardinality(Uncounted(c)') <= Cardinality(Uncounted(c) \cup {h})
          BY <1>6, <2>1, <3>1, HooksCount
    <3>3. /\ Cardinality(Uncounted(c) \cup {h}) \in Nat
          /\ Cardinality(Uncounted(c) \cup {h}) <= Cardinality(Uncounted(c)) + 1
          BY <1>n, <3>1, HooksCount
    <3> QED
        BY <1>n, <2>1, <3>2, <3>3
  <2>2. CASE c \notin concerns
        BY <1>6, <1>n, <2>2, HooksCount
  <2> QED
      BY <2>1, <2>2
<1>8. /\ shard[c] + Cardinality(Uncounted(c)) <= tally[c]
      /\ \A g \in Hooks :
             /\ pc[g] = "loaded" => loaded[g][c] + Cardinality(Uncounted(c)) <= tally[c]
             /\ pc[g] = "saved" => Flag(loaded[g], found[g])[c] <= tally[c]
      BY DEF CountsAreEarned, At
<1>9. shard'[c] + Cardinality(Uncounted(c)') <= tally'[c]
      BY <1>2, <1>3, <1>7, <1>8, <1>n
<1>10. ASSUME NEW g \in Hooks, pc'[g] = "loaded"
       PROVE  loaded'[g][c] + Cardinality(Uncounted(c)') <= tally'[c]
  <2>1. pc[g] = "loaded"
        BY <1>4, <1>5, <1>10
  <2> QED
      BY <1>2, <1>3, <1>7, <1>8, <1>n, <2>1
<1>11. ASSUME NEW g \in Hooks, pc'[g] = "saved"
       PROVE  Flag(loaded'[g], found'[g])[c] <= tally'[c]
  <2>1. pc[g] = "saved" /\ found'[g] = found[g]
        BY <1>4, <1>5, <1>11
  <2>2. Flag(loaded[g], found[g])[c] \in Nat
        BY <1>n DEF Flag
  <2> QED
      BY <1>2, <1>3, <1>8, <1>n, <2>1, <2>2
<1> QED
    BY <1>9, <1>10, <1>11 DEF EarnedCount, At

(* What is saved was earned when it was loaded, and the hook that saves it  *)
(* is no longer to be counted.                                              *)
LEMMA SaveEarns ==
    ASSUME TypeOK, CountsAreEarned, NEW h \in Hooks, SaveShard(h)
    PROVE  CountsAreEarned'
<1> SUFFICES ASSUME NEW c \in Concerns PROVE EarnedCount(c)'
    BY DEF CountsAreEarned, EarnedCount
<1>1. UNCHANGED <<tally, loaded, found>>
      BY DEF SaveShard, hookVars, codexVars
<1>2. pc[h] = "loaded" /\ pc' = [pc EXCEPT ![h] = "saved"]
      BY DEF SaveShard, At, Goto
<1>3. pc'[h] = "saved" /\ \A g \in Hooks \ {h} : pc'[g] = pc[g]
      BY <1>2 DEF TypeOK
<1>4. shard'[c] \in {Flag(loaded[h], found[h])[c], shard[c]}
      BY DEF SaveShard
<1>n. /\ shard[c] \in Nat /\ tally[c] \in Nat /\ \A g \in Hooks : loaded[g][c] \in Nat
      /\ Uncounted(c) \in SUBSET Hooks /\ Cardinality(Uncounted(c)) \in Nat
      BY Numbers
<1>5. Uncounted(c)' = Uncounted(c) \ {h}
      BY <1>1, <1>3 DEF Uncounted
<1>6. /\ Cardinality(Uncounted(c)') \in Nat
      /\ Cardinality(Uncounted(c)') <= Cardinality(Uncounted(c))
      BY <1>5, <1>n, HooksCount
<1>7. Flag(loaded[h], found[h])[c] + Cardinality(Uncounted(c)') <= tally[c]
      /\ Flag(loaded[h], found[h])[c] \in Nat
  <2>1. loaded[h][c] + Cardinality(Uncounted(c)) <= tally[c]
        BY <1>2 DEF CountsAreEarned, At
  <2>2. CASE c \in found[h]
    <3>1. h \in Uncounted(c)
          BY <1>2, <2>2 DEF Uncounted
    <3>2. Cardinality(Uncounted(c)') = Cardinality(Uncounted(c)) - 1
          BY <1>5, <1>n, <3>1, HooksCount
    <3>3. Flag(loaded[h], found[h])[c] = loaded[h][c] + 1
          BY <2>2 DEF Flag
    <3> QED
        BY <1>n, <1>6, <2>1, <3>2, <3>3
  <2>3. CASE c \notin found[h]
    <3>1. Flag(loaded[h], found[h])[c] = 0
          BY <2>3 DEF Flag
    <3> QED
        BY <1>n, <1>6, <2>1, <3>1
  <2> QED
      BY <2>2, <2>3
<1>8. /\ shard[c] + Cardinality(Uncounted(c)) <= tally[c]
      /\ \A g \in Hooks :
             /\ pc[g] = "loaded" => loaded[g][c] + Cardinality(Uncounted(c)) <= tally[c]
             /\ pc[g] = "saved" => Flag(loaded[g], found[g])[c] <= tally[c]
      BY DEF CountsAreEarned, At
<1>9. shard'[c] + Cardinality(Uncounted(c)') <= tally[c]
  <2>1. CASE shard'[c] = Flag(loaded[h], found[h])[c]
        BY <1>7, <2>1
  <2>2. CASE shard'[c] = shard[c]
        BY <1>6, <1>8, <1>n, <2>2
  <2> QED
      BY <1>4, <2>1, <2>2
<1>10. ASSUME NEW g \in Hooks, pc'[g] = "loaded"
       PROVE  loaded[g][c] + Cardinality(Uncounted(c)') <= tally[c]
  <2>1. pc[g] = "loaded"
        BY <1>3, <1>10
  <2> QED
      BY <1>6, <1>8, <1>n, <2>1
<1>11. ASSUME NEW g \in Hooks, pc'[g] = "saved"
       PROVE  Flag(loaded[g], found[g])[c] <= tally[c]
  <2>1. CASE g = h
        BY <1>6, <1>7, <1>n, <2>1
  <2>2. CASE g # h
        BY <1>3, <1>8, <1>11, <2>2
  <2> QED
      BY <2>1, <2>2
<1> QED
    BY <1>1, <1>9, <1>10, <1>11 DEF EarnedCount, At

LEMMA LoadEarns ==
    ASSUME TypeOK, CountsAreEarned, NEW h \in Hooks, LoadShard(h)
    PROVE  CountsAreEarned'
<1> SUFFICES ASSUME NEW c \in Concerns PROVE EarnedCount(c)'
    BY DEF CountsAreEarned, EarnedCount
<1>1. UNCHANGED <<shard, tally, found>>
      BY DEF LoadShard, codexVars
<1>2. /\ pc[h] = "evicted" /\ pc' = [pc EXCEPT ![h] = "loaded"]
      /\ loaded' = [loaded EXCEPT ![h] = shard]
      BY DEF LoadShard, At, Goto
<1>3. pc'[h] = "loaded" /\ loaded'[h] = shard
      BY <1>2 DEF TypeOK
<1>4. \A g \in Hooks \ {h} : pc'[g] = pc[g] /\ loaded'[g] = loaded[g]
      BY <1>2 DEF TypeOK
<1>5. Uncounted(c)' = Uncounted(c)
      BY <1>1, <1>2, <1>3, <1>4 DEF Uncounted
<1>6. EarnedCount(c)
      BY DEF CountsAreEarned, EarnedCount
<1> QED
    BY <1>1, <1>3, <1>4, <1>5, <1>6 DEF EarnedCount, At

(* What is swept was no less earned.                                        *)
LEMMA SweepEarns ==
    ASSUME TypeOK, CountsAreEarned, Sweep
    PROVE  CountsAreEarned'
<1> SUFFICES ASSUME NEW c \in Concerns PROVE EarnedCount(c)'
    BY DEF CountsAreEarned, EarnedCount
<1>1. UNCHANGED <<pc, tally, loaded, found>> /\ shard' = NoCounts
      BY DEF Sweep, hookVars, codexVars
<1>2. Uncounted(c)' = Uncounted(c) /\ shard'[c] = 0
      BY <1>1 DEF Uncounted, NoCounts
<1>3. shard[c] \in Nat /\ tally[c] \in Nat /\ Cardinality(Uncounted(c)) \in Nat
      BY Numbers
<1>4. EarnedCount(c)
      BY DEF CountsAreEarned, EarnedCount
<1> QED
    BY <1>1, <1>2, <1>3, <1>4 DEF EarnedCount, At

(* Every other step leaves the counts alone, and no hook gains a verdict.   *)
LEMMA OthersEarn ==
    ASSUME TypeOK, CountsAreEarned, UNCHANGED <<shard, tally, loaded>>,
           \A g \in Hooks :
               /\ pc'[g] \in {"reviewed", "written", "evicted", "loaded"} =>
                      /\ pc[g] \in {"reviewed", "written", "evicted", "loaded"}
                      /\ found'[g] = found[g]
               /\ pc'[g] = "loaded" => pc[g] = "loaded"
               /\ pc'[g] = "saved" => pc[g] = "saved" /\ found'[g] = found[g]
    PROVE  CountsAreEarned'
<1> SUFFICES ASSUME NEW c \in Concerns PROVE EarnedCount(c)'
    BY DEF CountsAreEarned, EarnedCount
<1>1. Uncounted(c)' \subseteq Uncounted(c)
      BY DEF Uncounted
<1>2. /\ shard[c] \in Nat /\ tally[c] \in Nat /\ \A g \in Hooks : loaded[g][c] \in Nat
      /\ Uncounted(c) \in SUBSET Hooks /\ Cardinality(Uncounted(c)) \in Nat
      BY Numbers
<1>3. /\ Cardinality(Uncounted(c)') \in Nat
      /\ Cardinality(Uncounted(c)') <= Cardinality(Uncounted(c))
      BY <1>1, <1>2, HooksCount
<1>4. EarnedCount(c)
      BY DEF CountsAreEarned, EarnedCount
<1> QED
    BY <1>2, <1>3, <1>4 DEF EarnedCount, At

LEMMA NextEarned == ShardInv /\ CountsAreEarned /\ [Next]_vars => CountsAreEarned'
<1> SUFFICES ASSUME ShardInv, CountsAreEarned, [Next]_vars PROVE CountsAreEarned'
    OBVIOUS
<1>0. TypeOK /\ HooksAreOrderly
      BY NextTypeOK DEF ShardInv, TypeInv
<1>1. ASSUME NEW h \in Hooks, ReviewSucceeds(h) PROVE CountsAreEarned'
      BY <1>0, <1>1, ReviewEarns
<1>2. ASSUME NEW h \in Hooks, SaveShard(h) PROVE CountsAreEarned'
      BY <1>0, <1>2, SaveEarns
<1>3. ASSUME NEW h \in Hooks, LoadShard(h) PROVE CountsAreEarned'
      BY <1>0, <1>3, LoadEarns
<1> DEFINE Quiet ==
        /\ UNCHANGED <<shard, tally, loaded>>
        /\ \A g \in Hooks :
               /\ pc'[g] \in {"reviewed", "written", "evicted", "loaded"} =>
                      /\ pc[g] \in {"reviewed", "written", "evicted", "loaded"}
                      /\ found'[g] = found[g]
               /\ pc'[g] = "loaded" => pc[g] = "loaded"
               /\ pc'[g] = "saved" => pc[g] = "saved" /\ found'[g] = found[g]
<1> USE <1>0 DEF TypeOK, Goto, At, hookVars, codexVars, cacheVars, lockVars
<1>4. ASSUME NEW c \in Contents, Edit(c) PROVE Quiet
      BY <1>4 DEF Edit
<1>5. ASSUME NEW h \in Hooks, 
             Skip(h) \/ Unreadable(h) \/ ReadFile(h) \/ BuildAdaptiveContext(h)
      PROVE  Quiet
      BY <1>5 DEF Skip, Unreadable, ReadFile, BuildAdaptiveContext, GitDiff, CutOff
<1>6. ASSUME NEW h \in Hooks, CheckCache(h) PROVE Quiet
      BY <1>6 DEF CheckCache
<1>7. ASSUME NEW h \in Hooks, EmitCached(h) \/ Acquire(h) \/ Recover(h) \/ Coalesce(h) \/ LockFails(h)
      PROVE  Quiet
      BY <1>7 DEF EmitCached, Acquire, Recover, Coalesce, LockFails
<1>8. ASSUME NEW h \in Hooks, ReviewFails(h) \/ EmitVerdict(h) \/ Exit(h) \/ Crash(h) \/ Kill(h)
      PROVE  Quiet
      BY <1>8 DEF ReviewFails, EmitVerdict, Exit, Crash, Kill
<1>9. ASSUME NEW h \in Hooks, WriteCache(h) \/ EvictOldest(h) PROVE Quiet
      BY <1>9 DEF WriteCache, EvictOldest
<1>10. ASSUME NEW e \in cache, Expire(e) PROVE Quiet
       BY <1>10 DEF Expire
<1>11. ASSUME UNCHANGED vars PROVE Quiet
       BY <1>11 DEF vars
<1>13. ASSUME Sweep PROVE CountsAreEarned'
       BY ONLY TypeOK, CountsAreEarned, Sweep, SweepEarns, <1>13
<1>12. Quiet => CountsAreEarned'
       BY ONLY TypeOK, CountsAreEarned, OthersEarn
<1> HIDE DEF Quiet
<1> QED
    BY <1>1, <1>2, <1>3, <1>4, <1>5, <1>6, <1>7, <1>8, <1>9, <1>10, <1>11, <1>12, <1>13
       DEF Next, HookStep

LEMMA InitEarned == Init => CountsAreEarned
<1> SUFFICES ASSUME Init, NEW c \in Concerns PROVE EarnedCount(c)
    BY DEF CountsAreEarned, EarnedCount
<1>1. Uncounted(c) = {}
      BY DEF Init, Uncounted
<1> QED
    BY <1>1, FS_EmptySet DEF Init, NoCounts, EarnedCount, At

(* A hook that is to report has no message yet, so that a reported verdict  *)
(* does not change, and what it was earned by only grows.                   *)
LEMMA NextBanner ==
    ShardInv /\ CountsAreEarned /\ BannerIsEarned /\ [Next]_vars => BannerIsEarned'
<1> SUFFICES ASSUME ShardInv, CountsAreEarned, BannerIsEarned, [Next]_vars,
                    NEW g \in Hooks, message'[g] = "banner"
             PROVE  \E c \in found'[g] : tally'[c] >= Threshold
    BY DEF BannerIsEarned
<1>0. TypeOK /\ TypeOK' /\ HooksAreOrderly
      BY NextTypeOK DEF ShardInv, TypeInv
<1> DEFINE Earned == \E c \in found'[g] : tally'[c] >= Threshold
<1>1. ASSUME UNCHANGED <<message, tally>>, pc[g] \notin {"read", "locked"} => found'[g] = found[g]
      PROVE  Earned
      BY <1>0, <1>1 DEF BannerIsEarned, HooksAreOrderly, Dead
<1>2. ASSUME message'[g] = message[g], UNCHANGED <<found, tally>> PROVE Earned
      BY <1>2 DEF BannerIsEarned
<1> USE <1>0 DEF Goto, At, Emit, hookVars, codexVars, cacheVars, lockVars
<1>3. ASSUME NEW h \in Hooks, EmitCached(h) PROVE Earned
  <2>1. CASE g = h
    <3>1. PICK c \in Blocking(shard) : c \in found[g]
          BY <1>3, <2>1 DEF EmitCached, MessageFor, TypeOK
    <3>2. c \in Concerns /\ shard[c] >= Threshold
          BY DEF Blocking
    <3>3. shard[c] <= tally[c] /\ shard[c] \in Nat /\ tally[c] \in Nat
          BY <3>2, Numbers DEF CountsAreEarned
    <3> QED
        BY <1>3, <3>1, <3>2, <3>3 DEF EmitCached
  <2>2. CASE g # h
        BY <1>2, <1>3, <2>2 DEF EmitCached, TypeOK
  <2> QED
      BY <2>1, <2>2
<1>4. ASSUME NEW h \in Hooks, EmitVerdict(h) PROVE Earned
  <2>1. CASE g = h
    <3>1. PICK c \in Blocking(Flag(loaded[g], found[g])) : TRUE
          BY <1>4, <2>1 DEF EmitVerdict, MessageFor, TypeOK
    <3>2. c \in Concerns /\ Flag(loaded[g], found[g])[c] >= Threshold
          BY DEF Blocking
    <3>3. c \in found[g]
          BY <3>2 DEF Flag
    <3>4. Flag(loaded[g], found[g])[c] <= tally[c]
          BY <1>4, <2>1, <3>2 DEF EmitVerdict, CountsAreEarned
    <3>5. Flag(loaded[g], found[g])[c] = loaded[g][c] + 1
          BY <3>2, <3>3 DEF Flag
    <3>6. loaded[g][c] \in Nat /\ tally[c] \in Nat
          BY <3>2 DEF TypeOK, Counts
    <3>7. tally[c] >= Threshold
          BY ONLY <3>2, <3>4, <3>5, <3>6, HookAssumption
    <3> QED
        BY <1>4, <3>3, <3>7 DEF EmitVerdict
  <2>2. CASE g # h
        BY <1>2, <1>4, <2>2 DEF EmitVerdict, TypeOK
  <2> QED
      BY <2>1, <2>2
<1>5. ASSUME NEW h \in Hooks, Unreadable(h) \/ ReviewFails(h) PROVE Earned
      BY <1>2, <1>5 DEF Unreadable, ReviewFails, TypeOK
<1>6. ASSUME NEW h \in Hooks, ReviewSucceeds(h) PROVE Earned
  <2>1. message' = message /\ message[g] = "banner"
        BY <1>6 DEF ReviewSucceeds
  <2>2. g # h /\ found'[g] = found[g]
        BY <1>6, <2>1 DEF ReviewSucceeds, HooksAreOrderly, Dead, TypeOK
  <2>3. PICK c \in found[g] : tally[c] >= Threshold
        BY <2>1 DEF BannerIsEarned
  <2>4. c \in Concerns /\ tally[c] \in Nat
        BY DEF TypeOK, Counts
  <2>5. tally'[c] >= tally[c] /\ tally'[c] \in Nat
        BY <1>6, <2>4 DEF ReviewSucceeds, Increment
  <2> QED
      BY <2>2, <2>3, <2>4, <2>5
<1>7. ASSUME NEW h \in Hooks, CheckCache(h) PROVE Earned
      BY <1>1, <1>7 DEF CheckCache, TypeOK
<1>8. ASSUME NEW h \in Hooks,
             \/ Skip(h) \/ ReadFile(h) \/ BuildAdaptiveContext(h) \/ Acquire(h) \/ Recover(h) \/ Coalesce(h) \/ LockFails(h)
             \/ WriteCache(h) \/ EvictOldest(h) \/ LoadShard(h) \/ SaveShard(h)
             \/ Exit(h) \/ Crash(h) \/ Kill(h)
      PROVE  Earned
      BY <1>2, <1>8 DEF Skip, ReadFile, BuildAdaptiveContext, GitDiff, CutOff, Acquire, Recover, Coalesce, LockFails, WriteCache, EvictOldest,
         LoadShard, SaveShard, Exit, Crash, Kill
<1>9. ASSUME NEW c \in Contents, Edit(c) PROVE Earned
      BY <1>2, <1>9 DEF Edit
<1>10. ASSUME NEW e \in cache, Expire(e) PROVE Earned
       BY <1>2, <1>10 DEF Expire
<1>11. ASSUME UNCHANGED vars \/ Sweep PROVE Earned
       BY <1>2, <1>11 DEF vars, Sweep
<1> HIDE DEF Earned
<1>12. Earned
       BY ONLY [Next]_vars, <1>3, <1>4, <1>5, <1>6, <1>7, <1>8, <1>9, <1>10, <1>11 DEF Next, HookStep
<1> QED
    BY <1>12 DEF Earned

(* The BLOCKING banner is never shown for a concern that fewer than         *)
(* Threshold live reviews flagged, whatever dies or is served by the cache. *)
THEOREM BannersAreEarned == Spec => []BannerIsEarned
<1>1. Init => CountsAreEarned /\ BannerIsEarned
      BY InitEarned DEF Init, BannerIsEarned
<1>2. ShardInv /\ CountsAreEarned /\ BannerIsEarned /\ [Next]_vars
          => CountsAreEarned' /\ BannerIsEarned'
      BY NextEarned, NextBanner
<1> QED
    BY <1>1, <1>2, ShardInvariant, PTL DEF Spec

-----------------------------------------------------------------------------
(* The cache                                                                *)

AnswerOf(h) == [view |-> sent[h], concerns |-> found[h]]

LEMMA NextAnswers == TypeInv /\ AnswersAreKept /\ [Next]_vars => AnswersAreKept'
<1> SUFFICES ASSUME TypeInv, AnswersAreKept, [Next]_vars, NEW g \in Hooks, pc'[g] = "reviewed"
             PROVE  AnswerOf(g)' \in reviews'
    BY DEF AnswersAreKept, At, AnswerOf
<1>0. TypeOK /\ TypeOK' /\ HooksAreOrderly
      BY NextTypeOK DEF TypeInv
<1>1. ASSUME pc[g] = "reviewed", sent'[g] = sent[g], found'[g] = found[g],
             reviews \subseteq reviews'
      PROVE  AnswerOf(g)' \in reviews'
      BY <1>1 DEF AnswersAreKept, At, AnswerOf
<1> USE <1>0 DEF Goto, At, hookVars, codexVars, cacheVars, lockVars
<1>2. ASSUME NEW h \in Hooks, ReviewSucceeds(h) PROVE AnswerOf(g)' \in reviews'
  <2>1. CASE g = h
    <3>1. PICK concerns \in SUBSET Concerns :
              /\ found' = [found EXCEPT ![h] = concerns]
              /\ reviews' = reviews \cup {[view |-> sent[h], concerns |-> concerns]}
          BY <1>2 DEF ReviewSucceeds
    <3>2. found'[g] = concerns /\ sent' = sent
          BY <1>2, <2>1, <3>1 DEF ReviewSucceeds, TypeOK
    <3> QED
        BY <2>1, <3>1, <3>2 DEF AnswerOf
  <2>2. CASE g # h
    <3>1. pc[g] = "reviewed" /\ sent' = sent /\ found'[g] = found[g]
          BY <1>2, <2>2 DEF ReviewSucceeds, TypeOK
    <3>2. reviews \subseteq reviews'
          BY <1>2 DEF ReviewSucceeds
    <3> QED
        BY <1>1, <3>1, <3>2
  <2> QED
      BY <2>1, <2>2
<1>3. ASSUME NEW c \in Contents, Edit(c) PROVE AnswerOf(g)' \in reviews'
      BY <1>1, <1>3 DEF Edit, TypeOK
<1>4. ASSUME NEW h \in Hooks, ReadFile(h) \/ BuildAdaptiveContext(h) PROVE AnswerOf(g)' \in reviews'
  <2>1. g # h /\ pc[g] = "reviewed"
        BY <1>4 DEF ReadFile, BuildAdaptiveContext, TypeOK
  <2>2. sent'[g] = sent[g] /\ UNCHANGED <<found, reviews>>
    <3>1. CASE ReadFile(h)
          BY <2>1, <3>1 DEF ReadFile, TypeOK
    <3>2. CASE BuildAdaptiveContext(h)
          BY <2>1, <3>2 DEF BuildAdaptiveContext, GitDiff, CutOff, TypeOK
    <3> QED
        BY <1>4, <3>1, <3>2
  <2> QED
      BY <1>1, <2>1, <2>2
<1>5. ASSUME NEW h \in Hooks, CheckCache(h) PROVE AnswerOf(g)' \in reviews'
      BY <1>1, <1>5 DEF CheckCache, TypeOK
<1>6. ASSUME NEW h \in Hooks,
             \/ Skip(h) \/ Unreadable(h) \/ EmitCached(h)
             \/ Acquire(h) \/ Recover(h) \/ Coalesce(h) \/ LockFails(h)
             \/ ReviewFails(h) \/ WriteCache(h) \/ EvictOldest(h)
      PROVE  AnswerOf(g)' \in reviews'
      BY <1>1, <1>6 DEF Skip, Unreadable, EmitCached, Acquire, Recover, Coalesce, LockFails,
         ReviewFails, WriteCache, EvictOldest, TypeOK
<1>7. ASSUME NEW h \in Hooks,
             LoadShard(h) \/ SaveShard(h) \/ EmitVerdict(h) \/ Exit(h) \/ Crash(h) \/ Kill(h)
      PROVE  AnswerOf(g)' \in reviews'
      BY <1>1, <1>7 DEF LoadShard, SaveShard, EmitVerdict, Exit, Crash, Kill, TypeOK
<1>8. ASSUME NEW e \in cache, Expire(e) PROVE AnswerOf(g)' \in reviews'
      BY <1>1, <1>8 DEF Expire
<1>9. CASE UNCHANGED vars \/ Sweep
      BY <1>1, <1>9 DEF vars, Sweep
<1> QED
    BY ONLY [Next]_vars, <1>2, <1>3, <1>4, <1>5, <1>6, <1>7, <1>8, <1>9 DEF Next, HookStep

LEMMA NextFaithful ==
    TypeInv /\ AnswersAreKept /\ CacheIsFaithful /\ [Next]_vars => CacheIsFaithful'
<1> SUFFICES ASSUME TypeInv, AnswersAreKept, CacheIsFaithful, [Next]_vars, NEW e \in cache'
             PROVE  [view |-> e.view, concerns |-> e.concerns] \in reviews'
    BY DEF CacheIsFaithful
<1> DEFINE kept == [view |-> e.view, concerns |-> e.concerns]
<1>1. ASSUME e \in cache, reviews \subseteq reviews' PROVE kept \in reviews'
      BY <1>1 DEF CacheIsFaithful
<1> USE DEF hookVars, codexVars, cacheVars, lockVars
<1>2. ASSUME NEW h \in Hooks, WriteCache(h) PROVE kept \in reviews'
  <2> DEFINE entry == [view |-> sent[h], concerns |-> found[h],
                       written |-> writes + 1, fresh |-> TRUE]
  <2>1. e \in cache \/ e = entry
        BY <1>2 DEF WriteCache, CacheKey
  <2>2. entry.view = sent[h] /\ entry.concerns = found[h]
        OBVIOUS
  <2>3. reviews' = reviews /\ [view |-> sent[h], concerns |-> found[h]] \in reviews
        BY <1>2 DEF WriteCache, AnswersAreKept
  <2> HIDE DEF entry
  <2> QED
      BY <1>1, <2>1, <2>2, <2>3
<1>3. ASSUME NEW f \in cache, Expire(f) PROVE kept \in reviews'
  <2>1. reviews' = reviews
        BY <1>3 DEF Expire
  <2>2. CASE e \in cache
        BY <1>1, <2>1, <2>2
  <2>3. CASE e = [f EXCEPT !.fresh = FALSE]
    <3>1. f \in Entry
          BY DEF TypeInv, TypeOK
    <3>2. e.view = f.view /\ e.concerns = f.concerns
          BY <2>3, <3>1 DEF Entry
    <3> QED
        BY <2>1, <3>2 DEF CacheIsFaithful
  <2> QED
      BY <1>3, <2>2, <2>3 DEF Expire
<1>4. ASSUME NEW h \in Hooks, ReviewSucceeds(h) \/ EvictOldest(h) PROVE kept \in reviews'
      BY <1>1, <1>4 DEF ReviewSucceeds, EvictOldest
<1>5. ASSUME NEW h \in Hooks, HookStep(h), ~ReviewSucceeds(h), ~WriteCache(h), ~EvictOldest(h)
      PROVE  kept \in reviews'
      BY <1>1, <1>5 DEF HookStep, Skip, Unreadable, ReadFile,
         BuildAdaptiveContext, GitDiff, CutOff, CheckCache, EmitCached, Acquire, Recover,
         Coalesce, LockFails, ReviewFails, LoadShard, SaveShard, EmitVerdict, Exit
<1>6. ASSUME NEW h \in Hooks, Crash(h) \/ Kill(h) PROVE kept \in reviews'
      BY <1>1, <1>6 DEF Crash, Kill
<1>7. ASSUME NEW c \in Contents, Edit(c) PROVE kept \in reviews'
      BY <1>1, <1>7 DEF Edit
<1>8. CASE UNCHANGED vars \/ Sweep
      BY <1>1, <1>8 DEF vars, Sweep
<1> QED
    BY ONLY [Next]_vars, <1>2, <1>3, <1>4, <1>5, <1>6, <1>7, <1>8 DEF Next

(* What the cache says of a content codex has said of it.                   *)
THEOREM CacheIsAlwaysFaithful == Spec => []CacheIsFaithful
<1>1. Init => AnswersAreKept /\ CacheIsFaithful
      BY DEF Init, AnswersAreKept, CacheIsFaithful, At
<1> QED
    BY <1>1, NextAnswers, NextFaithful, TypeInvariant, PTL DEF Spec

-----------------------------------------------------------------------------
(* The hook and the abstract lock                                           *)

(* The dead stay dead.                                                      *)
LEMMA CalmBefore == TypeInv /\ [Next]_vars /\ Calm' => Calm
<1> SUFFICES ASSUME TypeInv, [Next]_vars, NEW g \in Hooks, pc[g] \in Dead
             PROVE  pc'[g] \in Dead
    BY DEF Calm
<1> USE DEF Dead, Goto, At, TypeInv, TypeOK
<1>1. ASSUME NEW h \in Hooks, HookStep(h) PROVE pc'[g] \in Dead
      BY <1>1 DEF HookStep, Skip, Unreadable, ReadFile,
         BuildAdaptiveContext, GitDiff, CutOff, CheckCache, EmitCached, Acquire, Recover,
         Coalesce, LockFails, ReviewSucceeds, ReviewFails, WriteCache, EvictOldest, LoadShard,
         SaveShard, EmitVerdict, Exit
<1>2. ASSUME NEW h \in Hooks, Crash(h) \/ Kill(h) PROVE pc'[g] \in Dead
      BY <1>2 DEF Crash, Kill, Critical
<1>3. ASSUME NEW c \in Contents, Edit(c) PROVE pc'[g] \in Dead
  <2>1. Len(history) + 1 \in Hooks /\ pc[Len(history) + 1] = "none"
        BY <1>3 DEF Edit, HooksAreOrderly
  <2> QED
      BY <1>3, <2>1 DEF Edit
<1>4. ASSUME NEW e \in cache, Expire(e) PROVE pc'[g] \in Dead
      BY <1>4 DEF Expire
<1>5. CASE UNCHANGED vars \/ Sweep
      BY <1>5 DEF vars, Sweep
<1> QED
    BY <1>1, <1>2, <1>3, <1>4, <1>5 DEF Next

LEMMA MutexStates ==
    /\ \A p \in Critical : MutexState(p) = "reviewing"
    /\ \A p \in {"none", "started", "big", "read", "hit", "missed", "skipped", "served", "killed"} :
           MutexState(p) = "idle"
    /\ MutexState("done") = "reviewed"
    /\ MutexState("coalesced") = "coalesced"
    /\ MutexState("refused") = "failed"
BY DEF MutexState, Critical

(* Only a hook in its critical section counts as reviewing.                 *)
LEMMA ReviewingIsCritical ==
    ASSUME NEW p \in Controls, MutexState(p) = "reviewing" PROVE p \in Critical
BY DEF MutexState, Controls, Ends

MutexOf == [h \in Hooks |-> MutexState(pc[h])]

(* A step of one hook is a step of the abstract one from state to state.    *)
LEMMA LeaveMaps ==
    ASSUME TypeOK, NEW h \in Hooks, NEW p, pc' = [pc EXCEPT ![h] = p]
    PROVE  MutexOf' = [MutexOf EXCEPT ![h] = MutexState(p)]
BY DEF MutexOf, TypeOK

LEMMA CalmStepUsesMutex ==
    ASSUME ShardInv, Calm, Calm', trusted, trusted', [Next]_vars
    PROVE  Mutex!Next \/ MutexOf' = MutexOf
<1>0. TypeOK /\ HooksAreOrderly /\ HolderHasLock
      BY DEF ShardInv, TypeInv
<1> USE DEF Goto, At, hookVars, codexVars, cacheVars, lockVars
<1> DEFINE Idle == {"none", "started", "big", "read", "hit", "missed", "skipped", "served", "killed"}
<1>1. ASSUME NEW h \in Hooks, NEW p, pc' = [pc EXCEPT ![h] = p],
             MutexState(pc[h]) = MutexState(p)
      PROVE  MutexOf' = MutexOf
      BY <1>0, <1>1, LeaveMaps DEF MutexOf
<1>2. ASSUME NEW h \in Hooks,
             \/ Skip(h) \/ Unreadable(h) \/ ReadFile(h) \/ BuildAdaptiveContext(h)
             \/ CheckCache(h) \/ EmitCached(h)
      PROVE  MutexOf' = MutexOf
  <2>1. PICK p \in Idle : pc' = [pc EXCEPT ![h] = p] /\ pc[h] \in Idle
        BY <1>2 DEF Skip, Unreadable, ReadFile,
         BuildAdaptiveContext, GitDiff, CutOff, CheckCache, EmitCached
  <2> QED
      BY <1>1, <2>1, MutexStates
<1>3. ASSUME NEW h \in Hooks,
             \/ ReviewSucceeds(h) \/ ReviewFails(h) \/ WriteCache(h) \/ EvictOldest(h)
             \/ LoadShard(h) \/ SaveShard(h) \/ EmitVerdict(h)
      PROVE  MutexOf' = MutexOf
  <2>1. PICK p \in Critical : pc' = [pc EXCEPT ![h] = p] /\ pc[h] \in Critical
        BY <1>3 DEF Critical, ReviewSucceeds, ReviewFails, WriteCache, EvictOldest, LoadShard,
           SaveShard, EmitVerdict
  <2> QED
      BY <1>1, <2>1, MutexStates
<1>4. ASSUME NEW h \in Hooks, Acquire(h) PROVE Mutex!Next
  <2>1. pc[h] = "missed" /\ pc' = [pc EXCEPT ![h] = "locked"]
        BY <1>4 DEF Acquire
  <2>2. \A g \in Hooks : MutexOf[g] # "reviewing"
    <3> SUFFICES ASSUME NEW g \in Hooks, MutexState(pc[g]) = "reviewing" PROVE FALSE
        BY DEF MutexOf
    <3>1. pc[g] \in Critical
          BY <1>0, ReviewingIsCritical DEF TypeOK
    <3> QED
        BY <1>4, <3>1 DEF Acquire, HolderHasLock, Critical, ShardInv
  <2>3. MutexOf[h] = "idle" /\ MutexOf' = [MutexOf EXCEPT ![h] = "reviewing"]
    <3>1. MutexOf[h] = "idle"
          BY <2>1, MutexStates DEF MutexOf, Critical
    <3>2. MutexOf' = [MutexOf EXCEPT ![h] = MutexState("locked")]
          BY ONLY <1>0, <2>1, LeaveMaps
    <3> QED
        BY <3>1, <3>2, MutexStates DEF Critical
  <2>4. Mutex!Start(h)
        BY <2>2, <2>3 DEF Mutex!Start, Mutex!NobodyReviews, Mutex!Leave, MutexOf
  <2> QED
      BY <2>4 DEF Mutex!Next
<1>5. ASSUME NEW h \in Hooks, Coalesce(h) PROVE Mutex!Next
  <2>1. pc[h] = "missed" /\ pc' = [pc EXCEPT ![h] = "coalesced"]
        BY <1>5 DEF Coalesce
  <2>2. lock \in Hooks /\ pc[lock] \in Critical
        BY <1>0, <1>5 DEF Coalesce, HolderHasLock, Calm, Dead, TypeOK
  <2>3. MutexOf[lock] = "reviewing"
        BY <2>2, MutexStates DEF MutexOf
  <2>4. MutexOf[h] = "idle" /\ MutexOf' = [MutexOf EXCEPT ![h] = "coalesced"]
    <3>1. MutexOf[h] = "idle"
          BY <2>1, MutexStates DEF MutexOf, Critical
    <3>2. MutexOf' = [MutexOf EXCEPT ![h] = MutexState("coalesced")]
          BY ONLY <1>0, <2>1, LeaveMaps
    <3> QED
        BY <3>1, <3>2, MutexStates DEF Critical
  <2>5. Mutex!Coalesced(h)
        BY <2>2, <2>3, <2>4 DEF Mutex!Coalesced, Mutex!NobodyReviews, Mutex!Leave, MutexOf
  <2> QED
      BY <2>5 DEF Mutex!Next
<1>6. ASSUME NEW h \in Hooks, LockFails(h) PROVE Mutex!Next
  <2>1. pc[h] = "missed" /\ pc' = [pc EXCEPT ![h] = "refused"]
        BY <1>6 DEF LockFails
  <2>2. MutexOf[h] = "idle" /\ MutexOf' = [MutexOf EXCEPT ![h] = "failed"]
    <3>1. MutexOf[h] = "idle"
          BY <2>1, MutexStates DEF MutexOf, Critical
    <3>2. MutexOf' = [MutexOf EXCEPT ![h] = MutexState("refused")]
          BY ONLY <1>0, <2>1, LeaveMaps
    <3> QED
        BY <3>1, <3>2, MutexStates DEF Critical
  <2> QED
      BY <2>2 DEF Mutex!Next, Mutex!Fail, Mutex!Leave, MutexOf
<1>7. ASSUME NEW h \in Hooks, Exit(h) PROVE Mutex!Next
  <2>1. pc[h] = "leaving" /\ pc' = [pc EXCEPT ![h] = "done"]
        BY <1>7 DEF Exit
  <2>2. MutexOf[h] = "reviewing" /\ MutexOf' = [MutexOf EXCEPT ![h] = "reviewed"]
    <3>1. MutexOf[h] = "reviewing"
          BY <2>1, MutexStates DEF MutexOf, Critical
    <3>2. MutexOf' = [MutexOf EXCEPT ![h] = MutexState("done")]
          BY ONLY <1>0, <2>1, LeaveMaps
    <3> QED
        BY <3>1, <3>2, MutexStates DEF Critical
  <2> QED
      BY <2>2 DEF Mutex!Next, Mutex!Finish, Mutex!Leave, MutexOf
<1>8. ASSUME NEW h \in Hooks, Crash(h) \/ Kill(h) \/ Recover(h) PROVE FALSE
      BY <1>0, <1>8 DEF Crash, Kill, Recover, Calm, Dead, TypeOK
<1>9. ASSUME NEW c \in Contents, Edit(c) PROVE MutexOf' = MutexOf
  <2>1. /\ Len(history) + 1 \in Hooks /\ pc[Len(history) + 1] = "none"
        /\ pc' = [pc EXCEPT ![Len(history) + 1] = "started"]
        BY <1>0, <1>9 DEF Edit, TypeOK, HooksAreOrderly
  <2> QED
      BY <1>1, <2>1, MutexStates
<1>10. ASSUME (\E e \in cache : Expire(e)) \/ Sweep \/ UNCHANGED vars
       PROVE  MutexOf' = MutexOf
       BY <1>10 DEF Expire, Sweep, vars, MutexOf
<1> QED
    BY <1>2, <1>3, <1>4, <1>5, <1>6, <1>7, <1>8, <1>9, <1>10 DEF Next, HookStep

LEMMA NextUsesMutex ==
    ShardInv /\ [Next]_vars
      => [Mutex!Next]_<<[h \in Hooks |-> MutexState(pc[h])], Calm /\ trusted>>
<1>1. ASSUME ~(Calm /\ trusted)' PROVE Mutex!Next
      BY <1>1 DEF Mutex!Next, Mutex!Deserted
<1>2. ShardInv /\ [Next]_vars /\ (Calm /\ trusted)' => Calm /\ trusted
      BY CalmBefore, TrustIsLost DEF ShardInv, TypeInv
<1>3. ShardInv /\ [Next]_vars /\ Calm /\ Calm' /\ trusted /\ trusted'
        => Mutex!Next \/ UNCHANGED [h \in Hooks |-> MutexState(pc[h])]
      BY CalmStepUsesMutex DEF MutexOf
<1>4. Calm /\ trusted /\ Calm' /\ trusted' => UNCHANGED (Calm /\ trusted)
      OBVIOUS
<1> QED
    BY <1>1, <1>2, <1>3, <1>4

(* Until a hook dies or a lock is left behind or outlived, the hooks use    *)
(* the lock as ReviewMutex promises it.                                     *)
THEOREM HooksUseMutex == Spec => UsesMutex
<1>1. Init => Mutex!Init
      BY MutexStates DEF Init, Mutex!Init
<1> QED
    BY <1>1, NextUsesMutex, ShardInvariant, PTL DEF Spec, UsesMutex, Mutex!Spec

=============================================================================
