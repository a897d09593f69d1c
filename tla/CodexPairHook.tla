---------------------------- MODULE CodexPairHook -----------------------------
(****************************************************************************)
(* The hooks of one file (codex-pair-watch.mjs, main).  Every edit starts a *)
(* hook: a process of its own that reads the file, makes a partial view of  *)
(* it if it is big, looks that up in the concern cache, takes the inflight  *)
(* lock of the file or yields to the hook that has it, obtains a review,    *)
(* caches it, updates the repetition shard and reports.                     *)
(*                                                                          *)
(* The lock is exclusive as long as ReviewMutex promises so: until a lock   *)
(* is left behind, by a kill or by an exit whose unlink failed, or a review *)
(* lasts longer than a lock is respected.  From then on recoverers may take *)
(* a live hook's lock from it (see InflightLock), and hooks overlap.        *)
(****************************************************************************)
EXTENDS Integers, Sequences, FiniteSets

CONSTANTS
    Contents,     \* what the file may contain
    Big,          \* the contents of more than maxFileBytes
    Outline,      \* a content with the same head and tail, for each content
    Concerns,     \* what codex may complain of
    Threshold,    \* REPETITION_BLOCKING_THRESHOLD
    CacheMax,     \* CACHE_MAX_ENTRIES
    Earlier,      \* how often earlier reviews in a row flagged each concern
    EditBound,    \* bound on the number of edits
    Mortal,       \* hooks that may be killed or crash
    Overruns      \* TRUE when a review may outlive the lock's lifetime

Hooks == 1..EditBound

ASSUME HookAssumption ==
    /\ EditBound \in Nat
    /\ Big \in SUBSET Contents
    /\ Outline \in [Contents -> Contents]
    /\ Threshold \in Nat \ {0}
    /\ CacheMax \in Nat
    /\ Earlier \in [Concerns -> Nat]
    /\ IsFiniteSet(Concerns)
    /\ Mortal \in SUBSET Hooks
    /\ Overruns \in BOOLEAN

VARIABLES
    history,    \* the contents of the file, edit by edit
    pc,         \* the control of each hook; hook n belongs to edit n
    seen,       \* the edit whose content the hook has read, 0 before
    sent,       \* what the hook has to show of it, the promptContent
    found,      \* the concerns the hook reports
    loaded,     \* the shard as the hook read it
    message,    \* the system message the hook has emitted
    yieldedTo,  \* the holder of the lock a coalesced hook met, or 0
    lock,       \* the hook whose lock file exists, or 0
    trusted,    \* no lock was left behind or taken from a live hook so far
    cache,      \* the concern cache
    writes,     \* the clock of its mtimes: the writes so far
    shard,      \* the repetition shard of the file
    reviews,    \* every answer codex gave, with the content it was asked about
    tally       \* how often live reviews flagged each concern, the earlier ones too

hookVars == <<seen, sent, found, loaded, yieldedTo>>
codexVars == <<reviews, tally>>
cacheVars == <<cache, writes>>
lockVars == <<lock, trusted>>
vars == <<history, pc, seen, sent, found, loaded, message, yieldedTo, lock, trusted, cache,
          writes, shard, reviews, tally>>

Critical == {"locked", "reviewed", "written", "evicted", "loaded", "saved", "leaving"}
Dead == {"crashed", "killed"}
Ends == {"skipped", "served", "coalesced", "refused", "done"} \cup Dead
Controls == {"none", "started", "big", "read", "hit", "missed"} \cup Critical \cup Ends

Counts == [Concerns -> Nat]
NoCounts == [c \in Concerns |-> 0]

(* What codex is shown: the whole file, or an outline of it with the diff   *)
(* against HEAD, which tells the content of the file, or with nothing more. *)
View == [strategy : {"full", "diff", "cut"}, outline : Contents, body : Contents]
NoView == [strategy |-> "none"]

Entry == [view : View, concerns : SUBSET Concerns, written : Nat, fresh : BOOLEAN]

TypeOK ==
    /\ history \in Seq(Contents)
    /\ pc \in [Hooks -> Controls]
    /\ seen \in [Hooks -> Nat]
    /\ sent \in [Hooks -> View \cup {NoView}]
    /\ found \in [Hooks -> SUBSET Concerns]
    /\ loaded \in [Hooks -> Counts]
    /\ message \in [Hooks -> {"none", "plain", "banner", "failed"}]
    /\ yieldedTo \in [Hooks -> Hooks \cup {0}]
    /\ lock \in Hooks \cup {0}
    /\ trusted \in BOOLEAN
    /\ cache \in SUBSET Entry
    /\ writes \in Nat
    /\ shard \in Counts
    /\ reviews \in SUBSET [view : View, concerns : SUBSET Concerns]
    /\ tally \in Counts

(* The shard is what the reviews of earlier edits have left.                *)
Init ==
    /\ history = <<>>
    /\ pc = [h \in Hooks |-> "none"]
    /\ seen = [h \in Hooks |-> 0]
    /\ sent = [h \in Hooks |-> NoView]
    /\ found = [h \in Hooks |-> {}]
    /\ loaded = [h \in Hooks |-> NoCounts]
    /\ message = [h \in Hooks |-> "none"]
    /\ yieldedTo = [h \in Hooks |-> 0]
    /\ lock = 0
    /\ trusted = TRUE
    /\ cache = {}
    /\ writes = 0
    /\ shard = Earlier
    /\ reviews = {}
    /\ tally = Earlier

-----------------------------------------------------------------------------
(* Repetitions                                                              *)

Increment(counts, flagged) ==
    [c \in Concerns |-> IF c \in flagged THEN counts[c] + 1 ELSE counts[c]]

(* updateRepetitions: flagged again, one more; not flagged, forgotten.      *)
Flag(counts, flagged) ==
    [c \in Concerns |-> IF c \in flagged THEN counts[c] + 1 ELSE 0]

(* Only a BLOCKING concern puts the banner on the message.                  *)
MessageFor(blocking) == IF blocking # {} THEN "banner" ELSE "plain"

Blocking(counts) == {c \in Concerns : counts[c] >= Threshold}

-----------------------------------------------------------------------------
(* A hook                                                                   *)

At(h, p) == pc[h] = p
Goto(h, p) == pc' = [pc EXCEPT ![h] = p]
Emit(h, m) == message' = [message EXCEPT ![h] = m]

(* Claude edits the file; PostToolUse starts the hook.                      *)
Edit(c) ==
    /\ Len(history) < EditBound
    /\ history' = Append(history, c)
    /\ Goto(Len(history) + 1, "started")
    /\ UNCHANGED <<hookVars, message, lockVars, cacheVars, shard, codexVars>>

(* The gates: disabled, paused, no marker, out of scope, ignored.           *)
Skip(h) ==
    /\ At(h, "started")
    /\ Goto(h, "skipped")
    /\ UNCHANGED <<history, hookVars, message, lockVars, cacheVars, shard, codexVars>>

Unreadable(h) ==
    /\ At(h, "started")
    /\ Emit(h, "failed")
    /\ Goto(h, "skipped")
    /\ UNCHANGED <<history, hookVars, lockVars, cacheVars, shard, codexVars>>

Shown(strategy, outline, body) ==
    [strategy |-> strategy, outline |-> outline, body |-> body]

ReadFile(h) ==
    LET content == history[Len(history)]
    IN  /\ At(h, "started")
        /\ seen' = [seen EXCEPT ![h] = Len(history)]
        /\ \/ /\ content \in Big
              /\ Goto(h, "big")
              /\ UNCHANGED sent
           \/ /\ content \notin Big
              /\ sent' = [sent EXCEPT ![h] = Shown("full", content, content)]
              /\ Goto(h, "read")
        /\ UNCHANGED <<history, found, loaded, yieldedTo, message, lockVars, cacheVars, shard, codexVars>>

(* runGitDiff tells what the file holds by then, not what was read; it      *)
(* tells nothing if git fails, takes too long or has no diff to show.       *)
GitDiff(h) ==
    /\ seen' = [seen EXCEPT ![h] = Len(history)]
    /\ sent' = [sent EXCEPT ![h] = Shown("diff", Outline[history[seen[h]]], history[Len(history)])]

(* Head and tail, or the first maxFileBytes, of what was read.              *)
CutOff(h) ==
    /\ sent' = [sent EXCEPT ![h] = Shown("cut", Outline[history[seen[h]]], Outline[history[seen[h]]])]
    /\ UNCHANGED seen

BuildAdaptiveContext(h) ==
    /\ At(h, "big")
    /\ GitDiff(h) \/ CutOff(h)
    /\ Goto(h, "read")
    /\ UNCHANGED <<history, found, loaded, yieldedTo, message, lockVars, cacheVars, shard, codexVars>>

(* Mutant of CacheKey: the file is read again when the key is computed.     *)
KeyOfFile(h) == Shown("full", history[Len(history)], history[Len(history)])

(* computeCacheKey hashes what is sent.  It also hashes the model and the   *)
(* threshold of the configuration, which are the same for every hook here;  *)
(* an answer of the fallback model is stored as one of the configured one.  *)
CacheKey(h) == sent[h]

FreshEntries(view) == {e \in cache : e.view = view /\ e.fresh}

CheckCache(h) ==
    /\ At(h, "read")
    /\ \/ \E e \in FreshEntries(CacheKey(h)) :
              /\ found' = [found EXCEPT ![h] = e.concerns]
              /\ Goto(h, "hit")
       \/ /\ FreshEntries(CacheKey(h)) = {}
          /\ Goto(h, "missed")
          /\ UNCHANGED found
    /\ UNCHANGED <<history, seen, sent, loaded, yieldedTo, message, lockVars, cacheVars, shard, codexVars>>

(* Mutant of EmitCached: a cache hit counts as a review, as before ADR-097. *)
EmitCachedCounting(h) ==
    /\ At(h, "hit")
    /\ shard' = Flag(shard, found[h])
    /\ Emit(h, MessageFor(Blocking(shard') \cap found[h]))
    /\ Goto(h, "served")
    /\ UNCHANGED <<history, hookVars, lockVars, cacheVars, codexVars>>

(* getBlockingFromShard reads the shard and writes nothing.                 *)
EmitCached(h) ==
    /\ At(h, "hit")
    /\ Emit(h, MessageFor(Blocking(shard) \cap found[h]))
    /\ Goto(h, "served")
    /\ UNCHANGED <<history, hookVars, lockVars, cacheVars, shard, codexVars>>

(* Stale recovery may clear the lock: the lock of a review that lasts too   *)
(* long, or, once there is a lock to recover, also the fresh lock of a hook *)
(* that came before this one between the last look at the file and the      *)
(* unlink.                                                                  *)
Stealable == lock # 0 /\ (~trusted \/ Overruns)

(* Mutant of Acquire: the lock is not looked at.                            *)
AcquireAnyway(h) ==
    /\ At(h, "missed")
    /\ lock' = h
    /\ Goto(h, "locked")
    /\ UNCHANGED <<history, hookVars, message, trusted, cacheVars, shard, codexVars>>

Acquire(h) ==
    /\ At(h, "missed")
    /\ lock = 0
    /\ lock' = h
    /\ Goto(h, "locked")
    /\ UNCHANGED <<history, hookVars, message, trusted, cacheVars, shard, codexVars>>

(* The hook clears a lock it takes for abandoned and creates its own.       *)
Recover(h) ==
    /\ At(h, "missed")
    /\ Stealable
    /\ lock' = h
    /\ trusted' = FALSE
    /\ Goto(h, "locked")
    /\ UNCHANGED <<history, hookVars, message, cacheVars, shard, codexVars>>

(* Another review is in flight: log "skipped" and leave without a message.  *)
Coalesce(h) ==
    /\ At(h, "missed")
    /\ lock # 0
    /\ yieldedTo' = [yieldedTo EXCEPT ![h] = lock]
    /\ Goto(h, "coalesced")
    /\ UNCHANGED <<history, seen, sent, found, loaded, message, lockVars, cacheVars, shard, codexVars>>

(* The lock file cannot be created, perhaps after the old one was cleared.  *)
LockFails(h) ==
    /\ At(h, "missed")
    /\ \/ UNCHANGED lockVars
       \/ Stealable /\ lock' = 0 /\ trusted' = FALSE
    /\ Goto(h, "refused")
    /\ UNCHANGED <<history, hookVars, message, cacheVars, shard, codexVars>>

(* Mutant of ReviewSucceeds: the lock covers the dispatch only, not the     *)
(* update of the shard after it.                                            *)
ReviewSucceedsReleasing(h) ==
    /\ At(h, "locked")
    /\ \E concerns \in SUBSET Concerns :
           /\ found' = [found EXCEPT ![h] = concerns]
           /\ reviews' = reviews \cup {[view |-> sent[h], concerns |-> concerns]}
           /\ tally' = Increment(tally, concerns)
    /\ lock' = 0
    /\ Goto(h, "reviewed")
    /\ UNCHANGED <<history, seen, sent, loaded, yieldedTo, message, trusted, cacheVars, shard>>

(* The dispatch answers.                                                    *)
ReviewSucceeds(h) ==
    /\ At(h, "locked")
    /\ \E concerns \in SUBSET Concerns :
           /\ found' = [found EXCEPT ![h] = concerns]
           /\ reviews' = reviews \cup {[view |-> sent[h], concerns |-> concerns]}
           /\ tally' = Increment(tally, concerns)
    /\ Goto(h, "reviewed")
    /\ UNCHANGED <<history, seen, sent, loaded, yieldedTo, message, lockVars, cacheVars, shard>>

(* Mutant of ReviewFails: leave at once, as a coalesced hook does.          *)
ReviewFailsSilently(h) ==
    /\ At(h, "locked")
    /\ Goto(h, "leaving")
    /\ UNCHANGED <<history, hookVars, message, lockVars, cacheVars, shard, codexVars>>

(* The dispatch fails; the failure is logged and reported.                  *)
ReviewFails(h) ==
    /\ At(h, "locked")
    /\ Emit(h, "failed")
    /\ Goto(h, "leaving")
    /\ UNCHANGED <<history, hookVars, lockVars, cacheVars, shard, codexVars>>

(* setCachedConcerns: one rename replaces the entry, or none if it fails.   *)
WriteCache(h) ==
    LET entry == [view |-> CacheKey(h), concerns |-> found[h],
                  written |-> writes + 1, fresh |-> TRUE]
    IN  /\ At(h, "reviewed")
        /\ \/ /\ cache' = {e \in cache : e.view # CacheKey(h)} \cup {entry}
              /\ writes' = writes + 1
           \/ UNCHANGED cacheVars
        /\ Goto(h, "written")
        /\ UNCHANGED <<history, hookVars, message, lockVars, shard, codexVars>>

(* evictCacheOldest: the CacheMax entries written last stay.                *)
EvictOldest(h) ==
    /\ At(h, "written")
    /\ cache' = {e \in cache : Cardinality({f \in cache : f.written > e.written}) < CacheMax}
    /\ Goto(h, "evicted")
    /\ UNCHANGED <<history, hookVars, message, lockVars, writes, shard, codexVars>>

LoadShard(h) ==
    /\ At(h, "evicted")
    /\ loaded' = [loaded EXCEPT ![h] = shard]
    /\ Goto(h, "loaded")
    /\ UNCHANGED <<history, seen, sent, found, yieldedTo, message, lockVars, cacheVars, shard, codexVars>>

(* The rename of the new shard, or nothing if writing it fails.             *)
SaveShard(h) ==
    /\ At(h, "loaded")
    /\ shard' \in {Flag(loaded[h], found[h]), shard}
    /\ Goto(h, "saved")
    /\ UNCHANGED <<history, hookVars, message, lockVars, cacheVars, codexVars>>

EmitVerdict(h) ==
    /\ At(h, "saved")
    /\ Emit(h, MessageFor(Blocking(Flag(loaded[h], found[h]))))
    /\ Goto(h, "leaving")
    /\ UNCHANGED <<history, hookVars, lockVars, cacheVars, shard, codexVars>>

(* The "exit" handler unlinks the lock, whoever's it is by then, or leaves  *)
(* it there in silence if that fails.                                       *)
ReleaseLock ==
    \/ lock' = 0 /\ UNCHANGED trusted
    \/ UNCHANGED lock /\ trusted' = FALSE

(* process.exit runs the "exit" handler.                                    *)
Exit(h) ==
    /\ At(h, "leaving")
    /\ ReleaseLock
    /\ Goto(h, "done")
    /\ UNCHANGED <<history, hookVars, message, cacheVars, shard, codexVars>>

(* An exception nobody caught: the exit handler runs, nothing is reported.  *)
Crash(h) ==
    /\ h \in Mortal
    /\ \/ pc[h] \in {"big", "read", "hit", "missed"} /\ UNCHANGED lockVars
       \/ pc[h] \in Critical /\ ReleaseLock
    /\ Goto(h, "crashed")
    /\ UNCHANGED <<history, hookVars, message, cacheVars, shard, codexVars>>

(* A signal: no handler runs.  The lock is left behind, or it was being     *)
(* recovered.                                                               *)
Kill(h) ==
    /\ h \in Mortal
    /\ \/ pc[h] \in {"started", "big", "read", "hit"} /\ UNCHANGED trusted
       \/ pc[h] \in {"missed"} \cup Critical /\ trusted' = FALSE
    /\ Goto(h, "killed")
    /\ UNCHANGED <<history, hookVars, message, lock, cacheVars, shard, codexVars>>

(* Ten minutes after it was written an entry is no longer used.             *)
Expire(e) ==
    /\ e \in cache /\ e.fresh
    /\ \A f \in cache : f.written < e.written => ~f.fresh
    /\ cache' = (cache \ {e}) \cup {[e EXCEPT !.fresh = FALSE]}
    /\ UNCHANGED <<history, pc, hookVars, message, lockVars, writes, shard, codexVars>>

(* sweepStaleRepetitions, by a hook of any file of the project and without  *)
(* this file's lock: the shard was old when it was looked at.  It need no   *)
(* longer be when it is unlinked.                                           *)
Sweep ==
    /\ shard # NoCounts
    /\ shard' = NoCounts
    /\ UNCHANGED <<history, pc, hookVars, message, lockVars, cacheVars, codexVars>>

HookStep(h) ==
    \/ Skip(h) \/ Unreadable(h) \/ ReadFile(h) \/ BuildAdaptiveContext(h)
    \/ CheckCache(h) \/ EmitCached(h)
    \/ Acquire(h) \/ Recover(h) \/ Coalesce(h) \/ LockFails(h)
    \/ ReviewSucceeds(h) \/ ReviewFails(h)
    \/ WriteCache(h) \/ EvictOldest(h)
    \/ LoadShard(h) \/ SaveShard(h) \/ EmitVerdict(h)
    \/ Exit(h)

Next ==
    \/ \E c \in Contents : Edit(c)
    \/ \E h \in Hooks : HookStep(h) \/ Crash(h) \/ Kill(h)
    \/ \E e \in cache : Expire(e)
    \/ Sweep

Spec == Init /\ [][Next]_vars

(* The operating system runs every hook; the dispatch itself ends (see      *)
(* ReviewDispatch, HookEnds).  Claude need not edit and nobody need die.    *)
FairSpec == Spec /\ \A h \in Hooks : WF_vars(HookStep(h))

-----------------------------------------------------------------------------
(* Properties                                                               *)

(* An entry of the cache is codex's answer about what it is stored under,   *)
(* be it the file or a partial view of it, however many edits come between  *)
(* reading, diff, review and write.                                         *)
CacheIsFaithful ==
    \A e \in cache : [view |-> e.view, concerns |-> e.concerns] \in reviews

(* The BLOCKING banner is only shown for a verdict with a concern that at   *)
(* least Threshold live reviews flagged: cache hits never count, and hooks  *)
(* that overlap in spite of the lock may lose a count but never make one.   *)
BannerIsEarned ==
    \A h \in Hooks : message[h] = "banner" => \E c \in found[h] : tally[c] >= Threshold

(* No hook has been killed, and none has crashed.                           *)
Calm == \A h \in Hooks : pc[h] \notin Dead

(* A hook that yields leaves the file to a review that will be reported:    *)
(* unless somebody dies, every cache miss ends in a message of this hook or *)
(* of the one it yielded to, except when the lock file cannot be created.   *)
VerdictFollows ==
    \A h \in Hooks :
        At(h, "missed") ~>
            \/ ~Calm
            \/ At(h, "refused")
            \/ message[h] # "none"
            \/ yieldedTo[h] # 0 /\ message[yieldedTo[h]] # "none"

(* "Each shard's read-modify-write is naturally serialized by ADR-087's     *)
(* per-file inflight lock": as long as the lock keeps its promise, load and *)
(* save act as one step of the counter, whoever crashes or is killed        *)
(* without a lock.  A shard swept in between is not forgotten before the    *)
(* save, which goes on from what was loaded.                                *)
Remembered ==
    IF shard = NoCounts /\ \E h \in Hooks : At(h, "loaded")
    THEN loaded[CHOOSE h \in Hooks : At(h, "loaded")]
    ELSE shard

Counter == INSTANCE RepetitionCounter WITH counts <- Remembered, exclusive <- trusted
CountsReviews == Counter!Spec

(* Until a hook dies or the lock breaks its promise, the hooks use it the   *)
(* way ReviewMutex promises.                                                *)
MutexState(p) ==
    CASE p \in Critical -> "reviewing"
      [] p = "done" -> "reviewed"
      [] p = "coalesced" -> "coalesced"
      [] p = "refused" -> "failed"
      [] OTHER -> "idle"

Mutex == INSTANCE ReviewMutex WITH state <- [h \in Hooks |-> MutexState(pc[h])],
                                    calm <- Calm /\ trusted
UsesMutex == Mutex!Spec

(* Why they hold: as long as the lock is exclusive it belongs to the one    *)
(* hook in the critical section, and what a hook has loaded is what the     *)
(* shard holds, or held before it was swept.                                *)
HolderHasLock == trusted => \A h \in Hooks : pc[h] \in Critical <=> lock = h
LoadIsCurrent ==
    trusted => \A h \in Hooks : At(h, "loaded") => shard \in {loaded[h], NoCounts}

(* A hook of an edit to come has not started, one that builds a view has    *)
(* read some edit, one beyond has it, and a report is a hook's last act.    *)
HooksAreOrderly ==
    \A h \in Hooks :
        /\ h > Len(history) => At(h, "none")
        /\ At(h, "big") => seen[h] \in 1..Len(history)
        /\ pc[h] \in {"read", "hit", "missed"} \cup Critical => sent[h] \in View
        /\ message[h] # "none" => pc[h] \in {"skipped", "served", "leaving", "done"} \cup Dead

(* What a hook will store in the cache is an answer to what it has read.    *)
AnswersAreKept ==
    \A h \in Hooks : At(h, "reviewed") =>
        [view |-> sent[h], concerns |-> found[h]] \in reviews

(* Why the banner is earned, exclusive lock or not: the verdicts that are   *)
(* still to be counted are live reviews of their own, so that what a hook   *)
(* will save, from whatever it has loaded, never exceeds the live reviews.  *)
Uncounted(c) ==
    {h \in Hooks : pc[h] \in {"reviewed", "written", "evicted", "loaded"} /\ c \in found[h]}

CountsAreEarned ==
    \A c \in Concerns :
        /\ shard[c] + Cardinality(Uncounted(c)) <= tally[c]
        /\ \A h \in Hooks :
               /\ At(h, "loaded") => loaded[h][c] + Cardinality(Uncounted(c)) <= tally[c]
               /\ At(h, "saved") => Flag(loaded[h], found[h])[c] <= tally[c]

(* ADR-087: "the in-flight review seeing the cumulative content of all      *)
(* queued edits": a coalesced edit is part of what the holder reviews, or   *)
(* did not change the file.                                                 *)
CoalescedEditIsSeen ==
    \A h \in Hooks : yieldedTo[h] # 0 =>
        \/ seen[yieldedTo[h]] >= h
        \/ history[seen[yieldedTo[h]]] = history[h]

=============================================================================
