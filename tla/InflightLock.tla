----------------------------- MODULE InflightLock -----------------------------
(****************************************************************************)
(* The per-file inflight lock of the codex-pair hook                        *)
(* (scripts/lib/state.mjs, tryAcquireInflightLock and                       *)
(* releaseInflightLock), at the granularity of its system calls: several    *)
(* hook processes work on the same edited file, and any of them may run     *)
(* between two calls of another.                                            *)
(*                                                                          *)
(* A lock file is a record of its creator's pid (the file's content) and    *)
(* its mtime.  Every hook process creates the lock at most once, so a pid   *)
(* stands for its process.  The clock is in abstract units.                 *)
(*                                                                          *)
(* The file system may refuse any call (no descriptor left, no permission,  *)
(* an I/O error).  The code tells such an error from the absence or the     *)
(* presence of the file at the first create only; every later catch takes   *)
(* all errors for the expected one.                                         *)
(****************************************************************************)
EXTENDS Naturals

CONSTANTS
    Hooks,       \* hook processes started by edits of one file
    Ghost,       \* an earlier hook process that left its lock
    NoLock,      \* the lock file does not exist
    TimeoutOf,   \* config.timeoutMs as each hook resolves it
    BudgetOf,    \* the longest a hook's dispatch can take
    TtlFloor,    \* INFLIGHT_TTL_MIN_MS
    TtlBuffer,   \* the extra 60_000 ms
    Kills,       \* TRUE when processes may die without their exit handler
    Refusals,    \* TRUE when the file system may refuse a call
    MaxTime      \* bound of the clock

Pids == Hooks \cup {Ghost}
Locks == [owner : Pids, mtime : Nat]

ASSUME ConstantsAssumption ==
    /\ Ghost \notin Hooks
    /\ NoLock \notin Locks
    /\ TimeoutOf \in [Hooks -> Nat]
    /\ BudgetOf \in [Hooks -> Nat]
    /\ TtlFloor \in Nat
    /\ TtlBuffer \in Nat
    /\ Kills \in BOOLEAN
    /\ Refusals \in BOOLEAN
    /\ MaxTime \in Nat

VARIABLES
    now,      \* Date.now()
    lock,     \* the lock file, or NoLock
    pc,       \* the next system call of each hook
    snapMtime, \* snapshot.mtimeMs of each hook
    snapPid,  \* snapshot.pid of each hook
    recheck,  \* recheck.mtimeMs of each hook
    since,    \* when each hook acquired the lock
    outcome,  \* what tryAcquireInflightLock returned to each hook
    refused,  \* the hooks that had a call refused
    leavers   \* the processes that ended without unlinking the lock path

vars == <<now, lock, pc, snapMtime, snapPid, recheck, since, outcome, refused, leavers>>

Acquiring == {"create", "stat", "readPid", "restat", "rereadPid", "unlink", "recreate"}
Steps == Acquiring \cup {"review", "exited", "killed"}
Outcomes == {"pending", "acquired", "in-flight", "race", "error"}

TypeOK ==
    /\ now \in Nat
    /\ lock \in Locks \cup {NoLock}
    /\ pc \in [Hooks -> Steps]
    /\ snapMtime \in [Hooks -> Nat]
    /\ snapPid \in [Hooks -> Pids]
    /\ recheck \in [Hooks -> Nat]
    /\ since \in [Hooks -> Nat]
    /\ outcome \in [Hooks -> Outcomes]
    /\ refused \in SUBSET Hooks
    /\ leavers \in SUBSET Pids

(* The age beyond which a hook takes a lock for abandoned.  It is computed  *)
(* from the configuration of the hook that looks, not of the owner's.       *)
TtlOf(h) == (IF TimeoutOf[h] > TtlFloor THEN TimeoutOf[h] ELSE TtlFloor) + TtlBuffer

Reviewing(h) == pc[h] = "review"

(* Initially there is no lock, or the one an earlier process left behind.   *)
Init ==
    /\ now = 0
    /\ \/ lock = NoLock /\ leavers = {}
       \/ /\ Kills \/ Refusals
          /\ lock = [owner |-> Ghost, mtime |-> 0]
          /\ leavers = {Ghost}
    /\ pc = [h \in Hooks |-> "create"]
    /\ snapMtime = [h \in Hooks |-> 0]
    /\ snapPid = [h \in Hooks |-> Ghost]
    /\ recheck = [h \in Hooks |-> 0]
    /\ since = [h \in Hooks |-> 0]
    /\ outcome = [h \in Hooks |-> "pending"]
    /\ refused = {}

-----------------------------------------------------------------------------
(* Common parts of the steps.                                               *)

GoTo(h, step) ==
    /\ pc' = [pc EXCEPT ![h] = step]
    /\ UNCHANGED <<since, outcome>>

(* The hook logs "coalesced" with the reason and exits without the lock.    *)
Coalesce(h, reason) ==
    /\ pc' = [pc EXCEPT ![h] = "exited"]
    /\ outcome' = [outcome EXCEPT ![h] = reason]
    /\ UNCHANGED since

(* The file system refuses the call, for a reason that is not the lock's.   *)
Refuse(h) ==
    /\ Refusals
    /\ refused' = refused \cup {h}

(* What the code's catch of a stat or a read sees, and of the last create.  *)
ReadFails(h) ==
    \/ lock = NoLock /\ UNCHANGED refused
    \/ Refuse(h)

CreateFails(h) ==
    \/ lock # NoLock /\ UNCHANGED refused
    \/ Refuse(h)

(* Mutant of CreateLock: the create is not exclusive (flag "w").            *)
CreateLockShared(h) ==
    /\ lock' = [owner |-> h, mtime |-> now]
    /\ pc' = [pc EXCEPT ![h] = "review"]
    /\ since' = [since EXCEPT ![h] = now]
    /\ outcome' = [outcome EXCEPT ![h] = "acquired"]

(* writeFileSync(lockPath, pid, { flag: "wx" }) succeeds.                   *)
CreateLock(h) ==
    /\ lock = NoLock
    /\ lock' = [owner |-> h, mtime |-> now]
    /\ pc' = [pc EXCEPT ![h] = "review"]
    /\ since' = [since EXCEPT ![h] = now]
    /\ outcome' = [outcome EXCEPT ![h] = "acquired"]

-----------------------------------------------------------------------------
(* The steps of tryAcquireInflightLock.                                     *)

TryCreate(h) ==
    /\ pc[h] = "create"
    /\ \/ CreateLock(h) /\ UNCHANGED refused
       \/ /\ lock # NoLock                    \* EEXIST
          /\ GoTo(h, "stat")
          /\ UNCHANGED <<lock, refused>>
       \/ /\ Refuse(h)                        \* any other error
          /\ Coalesce(h, "error")
          /\ UNCHANGED lock
    /\ UNCHANGED <<now, snapMtime, snapPid, recheck, leavers>>

(* Mutant of StatLock: a lock that vanished counts as in flight.            *)
StatLockVanishedIsInFlight(h) ==
    /\ pc[h] = "stat"
    /\ IF lock = NoLock \/ now - lock.mtime <= TtlOf(h)
       THEN Coalesce(h, "in-flight") /\ UNCHANGED snapMtime
       ELSE GoTo(h, "readPid") /\ snapMtime' = [snapMtime EXCEPT ![h] = lock.mtime]
    /\ UNCHANGED <<now, lock, snapPid, recheck, refused, leavers>>

(* A lock that vanished, or cannot be looked at, is created again.          *)
StatLock(h) ==
    /\ pc[h] = "stat"
    /\ \/ /\ ReadFails(h)
          /\ GoTo(h, "recreate")
          /\ UNCHANGED snapMtime
       \/ /\ lock # NoLock
          /\ now - lock.mtime <= TtlOf(h)
          /\ Coalesce(h, "in-flight")
          /\ UNCHANGED <<snapMtime, refused>>
       \/ /\ lock # NoLock
          /\ now - lock.mtime > TtlOf(h)
          /\ snapMtime' = [snapMtime EXCEPT ![h] = lock.mtime]
          /\ GoTo(h, "readPid")
          /\ UNCHANGED refused
    /\ UNCHANGED <<now, lock, snapPid, recheck, leavers>>

ReadPid(h) ==
    /\ pc[h] = "readPid"
    /\ \/ /\ ReadFails(h)
          /\ GoTo(h, "recreate")
          /\ UNCHANGED snapPid
       \/ /\ lock # NoLock
          /\ snapPid' = [snapPid EXCEPT ![h] = lock.owner]
          /\ GoTo(h, "restat")
          /\ UNCHANGED refused
    /\ UNCHANGED <<now, lock, snapMtime, recheck, leavers>>

(* A recheck that fails counts as a lock that vanished: on to the unlink.   *)
RestatLock(h) ==
    /\ pc[h] = "restat"
    /\ \/ /\ ReadFails(h)
          /\ GoTo(h, "unlink")
          /\ UNCHANGED recheck
       \/ /\ lock # NoLock
          /\ recheck' = [recheck EXCEPT ![h] = lock.mtime]
          /\ GoTo(h, "rereadPid")
          /\ UNCHANGED refused
    /\ UNCHANGED <<now, lock, snapMtime, snapPid, leavers>>

(* Mutant of SameIdentity: the mtime alone is the identity.                 *)
SameMtime(h) == recheck[h] = snapMtime[h]

(* The second read of the pid and the comparison of both identities.        *)
SameIdentity(h) == recheck[h] = snapMtime[h] /\ lock.owner = snapPid[h]

RereadPid(h) ==
    /\ pc[h] = "rereadPid"
    /\ \/ /\ ReadFails(h)
          /\ GoTo(h, "unlink")
       \/ /\ lock # NoLock
          /\ SameIdentity(h)
          /\ GoTo(h, "unlink")
          /\ UNCHANGED refused
       \/ /\ lock # NoLock
          /\ ~SameIdentity(h)
          /\ Coalesce(h, "in-flight")
          /\ UNCHANGED refused
    /\ UNCHANGED <<now, lock, snapMtime, snapPid, recheck, leavers>>

(* Mutant of UnlinkStale: a hook unlinks only a lock of its own.            *)
UnlinkStaleIfOwn(h) ==
    /\ pc[h] = "unlink"
    /\ lock' = IF lock # NoLock /\ lock.owner = h THEN NoLock ELSE lock
    /\ GoTo(h, "recreate")
    /\ UNCHANGED <<now, snapMtime, snapPid, recheck, refused, leavers>>

(* unlinkSync removes whatever lock is there.  A missing file is ignored,   *)
(* and so is a refusal, after which the stale file is still there.          *)
UnlinkStale(h) ==
    /\ pc[h] = "unlink"
    /\ \/ lock' = NoLock /\ UNCHANGED refused
       \/ Refuse(h) /\ UNCHANGED lock
    /\ GoTo(h, "recreate")
    /\ UNCHANGED <<now, snapMtime, snapPid, recheck, leavers>>

(* Whatever error the second create meets, the reason is "race".            *)
Recreate(h) ==
    /\ pc[h] = "recreate"
    /\ \/ CreateLock(h) /\ UNCHANGED refused
       \/ /\ CreateFails(h)
          /\ Coalesce(h, "race")
          /\ UNCHANGED lock
    /\ UNCHANGED <<now, snapMtime, snapPid, recheck, leavers>>

-----------------------------------------------------------------------------
(* The review ends and process.exit runs releaseInflightLock, which unlinks *)
(* the lock path whoever owns the file by then, or fails to in silence.     *)
ReleaseOnExit(h) ==
    /\ Reviewing(h)
    /\ \/ lock' = NoLock /\ UNCHANGED <<refused, leavers>>
       \/ /\ Refuse(h)
          /\ leavers' = leavers \cup {h}
          /\ UNCHANGED lock
    /\ GoTo(h, "exited")
    /\ UNCHANGED <<now, snapMtime, snapPid, recheck>>

(* A signal ends the process without its "exit" handlers.                   *)
Kill(h) ==
    /\ Kills
    /\ pc[h] \notin {"exited", "killed"}
    /\ GoTo(h, "killed")
    /\ leavers' = leavers \cup {h}
    /\ UNCHANGED <<now, lock, snapMtime, snapPid, recheck, refused>>

(* Time passes, but no review outlives the timers of its dispatch.          *)
Tick ==
    /\ now < MaxTime
    /\ \A h \in Hooks : Reviewing(h) => now < since[h] + BudgetOf[h]
    /\ now' = now + 1
    /\ UNCHANGED <<lock, pc, snapMtime, snapPid, recheck, since, outcome, refused, leavers>>

AcquireStep(h) ==
    \/ TryCreate(h)
    \/ StatLock(h)
    \/ ReadPid(h)
    \/ RestatLock(h)
    \/ RereadPid(h)
    \/ UnlinkStale(h)
    \/ Recreate(h)

Next ==
    \/ \E h \in Hooks : AcquireStep(h) \/ ReleaseOnExit(h) \/ Kill(h)
    \/ Tick

Spec == Init /\ [][Next]_vars

-----------------------------------------------------------------------------
(* Properties                                                               *)

(* Every dispatch fits the age at which any hook would call its lock stale. *)
ReviewsFitTtl == \A h, g \in Hooks : BudgetOf[h] <= TtlOf(g)

(* No lock was left behind: nobody died, and every exit's unlink succeeded. *)
Calm == leavers = {}

(* ADR-087: as long as no lock is left behind there is at most one review   *)
(* per file at a time (given ReviewsFitTtl), whatever other calls fail.     *)
MutualExclusion ==
    Calm => \A h, g \in Hooks : Reviewing(h) /\ Reviewing(g) => h = g

(* releaseInflightLock compares no identity: it is safe only as long as the *)
(* file it unlinks at exit is the one its own process created, and that it  *)
(* is until somebody leaves a lock behind.                                  *)
ReleaseRemovesOwnLock ==
    [][\A h \in Hooks :
         Calm /\ Reviewing(h) /\ pc'[h] = "exited" => lock # NoLock /\ lock.owner = h]_vars

(* The two-phase identity check: when it lets a hook go on to unlink a file *)
(* it found, that file still is the one whose age the hook judged stale,    *)
(* although mtime and pid are read by separate calls with others between.   *)
(* It says so of the comparison: a reading that is refused skips it.        *)
StaleIdentity(h) == [owner |-> snapPid[h], mtime |-> snapMtime[h]]
RecheckSound ==
    [][\A h \in Hooks :
         pc[h] = "rereadPid" /\ pc'[h] = "unlink" /\ lock # NoLock /\ h \notin refused'
           => lock = StaleIdentity(h) /\ now - lock.mtime > TtlOf(h)]_vars

(* A hook turned away with "race", and none of whose calls was refused,     *)
(* lost to a newer lock and not to the abandoned one it had come to clear:  *)
(* with several recoverers an abandoned lock still does not survive.        *)
RaceLostToSuccessor ==
    [][\A h \in Hooks :
         outcome[h] = "pending" /\ outcome'[h] = "race" /\ h \notin refused'
           => lock # NoLock /\ lock # StaleIdentity(h)]_vars

(* "stale-recovery never steals still-valid locks" (codex-pair-watch.mjs).  *)
NeverStealsLive ==
    [][\A h, g \in Hooks :
         pc[h] = "unlink" /\ pc'[h] = "recreate" /\ lock # NoLock /\ lock.owner = g
           => ~Reviewing(g)]_vars

(* Why the identity check works, as an inductive invariant.  A snapshot's   *)
(* mtime is older than any lock created later, and a snapshot's pid belongs *)
(* to a process that will not create the lock again; so once both readings  *)
(* agree with the snapshot the file cannot have been replaced in between.   *)
OwnersHaveAcquired ==
    lock # NoLock =>
        /\ lock.mtime <= now
        /\ lock.owner \in Hooks => pc[lock.owner] \notin Acquiring

SnapshotIsStale ==
    \A h \in Hooks :
        pc[h] \in {"readPid", "restat", "rereadPid"} => snapMtime[h] + TtlOf(h) < now

SnapshotNamesOneLock ==
    \A h \in Hooks : pc[h] \in {"restat", "rereadPid"} =>
        (lock # NoLock /\ lock.mtime = snapMtime[h] => lock.owner = snapPid[h])

SnapshotOwnerIsDone ==
    \A h \in Hooks :
        /\ pc[h] \in {"create", "stat", "readPid"} => snapPid[h] = Ghost
        /\ pc[h] \in Acquiring /\ snapPid[h] \in Hooks => pc[snapPid[h]] \notin Acquiring
        /\ pc[h] = "recreate" /\ lock # NoLock /\ h \notin refused => lock.owner # snapPid[h]

RecheckedIdentity ==
    \A h \in Hooks :
        pc[h] = "rereadPid" /\ lock # NoLock /\ SameIdentity(h) => lock.mtime = snapMtime[h]

IdentityInv ==
    /\ TypeOK
    /\ OwnersHaveAcquired
    /\ SnapshotIsStale
    /\ SnapshotNamesOneLock
    /\ SnapshotOwnerIsDone
    /\ RecheckedIdentity

(* Why nobody recovers a lock while every dispatch fits its lifetime and    *)
(* none was left behind: the file always belongs to the one reviewer, and it is  *)
(* younger than that reviewer's budget.                                     *)
NobodyRecovers ==
    \A h \in Hooks : pc[h] \notin {"readPid", "restat", "rereadPid", "unlink", "killed"}

LockIsTheReviewers ==
    /\ lock # NoLock => /\ lock.owner \in Hooks
                        /\ Reviewing(lock.owner)
                        /\ since[lock.owner] = lock.mtime
                        /\ lock.mtime <= now
    /\ \A h \in Hooks : Reviewing(h) => lock # NoLock /\ lock.owner = h

ReviewsInBudget == \A h \in Hooks : Reviewing(h) => now <= since[h] + BudgetOf[h]

OutcomeOfStep ==
    \A h \in Hooks :
        /\ pc[h] \in Acquiring <=> outcome[h] = "pending"
        /\ Reviewing(h) => outcome[h] = "acquired"

FitInv ==
    /\ TypeOK
    /\ ReviewsInBudget
    /\ Calm => NobodyRecovers /\ LockIsTheReviewers /\ OutcomeOfStep

(* The promise of ReviewMutex, with the outcome of a hook as its state.  A  *)
(* hook turned away after a refusal failed, whatever reason it logs.        *)
StateOf(h) ==
    IF Reviewing(h) THEN "reviewing"
    ELSE IF outcome[h] = "pending" THEN "idle"
    ELSE IF outcome[h] = "acquired" THEN "reviewed"
    ELSE IF h \in refused THEN "failed"
    ELSE "coalesced"

Mutex == INSTANCE ReviewMutex WITH state <- [h \in Hooks |-> StateOf(h)], calm <- Calm
ImplementsMutex == Mutex!Spec

=============================================================================
