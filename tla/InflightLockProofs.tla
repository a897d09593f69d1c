-------------------------- MODULE InflightLockProofs --------------------------
(* Theorems about InflightLock for every set of hooks, every timeout and    *)
(* every length of the run, with their proofs.                              *)
EXTENDS InflightLock, TLAPS

USE ConstantsAssumption DEF Locks, Pids

(* The age limit is a number.                                               *)
LEMMA TtlOfNat == ASSUME NEW h \in Hooks PROVE TtlOf(h) \in Nat
BY DEF TtlOf

LEMMA InitTypeOK == Init => TypeOK
BY DEF Init, TypeOK, Acquiring, Steps, Outcomes

(* Each step keeps the types.                                               *)
LEMMA NextTypeOK == TypeOK /\ [Next]_vars => TypeOK'
<1> SUFFICES ASSUME TypeOK, [Next]_vars PROVE TypeOK'
    OBVIOUS
<1> USE DEF TypeOK, Acquiring, Steps, Outcomes
<1>1. ASSUME NEW h \in Hooks, TryCreate(h) PROVE TypeOK'
      BY <1>1 DEF TryCreate, Refuse, CreateLock, GoTo, Coalesce
<1>2. ASSUME NEW h \in Hooks, StatLock(h) PROVE TypeOK'
      BY <1>2 DEF StatLock, ReadFails, Refuse, GoTo, Coalesce
<1>3. ASSUME NEW h \in Hooks, ReadPid(h) PROVE TypeOK'
      BY <1>3 DEF ReadPid, ReadFails, Refuse, GoTo
<1>4. ASSUME NEW h \in Hooks, RestatLock(h) PROVE TypeOK'
      BY <1>4 DEF RestatLock, ReadFails, Refuse, GoTo
<1>5. ASSUME NEW h \in Hooks, RereadPid(h) PROVE TypeOK'
      BY <1>5 DEF RereadPid, ReadFails, Refuse, GoTo, Coalesce
<1>6. ASSUME NEW h \in Hooks, UnlinkStale(h) PROVE TypeOK'
      BY <1>6 DEF UnlinkStale, Refuse, GoTo
<1>7. ASSUME NEW h \in Hooks, Recreate(h) PROVE TypeOK'
      BY <1>7 DEF Recreate, CreateFails, Refuse, CreateLock, Coalesce
<1>8. ASSUME NEW h \in Hooks, ReleaseOnExit(h) PROVE TypeOK'
      BY <1>8 DEF ReleaseOnExit, Refuse, GoTo
<1>9. ASSUME NEW h \in Hooks, Kill(h) PROVE TypeOK'
      BY <1>9 DEF Kill, GoTo
<1>10. ASSUME Tick PROVE TypeOK'
      BY <1>10 DEF Tick
<1>11. CASE UNCHANGED vars
      BY <1>11 DEF vars
<1> QED
    BY <1>1, <1>2, <1>3, <1>4, <1>5, <1>6, <1>7, <1>8, <1>9, <1>10, <1>11
       DEF Next, AcquireStep

(* Type correctness of the lock protocol.                                   *)
THEOREM TypeCorrect == Spec => []TypeOK
BY InitTypeOK, NextTypeOK, PTL DEF Spec

-----------------------------------------------------------------------------
(* The identity check of stale recovery                                     *)

LEMMA InitIdentityInv == Init => IdentityInv
BY InitTypeOK DEF Init, IdentityInv, OwnersHaveAcquired, SnapshotIsStale,
   SnapshotNamesOneLock, SnapshotOwnerIsDone, RecheckedIdentity, Acquiring

LEMMA NextIdentityInv == IdentityInv /\ [Next]_vars => IdentityInv'
<1> SUFFICES ASSUME IdentityInv, [Next]_vars PROVE IdentityInv'
    OBVIOUS
<1> USE TtlOfNat DEF Acquiring, Steps
<1>0. TypeOK /\ TypeOK'
      BY NextTypeOK DEF IdentityInv
<1>1. ASSUME NEW h \in Hooks, TryCreate(h) PROVE IdentityInv'
  <2>1. OwnersHaveAcquired'
        BY <1>0, <1>1 DEF IdentityInv, TypeOK, OwnersHaveAcquired, TryCreate, Refuse, CreateLock, GoTo, Coalesce
  <2>2. SnapshotIsStale'
        BY <1>0, <1>1 DEF IdentityInv, TypeOK, OwnersHaveAcquired, SnapshotIsStale, TryCreate, Refuse, CreateLock, GoTo, Coalesce
  <2>3. SnapshotNamesOneLock'
        BY <1>0, <1>1 DEF IdentityInv, TypeOK, OwnersHaveAcquired, SnapshotIsStale,
           SnapshotNamesOneLock, TryCreate, Refuse, CreateLock, GoTo, Coalesce
  <2>4. SnapshotOwnerIsDone'
        BY <1>0, <1>1 DEF IdentityInv, TypeOK, OwnersHaveAcquired, SnapshotOwnerIsDone, TryCreate, Refuse, CreateLock, GoTo, Coalesce
  <2>5. RecheckedIdentity'
        BY <1>0, <1>1 DEF IdentityInv, TypeOK, OwnersHaveAcquired, SnapshotOwnerIsDone,
           RecheckedIdentity, SameIdentity, TryCreate, Refuse, CreateLock, GoTo, Coalesce
  <2> QED
      BY <1>0, <2>1, <2>2, <2>3, <2>4, <2>5 DEF IdentityInv
<1>2. ASSUME NEW h \in Hooks, StatLock(h) PROVE IdentityInv'
  <2>1. OwnersHaveAcquired'
        BY <1>0, <1>2 DEF IdentityInv, TypeOK, OwnersHaveAcquired, StatLock, ReadFails, Refuse, GoTo, Coalesce
  <2>2. SnapshotIsStale'
        BY <1>0, <1>2 DEF IdentityInv, TypeOK, OwnersHaveAcquired, SnapshotIsStale, StatLock, ReadFails, Refuse, GoTo, Coalesce
  <2>3. SnapshotNamesOneLock'
        BY <1>0, <1>2 DEF IdentityInv, TypeOK, OwnersHaveAcquired, SnapshotIsStale,
           SnapshotNamesOneLock, StatLock, ReadFails, Refuse, GoTo, Coalesce
  <2>4. SnapshotOwnerIsDone'
        BY <1>0, <1>2 DEF IdentityInv, TypeOK, OwnersHaveAcquired, SnapshotOwnerIsDone, StatLock, ReadFails, Refuse, GoTo, Coalesce
  <2>5. RecheckedIdentity'
        BY <1>0, <1>2 DEF IdentityInv, TypeOK, OwnersHaveAcquired, SnapshotOwnerIsDone,
           RecheckedIdentity, SameIdentity, StatLock, ReadFails, Refuse, GoTo, Coalesce
  <2> QED
      BY <1>0, <2>1, <2>2, <2>3, <2>4, <2>5 DEF IdentityInv
<1>3. ASSUME NEW h \in Hooks, ReadPid(h) PROVE IdentityInv'
  <2>1. OwnersHaveAcquired'
        BY <1>0, <1>3 DEF IdentityInv, TypeOK, OwnersHaveAcquired, ReadPid, ReadFails, Refuse, GoTo
  <2>2. SnapshotIsStale'
        BY <1>0, <1>3 DEF IdentityInv, TypeOK, OwnersHaveAcquired, SnapshotIsStale, ReadPid, ReadFails, Refuse, GoTo
  <2>3. SnapshotNamesOneLock'
        BY <1>0, <1>3 DEF IdentityInv, TypeOK, OwnersHaveAcquired, SnapshotIsStale,
           SnapshotNamesOneLock, ReadPid, ReadFails, Refuse, GoTo
  <2>4. SnapshotOwnerIsDone'
        BY <1>0, <1>3 DEF IdentityInv, TypeOK, OwnersHaveAcquired, SnapshotOwnerIsDone, ReadPid, ReadFails, Refuse, GoTo
  <2>5. RecheckedIdentity'
        BY <1>0, <1>3 DEF IdentityInv, TypeOK, OwnersHaveAcquired, SnapshotOwnerIsDone,
           RecheckedIdentity, SameIdentity, ReadPid, ReadFails, Refuse, GoTo
  <2> QED
      BY <1>0, <2>1, <2>2, <2>3, <2>4, <2>5 DEF IdentityInv
<1>4. ASSUME NEW h \in Hooks, RestatLock(h) PROVE IdentityInv'
  <2>1. OwnersHaveAcquired'
        BY <1>0, <1>4 DEF IdentityInv, TypeOK, OwnersHaveAcquired, RestatLock, ReadFails, Refuse, GoTo
  <2>2. SnapshotIsStale'
        BY <1>0, <1>4 DEF IdentityInv, TypeOK, OwnersHaveAcquired, SnapshotIsStale, RestatLock, ReadFails, Refuse, GoTo
  <2>3. SnapshotNamesOneLock'
        BY <1>0, <1>4 DEF IdentityInv, TypeOK, OwnersHaveAcquired, SnapshotIsStale,
           SnapshotNamesOneLock, RestatLock, ReadFails, Refuse, GoTo
  <2>4. SnapshotOwnerIsDone'
        BY <1>0, <1>4 DEF IdentityInv, TypeOK, OwnersHaveAcquired, SnapshotOwnerIsDone, RestatLock, ReadFails, Refuse, GoTo
  <2>5. RecheckedIdentity'
        BY <1>0, <1>4 DEF IdentityInv, TypeOK, OwnersHaveAcquired, SnapshotOwnerIsDone,
           RecheckedIdentity, SameIdentity, RestatLock, ReadFails, Refuse, GoTo
  <2> QED
      BY <1>0, <2>1, <2>2, <2>3, <2>4, <2>5 DEF IdentityInv
<1>5. ASSUME NEW h \in Hooks, RereadPid(h) PROVE IdentityInv'
  <2>1. OwnersHaveAcquired'
        BY <1>0, <1>5 DEF IdentityInv, TypeOK, OwnersHaveAcquired, RereadPid, ReadFails, Refuse, GoTo, Coalesce
  <2>2. SnapshotIsStale'
        BY <1>0, <1>5 DEF IdentityInv, TypeOK, OwnersHaveAcquired, SnapshotIsStale, RereadPid, ReadFails, Refuse, GoTo, Coalesce
  <2>3. SnapshotNamesOneLock'
        BY <1>0, <1>5 DEF IdentityInv, TypeOK, OwnersHaveAcquired, SnapshotIsStale,
           SnapshotNamesOneLock, RereadPid, ReadFails, Refuse, GoTo, Coalesce
  <2>4. SnapshotOwnerIsDone'
        BY <1>0, <1>5 DEF IdentityInv, TypeOK, OwnersHaveAcquired, SnapshotOwnerIsDone, RereadPid, ReadFails, Refuse, GoTo, Coalesce
  <2>5. RecheckedIdentity'
        BY <1>0, <1>5 DEF IdentityInv, TypeOK, OwnersHaveAcquired, SnapshotOwnerIsDone,
           RecheckedIdentity, SameIdentity, RereadPid, ReadFails, Refuse, GoTo, Coalesce
  <2> QED
      BY <1>0, <2>1, <2>2, <2>3, <2>4, <2>5 DEF IdentityInv
<1>6. ASSUME NEW h \in Hooks, UnlinkStale(h) PROVE IdentityInv'
  <2>1. OwnersHaveAcquired'
        BY <1>0, <1>6 DEF IdentityInv, TypeOK, OwnersHaveAcquired, UnlinkStale, Refuse, GoTo
  <2>2. SnapshotIsStale'
        BY <1>0, <1>6 DEF IdentityInv, TypeOK, OwnersHaveAcquired, SnapshotIsStale, UnlinkStale, Refuse, GoTo
  <2>3. SnapshotNamesOneLock'
        BY <1>0, <1>6 DEF IdentityInv, TypeOK, OwnersHaveAcquired, SnapshotIsStale,
           SnapshotNamesOneLock, UnlinkStale, Refuse, GoTo
  <2>4. SnapshotOwnerIsDone'
        BY <1>0, <1>6 DEF IdentityInv, TypeOK, OwnersHaveAcquired, SnapshotOwnerIsDone, UnlinkStale, Refuse, GoTo
  <2>5. RecheckedIdentity'
        BY <1>0, <1>6 DEF IdentityInv, TypeOK, OwnersHaveAcquired, SnapshotOwnerIsDone,
           RecheckedIdentity, SameIdentity, UnlinkStale, Refuse, GoTo
  <2> QED
      BY <1>0, <2>1, <2>2, <2>3, <2>4, <2>5 DEF IdentityInv
<1>7. ASSUME NEW h \in Hooks, Recreate(h) PROVE IdentityInv'
  <2>1. OwnersHaveAcquired'
        BY <1>0, <1>7 DEF IdentityInv, TypeOK, OwnersHaveAcquired, Recreate, CreateFails, Refuse, CreateLock, GoTo, Coalesce
  <2>2. SnapshotIsStale'
        BY <1>0, <1>7 DEF IdentityInv, TypeOK, OwnersHaveAcquired, SnapshotIsStale, Recreate, CreateFails, Refuse, CreateLock, GoTo, Coalesce
  <2>3. SnapshotNamesOneLock'
        BY <1>0, <1>7 DEF IdentityInv, TypeOK, OwnersHaveAcquired, SnapshotIsStale,
           SnapshotNamesOneLock, Recreate, CreateFails, Refuse, CreateLock, GoTo, Coalesce
  <2>4. SnapshotOwnerIsDone'
        BY <1>0, <1>7 DEF IdentityInv, TypeOK, OwnersHaveAcquired, SnapshotOwnerIsDone, Recreate, CreateFails, Refuse, CreateLock, GoTo, Coalesce
  <2>5. RecheckedIdentity'
        BY <1>0, <1>7 DEF IdentityInv, TypeOK, OwnersHaveAcquired, SnapshotOwnerIsDone,
           RecheckedIdentity, SameIdentity, Recreate, CreateFails, Refuse, CreateLock, GoTo, Coalesce
  <2> QED
      BY <1>0, <2>1, <2>2, <2>3, <2>4, <2>5 DEF IdentityInv
<1>8. ASSUME NEW h \in Hooks, ReleaseOnExit(h) PROVE IdentityInv'
  <2>1. OwnersHaveAcquired'
        BY <1>0, <1>8 DEF IdentityInv, TypeOK, OwnersHaveAcquired, ReleaseOnExit, Refuse, Reviewing, GoTo
  <2>2. SnapshotIsStale'
        BY <1>0, <1>8 DEF IdentityInv, TypeOK, OwnersHaveAcquired, SnapshotIsStale, ReleaseOnExit, Refuse, Reviewing, GoTo
  <2>3. SnapshotNamesOneLock'
        BY <1>0, <1>8 DEF IdentityInv, TypeOK, OwnersHaveAcquired, SnapshotIsStale,
           SnapshotNamesOneLock, ReleaseOnExit, Refuse, Reviewing, GoTo
  <2>4. SnapshotOwnerIsDone'
        BY <1>0, <1>8 DEF IdentityInv, TypeOK, OwnersHaveAcquired, SnapshotOwnerIsDone, ReleaseOnExit, Refuse, Reviewing, GoTo
  <2>5. RecheckedIdentity'
        BY <1>0, <1>8 DEF IdentityInv, TypeOK, OwnersHaveAcquired, SnapshotOwnerIsDone,
           RecheckedIdentity, SameIdentity, ReleaseOnExit, Refuse, Reviewing, GoTo
  <2> QED
      BY <1>0, <2>1, <2>2, <2>3, <2>4, <2>5 DEF IdentityInv
<1>9. ASSUME NEW h \in Hooks, Kill(h) PROVE IdentityInv'
  <2>1. OwnersHaveAcquired'
        BY <1>0, <1>9 DEF IdentityInv, TypeOK, OwnersHaveAcquired, Kill, GoTo
  <2>2. SnapshotIsStale'
        BY <1>0, <1>9 DEF IdentityInv, TypeOK, OwnersHaveAcquired, SnapshotIsStale, Kill, GoTo
  <2>3. SnapshotNamesOneLock'
        BY <1>0, <1>9 DEF IdentityInv, TypeOK, OwnersHaveAcquired, SnapshotIsStale,
           SnapshotNamesOneLock, Kill, GoTo
  <2>4. SnapshotOwnerIsDone'
        BY <1>0, <1>9 DEF IdentityInv, TypeOK, OwnersHaveAcquired, SnapshotOwnerIsDone, Kill, GoTo
  <2>5. RecheckedIdentity'
        BY <1>0, <1>9 DEF IdentityInv, TypeOK, OwnersHaveAcquired, SnapshotOwnerIsDone,
           RecheckedIdentity, SameIdentity, Kill, GoTo
  <2> QED
      BY <1>0, <2>1, <2>2, <2>3, <2>4, <2>5 DEF IdentityInv
<1>10. ASSUME Tick PROVE IdentityInv'
  <2>1. OwnersHaveAcquired'
        BY <1>0, <1>10 DEF IdentityInv, TypeOK, OwnersHaveAcquired, Tick
  <2>2. SnapshotIsStale'
        BY <1>0, <1>10 DEF IdentityInv, TypeOK, SnapshotIsStale, TtlOf, Tick
  <2>3. SnapshotNamesOneLock' /\ SnapshotOwnerIsDone' /\ RecheckedIdentity'
        BY <1>10 DEF IdentityInv, SnapshotNamesOneLock, SnapshotOwnerIsDone, RecheckedIdentity, SameIdentity, Tick
  <2> QED
      BY <1>0, <2>1, <2>2, <2>3 DEF IdentityInv
<1>11. CASE UNCHANGED vars
       BY <1>0, <1>11 DEF IdentityInv, OwnersHaveAcquired, SnapshotIsStale,
          SnapshotNamesOneLock, SnapshotOwnerIsDone, RecheckedIdentity, SameIdentity,
          TtlOf, vars
<1> QED
    BY <1>1, <1>2, <1>3, <1>4, <1>5, <1>6, <1>7, <1>8, <1>9, <1>10, <1>11
       DEF Next, AcquireStep

THEOREM IdentityInvariant == Spec => []IdentityInv
BY InitIdentityInv, NextIdentityInv, PTL DEF Spec

(* A file that a hook goes on to unlink after its recheck is the one it     *)
(* judged stale, however the other processes interleave.                    *)
THEOREM RecheckIsSound == Spec => RecheckSound
<1> DEFINE Step == \A h \in Hooks :
             pc[h] = "rereadPid" /\ pc'[h] = "unlink" /\ lock # NoLock /\ h \notin refused'
               => lock = StaleIdentity(h) /\ now - lock.mtime > TtlOf(h)
<1>1. IdentityInv /\ [Next]_vars => [Step]_vars
  <2> SUFFICES ASSUME IdentityInv, Next,
                      NEW h \in Hooks,
                      pc[h] = "rereadPid", pc'[h] = "unlink", lock # NoLock, h \notin refused'
               PROVE  lock = StaleIdentity(h) /\ now - lock.mtime > TtlOf(h)
      OBVIOUS
  <2>1. RereadPid(h)
        BY DEF Next, AcquireStep, TryCreate, Refuse, StatLock, ReadFails, Refuse, ReadPid, ReadFails, Refuse, RestatLock, ReadFails, Refuse, RereadPid,
           UnlinkStale, Refuse, Recreate, CreateFails, Refuse, ReleaseOnExit, Refuse, Kill, Tick, CreateLock, GoTo, Coalesce,
           IdentityInv, TypeOK
  <2>2. SameIdentity(h)
        BY <2>1 DEF RereadPid, ReadFails, Refuse, Coalesce, IdentityInv, TypeOK
  <2>3. lock.mtime = snapMtime[h] /\ lock.owner = snapPid[h]
        BY <2>2 DEF IdentityInv, RecheckedIdentity, SameIdentity
  <2>4. snapMtime[h] + TtlOf(h) < now
        BY DEF IdentityInv, SnapshotIsStale
  <2> QED
      BY <2>3, <2>4, TtlOfNat DEF IdentityInv, TypeOK, StaleIdentity
<1> QED
    BY <1>1, IdentityInvariant, PTL DEF Spec, RecheckSound

(* A hook turned away with "race" though none of its calls was refused lost *)
(* to a newer lock.                                                         *)
THEOREM RaceIsLostToSuccessor == Spec => RaceLostToSuccessor
<1> DEFINE Step == \A h \in Hooks :
             outcome[h] = "pending" /\ outcome'[h] = "race" /\ h \notin refused'
               => lock # NoLock /\ lock # StaleIdentity(h)
<1>1. IdentityInv /\ [Next]_vars => [Step]_vars
  <2> SUFFICES ASSUME IdentityInv, Next,
                      NEW h \in Hooks,
                      outcome[h] = "pending", outcome'[h] = "race", h \notin refused'
               PROVE  lock # NoLock /\ lock # StaleIdentity(h)
      OBVIOUS
  <2>1. Recreate(h)
        BY DEF Next, AcquireStep, TryCreate, Refuse, StatLock, ReadFails, Refuse, ReadPid, ReadFails, Refuse, RestatLock, ReadFails, Refuse, RereadPid,
           UnlinkStale, Refuse, Recreate, CreateFails, Refuse, ReleaseOnExit, Refuse, Kill, Tick, CreateLock, GoTo, Coalesce,
           IdentityInv, TypeOK
  <2>2. lock # NoLock /\ h \notin refused
        BY <2>1 DEF Recreate, CreateFails, CreateLock, Refuse, IdentityInv, TypeOK
  <2> QED
      BY <2>1, <2>2 DEF Recreate, IdentityInv, SnapshotOwnerIsDone, StaleIdentity
<1> QED
    BY <1>1, IdentityInvariant, PTL DEF Spec, RaceLostToSuccessor

-----------------------------------------------------------------------------
(* Mutual exclusion until somebody dies, when every dispatch fits           *)

LEMMA InitFitInv == Init => FitInv
BY InitTypeOK DEF Init, Calm, FitInv, NobodyRecovers, LockIsTheReviewers, ReviewsInBudget,
   OutcomeOfStep, Reviewing, Acquiring

(* What was left behind stays so.                                           *)
LEMMA CalmBefore == TypeOK /\ [Next]_vars /\ Calm' => Calm
BY DEF TypeOK, Next, AcquireStep, TryCreate, Refuse, StatLock, ReadFails, Refuse, ReadPid, ReadFails, Refuse, RestatLock, ReadFails, Refuse, RereadPid,
   UnlinkStale, Refuse, Recreate, CreateFails, Refuse, ReleaseOnExit, Refuse, Kill, Tick, Calm, vars

(* No review outlives its budget, calm or not.                              *)
LEMMA NextReviewsInBudget ==
    TypeOK /\ ReviewsInBudget /\ [Next]_vars => ReviewsInBudget'
<1> SUFFICES ASSUME TypeOK, ReviewsInBudget, [Next]_vars PROVE ReviewsInBudget'
    OBVIOUS
<1> USE DEF TypeOK, ReviewsInBudget, Reviewing, Steps, Acquiring
<1>1. ASSUME NEW h \in Hooks, AcquireStep(h) PROVE ReviewsInBudget'
      BY <1>1 DEF AcquireStep, TryCreate, Refuse, StatLock, ReadFails, Refuse, ReadPid, ReadFails, Refuse, RestatLock, ReadFails, Refuse, RereadPid,
         UnlinkStale, Refuse, Recreate, CreateFails, Refuse, CreateLock, GoTo, Coalesce
<1>2. ASSUME NEW h \in Hooks, ReleaseOnExit(h) \/ Kill(h) PROVE ReviewsInBudget'
      BY <1>2 DEF ReleaseOnExit, Refuse, Kill, GoTo
<1>3. CASE Tick
      BY <1>3 DEF Tick
<1>4. CASE UNCHANGED vars
      BY <1>4 DEF vars
<1> QED
    BY <1>1, <1>2, <1>3, <1>4 DEF Next

(* The parts that hold while it is calm.                                    *)
CalmInv == NobodyRecovers /\ LockIsTheReviewers /\ OutcomeOfStep

LEMMA NextCalmInv ==
    ReviewsFitTtl /\ Calm /\ TypeOK /\ ReviewsInBudget /\ CalmInv /\ [Next]_vars /\ Calm'
      => CalmInv'
<1> SUFFICES ASSUME ReviewsFitTtl, Calm, TypeOK, ReviewsInBudget, CalmInv, [Next]_vars, Calm'
             PROVE  CalmInv'
    OBVIOUS
<1> USE TtlOfNat DEF Acquiring, Steps, Reviewing
<1>0. TypeOK /\ TypeOK'
      BY NextTypeOK
<1>1. ASSUME NEW h \in Hooks, TryCreate(h) PROVE CalmInv'
  <2>1. NobodyRecovers'
        BY <1>0, <1>1 DEF CalmInv, TypeOK, NobodyRecovers, TryCreate, Refuse, CreateLock, GoTo, Coalesce
  <2>2. LockIsTheReviewers'
        BY <1>0, <1>1 DEF CalmInv, TypeOK, LockIsTheReviewers, TryCreate, Refuse, CreateLock, GoTo, Coalesce
  <2>4. OutcomeOfStep'
        BY <1>0, <1>1 DEF CalmInv, TypeOK, OutcomeOfStep, Outcomes, TryCreate, Refuse, CreateLock, GoTo, Coalesce
  <2> QED
      BY <2>1, <2>2, <2>4 DEF CalmInv
<1>2. ASSUME NEW h \in Hooks, StatLock(h) PROVE CalmInv'
  <2>1. NobodyRecovers'
        BY <1>0, <1>2 DEF CalmInv, TypeOK, NobodyRecovers, StatLock, ReadFails, Refuse, GoTo, Coalesce,
           LockIsTheReviewers, ReviewsInBudget, ReviewsFitTtl
  <2>2. LockIsTheReviewers'
        BY <1>0, <1>2 DEF CalmInv, TypeOK, LockIsTheReviewers, StatLock, ReadFails, Refuse, GoTo, Coalesce
  <2>4. OutcomeOfStep'
        BY <1>0, <1>2 DEF CalmInv, TypeOK, OutcomeOfStep, Outcomes, StatLock, ReadFails, Refuse, GoTo, Coalesce
  <2> QED
      BY <2>1, <2>2, <2>4 DEF CalmInv
<1>3. ASSUME NEW h \in Hooks, ReadPid(h) PROVE FALSE
      BY <1>3 DEF CalmInv, NobodyRecovers, ReadPid, ReadFails, Refuse
<1>4. ASSUME NEW h \in Hooks, RestatLock(h) PROVE FALSE
      BY <1>4 DEF CalmInv, NobodyRecovers, RestatLock, ReadFails, Refuse
<1>5. ASSUME NEW h \in Hooks, RereadPid(h) PROVE FALSE
      BY <1>5 DEF CalmInv, NobodyRecovers, RereadPid, ReadFails, Refuse
<1>6. ASSUME NEW h \in Hooks, UnlinkStale(h) PROVE FALSE
      BY <1>6 DEF CalmInv, NobodyRecovers, UnlinkStale, Refuse
<1>7. ASSUME NEW h \in Hooks, Recreate(h) PROVE CalmInv'
  <2>1. NobodyRecovers'
        BY <1>0, <1>7 DEF CalmInv, TypeOK, NobodyRecovers, Recreate, CreateFails, Refuse, CreateLock, GoTo, Coalesce
  <2>2. LockIsTheReviewers'
        BY <1>0, <1>7 DEF CalmInv, TypeOK, LockIsTheReviewers, Recreate, CreateFails, Refuse, CreateLock, GoTo, Coalesce
  <2>4. OutcomeOfStep'
        BY <1>0, <1>7 DEF CalmInv, TypeOK, OutcomeOfStep, Outcomes, Recreate, CreateFails, Refuse, CreateLock, GoTo, Coalesce
  <2> QED
      BY <2>1, <2>2, <2>4 DEF CalmInv
<1>8. ASSUME NEW h \in Hooks, ReleaseOnExit(h) PROVE CalmInv'
  <2>1. NobodyRecovers'
        BY <1>0, <1>8 DEF CalmInv, TypeOK, NobodyRecovers, ReleaseOnExit, Refuse, GoTo
  <2>2. LockIsTheReviewers'
        BY <1>0, <1>8 DEF CalmInv, TypeOK, LockIsTheReviewers, ReleaseOnExit, Refuse, GoTo, Calm
  <2>4. OutcomeOfStep'
        BY <1>0, <1>8 DEF CalmInv, TypeOK, OutcomeOfStep, Outcomes, ReleaseOnExit, Refuse, GoTo
  <2> QED
      BY <2>1, <2>2, <2>4 DEF CalmInv
<1>9. ASSUME NEW h \in Hooks, Kill(h) PROVE FALSE
      BY <1>9 DEF Kill, Calm
<1>10. ASSUME Tick PROVE CalmInv'
  <2>1. NobodyRecovers' /\ OutcomeOfStep'
        BY <1>10 DEF CalmInv, NobodyRecovers, OutcomeOfStep, Tick
  <2>2. LockIsTheReviewers'
        BY <1>0, <1>10 DEF CalmInv, TypeOK, LockIsTheReviewers, Tick
  <2> QED
      BY <2>1, <2>2 DEF CalmInv
<1>11. CASE UNCHANGED vars
       BY <1>0, <1>11 DEF CalmInv, NobodyRecovers, LockIsTheReviewers, OutcomeOfStep, vars
<1> QED
    BY <1>1, <1>2, <1>3, <1>4, <1>5, <1>6, <1>7, <1>8, <1>9, <1>10, <1>11
       DEF Next, AcquireStep

LEMMA NextFitInv == ReviewsFitTtl /\ FitInv /\ [Next]_vars => FitInv'
BY NextTypeOK, CalmBefore, NextReviewsInBudget, NextCalmInv DEF FitInv, CalmInv

THEOREM FitInvariant == ASSUME ReviewsFitTtl PROVE Spec => []FitInv
BY InitFitInv, NextFitInv, PTL DEF Spec

(* Until a lock is left behind, at most one hook reviews the file at a time.        *)
THEOREM ReviewsAreExclusive ==
    ASSUME ReviewsFitTtl PROVE Spec => []MutualExclusion
<1>1. FitInv => MutualExclusion
      BY DEF FitInv, LockIsTheReviewers, MutualExclusion
<1> QED
    BY <1>1, FitInvariant, PTL

(* Until a lock is left behind, an exiting hook unlinks the lock it created.        *)
THEOREM ReleasesAreOwn ==
    ASSUME ReviewsFitTtl PROVE Spec => ReleaseRemovesOwnLock
<1> DEFINE Step == \A h \in Hooks :
             Calm /\ Reviewing(h) /\ pc'[h] = "exited" => lock # NoLock /\ lock.owner = h
<1>1. FitInv /\ [Next]_vars => [Step]_vars
      BY DEF FitInv, LockIsTheReviewers
<1> QED
    BY <1>1, FitInvariant, PTL DEF Spec, ReleaseRemovesOwnLock

-----------------------------------------------------------------------------
(* The lock protocol implements ReviewMutex                                 *)

LEMMA InitMutex == Init => Mutex!Init
BY DEF Init, Mutex!Init, StateOf, Reviewing

LEMMA CalmStepIsMutexStep ==
    FitInv /\ FitInv' /\ [Next]_vars /\ Calm /\ Calm'
      => Mutex!Next \/ UNCHANGED [h \in Hooks |-> StateOf(h)]
<1> DEFINE state == [h \in Hooks |-> StateOf(h)]
<1> SUFFICES ASSUME FitInv, FitInv', [Next]_vars, Calm, Calm'
             PROVE  Mutex!Next \/ state' = state
    OBVIOUS
<1> USE DEF FitInv, TypeOK, OutcomeOfStep, StateOf, Reviewing, Acquiring, Steps, Outcomes
<1>1. ASSUME NEW h \in Hooks, CreateLock(h), UNCHANGED refused, pc[h] \in Acquiring
      PROVE  Mutex!Start(h)
  <2>1. StateOf(h) = "idle"
        BY <1>1
  <2>2. \A g \in Hooks : StateOf(g) # "reviewing"
        BY <1>1 DEF CreateLock, LockIsTheReviewers
  <2>3. \A g \in Hooks : StateOf(g)' = IF g = h THEN "reviewing" ELSE StateOf(g)
        BY <1>1 DEF CreateLock
  <2> HIDE DEF StateOf, FitInv, TypeOK, OutcomeOfStep
  <2> QED
      BY <2>1, <2>2, <2>3 DEF Mutex!Start, Mutex!Leave, Mutex!NobodyReviews
<1>2. ASSUME NEW h \in Hooks, NEW r \in {"in-flight", "race"},
             Coalesce(h, r), UNCHANGED refused, pc[h] \in Acquiring, lock # NoLock
      PROVE  Mutex!Coalesced(h) \/ Mutex!Fail(h)
  <2>1. StateOf(h) = "idle"
        BY <1>2
  <2>2. \E g \in Hooks : StateOf(g) = "reviewing"
        BY <1>2 DEF LockIsTheReviewers
  <2>3. \A g \in Hooks : StateOf(g)' = IF g # h THEN StateOf(g)
                                        ELSE IF h \in refused THEN "failed" ELSE "coalesced"
        BY <1>2 DEF Coalesce
  <2> HIDE DEF StateOf, FitInv, TypeOK, OutcomeOfStep
  <2>4. CASE h \in refused
        BY <2>1, <2>3, <2>4 DEF Mutex!Fail, Mutex!Leave
  <2>5. CASE h \notin refused
        BY <2>1, <2>2, <2>3, <2>5 DEF Mutex!Coalesced, Mutex!Leave, Mutex!NobodyReviews
  <2> QED
      BY <2>4, <2>5
<1>3. ASSUME NEW h \in Hooks, NEW r \in {"error", "race"},
             Coalesce(h, r), Refuse(h), pc[h] \in Acquiring
      PROVE  Mutex!Fail(h)
  <2>1. StateOf(h) = "idle"
        BY <1>3
  <2>2. \A g \in Hooks : StateOf(g)' = IF g = h THEN "failed" ELSE StateOf(g)
        BY <1>3 DEF Coalesce, Refuse
  <2> HIDE DEF StateOf, FitInv, TypeOK, OutcomeOfStep
  <2> QED
      BY <2>1, <2>2 DEF Mutex!Fail, Mutex!Leave
<1>4. ASSUME NEW h \in Hooks, NEW step \in Acquiring, GoTo(h, step), pc[h] \in Acquiring,
             UNCHANGED refused \/ Refuse(h)
      PROVE  state' = state
      BY <1>4 DEF GoTo, Refuse
<1>5. ASSUME NEW h \in Hooks, TryCreate(h) PROVE Mutex!Next \/ state' = state
      BY <1>1, <1>3, <1>4, <1>5 DEF TryCreate, Mutex!Next
<1>6. ASSUME NEW h \in Hooks, StatLock(h) PROVE Mutex!Next \/ state' = state
      BY <1>2, <1>4, <1>6 DEF StatLock, ReadFails, Mutex!Next
<1>7. ASSUME NEW h \in Hooks, Recreate(h) PROVE Mutex!Next
      BY <1>1, <1>2, <1>3, <1>7 DEF Recreate, CreateFails, Mutex!Next
<1>8. ASSUME NEW h \in Hooks, ReleaseOnExit(h) PROVE Mutex!Next
  <2>1. Mutex!Finish(h)
        BY <1>8 DEF ReleaseOnExit, Refuse, GoTo, Mutex!Finish, Mutex!Leave
  <2> QED
      BY <2>1 DEF Mutex!Next
<1>9. ASSUME NEW h \in Hooks,
             ReadPid(h) \/ RestatLock(h) \/ RereadPid(h) \/ UnlinkStale(h) \/ Kill(h)
      PROVE  FALSE
      BY <1>9 DEF NobodyRecovers, ReadPid, RestatLock, RereadPid, UnlinkStale, Kill, Calm
<1>10. CASE Tick \/ UNCHANGED vars
       BY <1>10 DEF Tick, vars
<1> QED
    BY <1>5, <1>6, <1>7, <1>8, <1>9, <1>10 DEF Next, AcquireStep

LEMMA NextMutex ==
    FitInv /\ FitInv' /\ [Next]_vars
      => [Mutex!Next]_<<[h \in Hooks |-> StateOf(h)], Calm>>
<1>1. ASSUME ~Calm' PROVE Mutex!Next
      BY <1>1 DEF Mutex!Next, Mutex!Deserted
<1>2. FitInv /\ [Next]_vars /\ Calm' => Calm
      BY CalmBefore DEF FitInv
<1> QED
    BY <1>1, <1>2, CalmStepIsMutexStep DEF Calm

(* The system calls of the lock implement one review at a time, with hooks  *)
(* turned away only while somebody reviews, until somebody dies.            *)
THEOREM LockImplementsMutex ==
    ASSUME ReviewsFitTtl PROVE Spec => ImplementsMutex
<1>1. Spec => Mutex!Init
      BY InitMutex DEF Spec
<1> QED
    BY <1>1, FitInvariant, NextMutex, PTL DEF Spec, ImplementsMutex, Mutex!Spec

=============================================================================
