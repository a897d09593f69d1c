------------------------- MODULE BrokerLifecycleProofs -------------------------
(****************************************************************************)
(* Proofs about BrokerLifecycle: bootstraps exclude each other and keep no  *)
(* child, and hooks that take turns publish what answered them and orphan   *)
(* no app-server, for any number of sessions and accidents, and although    *)
(* any removal may fail.                                                    *)
(****************************************************************************)
EXTENDS BrokerLifecycle, TLAPS

USE LifecycleAssumption

-----------------------------------------------------------------------------
(* Types                                                                    *)

LEMMA InitTypes == Init => TypeOK
BY DEF Init, TypeOK

LEMMA StartTypes ==
    ASSUME TypeOK, NEW s \in Sessions, StartStep(s)
    PROVE  TypeOK'
<1> USE DEF TypeOK, Goto, Forget, HookSteps, Clearing, Bootstrap, Teardown,
            locals, files, history
<1>1. CASE ReadState(s) BY <1>1 DEF ReadState
<1>2. CASE JudgeState(s) BY <1>2 DEF JudgeState
<1>3. CASE ClearDescriptor(s) BY <1>3 DEF ClearDescriptor, Remaining
<1>4. CASE ClearSocket(s) BY <1>4 DEF ClearSocket, Remaining
<1>5. CASE AcquireBrokerLock(s) BY <1>5 DEF AcquireBrokerLock
<1>6. CASE SpawnBroker(s) BY <1>6 DEF SpawnBroker
<1>7. CASE PollSocketReachable(s) BY <1>7 DEF PollSocketReachable
<1>8. CASE InitializeBroker(s) BY <1>8 DEF InitializeBroker, Accepting
<1>9. CASE WriteBrokerDescriptor(s) BY <1>9 DEF WriteBrokerDescriptor
<1>10. CASE FailBootstrap(s) BY <1>10 DEF FailBootstrap, Terminate
<1>11. CASE ReleaseBrokerLock(s) BY <1>11 DEF ReleaseBrokerLock, Remaining
<1> QED BY <1>1, <1>2, <1>3, <1>4, <1>5, <1>6, <1>7, <1>8, <1>9, <1>10, <1>11 DEF StartStep

LEMMA EndTypes ==
    ASSUME TypeOK, NEW s \in Sessions, EndStep(s)
    PROVE  TypeOK'
<1> USE DEF TypeOK, Goto, Forget, HookSteps, Clearing, Bootstrap, Teardown,
            locals, files, history
<1>1. CASE ReadDescriptor(s) BY <1>1 DEF ReadDescriptor
<1>2. CASE KillPid(s) BY <1>2 DEF KillPid, Terminate
<1>3. CASE GraceEnds(s) BY <1>3 DEF GraceEnds, KillHard
<1>4. CASE UnlinkTransportArtifact(s) BY <1>4 DEF UnlinkTransportArtifact, Remaining
<1>5. CASE UnlinkBrokerDescriptor(s) BY <1>5 DEF UnlinkBrokerDescriptor, Remaining
<1>6. CASE TeardownReleases(s) BY <1>6 DEF TeardownReleases, Remaining
<1> QED BY <1>1, <1>2, <1>3, <1>4, <1>5, <1>6 DEF EndStep

LEMMA OtherTypes ==
    ASSUME TypeOK, NEW s \in Sessions,
           SessionStart(s) \/ SessionEnd(s) \/ KillHook(s) \/ Listens(s) \/ Ends(s)
    PROVE  TypeOK'
<1> USE DEF TypeOK, Goto, Forget, HookSteps, Clearing, Bootstrap, Teardown,
            locals, files, history, Accident
<1>1. CASE SessionStart(s) BY <1>1 DEF SessionStart, Begin
<1>2. CASE SessionEnd(s) BY <1>2 DEF SessionEnd, Begin
<1>3. CASE KillHook(s) BY <1>3 DEF KillHook
<1>4. CASE Listens(s) BY <1>4 DEF Listens
<1>5. CASE Ends(s) BY <1>5 DEF Ends
<1> QED BY <1>1, <1>2, <1>3, <1>4, <1>5

(* The groups of actions the proofs below go through.                       *)
LEMMA Steps ==
    ASSUME [Next]_vars
    PROVE  \/ \E s \in Sessions : StartStep(s)
           \/ \E s \in Sessions : EndStep(s)
           \/ \E s \in Sessions :
                 SessionStart(s) \/ SessionEnd(s) \/ KillHook(s) \/ Listens(s) \/ Ends(s)
           \/ UNCHANGED vars
BY DEF Next, HookStep

LEMMA NextTypes == TypeOK /\ [Next]_vars => TypeOK'
<1> SUFFICES ASSUME TypeOK, [Next]_vars PROVE TypeOK' OBVIOUS
<1>1. CASE UNCHANGED vars BY <1>1 DEF vars, TypeOK
<1> QED BY <1>1, Steps, StartTypes, EndTypes, OtherTypes

(* The state of a project's sessions keeps its types.                       *)
THEOREM TypeCorrect == Spec => []TypeOK
BY InitTypes, NextTypes, PTL DEF Spec

-----------------------------------------------------------------------------
(* The lock                                                                 *)

LockInv == TypeOK /\ BootstrapsHoldTheLock

LEMMA StartLocks ==
    ASSUME LockInv, NEW s \in Sessions, StartStep(s)
    PROVE  LockInv'
<1>t. TypeOK' BY StartTypes DEF LockInv
<1> USE DEF LockInv, TypeOK, BootstrapsHoldTheLock, Goto,
            Clearing, Bootstrap, Teardown, locals, files, history
<1>1. CASE ReadState(s) BY <1>1, <1>t DEF ReadState
<1>2. CASE JudgeState(s) BY <1>2, <1>t DEF JudgeState
<1>3. CASE ClearDescriptor(s) BY <1>3, <1>t DEF ClearDescriptor, Remaining
<1>4. CASE ClearSocket(s) BY <1>4, <1>t DEF ClearSocket, Remaining
<1>5. CASE AcquireBrokerLock(s) BY <1>5, <1>t DEF AcquireBrokerLock
<1>6. CASE SpawnBroker(s) BY <1>6, <1>t DEF SpawnBroker
<1>7. CASE PollSocketReachable(s) BY <1>7, <1>t DEF PollSocketReachable
<1>8. CASE InitializeBroker(s) BY <1>8, <1>t DEF InitializeBroker
<1>9. CASE WriteBrokerDescriptor(s) BY <1>9, <1>t DEF WriteBrokerDescriptor
<1>10. CASE FailBootstrap(s) BY <1>10, <1>t DEF FailBootstrap
<1>11. CASE ReleaseBrokerLock(s) BY <1>11, <1>t DEF ReleaseBrokerLock, Remaining
<1> QED BY <1>1, <1>2, <1>3, <1>4, <1>5, <1>6, <1>7, <1>8, <1>9, <1>10, <1>11 DEF StartStep

LEMMA EndLocks ==
    ASSUME LockInv, NEW s \in Sessions, EndStep(s)
    PROVE  LockInv'
<1>t. TypeOK' BY EndTypes DEF LockInv
<1> USE DEF LockInv, TypeOK, BootstrapsHoldTheLock, Goto,
            Clearing, Bootstrap, Teardown, locals, files, history
<1>1. CASE ReadDescriptor(s) BY <1>1, <1>t DEF ReadDescriptor
<1>2. CASE KillPid(s) BY <1>2, <1>t DEF KillPid
<1>3. CASE GraceEnds(s) BY <1>3, <1>t DEF GraceEnds
<1>4. CASE UnlinkTransportArtifact(s) BY <1>4, <1>t DEF UnlinkTransportArtifact, Remaining
<1>5. CASE UnlinkBrokerDescriptor(s) BY <1>5, <1>t DEF UnlinkBrokerDescriptor, Remaining
<1>6. CASE TeardownReleases(s) BY <1>6, <1>t DEF TeardownReleases, Remaining
<1> QED BY <1>1, <1>2, <1>3, <1>4, <1>5, <1>6 DEF EndStep

LEMMA OtherLocks ==
    ASSUME LockInv, NEW s \in Sessions,
           SessionStart(s) \/ SessionEnd(s) \/ KillHook(s) \/ Listens(s) \/ Ends(s)
    PROVE  LockInv'
<1>t. TypeOK' BY OtherTypes DEF LockInv
<1> USE DEF LockInv, TypeOK, BootstrapsHoldTheLock, Goto,
            Clearing, Bootstrap, Teardown, locals, files, history
<1>1. CASE SessionStart(s) BY <1>1, <1>t DEF SessionStart, Begin
<1>2. CASE SessionEnd(s) BY <1>2, <1>t DEF SessionEnd, Begin
<1>3. CASE KillHook(s) BY <1>3, <1>t DEF KillHook, Running, HookSteps
<1>4. CASE Listens(s) BY <1>4, <1>t DEF Listens
<1>5. CASE Ends(s) BY <1>5, <1>t DEF Ends
<1> QED BY <1>1, <1>2, <1>3, <1>4, <1>5

LEMMA InitLocks == Init => LockInv
BY InitTypes DEF Init, LockInv, BootstrapsHoldTheLock, Bootstrap

LEMMA NextLocks == LockInv /\ [Next]_vars => LockInv'
<1> SUFFICES ASSUME LockInv, [Next]_vars PROVE LockInv' OBVIOUS
<1>1. CASE UNCHANGED vars
  BY <1>1, NextTypes
  DEF vars, LockInv, BootstrapsHoldTheLock
<1> QED BY <1>1, Steps, StartLocks, EndLocks, OtherLocks

(* However many SessionStarts run at once, and whoever of them is killed,   *)
(* one at a time bootstraps until a session ends.                           *)
THEOREM BootstrapsExclude == Spec => []BootstrapsAreExclusive
<1>1. LockInv => BootstrapsAreExclusive
  BY DEF LockInv, BootstrapsHoldTheLock, BootstrapsAreExclusive
<1> QED BY <1>1, InitLocks, NextLocks, PTL DEF Spec

-----------------------------------------------------------------------------
(* Children                                                                 *)

ChildInv == TypeOK /\ ChildrenAreSpawned /\ BootstrapsKeepNoChild

LEMMA StartChildren ==
    ASSUME ChildInv, NEW s \in Sessions, StartStep(s)
    PROVE  ChildInv'
<1>t. TypeOK' BY StartTypes DEF ChildInv
<1> USE DEF ChildInv, TypeOK, ChildrenAreSpawned, BootstrapsKeepNoChild, Serving, Goto,
            Clearing, Bootstrap, Teardown, locals, files, history
<1>1. CASE ReadState(s) BY <1>1, <1>t DEF ReadState
<1>2. CASE JudgeState(s) BY <1>2, <1>t DEF JudgeState
<1>3. CASE ClearDescriptor(s) BY <1>3, <1>t DEF ClearDescriptor, Remaining
<1>4. CASE ClearSocket(s) BY <1>4, <1>t DEF ClearSocket, Remaining
<1>5. CASE AcquireBrokerLock(s) BY <1>5, <1>t DEF AcquireBrokerLock
<1>6. CASE SpawnBroker(s) BY <1>6, <1>t DEF SpawnBroker
<1>7. CASE PollSocketReachable(s) BY <1>7, <1>t DEF PollSocketReachable
<1>8. CASE InitializeBroker(s) BY <1>8, <1>t DEF InitializeBroker
<1>9. CASE WriteBrokerDescriptor(s) BY <1>9, <1>t DEF WriteBrokerDescriptor
<1>10. CASE FailBootstrap(s) BY <1>10, <1>t DEF FailBootstrap, Terminate
<1>11. CASE ReleaseBrokerLock(s) BY <1>11, <1>t DEF ReleaseBrokerLock, Remaining
<1> QED BY <1>1, <1>2, <1>3, <1>4, <1>5, <1>6, <1>7, <1>8, <1>9, <1>10, <1>11 DEF StartStep

LEMMA EndChildren ==
    ASSUME ChildInv, NEW s \in Sessions, EndStep(s)
    PROVE  ChildInv'
<1>t. TypeOK' BY EndTypes DEF ChildInv
<1> USE DEF ChildInv, TypeOK, ChildrenAreSpawned, BootstrapsKeepNoChild, Serving, Goto,
            Clearing, Bootstrap, Teardown, locals, files, history
<1>1. CASE ReadDescriptor(s) BY <1>1, <1>t DEF ReadDescriptor
<1>2. CASE KillPid(s) BY <1>2, <1>t DEF KillPid, Terminate
<1>3. CASE GraceEnds(s) BY <1>3, <1>t DEF GraceEnds, KillHard, Alive
<1>4. CASE UnlinkTransportArtifact(s) BY <1>4, <1>t DEF UnlinkTransportArtifact, Remaining
<1>5. CASE UnlinkBrokerDescriptor(s) BY <1>5, <1>t DEF UnlinkBrokerDescriptor, Remaining
<1>6. CASE TeardownReleases(s) BY <1>6, <1>t DEF TeardownReleases, Remaining
<1> QED BY <1>1, <1>2, <1>3, <1>4, <1>5, <1>6 DEF EndStep

LEMMA OtherChildren ==
    ASSUME ChildInv, NEW s \in Sessions,
           SessionStart(s) \/ SessionEnd(s) \/ KillHook(s) \/ Listens(s) \/ Ends(s)
    PROVE  ChildInv'
<1>t. TypeOK' BY OtherTypes DEF ChildInv
<1> USE DEF ChildInv, TypeOK, ChildrenAreSpawned, BootstrapsKeepNoChild, Serving, Goto,
            Clearing, Bootstrap, Teardown, locals, files, history
<1>1. CASE SessionStart(s) BY <1>1, <1>t DEF SessionStart, Begin
<1>2. CASE SessionEnd(s) BY <1>2, <1>t DEF SessionEnd, Begin
<1>3. CASE KillHook(s) BY <1>3, <1>t DEF KillHook, Running, HookSteps
<1>4. CASE Listens(s) BY <1>4, <1>t DEF Listens
<1>5. CASE Ends(s) BY <1>5, <1>t DEF Ends
<1> QED BY <1>1, <1>2, <1>3, <1>4, <1>5

LEMMA InitChildren == Init => ChildInv
BY InitTypes DEF Init, ChildInv, ChildrenAreSpawned, BootstrapsKeepNoChild, Serving

LEMMA NextChildren == ChildInv /\ [Next]_vars => ChildInv'
<1> SUFFICES ASSUME ChildInv, [Next]_vars PROVE ChildInv' OBVIOUS
<1>1. CASE UNCHANGED vars
  BY <1>1, NextTypes
  DEF vars, ChildInv, ChildrenAreSpawned, BootstrapsKeepNoChild, Serving
<1> QED BY <1>1, Steps, StartChildren, EndChildren, OtherChildren

(* A bootstrap that is not killed leaves no app-server but a published one, *)
(* whatever fails in it and whatever other hooks do beside it.              *)
THEOREM NoChildIsKept == Spec => []BootstrapsKeepNoChild
<1>1. ChildInv => BootstrapsKeepNoChild BY DEF ChildInv
<1> QED BY <1>1, InitChildren, NextChildren, PTL DEF Spec

-----------------------------------------------------------------------------
(* Hooks that take turns                                                    *)

CalmInv ==
    /\ TypeOK
    /\ CalmHooksAreAlone
    /\ CalmStops
    /\ CalmBootstraps
    /\ PublishedBrokerListens
    /\ PublishedBrokerAnswered
    /\ NoOrphanBroker

(* A disturbed course is never calm again.                                  *)
LEMMA CalmWasCalm == [Next]_vars /\ Calm' => Calm
<1> SUFFICES ASSUME [Next]_vars, Calm' PROVE Calm OBVIOUS
<1> USE DEF Calm, history
<1>1. CASE \E s \in Sessions : StartStep(s)
  BY <1>1
  DEF StartStep, ReadState, JudgeState, ClearDescriptor, ClearSocket, AcquireBrokerLock, SpawnBroker, PollSocketReachable, InitializeBroker, WriteBrokerDescriptor, FailBootstrap, ReleaseBrokerLock
<1>2. CASE \E s \in Sessions : EndStep(s)
  BY <1>2
  DEF EndStep, ReadDescriptor, KillPid, GraceEnds, UnlinkTransportArtifact, UnlinkBrokerDescriptor, TeardownReleases
<1>3. CASE \E s \in Sessions :
             SessionStart(s) \/ SessionEnd(s) \/ KillHook(s) \/ Listens(s) \/ Ends(s)
  BY <1>3
  DEF SessionStart, SessionEnd, KillHook, Listens, Ends, Begin
<1> QED BY <1>1, <1>2, <1>3, Steps DEF vars

LEMMA StartCalm ==
    ASSUME CalmInv, Calm, Calm', NEW s \in Sessions, StartStep(s)
    PROVE  CalmInv'
<1>t. TypeOK' BY StartTypes DEF CalmInv
<1> USE DEF CalmInv, TypeOK, CalmHooksAreAlone, CalmStops, CalmBootstraps,
            PublishedBrokerListens, PublishedBrokerAnswered, NoOrphanBroker,
            NobodyAlive, OnlyAlive, Alive, Serving, Running, HookSteps, Goto, Forget,
            Clearing, Bootstrap, Teardown, locals, files, history
<1>1. CASE ReadState(s) BY <1>1, <1>t DEF ReadState
<1>2. CASE JudgeState(s) BY <1>2, <1>t DEF JudgeState, IsLive, Calm
<1>3. CASE ClearDescriptor(s) BY <1>3, <1>t DEF ClearDescriptor, Remaining
<1>4. CASE ClearSocket(s) BY <1>4, <1>t DEF ClearSocket, Remaining
<1>5. CASE AcquireBrokerLock(s) BY <1>5, <1>t DEF AcquireBrokerLock
<1>6. CASE SpawnBroker(s) BY <1>6, <1>t DEF SpawnBroker
<1>7. CASE PollSocketReachable(s) BY <1>7, <1>t DEF PollSocketReachable, Accepting
<1>8. CASE InitializeBroker(s) BY <1>8, <1>t DEF InitializeBroker, Accepting
<1>9. CASE WriteBrokerDescriptor(s) BY <1>9, <1>t DEF WriteBrokerDescriptor
<1>10. CASE FailBootstrap(s) BY <1>10, <1>t DEF FailBootstrap, Terminate
<1>11. CASE ReleaseBrokerLock(s) BY <1>11, <1>t DEF ReleaseBrokerLock, Remaining
<1> QED BY <1>1, <1>2, <1>3, <1>4, <1>5, <1>6, <1>7, <1>8, <1>9, <1>10, <1>11 DEF StartStep

LEMMA EndCalm ==
    ASSUME CalmInv, Calm, Calm', NEW s \in Sessions, EndStep(s)
    PROVE  CalmInv'
<1>t. TypeOK' BY EndTypes DEF CalmInv
<1> USE DEF CalmInv, TypeOK, CalmHooksAreAlone, CalmStops, CalmBootstraps,
            PublishedBrokerListens, PublishedBrokerAnswered, NoOrphanBroker,
            NobodyAlive, OnlyAlive, Alive, Serving, Running, HookSteps, Goto, Forget,
            Clearing, Bootstrap, Teardown, locals, files, history
<1>1. CASE ReadDescriptor(s) BY <1>1, <1>t DEF ReadDescriptor
<1>2. CASE KillPid(s) BY <1>2, <1>t DEF KillPid, Terminate
<1>3. CASE GraceEnds(s) BY <1>3, <1>t DEF GraceEnds, KillHard
<1>4. CASE UnlinkTransportArtifact(s) BY <1>4, <1>t DEF UnlinkTransportArtifact, Remaining
<1>5. CASE UnlinkBrokerDescriptor(s) BY <1>5, <1>t DEF UnlinkBrokerDescriptor, Remaining
<1>6. CASE TeardownReleases(s) BY <1>6, <1>t DEF TeardownReleases, Remaining
<1> QED BY <1>1, <1>2, <1>3, <1>4, <1>5, <1>6 DEF EndStep

LEMMA OtherCalm ==
    ASSUME CalmInv, Calm, Calm', NEW s \in Sessions, 
           SessionStart(s) \/ SessionEnd(s) \/ KillHook(s) \/ Listens(s) \/ Ends(s)
    PROVE  CalmInv'
<1>t. TypeOK' BY OtherTypes DEF CalmInv
<1> USE DEF CalmInv, TypeOK, CalmHooksAreAlone, CalmStops, CalmBootstraps,
            PublishedBrokerListens, PublishedBrokerAnswered, NoOrphanBroker,
            NobodyAlive, OnlyAlive, Alive, Serving, Running, HookSteps, Goto, Forget,
            Clearing, Bootstrap, Teardown, locals, files, history
<1>1. CASE SessionStart(s) BY <1>1, <1>t DEF SessionStart, Begin, Overlaps, Calm
<1>2. CASE SessionEnd(s) BY <1>2, <1>t DEF SessionEnd, Begin, Overlaps, Calm
<1>3. CASE KillHook(s) BY <1>3, <1>t DEF KillHook, Accident, Calm
<1>4. CASE Listens(s) BY <1>4, <1>t DEF Listens
<1>5. CASE Ends(s) BY <1>5, <1>t DEF Ends, Accident
<1> QED BY <1>1, <1>2, <1>3, <1>4, <1>5

LEMMA InitCalm == Init => CalmInv
BY InitTypes
DEF Init, CalmInv, CalmHooksAreAlone, CalmStops, CalmBootstraps, PublishedBrokerListens,
    PublishedBrokerAnswered, NoOrphanBroker, Running, HookSteps, Clearing, Bootstrap,
    Teardown, Serving

LEMMA NextCalm == CalmInv /\ [Next]_vars => CalmInv'
<1> SUFFICES ASSUME CalmInv, [Next]_vars PROVE CalmInv' OBVIOUS
<1>t. TypeOK' BY NextTypes DEF CalmInv
<1>1. CASE ~Calm'
  BY <1>1, <1>t
  DEF CalmInv, CalmHooksAreAlone, CalmStops, CalmBootstraps, PublishedBrokerListens,
      PublishedBrokerAnswered, NoOrphanBroker
<1>2. CASE Calm'
  <2>1. Calm BY <1>2, CalmWasCalm
  <2>2. CASE UNCHANGED vars
    BY <1>t, <2>2
    DEF vars, CalmInv, CalmHooksAreAlone, CalmStops, CalmBootstraps, PublishedBrokerListens,
        PublishedBrokerAnswered, NoOrphanBroker, Calm, NobodyAlive, OnlyAlive, Alive, Serving,
        Running
  <2> QED BY <1>2, <2>1, <2>2, Steps, StartCalm, EndCalm, OtherCalm
<1> QED BY <1>1, <1>2

(* While hooks take turns, the pid in the descriptor is that of the         *)
(* app-server that answered initialize, crashes of app-servers included.    *)
THEOREM DescriptorsAreHonest == Spec => []PublishedBrokerAnswered
<1>1. CalmInv => PublishedBrokerAnswered BY DEF CalmInv
<1> QED BY <1>1, InitCalm, NextCalm, PTL DEF Spec

(* While hooks take turns, no app-server serves that no descriptor names,   *)
(* although app-servers crash and SessionEnds are killed half-way.          *)
THEOREM NoBrokerIsOrphaned == Spec => []NoOrphanBroker
<1>1. CalmInv => NoOrphanBroker BY DEF CalmInv
<1> QED BY <1>1, InitCalm, NextCalm, PTL DEF Spec

=============================================================================
