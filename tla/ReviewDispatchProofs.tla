------------------------- MODULE ReviewDispatchProofs -------------------------
(* Theorems about ReviewDispatch for every timeout, delay and bound, with   *)
(* their proofs.                                                            *)
EXTENDS ReviewDispatch, TLAPS

USE DispatchAssumption DEF Attempts

LEMMA InitTypeOK == Init => TypeOK
BY DEF Init, TypeOK, Phases, Verdicts

(* Whatever an attempt fails with, main() reports one of its tags.          *)
LEMMA FailTypeOK ==
    ASSUME TypeOK, NEW f \in Failures, Fail(f)
    PROVE  /\ phase' \in {"backoff", "spawn", "report"}
           /\ phaseStart' \in Nat
           /\ model' \in {"configured", "fallback"}
           /\ attempt' \in 1..2
           /\ verdict' \in Verdicts
BY DEF TypeOK, Failures, Fail, Enter, Report, Verdicts

LEMMA FailuresAreTyped ==
    SpawnFailure \in Failures /\ TimeoutFailure \in Failures /\ CloseFailures \subseteq Failures
BY DEF SpawnFailure, TimeoutFailure, CloseFailures, Failures, Signals

LEMMA NextTypeOK == TypeOK /\ [Next]_vars => TypeOK'
<1> SUFFICES ASSUME TypeOK, [Next]_vars PROVE TypeOK'
    OBVIOUS
<1> USE DEF TypeOK, Phases, Verdicts, Enter, Report
<1>1. CASE Start
      BY <1>1 DEF Start
<1>2. CASE BrokerReturns
      BY <1>2 DEF BrokerReturns
<1>3. CASE SpawnCodex
      BY <1>3 DEF SpawnCodex
<1>4. CASE SpawnError
      BY <1>4, FailTypeOK, FailuresAreTyped DEF SpawnError
<1>5. CASE CodexCloses
  <2>1. CASE Report("answer")
        BY <1>5, <2>1 DEF CodexCloses
  <2>2. CASE \E f \in CloseFailures : Fail(f)
        BY <1>5, <2>2, FailTypeOK, FailuresAreTyped DEF CodexCloses
  <2> QED
      BY <1>5, <2>1, <2>2 DEF CodexCloses
<1>6. CASE TimerFires
  <2>1. process' \in [Attempts -> {"none", "running", "signalled", "dead"}]
        BY <1>6 DEF TimerFires
  <2>2. now + KillGrace \in Nat
        OBVIOUS
  <2>3. killAt' \in [Attempts -> Nat]
        BY <1>6, <2>2 DEF TimerFires
  <2>4. /\ phase' \in {"backoff", "spawn", "report"} /\ phaseStart' \in Nat
        /\ model' \in {"configured", "fallback"} /\ attempt' \in 1..2
        /\ verdict' \in Verdicts
        BY ONLY <1>6, TypeOK, FailTypeOK, FailuresAreTyped DEF TimerFires
  <2>5. UNCHANGED <<now, spawns, broker>>
        BY <1>6 DEF TimerFires
  <2> QED
      BY <2>1, <2>3, <2>4, <2>5
<1>7. CASE RetryAfterDelay
      BY <1>7 DEF RetryAfterDelay
<1>8. CASE Exit
      BY <1>8 DEF Exit
<1>9. ASSUME NEW n \in Attempts, KillTimerFires(n) \/ SignalledCloses(n) PROVE TypeOK'
      BY <1>9 DEF KillTimerFires, SignalledCloses
<1>10. CASE Tick
      BY <1>10 DEF Tick
<1>11. CASE UNCHANGED vars
      BY <1>11 DEF vars
<1> QED
    BY <1>1, <1>2, <1>3, <1>4, <1>5, <1>6, <1>7, <1>8, <1>9, <1>10, <1>11 DEF Next, HookStep

(* Type correctness of the dispatch.                                        *)
THEOREM TypeCorrect == Spec => []TypeOK
BY InitTypeOK, NextTypeOK, PTL DEF Spec

-----------------------------------------------------------------------------
(* The budget of a dispatch                                                 *)

BudgetInv == TypeOK /\ AttemptsFitBudget

LEMMA InitBudgetInv == Init => BudgetInv
BY InitTypeOK DEF Init, BudgetInv, AttemptsFitBudget

(* A failed attempt leaves time and room for what may follow it.            *)
LEMMA FailFitsBudget ==
    ASSUME BudgetInv, TypeOK', phase = "waiting", NEW f \in Failures, Fail(f),
           UNCHANGED <<now, spawns>>
    PROVE  AttemptsFitBudget'
<1> USE DEF BudgetInv, TypeOK, AttemptsFitBudget, SpawnsBefore, LatestSpawn, DispatchBudget, Enter
<1>0. /\ now \in Nat /\ phaseStart \in Nat /\ spawns \in Nat
      /\ Timeout \in Nat /\ RetryDelay \in Nat /\ BrokerTime \in Nat
      /\ now <= phaseStart + Timeout /\ phaseStart <= LatestSpawn /\ spawns <= SpawnsBefore + 1
      /\ now' = now /\ spawns' = spawns
      OBVIOUS
<1>1. CASE Retries(f)
  <2>1. /\ attempt = 1 /\ attempt' = 2 /\ model' = model
        /\ phase' = "backoff" /\ phaseStart' = now
        BY <1>1 DEF Fail, Retries, FallsBack
  <2>2. phaseStart' + RetryDelay <= LatestSpawn' /\ spawns' <= SpawnsBefore'
    <3>1. CASE model = "configured"
          BY ONLY <1>0, <2>1, <3>1 DEF LatestSpawn, SpawnsBefore
    <3>2. CASE model # "configured"
          BY ONLY <1>0, <2>1, <3>2 DEF LatestSpawn, SpawnsBefore
    <3> QED
        BY <3>1, <3>2
  <2> QED
      BY <1>0, <2>1, <2>2
<1>2. CASE FallsBack(f)
  <2>1. /\ model = "configured" /\ model' = "fallback" /\ attempt' = 1
        /\ phase' = "spawn" /\ attempt \in 1..2
        BY <1>2 DEF Fail, Retries, FallsBack
  <2>2. now' <= LatestSpawn' /\ spawns' <= SpawnsBefore'
        BY ONLY <1>0, <2>1 DEF LatestSpawn, SpawnsBefore
  <2> QED
      BY <1>0, <2>1, <2>2
<1>3. CASE ~Retries(f) /\ ~FallsBack(f)
  <2>1. /\ phase' = "report" /\ model' = model /\ attempt' = attempt /\ attempt \in 1..2
        BY <1>3 DEF Fail, Report
  <2>2. now' <= DispatchBudget /\ spawns' <= SpawnsBefore' + 1
        BY ONLY <1>0, <2>1 DEF LatestSpawn, SpawnsBefore, DispatchBudget
  <2> QED
      BY <1>0, <2>1, <2>2
<1> QED
    BY <1>1, <1>2, <1>3

LEMMA NextBudgetInv == BudgetInv /\ [Next]_vars => BudgetInv'
<1> SUFFICES ASSUME BudgetInv, [Next]_vars PROVE AttemptsFitBudget'
    BY NextTypeOK DEF BudgetInv
<1>0. TypeOK /\ TypeOK'
      BY NextTypeOK DEF BudgetInv
<1> USE <1>0 DEF TypeOK, BudgetInv, AttemptsFitBudget, SpawnsBefore, LatestSpawn,
                 DispatchBudget, Enter, Report
<1>1. CASE Start
      BY <1>1 DEF Start
<1>2. CASE BrokerReturns
  <2>1. /\ now' = now /\ spawns' = spawns /\ model' = model /\ attempt' = attempt
        /\ phase' \in {"spawn", "report"}
        BY <1>2 DEF BrokerReturns
  <2>2. now <= BrokerTime /\ spawns = 0 /\ model = "configured" /\ attempt = 1
        BY <1>2 DEF BrokerReturns
  <2>3. /\ now' <= LatestSpawn' /\ spawns' <= SpawnsBefore'
        /\ now' <= DispatchBudget /\ spawns' <= SpawnsBefore' + 1
        BY <2>1, <2>2
  <2> QED
      BY ONLY <2>1, <2>3 DEF AttemptsFitBudget
<1>3. CASE SpawnCodex
      BY <1>3 DEF SpawnCodex
<1>4. CASE SpawnError
      BY <1>4, FailFitsBudget, FailuresAreTyped DEF SpawnError
<1>5. CASE CodexCloses
  <2>1. CASE Report("answer")
        BY <1>5, <2>1 DEF CodexCloses
  <2>2. CASE \E f \in CloseFailures : Fail(f)
        BY <1>5, <2>2, FailFitsBudget, FailuresAreTyped DEF CodexCloses
  <2> QED
      BY <1>5, <2>1, <2>2 DEF CodexCloses
<1>6. CASE TimerFires
      BY <1>6, FailFitsBudget, FailuresAreTyped DEF TimerFires
<1>7. CASE RetryAfterDelay
      BY <1>7 DEF RetryAfterDelay
<1>8. CASE Exit
      BY <1>8 DEF Exit
<1>9. ASSUME NEW n \in Attempts, KillTimerFires(n) \/ SignalledCloses(n)
      PROVE  AttemptsFitBudget'
      BY <1>9 DEF KillTimerFires, SignalledCloses
<1>10. CASE Tick
      BY <1>10 DEF Tick, TimerIsDue
<1>11. CASE UNCHANGED vars
      BY <1>11 DEF vars
<1> QED
    BY <1>1, <1>2, <1>3, <1>4, <1>5, <1>6, <1>7, <1>8, <1>9, <1>10, <1>11 DEF Next, HookStep

THEOREM BudgetInvariant == Spec => []BudgetInv
BY InitBudgetInv, NextBudgetInv, PTL DEF Spec

(* A dispatch takes at most its broker time, four timeouts and two delays.  *)
THEOREM DispatchIsBounded == Spec => []DispatchWithinBudget
<1>1. BudgetInv => DispatchWithinBudget
      BY DEF BudgetInv, AttemptsFitBudget, TypeOK, Phases, SpawnsBefore, LatestSpawn,
         DispatchBudget, DispatchWithinBudget
<1> QED
    BY <1>1, BudgetInvariant, PTL

(* A model is tried at most twice.                                          *)
THEOREM RetriesAreBounded == Spec => []AtMostOneRetryPerModel
<1>1. BudgetInv => AtMostOneRetryPerModel
      BY DEF BudgetInv, AttemptsFitBudget, TypeOK, Phases, SpawnsBefore,
         AtMostOneRetryPerModel
<1> QED
    BY <1>1, BudgetInvariant, PTL

-----------------------------------------------------------------------------
(* Attempts do not overlap                                                  *)

SerialInv == TypeOK /\ OnlyTheCurrentOneWorks

LEMMA InitSerialInv == Init => SerialInv
BY InitTypeOK DEF Init, SerialInv, OnlyTheCurrentOneWorks

LEMMA NextSerialInv == SerialInv /\ [Next]_vars => SerialInv'
<1> SUFFICES ASSUME SerialInv, [Next]_vars
             PROVE  OnlyTheCurrentOneWorks'
    BY NextTypeOK DEF SerialInv
<1>0. TypeOK /\ TypeOK'
      BY NextTypeOK DEF SerialInv
<1> USE <1>0 DEF TypeOK, SerialInv, OnlyTheCurrentOneWorks, Enter, Report
<1>1. CASE Start
      BY <1>1 DEF Start
<1>2. CASE BrokerReturns
      BY <1>2 DEF BrokerReturns
<1>3. CASE SpawnCodex
      BY <1>3 DEF SpawnCodex
<1>4. CASE SpawnError
      BY <1>4 DEF SpawnError
<1>5. CASE CodexCloses
      BY <1>5 DEF CodexCloses
<1>6. CASE TimerFires
      BY <1>6 DEF TimerFires
<1>7. CASE RetryAfterDelay
      BY <1>7 DEF RetryAfterDelay
<1>8. CASE Exit
      BY <1>8 DEF Exit
<1>9. ASSUME NEW n \in Attempts, KillTimerFires(n) \/ SignalledCloses(n)
      PROVE  OnlyTheCurrentOneWorks'
      BY <1>9 DEF KillTimerFires, SignalledCloses
<1>10. CASE Tick
      BY <1>10 DEF Tick
<1>11. CASE UNCHANGED vars
      BY <1>11 DEF vars
<1> QED
    BY <1>1, <1>2, <1>3, <1>4, <1>5, <1>6, <1>7, <1>8, <1>9, <1>10, <1>11 DEF Next, HookStep

(* A hook starts a codex process only after the one before has ended or was *)
(* told to.                                                                 *)
THEOREM AttemptsAreSerial == Spec => []OneWorkingCodex
<1>1. SerialInv => OneWorkingCodex
      BY DEF SerialInv, OnlyTheCurrentOneWorks, OneWorkingCodex
<1> QED
    BY <1>1, InitSerialInv, NextSerialInv, PTL DEF Spec

AloneInv == TypeOK /\ OnlyTheCurrentOneLives

LEMMA InitAloneInv == Init => AloneInv
BY InitTypeOK DEF Init, AloneInv, OnlyTheCurrentOneLives

(* A timeout is neither transient nor, without a quota text, a quota error. *)
LEMMA TimeoutIsReported ==
    ASSUME ~TimeoutReadsAsQuota, Fail(TimeoutFailure) PROVE phase' = "report"
BY DEF Fail, Retries, FallsBack, IsTransientError, IsQuotaError, TimeoutFailure, Report, Enter

LEMMA NextAloneInv == ~TimeoutReadsAsQuota /\ AloneInv /\ [Next]_vars => AloneInv'
<1> SUFFICES ASSUME ~TimeoutReadsAsQuota, AloneInv, [Next]_vars
             PROVE  OnlyTheCurrentOneLives'
    BY NextTypeOK DEF AloneInv
<1>0. TypeOK /\ TypeOK'
      BY NextTypeOK DEF AloneInv
<1> USE <1>0 DEF TypeOK, AloneInv, OnlyTheCurrentOneLives, Enter, Report
<1>1. CASE Start
      BY <1>1 DEF Start
<1>2. CASE BrokerReturns
      BY <1>2 DEF BrokerReturns
<1>3. CASE SpawnCodex
      BY <1>3 DEF SpawnCodex
<1>4. CASE SpawnError
      BY <1>4 DEF SpawnError
<1>5. CASE CodexCloses
      BY <1>5 DEF CodexCloses
<1>6. CASE TimerFires
      BY <1>6, TimeoutIsReported DEF TimerFires
<1>7. CASE RetryAfterDelay
      BY <1>7 DEF RetryAfterDelay
<1>8. CASE Exit
      BY <1>8 DEF Exit
<1>9. ASSUME NEW n \in Attempts, KillTimerFires(n) \/ SignalledCloses(n)
      PROVE  OnlyTheCurrentOneLives'
      BY <1>9 DEF KillTimerFires, SignalledCloses
<1>10. CASE Tick
      BY <1>10 DEF Tick
<1>11. CASE UNCHANGED vars
      BY <1>11 DEF vars
<1> QED
    BY <1>1, <1>2, <1>3, <1>4, <1>5, <1>6, <1>7, <1>8, <1>9, <1>10, <1>11 DEF Next, HookStep

(* If the hook's own timeout text does not read as a quota error, a hook    *)
(* never has two live codex processes.                                      *)
THEOREM CodexIsAlone ==
    ASSUME ~TimeoutReadsAsQuota PROVE Spec => []OneCodexAtATime
<1>1. AloneInv => OneCodexAtATime
      BY DEF AloneInv, OnlyTheCurrentOneLives, OneCodexAtATime
<1> QED
    BY <1>1, InitAloneInv, NextAloneInv, PTL DEF Spec

=============================================================================
