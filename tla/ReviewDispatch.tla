---------------------------- MODULE ReviewDispatch ----------------------------
(****************************************************************************)
(* How one codex-pair hook obtains a review (codex-pair-watch.mjs,          *)
(* runCodexWithFallback and below): an optional attempt through the broker, *)
(* then codex processes, each with its own timeout, one retry after a       *)
(* transient failure and one change of model when the quota is exhausted.   *)
(* The hook's event loop, its timers and the codex processes interleave.    *)
(****************************************************************************)
EXTENDS Integers

CONSTANTS
    BrokerEnabled,        \* isBrokerEnabled(markerDir)
    ModelsDiffer,         \* model !== fallbackModel
    TimeoutReadsAsQuota,  \* the text "timed out after 429s" holds a quota signal
    Stubborn,             \* spawns whose codex process ignores SIGTERM
    Timeout,              \* config.timeoutMs
    BrokerTime,           \* longest broker attempt: handshake budgets and timeoutMs
    RetryDelay,           \* longest delay before a retry
    KillGrace,            \* from SIGTERM to SIGKILL, 5000 ms in the code
    SpawnBound            \* bound on the spawns of one hook

Attempts == 1..SpawnBound

ASSUME DispatchAssumption ==
    /\ BrokerEnabled \in BOOLEAN
    /\ ModelsDiffer \in BOOLEAN
    /\ TimeoutReadsAsQuota \in BOOLEAN
    /\ SpawnBound \in Nat
    /\ Stubborn \in SUBSET Attempts
    /\ Timeout \in Nat
    /\ BrokerTime \in Nat
    /\ RetryDelay \in Nat
    /\ KillGrace \in Nat

VARIABLES
    now,         \* the clock
    phase,       \* where the hook's control is
    phaseStart,  \* when its current timer was armed
    model,       \* the model of the current attempt
    attempt,     \* 1, or 2 in the catch block of spawnCodexWithRetry
    spawns,      \* how many codex processes were spawned
    process,     \* the state of each of them
    killAt,      \* when the SIGKILL timer of each fires, 0 for none
    broker,      \* how the broker attempt ended
    verdict      \* what main() reports

vars == <<now, phase, phaseStart, model, attempt, spawns, process, killAt, broker, verdict>>

Phases == {"start", "broker", "spawn", "waiting", "backoff", "report", "exited"}
Verdicts == {"none", "answer", "timeout", "spawn_failed", "parse_failed", "error"}
Signals == {"plain", "quota", "transient"}

(* What the Error of a failed attempt carries: its verdict tag and what its *)
(* message matches.  A message with both signals counts as quota.           *)
Failures == [verdict : {"timeout", "spawn_failed", "parse_failed", "error"}, signal : Signals]

CloseFailures == {f \in Failures : f.verdict \in {"parse_failed", "error"}}
SpawnFailure == [verdict |-> "spawn_failed", signal |-> "plain"]

TimeoutFailure ==
    [verdict |-> "timeout", signal |-> IF TimeoutReadsAsQuota THEN "quota" ELSE "plain"]

IsQuotaError(f) == f.signal = "quota"

IsTransientError(f) ==
    f.verdict \notin {"timeout", "parse_failed"} /\ f.signal = "transient"

TypeOK ==
    /\ now \in Nat
    /\ phase \in Phases
    /\ phaseStart \in Nat
    /\ model \in {"configured", "fallback"}
    /\ attempt \in 1..2
    /\ spawns \in 0..SpawnBound
    /\ process \in [Attempts -> {"none", "running", "signalled", "dead"}]
    /\ killAt \in [Attempts -> Nat]
    /\ broker \in {"untried", "answer", "failure", "error", "quota"}
    /\ verdict \in Verdicts

Init ==
    /\ now = 0
    /\ phase = "start"
    /\ phaseStart = 0
    /\ model = "configured"
    /\ attempt = 1
    /\ spawns = 0
    /\ process = [n \in Attempts |-> "none"]
    /\ killAt = [n \in Attempts |-> 0]
    /\ broker = "untried"
    /\ verdict = "none"

-----------------------------------------------------------------------------
(* Settling one attempt                                                     *)

Enter(p) == phase' = p /\ phaseStart' = now

Report(v) ==
    /\ Enter("report")
    /\ verdict' = v
    /\ UNCHANGED <<model, attempt>>

(* The catch of spawnCodexWithRetry around its first attempt, then the one  *)
(* of runCodexWithFallback around the configured model, then main's.        *)
Retries(f) == attempt = 1 /\ IsTransientError(f)

(* Mutant of FallsBack: the fallback model falls back, too.                 *)
FallsBackAgain(f) == ~Retries(f) /\ IsQuotaError(f) /\ ModelsDiffer

FallsBack(f) == ~Retries(f) /\ IsQuotaError(f) /\ model = "configured" /\ ModelsDiffer

Fail(f) ==
    \/ /\ Retries(f)
       /\ attempt' = 2
       /\ Enter("backoff")
       /\ UNCHANGED <<model, verdict>>
    \/ /\ FallsBack(f)
       /\ model' = "fallback"
       /\ attempt' = 1
       /\ Enter("spawn")
       /\ UNCHANGED verdict
    \/ /\ ~Retries(f) /\ ~FallsBack(f)
       /\ Report(f.verdict)

-----------------------------------------------------------------------------
(* The hook                                                                 *)

Start ==
    /\ phase = "start"
    /\ Enter(IF BrokerEnabled THEN "broker" ELSE "spawn")
    /\ UNCHANGED <<now, model, attempt, spawns, process, killAt, broker, verdict>>

(* Only an error tagged brokerFailure leads to a spawn; any other one,      *)
(* quota errors included, is thrown past the model fallback.                *)
BrokerReturns ==
    /\ phase = "broker"
    /\ \/ broker' = "answer" /\ Report("answer")
       \/ /\ broker' = "failure"
          /\ Enter("spawn")
          /\ UNCHANGED <<model, attempt, verdict>>
       \/ broker' = "quota" /\ Report("error")
       \/ broker' = "error" /\ \E v \in {"timeout", "error"} : Report(v)
    /\ UNCHANGED <<now, spawns, process, killAt>>

SpawnCodex ==
    /\ phase = "spawn"
    /\ spawns < SpawnBound
    /\ spawns' = spawns + 1
    /\ process' = [process EXCEPT ![spawns + 1] = "running"]
    /\ Enter("waiting")
    /\ UNCHANGED <<now, model, attempt, killAt, broker, verdict>>

SpawnError ==
    /\ phase = "waiting"
    /\ process[spawns] = "running"
    /\ process' = [process EXCEPT ![spawns] = "dead"]
    /\ Fail(SpawnFailure)
    /\ UNCHANGED <<now, spawns, killAt, broker>>

(* codex exits and the attempt settles with its answer or its failure.      *)
CodexCloses ==
    /\ phase = "waiting"
    /\ process[spawns] = "running"
    /\ process' = [process EXCEPT ![spawns] = "dead"]
    /\ Report("answer") \/ \E f \in CloseFailures : Fail(f)
    /\ UNCHANGED <<now, spawns, killAt, broker>>

(* Mutant of TimerFires: the timer of a retry is not armed.                 *)
TimerFiresOnce ==
    /\ phase = "waiting"
    /\ attempt = 1
    /\ now = phaseStart + Timeout
    /\ process' = [process EXCEPT ![spawns] = "signalled"]
    /\ killAt' = [killAt EXCEPT ![spawns] = now + KillGrace]
    /\ Fail(TimeoutFailure)
    /\ UNCHANGED <<now, spawns, broker>>

(* Mutant of TimerFires: the attempt is settled, the process left alone.    *)
TimerFiresUnsignalled ==
    /\ phase = "waiting"
    /\ now = phaseStart + Timeout
    /\ Fail(TimeoutFailure)
    /\ UNCHANGED <<now, spawns, process, killAt, broker>>

(* The hook's own timeout: SIGTERM now, SIGKILL by a second timer.          *)
TimerFires ==
    /\ phase = "waiting"
    /\ now = phaseStart + Timeout
    /\ process' = [process EXCEPT ![spawns] = "signalled"]
    /\ killAt' = [killAt EXCEPT ![spawns] = now + KillGrace]
    /\ Fail(TimeoutFailure)
    /\ UNCHANGED <<now, spawns, broker>>

RetryAfterDelay ==
    /\ phase = "backoff"
    /\ Enter("spawn")
    /\ UNCHANGED <<now, model, attempt, spawns, process, killAt, broker, verdict>>

(* main() logs, emits its message and calls process.exit(0), which discards *)
(* every timer that is still pending.                                       *)
Exit ==
    /\ phase = "report"
    /\ phase' = "exited"
    /\ UNCHANGED <<now, phaseStart, model, attempt, spawns, process, killAt, broker, verdict>>

(* The SIGKILL timer of an attempt, if the hook is still alive by then.     *)
KillTimerFires(n) ==
    /\ phase # "exited"
    /\ process[n] = "signalled"
    /\ now = killAt[n]
    /\ process' = [process EXCEPT ![n] = "dead"]
    /\ UNCHANGED <<now, phase, phaseStart, model, attempt, spawns, killAt, broker, verdict>>

(* A process that obeys SIGTERM ends; its close event finds the attempt     *)
(* already settled, or no hook at all.                                      *)
SignalledCloses(n) ==
    /\ process[n] = "signalled"
    /\ n \notin Stubborn
    /\ process' = [process EXCEPT ![n] = "dead"]
    /\ UNCHANGED <<now, phase, phaseStart, model, attempt, spawns, killAt, broker, verdict>>

(* Time passes while the hook waits; a timer that is due fires first.       *)
TimerIsDue ==
    \/ phase = "broker" /\ now >= phaseStart + BrokerTime
    \/ phase = "waiting" /\ now >= phaseStart + Timeout
    \/ phase = "backoff" /\ now >= phaseStart + RetryDelay
    \/ \E n \in Attempts : process[n] = "signalled" /\ now >= killAt[n]

Tick ==
    /\ phase \in {"broker", "waiting", "backoff"}
    /\ ~TimerIsDue
    /\ now' = now + 1
    /\ UNCHANGED <<phase, phaseStart, model, attempt, spawns, process, killAt, broker, verdict>>

HookStep ==
    \/ Start
    \/ BrokerReturns
    \/ SpawnCodex
    \/ TimerFires
    \/ RetryAfterDelay
    \/ Exit

Next ==
    \/ HookStep
    \/ SpawnError
    \/ CodexCloses
    \/ \E n \in Attempts : KillTimerFires(n) \/ SignalledCloses(n)
    \/ Tick

(* The event loop runs what is ready, timers fire, time goes on and a       *)
(* process that obeys SIGTERM ends.  codex itself need never answer.        *)
Fairness ==
    /\ WF_vars(HookStep)
    /\ WF_vars(Tick)
    /\ \A n \in Attempts : WF_vars(KillTimerFires(n)) /\ WF_vars(SignalledCloses(n))

Spec == Init /\ [][Next]_vars
FairSpec == Spec /\ Fairness

-----------------------------------------------------------------------------
(* Properties                                                               *)

(* The whole dispatch, with its four possible spawns, ends within a bound   *)
(* that follows from its timers: the budget the inflight lock must outlive. *)
DispatchBudget == BrokerTime + 4 * Timeout + 2 * RetryDelay
DispatchWithinBudget == now <= DispatchBudget

(* At most one codex process works for a hook: an attempt is followed by    *)
(* another one only after its process has ended or was told to.             *)
OneWorkingCodex ==
    \A m, n \in Attempts : process[m] = "running" /\ process[n] = "running" => m = n

(* Unless the hook takes its own timeout for a quota error, not even a      *)
(* process that ignores SIGTERM meets a second one.                         *)
OneCodexAtATime ==
    \A m, n \in Attempts :
        process[m] \in {"running", "signalled"} /\ process[n] \in {"running", "signalled"}
          => m = n

(* "ONE retry": two attempts per model, four in all, and only one when the  *)
(* failure is not transient.                                                *)
AtMostOneRetryPerModel ==
    spawns <= attempt + (IF model = "configured" THEN 0 ELSE 2)

(* The hook ends although codex may hang, fail or fill its quota.           *)
HookEnds == <>(phase = "exited")

(* Why the budget and the number of attempts are bounded, as an inductive   *)
(* invariant: each spawn starts within the time the attempts before it had. *)
SpawnsBefore == (IF model = "configured" THEN 0 ELSE 2) + (attempt - 1)

LatestSpawn ==
    BrokerTime + (IF model = "configured" THEN 0 ELSE 2 * Timeout + RetryDelay)
               + (IF attempt = 1 THEN 0 ELSE Timeout + RetryDelay)

AttemptsFitBudget ==
    /\ phase = "start" => now = 0 /\ spawns = 0
    /\ phase = "broker" => phaseStart = 0 /\ now <= BrokerTime /\ spawns = 0
    /\ phase \in {"start", "broker"} => model = "configured" /\ attempt = 1
    /\ phase = "spawn" => now <= LatestSpawn /\ spawns <= SpawnsBefore
    /\ phase = "waiting" => /\ phaseStart <= LatestSpawn
                            /\ now <= phaseStart + Timeout
                            /\ spawns <= SpawnsBefore + 1
    /\ phase = "backoff" => /\ attempt = 2
                            /\ phaseStart + RetryDelay <= LatestSpawn
                            /\ now <= phaseStart + RetryDelay
                            /\ spawns <= SpawnsBefore
    /\ phase \in {"report", "exited"} => now <= DispatchBudget /\ spawns <= SpawnsBefore + 1

(* Why attempts do not overlap: only the current one can have a process.    *)
OnlyTheCurrentOneWorks ==
    /\ \A n \in Attempts : n # spawns => process[n] # "running"
    /\ phase \in {"start", "broker", "spawn", "backoff"} =>
           \A n \in Attempts : process[n] # "running"

OnlyTheCurrentOneLives ==
    /\ \A n \in Attempts : n # spawns => process[n] \in {"none", "dead"}
    /\ phase \in {"start", "broker", "spawn", "backoff"} =>
           \A n \in Attempts : process[n] \in {"none", "dead"}

(* "SIGTERM -> SIGKILL escalation": a process that was told to stop stops.  *)
SignalledProcessesDie ==
    \A n \in Attempts : process[n] = "signalled" ~> process[n] = "dead"

=============================================================================
