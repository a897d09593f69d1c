---------------------------- MODULE MCInflightLock ----------------------------
(* Values for the constants of InflightLock: two or three hooks, with time  *)
(* in units of about 200 s, so that the defaults of the code are 4 (800_000 *)
(* ms) for a timeout, 3 for the floor of 600_000 ms and 1 for the buffer.   *)
EXTENDS InflightLock

CONSTANTS a, b, c

TwoHooks == {a, b}
ThreeHooks == {a, b, c}

(* Timeouts whose four possible attempts fit the lock's lifetime.           *)
ShortTimeouts == [h \in Hooks |-> 1]
(* The default timeout of the code, for every hook.                         *)
DefaultTimeouts == [h \in Hooks |-> 4]

(* runCodexWithFallback spawns codex up to four times: the model and its    *)
(* retry, the fallback model and its retry, each up to timeoutMs.           *)
MaxSpawns == 4
DispatchBudgets == [h \in Hooks |-> MaxSpawns * TimeoutOf[h]]

=============================================================================
