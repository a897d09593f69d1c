----------------------------- MODULE ReviewMutex ------------------------------
(****************************************************************************)
(* What ADR-087 promises of the inflight lock, without files or clocks: of  *)
(* the hooks that want to review one file, one reviews at a time, and a     *)
(* hook is coalesced only while another one is reviewing, or fails because  *)
(* its file system did.  It promises so as long as every process that held  *)
(* the lock has given it back.                                              *)
(****************************************************************************)
CONSTANT Hooks

VARIABLES
    state,   \* how far each hook is
    calm     \* no lock has been left behind so far

States == {"idle", "reviewing", "reviewed", "coalesced", "failed"}

Init == state = [h \in Hooks |-> "idle"]

Deserted == ~calm'

Leave(h, from, to) ==
    /\ calm /\ calm'
    /\ state[h] = from
    /\ state' = [state EXCEPT ![h] = to]

NobodyReviews == \A g \in Hooks : state[g] # "reviewing"

Start(h) == NobodyReviews /\ Leave(h, "idle", "reviewing")
Finish(h) == Leave(h, "reviewing", "reviewed")
Coalesced(h) == ~NobodyReviews /\ Leave(h, "idle", "coalesced")

(* The file system refuses the hook a call.                                 *)
Fail(h) == Leave(h, "idle", "failed")

Next ==
    \/ \E h \in Hooks : Start(h) \/ Finish(h) \/ Coalesced(h) \/ Fail(h)
    \/ Deserted

Spec == Init /\ [][Next]_<<state, calm>>

=============================================================================
