----------------------------- MODULE MCSharedFiles -----------------------------
(****************************************************************************)
(* SharedFiles and ReviewLog for TLC: the files processes share without a   *)
(* lock.  The stores of the servers and the log of the hooks have nothing   *)
(* in common, so only one of them moves in a behaviour.                     *)
(****************************************************************************)
EXTENDS SharedFiles, ReviewLog, TLC

CONSTANTS s1, s2, k1, k2, h1, h2, h3

VARIABLE moving

ShortReason == [bytes |-> 1, starts |-> {0}]
LongReason == [bytes |-> 5, starts |-> {0, 2}]
TwoReasons == {ShortReason, LongReason}

SharedInit == StoreInit /\ LogInit /\ moving \in {"store", "log"}

SharedNext ==
    \/ moving = "store" /\ StoreNext /\ UNCHANGED <<logVars, moving>>
    \/ moving = "log" /\ LogNext /\ UNCHANGED <<storeVars, moving>>

SharedSpec == SharedInit /\ [][SharedNext]_<<storeVars, logVars, moving>>

Symmetry == Permutations(Servers) \cup Permutations(Keys) \cup Permutations(Hooks)

=============================================================================
