--------------------------- MODULE MCCodexPairHook ----------------------------
(* Values for the constants of CodexPairHook: small and big contents, the   *)
(* big ones with the same head and tail, so that an edit can be undone and  *)
(* redone, and edits that come while reviews are running.                   *)
EXTENDS CodexPairHook

CONSTANTS v1, v2, v3, bug

Versions == {v1, v2, v3}
BigVersions == {v2, v3}
SmallAndBig == {v1, v2}
OneBig == {v2}
SameOutline == [v \in Contents |-> IF v \in BigVersions THEN v2 ELSE v]
OneConcern == {bug}
FlaggedOnce == [c \in Concerns |-> 1]

Nobody == {}
FirstHook == {1}

=============================================================================
