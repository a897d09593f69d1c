-------------------------- MODULE RepetitionCounter ---------------------------
(****************************************************************************)
(* What the repetition shard of one file promises (ADR-096): for every      *)
(* concern, in how many live reviews in a row it was flagged.  A review is  *)
(* counted at once and once; the counts may be forgotten, never put back.   *)
(* It promises so as long as one process at a time works on the shard.      *)
(****************************************************************************)
EXTENDS Integers

CONSTANT Concerns

VARIABLES
    counts,
    exclusive   \* the shard's users have taken turns so far

Init == counts \in [Concerns -> Nat]

Count(flagged) ==
    counts' = [c \in Concerns |-> IF c \in flagged THEN counts[c] + 1 ELSE 0]

Forget == counts' = [c \in Concerns |-> 0]

Overlapped == ~exclusive'

Next ==
    \/ Forget
    \/ \E flagged \in SUBSET Concerns : Count(flagged)
    \/ Overlapped

Spec == Init /\ [][Next]_<<counts, exclusive>>

=============================================================================
