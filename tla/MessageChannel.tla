---------------------------- MODULE MessageChannel ----------------------------
(****************************************************************************)
(* What a websocket connection is to the RPC layer above it (broker-rpc):   *)
(* the server's frames are taken one by one in the order they were sent,    *)
(* each at most once, and those that carry text become messages from the    *)
(* moment the client listens.  A fragmented frame ends the connection, and  *)
(* nothing after it is taken.  There are no bytes and no chunks.            *)
(****************************************************************************)
EXTENDS Naturals, Sequences

CONSTANTS
    Count,       \* how many frames the server sends
    PayloadOf,   \* the payload of each
    Texts,       \* those that carry a message
    Fragments    \* those that belong to a fragmented message

VARIABLES
    taken,      \* how many frames have been taken
    listening,  \* the client has registered its listeners
    inbox,      \* the messages it was given
    broken      \* a fragment has ended the connection

vars == <<taken, listening, inbox, broken>>

Init ==
    /\ taken = 0
    /\ listening = FALSE
    /\ inbox = <<>>
    /\ broken = FALSE

Listen ==
    /\ ~listening
    /\ listening' = TRUE
    /\ UNCHANGED <<taken, inbox, broken>>

Take ==
    /\ ~broken
    /\ taken < Count
    /\ taken + 1 \notin Fragments
    /\ taken' = taken + 1
    /\ inbox' = IF listening /\ taken + 1 \in Texts
                THEN Append(inbox, PayloadOf[taken + 1]) ELSE inbox
    /\ UNCHANGED <<listening, broken>>

Break ==
    /\ ~broken
    /\ taken < Count
    /\ taken + 1 \in Fragments
    /\ broken' = TRUE
    /\ UNCHANGED <<taken, listening, inbox>>

Next == Listen \/ Take \/ Break

Spec == Init /\ [][Next]_vars

=============================================================================
