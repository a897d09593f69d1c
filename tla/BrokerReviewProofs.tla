--------------------------- MODULE BrokerReviewProofs ---------------------------
(****************************************************************************)
(* Proofs about BrokerReview: a broker attempt keeps its budget, returns    *)
(* the review of its own turn only, interrupts the turns it gives up, does  *)
(* not have them paid for twice and closes its connection, for all budgets  *)
(* and bounds.                                                              *)
(****************************************************************************)
EXTENDS BrokerReview, TLAPS

USE ReviewAssumption

-----------------------------------------------------------------------------
(* Types                                                                    *)

LEMMA InitTypes == Init => TypeOK
BY DEF Init, TypeOK, Timers, Methods, Replies, Contents

(* A frame that was sent, wherever it is in the inbox, is a frame.          *)
LEMMA InboxTypes ==
    ASSUME TypeOK, inbox # <<>>
    PROVE  /\ Head(inbox) \in Frames
           /\ Tail(inbox) \in Seq(Frames)
           /\ Head(inbox) = inbox[1]
           /\ Len(inbox) \in Nat /\ Len(inbox) >= 1
BY DEF TypeOK

LEMMA ArmTypes ==
    ASSUME TypeOK, NEW ts \in SUBSET Timers, NEW time \in Nat, Arm(ts, time)
    PROVE  armed' \in SUBSET Timers /\ due' \in [Timers -> Nat]
BY DEF TypeOK, Arm

LEMMA SendTypes ==
    ASSUME TypeOK, NEW m \in Methods, Send(m)
    PROVE  requests' \in SUBSET Methods
BY DEF TypeOK, Send

LEMMA InterruptTypes ==
    ASSUME TypeOK, Interrupt
    PROVE  /\ armed' \in SUBSET Timers
           /\ due' \in [Timers -> Nat]
           /\ requests' \in SUBSET Methods
BY ArmTypes, SendTypes DEF Interrupt, Timers, Methods

(* The ways a connection is refused, and the places where one is closed.    *)
Rejected == ConnectFails \/ UpgradeRefused \/ HandshakeTimesOut
Closes == CloseRefused \/ CloseReviewed

LEMMA HookTypes ==
    ASSUME TypeOK,
           \/ Upgraded \/ Rejected \/ Initialized \/ ThreadStarted
           \/ TurnStarted \/ TurnCompleted \/ Closes \/ Abort \/ Exit \/ Crash
    PROVE  TypeOK'
<1>m. "initialize" \in Methods /\ "thread" \in Methods /\ "turn" \in Methods
    BY DEF Methods
<1>t. {"thread"} \in SUBSET Timers /\ {"waiter", "turn"} \in SUBSET Timers
    BY DEF Timers, Methods
<1>1. CASE Upgraded
  <2>1. now + InitBudget \in Nat BY DEF TypeOK
  <2>2. due' \in [Timers -> Nat] BY <1>1, <2>1 DEF Upgraded, TypeOK
  <2> QED BY <1>1, <2>2 DEF Upgraded, TypeOK, Timers, Methods, server
<1>2. CASE Rejected
  BY <1>2 DEF Rejected, ConnectFails, UpgradeRefused, HandshakeTimesOut, RejectConnect, TypeOK, server
<1>3. CASE Initialized
  <2>1. reply = "result" \/ reply = "empty" =>
          armed' \in SUBSET Timers /\ due' \in [Timers -> Nat] /\ requests' \in SUBSET Methods
    BY <1>3, <1>m, <1>t, ArmTypes, SendTypes DEF Initialized
  <2> QED BY <1>3, <2>1 DEF Initialized, Leave, TypeOK, server
<1>4. CASE ThreadStarted
  <2>1. Budget \in Nat BY DEF Budget, Remaining, TypeOK
  <2>2. reply = "result" =>
          armed' \in SUBSET Timers /\ due' \in [Timers -> Nat] /\ requests' \in SUBSET Methods
    BY <1>4, <1>m, <1>t, <2>1, ArmTypes, SendTypes DEF ThreadStarted
  <2> QED BY <1>4, <2>2 DEF ThreadStarted, Leave, Refusal, TypeOK, server
<1>5. CASE TurnStarted
  <2>1. Interrupt =>
          armed' \in SUBSET Timers /\ due' \in [Timers -> Nat] /\ requests' \in SUBSET Methods
    BY InterruptTypes
  <2> QED BY <1>5, <2>1 DEF TurnStarted, Leave, Refusal, TypeOK, server
<1>6. CASE TurnCompleted
  <2>1. Interrupt =>
          armed' \in SUBSET Timers /\ due' \in [Timers -> Nat] /\ requests' \in SUBSET Methods
    BY InterruptTypes
  <2> QED BY <1>6, <2>1 DEF TurnCompleted, Leave, TypeOK, server
<1>7. CASE Abort
  <2>1. Interrupt =>
          armed' \in SUBSET Timers /\ due' \in [Timers -> Nat] /\ requests' \in SUBSET Methods
    BY InterruptTypes
  <2> QED BY <1>7, <2>1 DEF Abort, TypeOK, server
<1>8. CASE Exit BY <1>8 DEF Exit, TypeOK, server
<1>9. CASE Crash BY <1>9 DEF Crash, TypeOK, server
<1>10. CASE Closes BY <1>10 DEF Closes, CloseRefused, CloseReviewed, Close, TypeOK, server
<1> QED BY <1>1, <1>2, <1>3, <1>4, <1>5, <1>6, <1>7, <1>8, <1>9, <1>10

LEMMA ClientTypes ==
    ASSUME TypeOK,
           \/ Receive \/ SocketFails \/ SocketCloses \/ Tick
           \/ \E t \in Timers : TimerFires(t)
    PROVE  TypeOK'
<1> USE DEF TypeOK, server, SettleReply, SettleWaiter
<1>1. CASE Receive
  <2> DEFINE f == Head(inbox)
  <2>1. f \in Frames /\ inbox' \in Seq(Frames) BY <1>1, InboxTypes DEF Receive
  <2>2. CASE f.kind = "response" /\ HandleResponse(f)
    <3>1. f.reply \in Replies BY <2>1, <2>2 DEF Frames
    <3>2. reply' \in Replies \cup {"none", "timeout", "lost"}
      BY <2>2, <3>1 DEF HandleResponse
    <3> QED BY <1>1, <2>1, <2>2, <3>2 DEF Receive, HandleResponse
  <2>3. CASE f.kind = "completed" /\ HandleCompleted(f)
    <3>1. f.content \in Contents BY <2>1, <2>3 DEF Frames
    <3>2. completion' \in Contents \cup {"none", "waiting", "timeout", "lost"}
      BY <2>3, <3>1 DEF HandleCompleted
    <3> QED BY <1>1, <2>1, <2>3, <3>2 DEF Receive, HandleCompleted
  <2>4. CASE f.kind = "close" /\ HandleClose
    BY <1>1, <2>1, <2>4 DEF Receive, HandleClose
  <2> QED BY <1>1, <2>2, <2>3, <2>4 DEF Receive
<1>2. CASE SocketFails BY <1>2 DEF SocketFails, RejectAll
<1>3. CASE SocketCloses BY <1>3 DEF SocketCloses, RejectAll
<1>4. CASE Tick BY <1>4 DEF Tick
<1>5. CASE \E t \in Timers : TimerFires(t) BY <1>5 DEF TimerFires
<1> QED BY <1>1, <1>2, <1>3, <1>4, <1>5

LEMMA ServerTypes ==
    ASSUME TypeOK,
           \/ \E m \in Methods, r \in Replies : Answer(m, r)
           \/ \E c \in Contents : CompleteTurn(c)
           \/ \E f \in StrayFrames : Stray(f)
    PROVE  TypeOK'
<1> USE DEF TypeOK, Methods, Replies, Contents, hook, Emit
<1>1. CASE \E m \in Methods, r \in Replies : Answer(m, r)
  <2> PICK m \in Methods, r \in Replies : Answer(m, r) BY <1>1
  <2>1. [kind |-> "response", id |-> m, reply |-> r] \in Frames BY DEF Frames
  <2> QED BY <2>1 DEF Answer
<1>2. CASE \E c \in Contents : CompleteTurn(c)
  <2> PICK c \in Contents : CompleteTurn(c) BY <1>2
  <2>1. [kind |-> "completed", thread |-> "own", content |-> c] \in Frames BY DEF Frames
  <2> QED BY <2>1 DEF CompleteTurn
<1>3. CASE \E f \in StrayFrames : Stray(f)
  <2> PICK f \in StrayFrames : Stray(f) BY <1>3
  <2>1. f \in Frames BY DEF StrayFrames, Frames
  <2> QED BY <2>1 DEF Stray
<1> QED BY <1>1, <1>2, <1>3

(* The groups of actions the proofs below go through.                       *)
LEMMA Steps ==
    ASSUME [Next]_vars
    PROVE  \/ Upgraded \/ Rejected \/ Initialized \/ ThreadStarted
           \/ TurnStarted \/ TurnCompleted \/ Closes \/ Abort \/ Exit \/ Crash
           \/ Receive \/ SocketFails \/ SocketCloses \/ Tick
           \/ \E t \in Timers : TimerFires(t)
           \/ \E m \in Methods, r \in Replies : Answer(m, r)
           \/ \E c \in Contents : CompleteTurn(c)
           \/ \E f \in StrayFrames : Stray(f)
           \/ UNCHANGED vars
BY DEF Next, HookStep, Rejected, Closes

LEMMA NextTypes == TypeOK /\ [Next]_vars => TypeOK'
<1> SUFFICES ASSUME TypeOK, [Next]_vars PROVE TypeOK' OBVIOUS
<1>1. CASE UNCHANGED vars BY <1>1 DEF vars, TypeOK
<1> QED BY <1>1, Steps, HookTypes, ClientTypes, ServerTypes

(* The state of a review keeps its types, for all budgets and bounds.       *)
THEOREM TypeCorrect == Spec => []TypeOK
BY InitTypes, NextTypes, PTL DEF Spec

-----------------------------------------------------------------------------
(* The connection                                                           *)

LinkInv == TypeOK /\ LinkFollowsStep /\ LossesAreReal /\ EndsHaveOutcomes /\ NoLeakedConnection

(* A frame cannot break the connection, nor undo what has settled.          *)
LEMMA ReceiveSettles ==
    ASSUME TypeOK, Receive
    PROVE  /\ UNCHANGED <<now, step, due, deadline, handler, signal, outcome, server>>
           /\ UNCHANGED link \/ (link = "open" /\ link' = "refused")
           /\ \A m \in {"initialize", "thread", "turn"} :
                step = m /\ m \in armed => m \in armed' \/ reply' # "none"
           /\ reply # "none" => reply' # "none"
           /\ "waiter" \in armed => "waiter" \in armed' \/ completion' # "waiting"
           /\ completion # "waiting" => completion' # "waiting"
           /\ "waiter" \notin armed => completion' = completion
           /\ armed' \subseteq armed
           /\ completion' # completion => "waiter" \notin armed'
           /\ completion' = completion \/ completion' \in Contents
<1> DEFINE f == Head(inbox)
<1>0. f \in Frames BY InboxTypes DEF Receive
<1>1. UNCHANGED <<now, step, due, deadline, handler, signal, outcome, server>> BY DEF Receive
<1>2. CASE f.kind = "response" /\ HandleResponse(f)
  <2>1. f.reply \in Replies /\ f.id \in Methods BY <1>0, <1>2 DEF Frames
  <2>2. f.reply # "none" /\ f.id # "waiter" BY <2>1 DEF Replies, Methods
  <2> QED BY <1>1, <1>2, <2>2 DEF HandleResponse, SettleReply
<1>3. CASE f.kind = "completed" /\ HandleCompleted(f)
  <2>1. f.content \in Contents BY <1>0, <1>3 DEF Frames
  <2>2. f.content # "waiting" BY <2>1 DEF Contents
  <2> QED BY <1>1, <1>3, <2>1, <2>2 DEF HandleCompleted, SettleWaiter
<1>4. CASE f.kind = "close" /\ HandleClose BY <1>1, <1>4 DEF HandleClose
<1> QED BY <1>2, <1>3, <1>4 DEF Receive

(* Only the upgrade opens a connection, each way to the end of the attempt  *)
(* goes by a place that closes it, and promises are lost with it only.      *)
LEMMA NextLink == LinkInv /\ [Next]_vars => LinkInv'
<1> SUFFICES ASSUME LinkInv, [Next]_vars PROVE LinkInv' OBVIOUS
<1> USE DEF LinkInv, LinkFollowsStep, LossesAreReal, EndsHaveOutcomes, NoLeakedConnection
<1>t. TypeOK' BY NextTypes
<1>1. CASE Upgraded BY <1>1, <1>t DEF Upgraded
<1>2. CASE Rejected
  BY <1>2, <1>t DEF Rejected, ConnectFails, UpgradeRefused, HandshakeTimesOut, RejectConnect
<1>3. CASE Initialized BY <1>3, <1>t DEF Initialized, Leave, Arm, Interrupt
<1>4. CASE ThreadStarted BY <1>4, <1>t DEF ThreadStarted, Leave, Refusal, Arm, Interrupt
<1>5. CASE TurnStarted BY <1>5, <1>t DEF TurnStarted, Leave, Refusal, Arm, Interrupt
<1>6. CASE TurnCompleted BY <1>6, <1>t DEF TurnCompleted, Leave, Arm, Interrupt
<1>7. CASE Abort BY <1>7, <1>t DEF Abort, Arm, Interrupt
<1>8. CASE Exit BY <1>8, <1>t DEF Exit
<1>9. CASE Crash BY <1>9, <1>t DEF Crash, Unhandled
<1>10. CASE Receive
  <2>1. completion' = "lost" => completion = "lost" BY <1>10, ReceiveSettles DEF Contents
  <2> QED BY <1>10, <1>t, <2>1, ReceiveSettles DEF Receive, Connected, Contents
<1>11. CASE SocketFails
  BY <1>11, <1>t DEF SocketFails, RejectAll, SettleWaiter, Connected
<1>12. CASE SocketCloses
  BY <1>12, <1>t DEF SocketCloses, RejectAll, SettleWaiter, Connected
<1>13. CASE Tick BY <1>13, <1>t DEF Tick
<1>14. CASE \E t \in Timers : TimerFires(t) BY <1>14, <1>t DEF TimerFires, SettleReply
<1>15. CASE \/ \E m \in Methods, r \in Replies : Answer(m, r)
            \/ \E c \in Contents : CompleteTurn(c)
            \/ \E f \in StrayFrames : Stray(f)
  BY <1>15, <1>t DEF Answer, CompleteTurn, Stray, Emit, hook
<1>16. CASE UNCHANGED vars BY <1>16, <1>t DEF vars
<1>17. CASE Closes
  <2>1. step' = "ended" /\ link' \notin {"open", "opening"} /\ completion' = completion
        /\ handler' = handler /\ armed' = armed /\ outcome' # "none"
        /\ (link \in {"broken", "closed"} => link' = link)
    BY <1>17 DEF Closes, CloseRefused, CloseReviewed, Close
  <2> QED BY <1>t, <2>1
<1> QED BY Steps, <1>1, <1>2, <1>3, <1>4, <1>5, <1>6, <1>7, <1>8, <1>9, <1>10, <1>11,
           <1>12, <1>13, <1>14, <1>15, <1>16, <1>17

(* However the attempt ends, its connection is closed.                      *)
THEOREM ConnectionsAreClosed == Spec => []NoLeakedConnection
<1>1. Init => LinkInv
  BY InitTypes DEF Init, LinkInv, LinkFollowsStep, LossesAreReal, EndsHaveOutcomes,
         NoLeakedConnection
<1> QED BY <1>1, NextLink, PTL DEF Spec, LinkInv

-----------------------------------------------------------------------------
(* The budget                                                               *)

BudgetInv == LinkInv /\ AwaitsATimer /\ TimersMeetDeadline

LEMMA HookKeepsBudget ==
    ASSUME BudgetInv, TypeOK',
           \/ Upgraded \/ Rejected \/ Initialized \/ ThreadStarted
           \/ TurnStarted \/ TurnCompleted \/ Closes \/ Abort \/ Exit \/ Crash
    PROVE  AwaitsATimer' /\ TimersMeetDeadline'
<1> USE DEF BudgetInv, LinkInv, AwaitsATimer, TimersMeetDeadline, AttemptBudget
<1>t. /\ now \in Nat /\ due \in [Timers -> Nat] /\ deadline \in Nat /\ Timers # {}
      /\ "handshake" \in Timers /\ "initialize" \in Timers /\ "thread" \in Timers
      /\ "turn" \in Timers /\ "waiter" \in Timers /\ "interrupt" \in Timers
  BY DEF TypeOK, Timers, Methods
<1>1. CASE Upgraded BY <1>1, <1>t DEF Upgraded
<1>2. CASE Rejected
  <2>1. step' = "ended"
    BY <1>2 DEF Rejected, ConnectFails, UpgradeRefused, HandshakeTimesOut, RejectConnect
  <2> QED BY <2>1
<1>3. CASE Initialized
  <2>1. CASE step' = "thread"
    <3>1. /\ deadline' = now + Timeout /\ due'["thread"] = now + Timeout
          /\ "thread" \in armed' /\ UNCHANGED now
      BY <1>3, <1>t, <2>1 DEF Initialized, Arm, Leave
    <3> QED BY <1>3, <1>t, <2>1, <3>1 DEF Initialized
  <2>2. CASE step' = "catch" BY <2>2
  <2> QED BY <1>3, <2>1, <2>2 DEF Initialized, Leave
<1>4. CASE ThreadStarted
  <2>1. CASE step' = "turn"
    <3>0. now <= deadline BY <1>4 DEF ThreadStarted
    <3>1. now + Budget <= deadline BY <3>0, <1>t DEF Budget, Remaining
    <3>2. /\ due'["turn"] = now + Budget /\ due'["waiter"] = now + Budget
          /\ "turn" \in armed' /\ "waiter" \in armed' /\ UNCHANGED <<now, deadline>>
      BY <1>4, <1>t, <2>1 DEF ThreadStarted, Arm, Leave
    <3> QED BY <1>4, <1>t, <2>1, <3>0, <3>1, <3>2 DEF ThreadStarted
  <2>2. CASE step' = "finally" BY <2>2
  <2> QED BY <1>4, <2>1, <2>2 DEF ThreadStarted, Leave, Refusal
<1>5. CASE TurnStarted
  <2>1. CASE step' = "completion"
    <3>1. "waiter" \in armed => "waiter" \in armed' /\ due'["waiter"] = due["waiter"]
      BY <1>5, <1>t DEF TurnStarted, Interrupt, Arm
    <3>2. UNCHANGED <<now, deadline, completion>> /\ step = "turn" BY <1>5 DEF TurnStarted
    <3>3. due'["waiter"] = due["waiter"]
      BY <1>5, <1>t DEF TurnStarted, Interrupt, Arm
    <3> QED BY <1>t, <2>1, <3>1, <3>2, <3>3
  <2>2. CASE step' = "finally" BY <2>2
  <2> QED BY <1>5, <2>1, <2>2 DEF TurnStarted, Leave, Refusal
<1>6. CASE TurnCompleted
  <2>1. step' = "finally" BY <1>6 DEF TurnCompleted, Leave
  <2> QED BY <2>1
<1>7. CASE Abort
  <2>1. armed \subseteq armed' /\ UNCHANGED <<now, step, deadline, reply, completion, outcome>>
    BY <1>7 DEF Abort, Interrupt, Arm
  <2>2. \A t \in Timers : t # "interrupt" => due'[t] = due[t]
    BY <1>7, <1>t DEF Abort, Interrupt, Arm
  <2>3. step \in {"thread", "turn", "completion"} BY <1>7 DEF Abort
  <2> QED BY <1>t, <2>1, <2>2, <2>3
<1>8. CASE Exit BY <1>8 DEF Exit
<1>9. CASE Crash BY <1>9 DEF Crash
<1>10. CASE Closes BY <1>10 DEF Closes, CloseRefused, CloseReviewed
<1> QED BY <1>1, <1>2, <1>3, <1>4, <1>5, <1>6, <1>7, <1>8, <1>9, <1>10

LEMMA ClientKeepsBudget ==
    ASSUME BudgetInv,
           \/ Receive \/ SocketFails \/ SocketCloses \/ Tick
           \/ \E t \in Timers : TimerFires(t)
    PROVE  AwaitsATimer' /\ TimersMeetDeadline'
<1> USE DEF BudgetInv, LinkInv, AwaitsATimer, TimersMeetDeadline, AttemptBudget
<1>t. now \in Nat /\ due \in [Timers -> Nat] /\ deadline \in Nat BY DEF TypeOK
<1>n. step \in {"initialize", "thread", "turn"} => step # "waiter" OBVIOUS
<1>1. CASE Receive
  <2>1. step # "connect" BY <1>1 DEF Receive, Connected, LinkFollowsStep
  <2>2. UNCHANGED <<now, step, due, deadline, outcome>> BY <1>1, ReceiveSettles
  <2>3. AwaitsATimer' BY <1>1, <2>1, <2>2, ReceiveSettles
  <2> QED BY <2>2, <2>3
<1>2. CASE SocketFails \/ SocketCloses
  <2>1. step # "connect" BY <1>2 DEF SocketFails, SocketCloses, Connected, LinkFollowsStep
  <2>2. UNCHANGED <<now, step, due, deadline, outcome>> BY <1>2 DEF SocketFails, SocketCloses
  <2>3. AwaitsATimer'
    BY <1>2, <2>1, <2>2 DEF SocketFails, SocketCloses, RejectAll, SettleWaiter
  <2> QED BY <2>2, <2>3
<1>3. CASE Tick
  <2>1. /\ UNCHANGED <<step, armed, due, deadline, reply, completion, outcome>>
        /\ now' = now + 1
        /\ \A t \in armed : now < due[t]
        /\ ~Settled
    BY <1>3 DEF Tick, Idle
  <2>2. step = "completion" => completion = "waiting" BY <2>1 DEF Settled
  <2>3. step \in {"initialize", "thread", "turn"} => step \in armed BY <2>1 DEF Settled
  <2>4. step = "connect" => now' <= due["handshake"]
    <3>1. step = "connect" => now < due["handshake"] BY <2>1
    <3> QED BY <1>t, <2>1, <3>1 DEF Timers
  <2>5. step = "initialize" => now' <= due["initialize"]
    BY <1>t, <2>1, <2>3 DEF Timers, Methods
  <2>6. step = "thread" => now' <= deadline
    BY <1>t, <2>1, <2>3 DEF Timers, Methods
  <2>7. step = "turn" => now' <= deadline
    BY <1>t, <2>1, <2>3 DEF Timers, Methods
  <2>8. step = "completion" => now' <= deadline
    BY <1>t, <2>1, <2>2 DEF Timers, Methods
  <2> QED BY <2>1, <2>4, <2>5, <2>6, <2>7, <2>8
<1>4. CASE \E t \in Timers : TimerFires(t)
  <2> PICK t \in Timers : TimerFires(t) BY <1>4
  <2>1. UNCHANGED <<now, step, due, deadline, outcome>> /\ armed' = armed \ {t} /\ t # "handshake"
    BY DEF TimerFires
  <2>2. AwaitsATimer' BY <2>1 DEF TimerFires, SettleReply
  <2> QED BY <2>1, <2>2
<1> QED BY <1>1, <1>2, <1>3, <1>4

LEMMA NextBudget == BudgetInv /\ [Next]_vars => BudgetInv'
<1> SUFFICES ASSUME BudgetInv, [Next]_vars PROVE BudgetInv' OBVIOUS
<1>1. LinkInv' /\ TypeOK' BY NextLink DEF BudgetInv, LinkInv
<1>2. CASE \/ Upgraded \/ Rejected \/ Initialized \/ ThreadStarted
           \/ TurnStarted \/ TurnCompleted \/ Closes \/ Abort \/ Exit \/ Crash
  BY <1>1, <1>2, HookKeepsBudget DEF BudgetInv
<1>3. CASE \/ Receive \/ SocketFails \/ SocketCloses \/ Tick
           \/ \E t \in Timers : TimerFires(t)
  BY <1>1, <1>3, ClientKeepsBudget DEF BudgetInv
<1>4. CASE \/ \E m \in Methods, r \in Replies : Answer(m, r)
           \/ \E c \in Contents : CompleteTurn(c)
           \/ \E f \in StrayFrames : Stray(f)
           \/ UNCHANGED vars
  <2>1. UNCHANGED <<now, armed, due, step, deadline, reply, completion, outcome>>
    BY <1>4 DEF Answer, CompleteTurn, Stray, Emit, hook, vars
  <2> QED BY <1>1, <2>1 DEF BudgetInv, AwaitsATimer, TimersMeetDeadline
<1> QED BY <1>2, <1>3, <1>4, Steps

(* A broker attempt costs at most its handshake budgets and its timeout,    *)
(* whatever the app-server does: the BrokerTime of ReviewDispatch.          *)
THEOREM AttemptsAreBounded == Spec => []AttemptWithinBudget
<1>1. Init => BudgetInv
  <2>1. Init => LinkInv
    BY InitTypes DEF Init, LinkInv, LinkFollowsStep, LossesAreReal, EndsHaveOutcomes,
         NoLeakedConnection
  <2>2. Init => AwaitsATimer /\ TimersMeetDeadline
    BY DEF Init, AwaitsATimer, TimersMeetDeadline, Timers
  <2> QED BY <2>1, <2>2 DEF BudgetInv
<1>2. BudgetInv => AttemptWithinBudget
  <2> SUFFICES ASSUME BudgetInv, outcome = "none", ~Over PROVE now <= AttemptBudget
    BY DEF AttemptWithinBudget
  <2>1. now \in Nat /\ due \in [Timers -> Nat] /\ deadline \in Nat
    BY DEF BudgetInv, LinkInv, TypeOK
  <2>2. step \in {"connect", "initialize", "thread", "turn", "completion"}
    BY DEF BudgetInv, LinkInv, TypeOK, EndsHaveOutcomes, Over
  <2>3. "handshake" \in Timers /\ "initialize" \in Timers BY DEF Timers, Methods
  <2> QED BY <2>1, <2>2, <2>3 DEF BudgetInv, TimersMeetDeadline, AttemptBudget
<1> QED BY <1>1, <1>2, NextBudget, PTL DEF Spec

-----------------------------------------------------------------------------
(* The answer and the interrupt                                             *)

AnswerInv ==
    /\ LinkInv
    /\ CompletionsAreTrue
    /\ ConfirmedTurnsStarted
    /\ AbortsSpeak
    /\ AnswerIsOwn
    /\ RunningTurnsAreInterrupted
    /\ NoSecondSpend

LEMMA AppendFrames ==
    ASSUME TypeOK, NEW f \in Frames, inbox' = Append(inbox, f)
    PROVE  \A n \in 1..Len(inbox') : inbox'[n] = f \/ (n \in 1..Len(inbox) /\ inbox'[n] = inbox[n])
BY DEF TypeOK

LEMMA TailFrames ==
    ASSUME TypeOK, inbox # <<>>, inbox' = Tail(inbox)
    PROVE  \A n \in 1..Len(inbox') : n + 1 \in 1..Len(inbox) /\ inbox'[n] = inbox[n + 1]
BY DEF TypeOK

(* The app-server's steps: a turn that is over stays what it is.            *)
LEMMA ServerKeepsAnswers ==
    ASSUME AnswerInv,
           \/ \E m \in Methods, r \in Replies : Answer(m, r)
           \/ \E c \in Contents : CompleteTurn(c)
           \/ \E f \in StrayFrames : Stray(f)
    PROVE  /\ CompletionsAreTrue' /\ ConfirmedTurnsStarted' /\ AbortsSpeak'
           /\ AnswerIsOwn' /\ RunningTurnsAreInterrupted' /\ NoSecondSpend'
<1> USE DEF AnswerInv
<1>h. UNCHANGED <<hook, link, armed>> BY DEF Answer, CompleteTurn, Stray, Emit
<1>t. TypeOK BY DEF LinkInv
<1>1. PICK f \in Frames : /\ inbox' = Append(inbox, f)
                          /\ Matches(f) => f.content = turn'
                          /\ f.kind = "response" /\ f.id = "turn" /\ f.reply = "result"
                               => turn' # "none"
  <2>1. CASE \E m \in Methods, r \in Replies : Answer(m, r)
    <3> PICK m \in Methods, r \in Replies : Answer(m, r) BY <2>1
    <3> DEFINE f == [kind |-> "response", id |-> m, reply |-> r]
    <3>1. f \in Frames /\ ~Matches(f) BY DEF Frames, Matches
    <3>2. m = "turn" /\ r = "result" => turn' # "none" BY DEF Answer
    <3> QED BY <3>1, <3>2 DEF Answer, Emit
  <2>2. CASE \E c \in Contents : CompleteTurn(c)
    <3> PICK c \in Contents : CompleteTurn(c) BY <2>2
    <3> DEFINE f == [kind |-> "completed", thread |-> "own", content |-> c]
    <3>1. f \in Frames BY DEF Frames
    <3> QED BY <3>1 DEF CompleteTurn, Emit
  <2>3. CASE \E f \in StrayFrames : Stray(f)
    <3> PICK f \in StrayFrames : Stray(f) BY <2>3
    <3>1. f \in Frames BY DEF StrayFrames, Frames, Contents, Replies
    <3>2. ~Matches(f) /\ (f.kind = "response" => f.reply # "result")
      BY DEF StrayFrames, Matches
    <3> QED BY <3>1, <3>2 DEF Stray, Emit
  <2> QED BY <2>1, <2>2, <2>3
<1>2. /\ turn \in Contents => turn' = turn
      /\ turn # "none" => turn' # "none"
      /\ turn' = "running" => turn = "running" \/ turn = "none"
  BY <1>t DEF Answer, CompleteTurn, Stray, Contents, TypeOK
<1>3. "interrupt" \in requests => "interrupt" \in requests' \/ turn' # "running"
  <2>1. CASE \E m \in Methods, r \in Replies : Answer(m, r)
    <3> PICK m \in Methods, r \in Replies : Answer(m, r) BY <2>1
    <3>1. m = "interrupt" => turn' # "running" BY DEF Answer
    <3>2. m # "interrupt" /\ "interrupt" \in requests => "interrupt" \in requests' BY DEF Answer
    <3> QED BY <3>1, <3>2
  <2> QED BY <2>1 DEF CompleteTurn, Stray
<1>4. CompletionsAreTrue'
  <2>1. completion' \in Contents => completion' = turn'
    BY <1>h, <1>2 DEF hook, CompletionsAreTrue
  <2>2. ASSUME NEW n \in 1..Len(inbox'), Matches(inbox'[n]) PROVE inbox'[n].content = turn'
    <3>1. CASE inbox'[n] = f BY <1>1, <2>2, <3>1
    <3>2. CASE n \in 1..Len(inbox) /\ inbox'[n] = inbox[n]
      <4>1. inbox[n].content = turn BY <2>2, <3>2 DEF CompletionsAreTrue
      <4>2. inbox[n] \in Frames BY <1>t, <3>2 DEF TypeOK
      <4>3. inbox[n].content \in Contents BY <2>2, <3>2, <4>2 DEF Frames, Matches
      <4> QED BY <1>2, <3>2, <4>1, <4>3
    <3> QED BY <1>1, <1>t, <3>1, <3>2, AppendFrames
  <2>3. \A n \in 1..Len(inbox)' : Matches(inbox[n])' => inbox[n].content' = turn'
    BY <2>2 DEF Matches
  <2> QED BY <2>1, <2>3 DEF CompletionsAreTrue
<1>5. ConfirmedTurnsStarted'
  <2>1. ASSUME NEW n \in 1..Len(inbox'), inbox'[n].kind = "response",
               inbox'[n].id = "turn", inbox'[n].reply = "result"
        PROVE  turn' # "none"
    <3>1. CASE inbox'[n] = f BY <1>1, <2>1, <3>1
    <3>2. CASE n \in 1..Len(inbox) /\ inbox'[n] = inbox[n]
      BY <1>2, <2>1, <3>2 DEF ConfirmedTurnsStarted
    <3> QED BY <1>1, <1>t, <3>1, <3>2, AppendFrames
  <2> QED BY <1>h, <1>2, <2>1 DEF hook, ConfirmedTurnsStarted
<1>6. handler = "race" => turn # "none" BY DEF ConfirmedTurnsStarted
<1>7. AbortsSpeak'
  <2>1. step = "completion" => handler = "race" BY DEF LinkInv, LossesAreReal
  <2> QED BY <1>h, <1>2, <1>3, <1>6, <2>1 DEF hook, AbortsSpeak
<1>8. AnswerIsOwn' BY <1>h, <1>2 DEF hook, AnswerIsOwn, Contents
<1>9. RunningTurnsAreInterrupted'
  BY <1>h, <1>2, <1>3, <1>6 DEF hook, RunningTurnsAreInterrupted
<1>10. NoSecondSpend' BY <1>h, <1>2 DEF hook, NoSecondSpend, Contents
<1> QED BY <1>4, <1>5, <1>7, <1>8, <1>9, <1>10

(* The frames: what they settle is what the app-server said.                *)
LEMMA ReceiveKeepsAnswers ==
    ASSUME AnswerInv, Receive
    PROVE  /\ CompletionsAreTrue' /\ ConfirmedTurnsStarted' /\ AbortsSpeak'
           /\ AnswerIsOwn' /\ RunningTurnsAreInterrupted' /\ NoSecondSpend'
<1> USE DEF AnswerInv
<1> DEFINE f == Head(inbox)
<1>t. TypeOK BY DEF LinkInv
<1>0. /\ f \in Frames /\ f = inbox[1] /\ 1 \in 1..Len(inbox)
      /\ inbox # <<>> /\ inbox' = Tail(inbox)
  BY <1>t, InboxTypes DEF Receive
<1>1. /\ UNCHANGED <<step, handler, signal, outcome, turn, requests>>
      /\ UNCHANGED link \/ (link = "open" /\ link' = "refused")
  BY <1>t, ReceiveSettles DEF server
<1>2. completion' = completion \/ (Matches(f) /\ completion' = f.content)
  BY DEF Receive, HandleResponse, HandleCompleted, HandleClose, SettleWaiter
<1>3. reply' = reply \/ (f.kind = "response" /\ f.id = step /\ reply' = f.reply)
  BY DEF Receive, HandleResponse, HandleCompleted, HandleClose, SettleReply
<1>4. CompletionsAreTrue'
  <2>1. completion' \in Contents => completion' = turn'
    BY <1>0, <1>1, <1>2 DEF CompletionsAreTrue
  <2>2. \A n \in 1..Len(inbox') : Matches(inbox'[n]) => inbox'[n].content = turn'
    BY <1>0, <1>1, <1>t, TailFrames DEF CompletionsAreTrue
  <2>3. \A n \in 1..Len(inbox)' : Matches(inbox[n])' => inbox[n].content' = turn'
    BY <2>2 DEF Matches
  <2> QED BY <2>1, <2>3 DEF CompletionsAreTrue
<1>5. ConfirmedTurnsStarted'
  <2>1. step = "turn" /\ reply' = "result" => turn # "none"
    BY <1>0, <1>3 DEF ConfirmedTurnsStarted
  <2>2. \A n \in 1..Len(inbox') :
          inbox'[n].kind = "response" /\ inbox'[n].id = "turn" /\ inbox'[n].reply = "result"
            => turn # "none"
    BY <1>0, <1>t, TailFrames DEF ConfirmedTurnsStarted
  <2> QED BY <1>1, <2>1, <2>2 DEF ConfirmedTurnsStarted
<1>6. AbortsSpeak' /\ AnswerIsOwn' /\ RunningTurnsAreInterrupted' /\ NoSecondSpend'
  BY <1>1 DEF AbortsSpeak, AnswerIsOwn, RunningTurnsAreInterrupted, NoSecondSpend
<1> QED BY <1>4, <1>5, <1>6

(* The hook's own steps leave the app-server's view and its frames alone.   *)
LEMMA HookKeepsAnswers ==
    ASSUME AnswerInv,
           \/ Upgraded \/ Rejected \/ Initialized \/ ThreadStarted
           \/ TurnStarted \/ TurnCompleted \/ Closes \/ Abort \/ Exit \/ Crash
           \/ SocketFails \/ SocketCloses \/ Tick
           \/ \E t \in Timers : TimerFires(t)
    PROVE  /\ CompletionsAreTrue' /\ ConfirmedTurnsStarted' /\ AbortsSpeak'
           /\ AnswerIsOwn' /\ RunningTurnsAreInterrupted' /\ NoSecondSpend'
<1> USE DEF AnswerInv
<1>0. UNCHANGED <<turn, inbox>>
  BY DEF Upgraded, Rejected, ConnectFails, UpgradeRefused, HandshakeTimesOut, RejectConnect,
         Closes, CloseRefused, CloseReviewed, Initialized, ThreadStarted, TurnStarted, TurnCompleted, Abort,
         Exit, Crash, SocketFails, SocketCloses, Tick, TimerFires, server
<1>1. completion' = completion \/ completion' \notin Contents
  BY DEF Upgraded, Rejected, ConnectFails, UpgradeRefused, HandshakeTimesOut, RejectConnect,
         Closes, CloseRefused, CloseReviewed, Initialized, ThreadStarted, TurnStarted, TurnCompleted, Abort,
         Exit, Crash, SocketFails, SocketCloses, Tick, TimerFires, RejectAll, SettleWaiter, Contents
<1>2. CompletionsAreTrue' BY <1>0, <1>1 DEF CompletionsAreTrue, Matches
<1>3. handler' = handler \/ (step = "turn" /\ reply = "result")
  BY DEF Upgraded, Rejected, ConnectFails, UpgradeRefused, HandshakeTimesOut, RejectConnect,
         Closes, CloseRefused, CloseReviewed, Initialized, ThreadStarted, TurnStarted, TurnCompleted, Abort,
         Exit, Crash, SocketFails, SocketCloses, Tick, TimerFires
<1>4. step' = "turn" /\ reply' = "result" => step = "turn" /\ reply = "result"
  BY DEF Upgraded, Rejected, ConnectFails, UpgradeRefused, HandshakeTimesOut, RejectConnect,
         Closes, CloseRefused, CloseReviewed, Initialized, ThreadStarted, TurnStarted, TurnCompleted, Abort,
         Exit, Crash, SocketFails, SocketCloses, Tick, TimerFires, RejectAll, SettleReply, Leave
<1>5. ConfirmedTurnsStarted' BY <1>0, <1>3, <1>4 DEF ConfirmedTurnsStarted
<1>6. AbortsSpeak' /\ AnswerIsOwn' /\ RunningTurnsAreInterrupted' /\ NoSecondSpend'
  <2> USE DEF AbortsSpeak, AnswerIsOwn, RunningTurnsAreInterrupted, NoSecondSpend, LinkInv,
              LossesAreReal, LinkFollowsStep, EndsHaveOutcomes
  <2>1. CASE Upgraded BY <1>0, <2>1 DEF Upgraded
  <2>2. CASE Rejected
    BY <1>0, <2>2 DEF Rejected, ConnectFails, UpgradeRefused, HandshakeTimesOut, RejectConnect, server
  <2>3. CASE Initialized BY <1>0, <2>3 DEF Initialized, Leave
  <2>4. CASE ThreadStarted BY <1>0, <2>4 DEF ThreadStarted, Leave, Refusal
  <2>5. CASE TurnStarted BY <1>0, <2>5 DEF TurnStarted, Leave, Refusal, Interrupt, Send
  <2>6. CASE TurnCompleted
    <3>1. completion \in Contents => completion = turn BY DEF CompletionsAreTrue
    <3>2. completion = "message" => turn = "message" BY <3>1 DEF Contents
    <3>3. completion \in {"no_message", "no_items", "failed"} => turn # "running"
      BY <3>1 DEF Contents
    <3>7. completion \in {"no_message", "no_items"} => turn = completion
      BY <3>1 DEF Contents
    <3>4. AnswerIsOwn' /\ NoSecondSpend' BY <1>0, <2>6, <3>2, <3>7 DEF TurnCompleted, Leave
    <3>5. CASE completion = "timeout"
      BY <1>0, <2>6, <3>4, <3>5 DEF TurnCompleted, Leave, Interrupt, Send
    <3>6. CASE completion # "timeout"
      BY <1>0, <2>6, <3>2, <3>3, <3>4, <3>6 DEF TurnCompleted, Leave, Settled, Leaving
    <3> QED BY <3>5, <3>6
  <2>7. CASE Abort BY <1>0, <2>7 DEF Abort, Interrupt, Send
  <2>8. CASE Exit \/ Crash \/ Tick BY <1>0, <2>8 DEF Exit, Crash, Tick, server
  <2>9. CASE SocketFails \/ SocketCloses
    BY <1>0, <2>9 DEF SocketFails, SocketCloses, server
  <2>10. CASE \E t \in Timers : TimerFires(t) BY <1>0, <2>10 DEF TimerFires, server
  <2>11. CASE Closes
    BY <1>0, <2>11 DEF Closes, CloseRefused, CloseReviewed, Close, server
  <2> QED BY <2>1, <2>2, <2>3, <2>4, <2>5, <2>6, <2>7, <2>8, <2>9, <2>10, <2>11
<1> QED BY <1>2, <1>5, <1>6

LEMMA NextAnswer == AnswerInv /\ [Next]_vars => AnswerInv'
<1> SUFFICES ASSUME AnswerInv, [Next]_vars PROVE AnswerInv' OBVIOUS
<1>1. LinkInv' BY NextLink DEF AnswerInv
<1>2. CASE UNCHANGED vars
  BY <1>2, <1>1 DEF vars, AnswerInv, CompletionsAreTrue, ConfirmedTurnsStarted, AbortsSpeak,
                    AnswerIsOwn, RunningTurnsAreInterrupted, NoSecondSpend, Matches
<1> QED BY <1>1, <1>2, Steps, ServerKeepsAnswers, ReceiveKeepsAnswers, HookKeepsAnswers
        DEF AnswerInv

LEMMA InitAnswer == Init => AnswerInv
<1>1. Init => LinkInv
  BY InitTypes DEF Init, LinkInv, LinkFollowsStep, LossesAreReal, EndsHaveOutcomes,
         NoLeakedConnection
<1>2. Init => /\ CompletionsAreTrue /\ ConfirmedTurnsStarted /\ AbortsSpeak
              /\ AnswerIsOwn /\ RunningTurnsAreInterrupted /\ NoSecondSpend
  BY DEF Init, CompletionsAreTrue, ConfirmedTurnsStarted, AbortsSpeak, AnswerIsOwn,
         RunningTurnsAreInterrupted, NoSecondSpend, Contents
<1> QED BY <1>1, <1>2 DEF AnswerInv

(* A review is the message our own turn was completed with, however frames  *)
(* are delayed or mixed with those of other threads.                        *)
THEOREM AnswersAreOwn == Spec => []AnswerIsOwn
BY InitAnswer, NextAnswer, PTL DEF Spec, AnswerInv

(* A turn that is given up over a working connection has been interrupted.  *)
THEOREM TurnsAreInterrupted == Spec => []RunningTurnsAreInterrupted
BY InitAnswer, NextAnswer, PTL DEF Spec, AnswerInv

(* Of the turns the app-server confirmed, only one that completed without a *)
(* review is done over by another codex, in whatever order answers, losses  *)
(* and stray frames arrive.                                                 *)
THEOREM TurnsArePaidOnce == Spec => []NoSecondSpend
BY InitAnswer, NextAnswer, PTL DEF Spec, AnswerInv

=============================================================================
