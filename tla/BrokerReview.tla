------------------------------ MODULE BrokerReview ------------------------------
(****************************************************************************)
(* One review through the broker: runWithBroker (codex-pair-watch.mjs),     *)
(* initializeBroker and submitReview (lib/broker.mjs), the JSON-RPC client  *)
(* (lib/broker-rpc.mjs) and the connection under it                         *)
(* (lib/broker-transport.mjs), against an app-server that answers late, out *)
(* of turn, badly or never.                                                 *)
(*                                                                          *)
(* The hook is one event loop.  A message, a timer or a socket event is a   *)
(* task; the promise it settles resumes the awaiting function before the    *)
(* next task, but after the other frames of the same chunk.                 *)
(****************************************************************************)
EXTENDS Integers, Sequences

CONSTANTS
    HandshakeBudget,   \* handshakeTimeoutMs
    InitBudget,        \* initializeTimeoutMs
    Timeout,           \* timeoutMs of submitReview
    InterruptBudget,   \* timeout of a turn/interrupt request
    Abortable,         \* the caller passes an abortSignal
    InboxBound,        \* bound on the frames in flight
    NoiseBound         \* bound on the frames that answer nothing of ours

ASSUME ReviewAssumption ==
    /\ HandshakeBudget \in Nat
    /\ InitBudget \in Nat
    /\ Timeout \in Nat
    /\ InterruptBudget \in Nat
    /\ Abortable \in BOOLEAN
    /\ InboxBound \in Nat
    /\ NoiseBound \in Nat

VARIABLES
    now,         \* the clock
    step,        \* what runWithBroker awaits
    armed,       \* what has a running timer: pending requests and the waiter
    due,         \* when each timer fires
    deadline,    \* of submitReview
    reply,       \* how the awaited promise settled
    completion,  \* the promise of waitFor("turn/completed")
    handler,     \* what handles that promise when it settles
    signal,      \* the caller's abortSignal
    outcome,     \* what runWithBroker returned or threw
    link,        \* the websocket connection
    inbox,       \* frames sent by the app-server and not yet parsed
    requests,    \* requests the app-server has and has not answered
    turn,        \* the app-server's own view of our turn
    noise        \* how many stray frames it sent

hook == <<step, deadline, reply, completion, handler, signal, outcome>>
server == <<requests, turn, noise>>
vars == <<now, step, armed, due, deadline, reply, completion, handler, signal, outcome,
          link, inbox, requests, turn, noise>>

(* Request ids are never reused, so a method stands for the id of its only  *)
(* request (takeNextId).                                                    *)
Methods == {"initialize", "thread", "turn", "interrupt"}
Timers == Methods \cup {"handshake", "waiter"}

(* What a turn/completed notification carries.                              *)
Contents == {"message", "no_message", "no_items", "failed"}
Replies == {"result", "empty", "error"}

Frames ==
    [kind : {"response"}, id : Methods, reply : Replies]
      \cup [kind : {"completed"}, thread : {"own", "other"}, content : Contents]
      \cup [kind : {"close"}]

Over == step \in {"exited", "crashed"}

(* An error or the review is on its way out, through the catch block of     *)
(* initializeBroker or the finally block of runWithBroker.                  *)
Leaving == step \in {"catch", "finally"}

TypeOK ==
    /\ now \in Nat
    /\ step \in {"connect", "initialize", "thread", "turn", "completion",
                 "catch", "finally", "ended", "exited", "crashed"}
    /\ armed \in SUBSET Timers
    /\ due \in [Timers -> Nat]
    /\ deadline \in Nat
    /\ reply \in Replies \cup {"none", "timeout", "lost"}
    /\ completion \in Contents \cup {"none", "waiting", "timeout", "lost"}
    /\ handler \in {"none", "race"}
    /\ signal \in {"quiet", "aborted"}
    /\ outcome \in {"none", "answer", "failure", "error", "timeout", "aborted"}
    /\ link \in {"opening", "open", "ending", "refused", "broken", "closed"}
    /\ inbox \in Seq(Frames)
    /\ requests \in SUBSET Methods
    /\ turn \in Contents \cup {"none", "running"}
    /\ noise \in 0..NoiseBound

Init ==
    /\ now = 0
    /\ step = "connect"
    /\ armed = {"handshake"}
    /\ due = [t \in Timers |-> HandshakeBudget]
    /\ deadline = 0
    /\ reply = "none"
    /\ completion = "none"
    /\ handler = "none"
    /\ signal = "quiet"
    /\ outcome = "none"
    /\ link = "opening"
    /\ inbox = <<>>
    /\ requests = {}
    /\ turn = "none"
    /\ noise = 0

-----------------------------------------------------------------------------
(* The event loop                                                           *)

(* Ended by us or refused by the app-server, it still carries frames.       *)
Connected == link \in {"open", "ending", "refused"}

(* The awaited promise is settled: the awaiting function resumes.           *)
Settled ==
    \/ step \in {"initialize", "thread", "turn"} /\ reply # "none"
    \/ step = "completion" /\ (completion # "waiting" \/ signal = "aborted")
    \/ Leaving

(* A rejected promise that nobody awaits.                                   *)
Unhandled == completion \in {"timeout", "lost"} /\ handler = "none"

(* The loop takes up a new task once no function can resume.                *)
Idle == ~Over /\ ~Settled /\ ~Unhandled

Remaining == IF deadline > now THEN deadline - now ELSE 0

(* Mutant of Budget: every request gets the whole timeout.                  *)
FullBudget == Timeout

(* The budget of a request or a waiter of submitReview.                     *)
Budget == Remaining

(* rpc.request and rpc.waitFor arm their timers; a request that meets an    *)
(* open connection reaches the app-server.                                  *)
Arm(ts, time) ==
    /\ armed' = armed \cup ts
    /\ due' = [t \in Timers |-> IF t \in ts THEN now + time ELSE due[t]]

Send(m) == requests' = IF link = "open" THEN requests \cup {m} ELSE requests

(* What the hook will hear is decided, the connection is as it was.         *)
Leave(block, o) == step' = block /\ outcome' = o /\ UNCHANGED link

(* connection.close: a CLOSE frame and the end of our side.                 *)
Close == link' = IF link = "open" THEN "ending" ELSE link

-----------------------------------------------------------------------------
(* The hook                                                                 *)

(* The upgrade succeeded: initializeBroker sends initialize.                *)
Upgraded ==
    /\ step = "connect"
    /\ step' = "initialize"
    /\ link' = "open"
    /\ armed' = {"initialize"}
    /\ due' = [due EXCEPT !["initialize"] = now + InitBudget]
    /\ requests' = {"initialize"}
    /\ UNCHANGED <<now, deadline, reply, completion, handler, signal, outcome, inbox, turn, noise>>

(* connectWebSocket rejects, which runWithBroker tags as brokerFailure.     *)
RejectConnect ==
    /\ step = "connect"
    /\ step' = "ended"
    /\ outcome' = "failure"
    /\ armed' = {}
    /\ UNCHANGED <<now, due, deadline, reply, completion, handler, signal, inbox, server>>

(* The socket fails or closes before the upgrade: Node has closed it.       *)
ConnectFails == RejectConnect /\ link' = "closed"

(* The response to the upgrade is not one: the socket is destroyed.         *)
UpgradeRefused == RejectConnect /\ link' = "closed"

(* The handshake timer destroys the socket.                                 *)
HandshakeTimesOut ==
    /\ now = due["handshake"]
    /\ RejectConnect
    /\ link' = "closed"

(* initializeBroker returns whatever the result; submitReview sets its      *)
(* deadline and asks for a thread.                                          *)
Initialized ==
    /\ step = "initialize"
    /\ reply # "none"
    /\ \/ /\ reply \in {"result", "empty"}
          /\ step' = "thread"
          /\ deadline' = now + Timeout
          /\ reply' = "none"
          /\ Arm({"thread"}, Timeout)
          /\ Send("thread")
          /\ UNCHANGED <<outcome, link>>
       \/ /\ reply \notin {"result", "empty"}
          /\ Leave("catch", "failure")
          /\ UNCHANGED <<deadline, reply, armed, due, requests>>
    /\ UNCHANGED <<now, completion, handler, signal, inbox, turn, noise>>

(* The outcome of a request of submitReview that brought no id: only a      *)
(* response without one is tagged brokerFailure.                            *)
Refusal == IF reply = "empty" THEN "failure" ELSE "error"

(* thread/start returned: the waiter is registered, then turn/start sent.   *)
ThreadStarted ==
    /\ step = "thread"
    /\ reply # "none"
    /\ \/ /\ reply = "result"
          /\ step' = "turn"
          /\ reply' = "none"
          /\ completion' = "waiting"
          /\ Arm({"waiter", "turn"}, Budget)
          /\ Send("turn")
          /\ UNCHANGED <<outcome, link>>
       \/ /\ reply # "result"
          /\ Leave("finally", Refusal)
          /\ UNCHANGED <<reply, completion, armed, due, requests>>
    /\ UNCHANGED <<now, deadline, handler, signal, inbox, turn, noise>>

Interrupt == Arm({"interrupt"}, InterruptBudget) /\ Send("interrupt")

(* turn/start returned: cancellation is wired and the race begins.  An      *)
(* abort that came before is acted on now.                                  *)
TurnStarted ==
    /\ step = "turn"
    /\ reply # "none"
    /\ \/ /\ reply = "result"
          /\ step' = "completion"
          /\ handler' = "race"
          /\ \/ signal = "aborted" /\ Interrupt
             \/ signal = "quiet" /\ UNCHANGED <<armed, due, requests>>
          /\ UNCHANGED <<outcome, link>>
       \/ /\ reply # "result"
          /\ Leave("finally", Refusal)
          /\ UNCHANGED <<handler, armed, due, requests>>
    /\ UNCHANGED <<now, deadline, reply, completion, signal, inbox, turn, noise>>

(* Mutant of TurnCompleted: a timeout is reported like a lost connection.   *)
TurnCompletedUninterrupted ==
    /\ step = "completion"
    /\ Settled
    /\ \/ completion = "message" /\ Leave("finally", "answer")
       \/ completion \in {"no_message", "no_items"} /\ Leave("finally", "failure")
       \/ completion \in {"failed", "lost", "timeout"} /\ Leave("finally", "error")
       \/ completion = "waiting" /\ Leave("finally", "aborted")
    /\ UNCHANGED <<now, armed, due, deadline, reply, completion, handler, signal, inbox, server>>

(* Mutant of TurnCompleted: a connection lost while codex reviews is a      *)
(* failure of the broker, too.                                              *)
TurnCompletedOrLost ==
    /\ step = "completion"
    /\ Settled
    /\ \/ /\ \/ completion = "message" /\ Leave("finally", "answer")
             \/ completion \in {"no_message", "no_items", "lost"} /\ Leave("finally", "failure")
             \/ completion = "failed" /\ Leave("finally", "error")
             \/ completion = "waiting" /\ Leave("finally", "aborted")
          /\ UNCHANGED <<armed, due, requests>>
       \/ completion = "timeout" /\ Interrupt /\ Leave("finally", "timeout")
    /\ UNCHANGED <<now, deadline, reply, completion, handler, signal, inbox, turn, noise>>

(* The race is decided by what settled first, the completion or the abort.  *)
(* Only a turn that completed without a review counts as brokerFailure.     *)
TurnCompleted ==
    /\ step = "completion"
    /\ Settled
    /\ \/ /\ \/ completion = "message" /\ Leave("finally", "answer")
             \/ completion \in {"no_message", "no_items"} /\ Leave("finally", "failure")
             \/ completion \in {"failed", "lost"} /\ Leave("finally", "error")
             \/ completion = "waiting" /\ Leave("finally", "aborted")
          /\ UNCHANGED <<armed, due, requests>>
       \/ completion = "timeout" /\ Interrupt /\ Leave("finally", "timeout")
    /\ UNCHANGED <<now, deadline, reply, completion, handler, signal, inbox, turn, noise>>

(* The catch block around initialize closes the connection and throws on.   *)
CloseRefused ==
    /\ step = "catch"
    /\ step' = "ended"
    /\ Close
    /\ UNCHANGED <<now, armed, due, deadline, reply, completion, handler, signal, outcome,
                   inbox, server>>

(* Mutant of CloseReviewed: closing follows the await instead of being in   *)
(* a finally block, and is left out when submitReview throws.               *)
CloseAnswered ==
    /\ step = "finally"
    /\ step' = "ended"
    /\ \/ outcome = "answer" /\ Close
       \/ outcome # "answer" /\ UNCHANGED link
    /\ UNCHANGED <<now, armed, due, deadline, reply, completion, handler, signal, outcome,
                   inbox, server>>

(* The finally block around submitReview closes it, whatever came of it.    *)
CloseReviewed ==
    /\ step = "finally"
    /\ step' = "ended"
    /\ Close
    /\ UNCHANGED <<now, armed, due, deadline, reply, completion, handler, signal, outcome,
                   inbox, server>>

(* The caller aborts; the handler is there only while the race is on.       *)
Abort ==
    /\ Idle
    /\ Abortable /\ signal = "quiet"
    /\ step \in {"thread", "turn", "completion"}
    /\ signal' = "aborted"
    /\ \/ step = "completion" /\ Interrupt
       \/ step # "completion" /\ UNCHANGED <<armed, due, requests>>
    /\ UNCHANGED <<now, step, deadline, reply, completion, handler, outcome, link, inbox, turn, noise>>

(* main() goes on with the outcome, by a spawn of its own after a failure,  *)
(* and ends the process.                                                    *)
Exit ==
    /\ Idle
    /\ step = "ended"
    /\ step' = "exited"
    /\ UNCHANGED <<now, armed, due, deadline, reply, completion, handler, signal, outcome,
                   link, inbox, server>>

(* Node ends a process on a rejected promise without a handler.             *)
Crash ==
    /\ Unhandled /\ ~Settled /\ ~Over
    /\ step' = "crashed"
    /\ UNCHANGED <<now, armed, due, deadline, reply, completion, handler, signal, outcome,
                   link, inbox, server>>

-----------------------------------------------------------------------------
(* The JSON-RPC client                                                      *)

(* A settled promise keeps its first value: only what is armed can settle.  *)
SettleReply(m, r) == reply' = IF m \in armed /\ m = step THEN r ELSE reply
SettleWaiter(c) == completion' = IF "waiter" \in armed THEN c ELSE completion

(* Anything with an id counts as the response of that id.                   *)
HandleResponse(f) ==
    /\ SettleReply(f.id, f.reply)
    /\ armed' = armed \ {f.id}
    /\ UNCHANGED <<completion, link>>

(* Mutant of Matches: the waiter takes the completion of any thread.        *)
MatchesAny(f) == f.kind = "completed"

(* The predicate of submitReview's waiter.                                  *)
Matches(f) == f.kind = "completed" /\ f.thread = "own"

HandleCompleted(f) ==
    /\ \/ Matches(f) /\ SettleWaiter(f.content) /\ armed' = armed \ {"waiter"}
       \/ ~Matches(f) /\ UNCHANGED <<armed, completion>>
    /\ UNCHANGED <<reply, link>>

(* A close frame is answered and our side of the connection ends.           *)
HandleClose ==
    /\ link' = IF link = "open" THEN "refused" ELSE link
    /\ UNCHANGED <<armed, reply, completion>>

Receive ==
    /\ ~Over /\ ~Unhandled /\ ~Leaving
    /\ Connected
    /\ inbox # <<>>
    /\ inbox' = Tail(inbox)
    /\ \/ Head(inbox).kind = "response" /\ HandleResponse(Head(inbox))
       \/ Head(inbox).kind = "completed" /\ HandleCompleted(Head(inbox))
       \/ Head(inbox).kind = "close" /\ HandleClose
    /\ UNCHANGED <<now, step, due, deadline, handler, signal, outcome, server>>

(* The timers of request, of waitFor and of the handshake.                  *)
TimerFires(t) ==
    /\ Idle
    /\ t \in armed
    /\ now = due[t]
    /\ t # "handshake"
    /\ armed' = armed \ {t}
    /\ SettleReply(t, "timeout")
    /\ IF t = "waiter" THEN completion' = "timeout" ELSE UNCHANGED completion
    /\ UNCHANGED <<now, step, due, deadline, handler, signal, outcome, link, inbox, server>>

(* Mutant of RejectAll: the waiter is dropped, its promise left pending.    *)
RejectRequests ==
    /\ reply' = IF step \in armed THEN "lost" ELSE reply
    /\ armed' = {}
    /\ UNCHANGED completion

(* Both handlers reject every pending request and the waiter.               *)
RejectAll ==
    /\ reply' = IF step \in armed THEN "lost" ELSE reply
    /\ SettleWaiter("lost")
    /\ armed' = {}

(* The socket fails, or its frames are corrupt: the error handler runs, the *)
(* close handler later.                                                     *)
SocketFails ==
    /\ Idle
    /\ Connected
    /\ link' = "broken"
    /\ RejectAll
    /\ UNCHANGED <<now, step, due, deadline, handler, signal, outcome, inbox, server>>

SocketCloses ==
    /\ Idle
    /\ Connected \/ link = "broken"
    /\ link' = "closed"
    /\ RejectAll
    /\ UNCHANGED <<now, step, due, deadline, handler, signal, outcome, inbox, server>>

-----------------------------------------------------------------------------
(* The app-server                                                           *)

Emit(f) ==
    /\ Connected
    /\ Len(inbox) < InboxBound
    /\ inbox' = Append(inbox, f)
    /\ UNCHANGED <<now, armed, due, hook, link>>

(* It answers a request: a turn that starts runs, an interrupt ends it.     *)
Answer(m, r) ==
    /\ ~Over
    /\ m \in requests
    /\ Emit([kind |-> "response", id |-> m, reply |-> r])
    /\ requests' = requests \ {m}
    /\ turn' = CASE m = "turn" /\ turn = "none" /\ r # "error" -> "running"
                 [] m = "interrupt" /\ turn = "running" -> "failed"
                 [] OTHER -> turn
    /\ UNCHANGED noise

(* A turn may complete before turn/start is answered.                       *)
CompleteTurn(c) ==
    /\ ~Over
    /\ turn = "running" \/ (turn = "none" /\ "turn" \in requests)
    /\ Emit([kind |-> "completed", thread |-> "own", content |-> c])
    /\ turn' = c
    /\ UNCHANGED <<requests, noise>>

(* Frames that answer nothing of ours: the completion of another thread, a  *)
(* request of the app-server whose id is one of our own and which therefore *)
(* reads as a response without a result, or the end of the connection.      *)
StrayFrames ==
    {[kind |-> "completed", thread |-> "other", content |-> "message"], [kind |-> "close"]}
      \cup {[kind |-> "response", id |-> m, reply |-> "empty"] : m \in Methods}

Stray(f) ==
    /\ ~Over
    /\ noise < NoiseBound
    /\ noise' = noise + 1
    /\ Emit(f)
    /\ UNCHANGED <<requests, turn>>

-----------------------------------------------------------------------------
(* A timer that is due fires before the clock goes on.  Once the review is  *)
(* over time matters only for timers that are still armed.                  *)
Tick ==
    /\ Idle
    /\ armed # {}
    /\ \A t \in armed : now < due[t]
    /\ now' = now + 1
    /\ UNCHANGED <<step, armed, due, deadline, reply, completion, handler, signal, outcome,
                   link, inbox, server>>

HookStep ==
    \/ Initialized
    \/ ThreadStarted
    \/ TurnStarted
    \/ TurnCompleted
    \/ CloseRefused
    \/ CloseReviewed
    \/ Exit
    \/ Crash
    \/ \E t \in Timers : TimerFires(t)

Next ==
    \/ HookStep
    \/ Upgraded
    \/ ConnectFails
    \/ UpgradeRefused
    \/ HandshakeTimesOut
    \/ Abort
    \/ Receive
    \/ SocketFails
    \/ SocketCloses
    \/ \E m \in Methods, r \in Replies : Answer(m, r)
    \/ \E c \in Contents : CompleteTurn(c)
    \/ \E f \in StrayFrames : Stray(f)
    \/ Tick

(* The event loop goes round: functions resume, timers fire, time passes.   *)
(* The app-server need never answer nor close.                              *)
Fairness ==
    /\ WF_vars(HookStep)
    /\ WF_vars(HandshakeTimesOut)
    /\ WF_vars(Tick)

Spec == Init /\ [][Next]_vars
FairSpec == Spec /\ Fairness

-----------------------------------------------------------------------------
(* Properties                                                               *)

(* The text returned as the review is the one the app-server completed our  *)
(* own turn with, whatever else arrives, in whatever order.                 *)
AnswerIsOwn == outcome = "answer" => turn = "message"

(* The attempt is over within the two handshake budgets and one timeout,    *)
(* although it waits three times after the handshakes: what ReviewDispatch  *)
(* calls BrokerTime.                                                        *)
AttemptBudget == HandshakeBudget + InitBudget + Timeout
AttemptWithinBudget == outcome = "none" /\ ~Over => now <= AttemptBudget

(* "so we don't leak a server-side turn": a review that gives its turn up   *)
(* over a working connection has asked the app-server to interrupt it.      *)
RunningTurnsAreInterrupted ==
    handler = "race" /\ link = "ending" /\ turn = "running" => "interrupt" \in requests

(* No way out of the attempt, through any of the places that close the      *)
(* connection, leaves it open or opening: an open socket would keep the     *)
(* process, and the app-server's thread, alive.                             *)
NoLeakedConnection == step \in {"ended", "exited"} => link \notin {"opening", "open"}

(* "retrying via spawnCodex would double the spend": of the turns that the  *)
(* app-server confirmed, the hook gives only those to another codex which   *)
(* the first one completed without a review; never one that still runs, was *)
(* cut off, failed, or has its review lost on the way.                      *)
NoSecondSpend ==
    outcome = "failure" /\ handler = "race" => turn \in {"no_message", "no_items"}

(* The attempt ends: no lost answer, lost connection or stray frame leaves  *)
(* the hook waiting for ever.                                               *)
AttemptEnds == <>Over

(* "turn_start failures = broker protocol is broken.  Hook falls back to    *)
(* spawnCodex": a hook whose attempt failed lives to fall back.             *)
FallbackSurvives == outcome = "failure" => step # "crashed"

(* Why the attempt keeps its budget: what it awaits has settled or has a    *)
(* timer, and no timer lies beyond the deadline.                            *)
AwaitsATimer ==
    /\ step = "connect" => "handshake" \in armed
    /\ step \in {"initialize", "thread", "turn"} => reply # "none" \/ step \in armed
    /\ step \in {"turn", "completion"} => completion # "waiting" \/ "waiter" \in armed

TimersMeetDeadline ==
    /\ step = "connect" => now <= due["handshake"] /\ due["handshake"] <= HandshakeBudget
    /\ step = "initialize" =>
           now <= due["initialize"] /\ due["initialize"] <= HandshakeBudget + InitBudget
    /\ step \in {"thread", "turn", "completion"} =>
           now <= deadline /\ deadline <= AttemptBudget
    /\ step = "thread" => due["thread"] <= deadline
    /\ step = "turn" => due["turn"] <= deadline
    /\ step \in {"turn", "completion"} => due["waiter"] <= deadline

EndsHaveOutcomes ==
    /\ step \in {"catch", "finally", "ended"} => outcome # "none"
    /\ step \in {"connect", "initialize", "thread", "turn", "completion"} => outcome = "none"

(* Where the connection is while the hook awaits what.                      *)
LinkFollowsStep ==
    /\ step = "connect" <=> link = "opening"
    /\ link = "ending" => step \in {"ended", "exited", "crashed"}

(* Why answers are our own: the app-server completes a turn once, and says  *)
(* so with the content it completed it with.                                *)
CompletionsAreTrue ==
    /\ completion \in Contents => completion = turn
    /\ \A n \in 1..Len(inbox) : Matches(inbox[n]) => inbox[n].content = turn

(* Why turns are interrupted: a confirmed turn has started, a lost promise  *)
(* means a lost connection, and who gives up speaks before it closes.       *)
ConfirmedTurnsStarted ==
    /\ handler = "race" => turn # "none"
    /\ step = "turn" /\ reply = "result" => turn # "none"
    /\ \A n \in 1..Len(inbox) :
          inbox[n].kind = "response" /\ inbox[n].id = "turn" /\ inbox[n].reply = "result"
            => turn # "none"

LossesAreReal ==
    /\ completion = "lost" => link \in {"broken", "closed"}
    /\ handler = "race" => step \in {"completion", "finally", "ended", "exited", "crashed"}
    /\ step = "completion" => handler = "race"
    /\ step \in {"connect", "initialize", "thread"} => completion = "none"
    /\ "waiter" \in armed => completion = "waiting"

AbortsSpeak ==
    /\ step = "completion" /\ signal = "aborted" /\ link = "open" /\ turn = "running"
         => "interrupt" \in requests
    /\ step = "finally" /\ handler = "race" /\ link = "open" /\ turn = "running"
         => "interrupt" \in requests

=============================================================================
