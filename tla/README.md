# Formal models of ask-llm and its codex-pair hook

TLA+ models of the programs in this repository, the TLC runs that check them on small instances, and
TLAPS proofs of the theorems that matter most. `PROJECT.json` lists components, runs, mutants, hazards
and the source lines each definition stands for; this file explains them.

## 1. Inventory

Two programs live here. The **codex-pair hook** (`packages/claude-plugin/scripts`) is started by the
editor for every edit and for every session start and end; its processes share nothing but files, a
socket and a long-lived `codex app-server`. The **MCP servers** (`packages/*-mcp`, `packages/shared`)
are long-lived Node processes that turn tool calls into provider CLI calls or HTTP requests.

| part | state | operations | interacts with |
|---|---|---|---|
| inflight lock (`lib/state.mjs`) | one lock file per edited file: pid, mtime | acquire with stale recovery, release at exit | other hook processes, the clock, signals |
| review dispatch (`codex-pair-watch.mjs`) | the attempt in progress, its timers, the codex child | broker attempt, spawn, retry, model fallback, timeout | codex processes, broker, log |
| hook main flow (`codex-pair-watch.mjs`) | a hook's own position; everything else is on disk | gates, file read, cache check, lock, dispatch, parse, cache write, log, repetitions, message | all of `lib/state.mjs`, the editor |
| concern cache, repetitions, log (`lib/state.mjs`) | cache files, one repetition shard per file, one log | get/set/evict, load/update/save/sweep, append/rotate | every hook process of the project |
| broker RPC (`lib/broker-rpc.mjs`, `lib/broker.mjs`) | pending requests, subscribers, `closed` | request, waitFor, message, close, error; `submitReview` | one websocket connection, the app-server |
| broker lifecycle (`lib/broker-lifecycle.mjs`, `codex-pair-session.mjs`) | lock directory, descriptor, socket, app-server processes | bootstrap, teardown, stale clean-up | the sessions of a project |
| websocket transport (`lib/broker-transport.mjs`) | receive buffer, handshake state | connect, frame parser, send, close | the socket |
| response cache (`shared/responseCache.ts`) | a map with hit times and sizes | get, set, delete, LRU eviction | the provider executors |
| command executor (`shared/commandExecutor.ts`) | one child, its output, timer, settled flag | run with timeout, SIGTERM then SIGKILL | provider CLIs |
| provider executors (`codexExecutor.ts`, `geminiExecutor.ts`, `ollamaExecutor.ts`) | none of their own | cache, call, quota fallback, error mapping | the two parts above, sessions |
| sessions, chunk cache (`shared/sessions.ts`, `shared/chunkCache.ts`) | JSON files with a TTL | load, append and save, evict; cache and fetch chunks | concurrent tool calls and servers |
| change mode (`shared/changeMode/*`) | none | parse edits, split into chunks, format | ask-gemini-edit, fetch-chunk |
| MCP server and tools (`serverFactory.ts`, `registry.ts`, `progressTracker.ts`, `usage.ts`, `llm-mcp/index.ts`) | tool registry, progress timer, usage ring | call a tool, notify progress, record usage | MCP client |
| multi-llm, REPL (`llm-mcp/src`) | REPL provider, session | dispatch to all providers, slash commands | provider executors |

What is hard in them: hook processes interleave between any two system calls and may be killed; every
recovery path (stale lock, lost broker, retry, fallback) races with the thing it recovers from; timers
race with late answers; promises without a handler end a Node process; files are read, changed and
written back without a lock of their own.

## 2. Plan

Order of work, most important behaviour first. A module is written so that it can be proved about:
constants with named assumptions, one action per operation, invariants in named parts, no recursion.

1. `InflightLock` over `ReviewMutex` — the lock and what it promises. **Done, proved.**
2. `ReviewDispatch` — retries, fallback, timeouts, children that outlive the hook. **Done, proved.**
3. `CodexPairHook` over `ReviewMutex` and `RepetitionCounter` — the flow around the lock. **Done, proved.**
4. `BrokerReview` — one review over the shared broker, RPC client and connection. **Done, proved.**
5. `BrokerLifecycle` — the sessions that start, share and stop that broker. **Done, proved.**
6. `AskServer` over `ResponseCache` and `ChangeMode` — a server's tool calls, from the executors and
   their child processes to cache, sessions and chunk files. **Done, proved.**
7. `BrokerTransport` over `MessageChannel` — the websocket client under the RPC layer. **Done, proved.**
8. `SharedFiles` and `ReviewLog` — session files, chunk files and the review log, read, changed and written
   by several processes, system call by system call. **Done, proved.**
9. Left: progress notifications that stop before the answer, the REPL; a refinement of the sessions of
   `AskServer` by those of `SharedFiles`, which are proved apart; for the other liveness properties the
   safety they rest on, as `NobodyIsForgotten` is of `CallsEnd`.

How the modules compose:

```
ReviewMutex <--implements-- InflightLock        (system calls, clock, kills)
ReviewMutex <--implements-- CodexPairHook       (the hook's use of the lock)
RepetitionCounter <--implements-- CodexPairHook (load and save under the lock)
ReviewDispatch: the dispatch CodexPairHook abbreviates; its DispatchBudget is InflightLock's BudgetOf
BrokerReview: the broker attempt ReviewDispatch abbreviates; its AttemptBudget is BrokerTime
BrokerLifecycle: the app-server BrokerReview talks to
MessageChannel <--implements-- BrokerTransport  (bytes and chunks to whole messages, for BrokerReview)
AskServer EXTENDS ResponseCache, ChangeMode     (the executors' two libraries)
SharedFiles: the session and chunk files of AskServer, for several servers and call by call
ReviewLog: the log the hooks of all files append to
MCSharedFiles EXTENDS SharedFiles, ReviewLog    (one run; they share nothing)
```

`CodexPairHook` uses the lock through the interface `ReviewMutex` states, and `InflightLock` is shown to
implement that interface; likewise the bounds that one module assumes are theorems of the next.

## 3. Modules and runs

Every run is exhaustive for its constants. Only `files`, which has no temporal property, uses symmetry.
Type invariants are theorems of every module with proofs. Deadlock is not checked: in all of these systems processes end and nothing need happen any more.

### InflightLock, ReviewMutex

`tryAcquireInflightLock` and `releaseInflightLock` of `lib/state.mjs`, one action per system call:
`TryCreate` (exclusive create), `StatLock` and `ReadPid` (the snapshot), `RestatLock` and `RereadPid` (the
recheck), `UnlinkStale`, `Recreate`, `ReleaseOnExit` (the exit handler of `codex-pair-watch.mjs`), and
`Kill`, which skips that handler. `lock` is the file (pid, mtime), `snapMtime`, `snapPid` and `recheck`
are the locals of the call. Two locks with the same mtime are possible: several creations fit one tick.

The file system may refuse any of these calls (`Refusals`), and the code tells such an error from the
expected one at the first create only. A refused stat or read counts as a lock that vanished, a refused unlink
of the stale lock is swallowed and leaves it there, any error of the second create is "race", and a refused
unlink at exit leaves the lock behind. `refused` are the hooks that met one, `leavers` the processes that
ended without unlinking the lock: killed, or refused at exit.

`ReviewMutex` is the promise of ADR-087 without files or clocks: one review at a time, and a hook is coalesced
only while another reviews, or fails because the file system failed it (`Fail`; such a hook may log "race"
with nobody reviewing, so the reason logged is no part of the promise). It is given only until a lock is left
behind (`calm`), and anything may follow.

| run | shows |
|---|---|
| `lock` | three hooks, kills and refused calls anywhere, over no lock or one left behind, with dispatches that fit the TTL: until a lock is left behind an exit removes its own lock and the calls implement `ReviewMutex`; always, what passes the identity check is the lock judged stale, and a hook refused with "race", none of whose own calls was refused, met a newer lock |
| `lock_overrun` (violation) | with the default timeout four attempts outlive the lock and a second hook takes a live lock |

Bounds: time in units of about 200 s. In `lock` a dispatch takes up to 4 units and the TTL is 4; the clock of 7
lets a lock become stale, be recovered, and the recoverer review. In `lock_overrun` they are 16 and 5, and the
clock of 12 covers a whole lock lifetime after a review began. Three hooks are the least for a recoverer that
is overtaken by a second one while a third reviews.

Proved (`InflightLockProofs`), for any hooks, timeouts and clock bound: types; `RecheckSound` and
`RaceLostToSuccessor`, from `IdentityInv` (a snapshot's mtime is older than every later lock, and the pid in
it belongs to a process that will not create the lock again - so equal readings mean the same file although
they come from two calls each); and, under the assumption `ReviewsFitTtl`, mutual exclusion, own release and
the refinement of `ReviewMutex`, from `FitInv` (until a lock is left behind nobody is ever in stale recovery,
and the file belongs to the one reviewer and is younger than its budget). `lock_overrun` is what happens
without the assumption. With a lock left behind, check and unlink are still two calls: of two recoverers that
both passed the check the second deletes the fresh lock of the first, against the comment at `state.mjs:121`;
`RecheckSound` says how far the check does go.

### ReviewDispatch

`runCodexWithFallback`, `spawnCodexWithRetry` and `spawnCodex`: an optional broker attempt, then codex
processes. `phase` is where the hook awaits, `model` and `attempt` are the two loops, `process` the state
of each child, `killAt` its SIGKILL timer. An attempt may answer, hang, fail with any verdict and any
signal in its message (quota, transient, none); a process in `Stubborn` ignores SIGTERM. The hook's exit
discards its timers.

| run | shows |
|---|---|
| `dispatch` | the whole dispatch keeps `DispatchBudget`, has one working codex at a time, and the hook ends |
| `dispatch_escalation` (violation) | a codex that ignores SIGTERM is never sent SIGKILL, because `process.exit` drops the timer |

Bounds: `SpawnBound` is one more than the four spawns the code can make, so that a fifth would be seen;
the timers are small and pairwise different. `TimeoutReadsAsQuota` is the text "timed out after 429s",
which `isQuotaError` takes for a quota error; the run has it, the harder case.
Fairness: `HookStep` and the clock; codex need never answer.

Proved (`ReviewDispatchProofs`), for all timers and any number of stubborn processes: types,
`DispatchWithinBudget`, `AtMostOneRetryPerModel` (from `AttemptsFitBudget`: each spawn begins within the time
the attempts before it had), `OneWorkingCodex`, and `OneCodexAtATime` under `~TimeoutReadsAsQuota`. Liveness
is only model-checked. The broker attempt ends here with an answer, a failure or an error; what makes it
one or another, and so what is paid for twice, is in `BrokerReview` (`NoSecondSpend`), and that
it can also end the whole hook is what `broker_fallback` shows.

### CodexPairHook, RepetitionCounter

`main()` of `codex-pair-watch.mjs` for the hooks of one file. `history` is what the editor wrote, `seen` the
edit whose content a hook read (before it has the lock), `sent` what it will show codex of it, `cache`,
`shard` and `lock` the files, `reviews` and `tally` what codex answered. Actions follow the function: gates
and read (`Skip`, `Unreadable`, `ReadFile`), the partial view of a big file (`BuildAdaptiveContext`), cache
lookup and the hit path (`CheckCache`, `EmitCached`), lock (`Acquire`, `Coalesce`, `LockFails`), dispatch,
cache write and eviction, load and save of the shard, message, exit. A hook in `Mortal` may crash (exit
handlers run) or be killed (they do not) anywhere. File writes may fail, and so may the unlink at exit.

The lock is exclusive only as long as `ReviewMutex` promises it: `trusted`. A kill, an exit whose unlink fails,
or, with `Overruns`, a review that outlives the lock's lifetime end that, and from then on a hook may take the
lock of a live one (`Recover`, `Stealable`): this is what `InflightLock` lets recoverers do to each other, and
what `lock_overrun` shows of the default timeout. Hooks then overlap, and load and save of two of them interleave.

`Sweep` is `sweepStaleRepetitions` in a hook of any file: it asks for no lock, so it may unlink the shard
between a load and its save. The reader's count survives that, because the save writes it whole; `Remembered`
says so, and the counts of `RepetitionCounter` are what is remembered. That specification promises atomic
counting as long as the users of a shard take turns (`exclusive`). The age of a shard is left out: any shard may
have been found old before something else made it new. Of the cache key, the model and the threshold are left
out: they are the configuration's, whichever model answers.

A big file is shown as its first lines, from what was read, with `git diff` against HEAD, which reads the
file again: an edit in between makes one prompt of two contents. If git tells nothing - it fails, takes five
seconds, has no diff or one that is too long - the prompt is head and tail of what was read. Two contents
with one `Outline` then make the same prompt and share a cache entry, so an edit to the middle of such a
file is answered from the cache; `CacheIsFaithful` says what such an answer is still good for. HEAD is taken
to stay where it is: a diff tells the content.

| run | shows |
|---|---|
| `hook` | two edits with undo, small or big, the first hook mortal, reviews that outlive the lock, unlinks that fail, eviction and expiry, the shard swept at any time: a cache entry is codex's answer to that very prompt; a BLOCKING banner needs `Threshold` live reviews, although hooks that overlap may lose counts; until a lock is left behind or outlived load and save act as one step of `RepetitionCounter`; until then, and until somebody dies, the lock is used as `ReviewMutex` says; until somebody dies every cache miss ends in a message of the hook or of the one it yielded to |
| `hook_coalesce` (violation) | an edit coalesced with a review of older content is never reviewed |

Bounds: a small and a big content let a prompt mix the two and an edit be undone and redone; `hook_coalesce` has
two big ones with one outline as well. Two edits are a review and one that yields to it, overtakes it, takes its
lock, or comes after it. `CacheMax` = 1 makes every second prompt evict. The shard holds one concern, which
earlier reviews flagged once (`Earlier`): a lost count or reset then shows (1 to 0 by one hook, to 2 by the
other), and `Threshold` = 3 is reached by two reviews and could be reached wrongly by a review and a hit.
Fairness: every hook process runs (the operating system), git's timer ends a diff, and the dispatch ends
(`HookEnds` above).

Proved (`CodexPairHookProofs`), for any number of edits, contents, concerns and deaths: types,
`CacheIsFaithful`, `BannerIsEarned`, `CountsReviews` and `UsesMutex`. The inductive parts are
`HooksAreOrderly`, `AnswersAreKept`, and, only while the lock is trusted, `HolderHasLock` (the lock belongs to
the one hook in its critical section) and `LoadIsCurrent` (what was loaded is what the shard holds, or it was
swept), which carry the two refinements. `CountsAreEarned` carries the banner and needs no lock: however hooks
overlap, what is in the shard, in a hook's hands or still to be counted never exceeds the live reviews.

### BrokerReview

One `runWithBroker`: `connectWebSocket`, `initializeBroker`, `submitReview` and the JSON-RPC client, against
an app-server. The hook is one event loop: a frame, a timer or a socket event is a task and is taken up
only when no awaited promise has settled (`Idle`); frames of one chunk are taken without that (`Receive`).
`armed` and `due` are the timers of pending requests, of the waiter and of the handshake, `reply` and
`completion` how promises settled, `handler` whether anything handles the waiter's promise, `link` and
`inbox` the connection, `requests` and `turn` the app-server's side. The app-server answers late, badly,
out of turn or never, completes a turn before it answers `turn/start`, sends frames that are not ours
(other threads, ids of its own requests, a close), and the socket may fail or close at any time.

The attempt ends and the connection is closed in different places, and each is an action: a connect that fails,
is refused or times out destroys its own socket (`ConnectFails`, `UpgradeRefused`, `HandshakeTimesOut`), a
refused `initialize` closes it in a catch (`CloseRefused`), everything after it in a `finally` (`CloseReviewed`).

| run | shows |
|---|---|
| `broker_review` | the answer is our own turn's, the attempt keeps its budget, given-up turns are interrupted, every way out closes the connection, the attempt ends, and of the turns the app-server confirmed only those that completed without a review are given to another codex (`NoSecondSpend`) |
| `broker_fallback` (violation) | `turn/start` without an id is a broker failure, but the waiter registered before it has no handler: the close rejects it and Node ends the hook in its fallback |

The connection is the one the next module promises: whole messages, in order.

Bounds: two frames in flight are one chunk with a response and a notification, one stray frame meets
every state, the timeouts 1, 1 and 2 let each fire before, with and after the others. Fairness: the
event loop runs and time passes; the app-server owes nothing.

Proved (`BrokerReviewProofs`), for all budgets, inbox lengths and numbers of stray frames:
types, `NoLeakedConnection` (`LinkFollowsStep`, `EndsHaveOutcomes`: what the connection is at each await and in
each block), `AttemptWithinBudget` (`AwaitsATimer` and `TimersMeetDeadline`: what is awaited
has settled or has a timer within the deadline — this is the `BrokerTime` that `ReviewDispatch` assumes),
`AnswerIsOwn` (`CompletionsAreTrue`), `RunningTurnsAreInterrupted` (`ConfirmedTurnsStarted`, `LossesAreReal`,
`AbortsSpeak`) and `NoSecondSpend`, from the same: a failure after a confirmed turn has a completion, and
completions tell the truth. `AttemptEnds` is only model-checked.

### BrokerTransport, MessageChannel

The websocket client of `lib/broker-transport.mjs`: `connectWebSocket` with its handshake timer and
socket events, `createFrameParser`, the encoders, `sendText` and `close`. A socket event or a chunk of data is
a task of the event loop; the parser's loop is taken frame by frame (`ParserStep`) with nothing else enabled
until it returns. Bytes are positions of the server's stream `Wire`, whose frames are given by a table
(`Frames`, `Begin`) that the assumption ties to the bytes; the parser sees the bytes alone. `received` is
where the network has come to, `consumed` what the parser has sliced off, `written` the frames the client
wrote, `sock` the socket with what Node does on a write after `end` or to a destroyed one.

`MessageChannel` is what the RPC layer relies on: frames taken in order, each once, text frames as messages
from the moment somebody listens, an end at the first fragment. No bytes, no chunks.

| property (run `transport`) | says |
|---|---|
| `ImplementsChannel` | however the stream is cut, the parser finds the server's frames at their bytes |
| `WrittenFramesAreSound` | what is written can be decoded, whatever form the length takes; control frames fit, nothing follows a CLOSE |
| `SettledSoundly` | a refused, expired or failed connect holds no socket; a resolved one was accepted, and no timer will destroy it |
| `ConnectSettles` | the promise settles, whatever the server does or does not do |
| `BreakingIsReported` | a connection that breaks, or meets a frame the parser cannot take, is reported closed |

Frames that arrive in one chunk with the upgrade response are parsed before the promise is resolved, so
before a listener can exist: they are dropped, although the comment at `broker-transport.mjs:390` says they
are fed. The module and its abstraction have it so (`listening`). A socket that the client has ended stays
half closed for as long as the server likes; that is not an error of the client, and no property denies it.

Bounds: eleven frames meet every opcode class, masked or not, each form of the length, an empty payload, a
PING too long for its PONG, a CLOSE with frames behind it, and a fragment; payload bytes look like headers, so
a parser that begins at a wrong byte finds frames that are not there; cuts fall into the head, into and
between headers, and between frames. Lengths are below 2^24 for what is received, 2^31 for what is sent.
Fairness: the event loop runs what is due; the network owes nothing.

Proved (`BrokerTransportProofs`), for every stream, every cut and every text: types, the two safety
invariants and the refinement. `Aligned` (the buffer begins where a frame begins) carries the refinement with
the lemmas `Decoding` and `WholeFrame`; `Phase` says which flags go together between two tasks; `Writing`
rests on `TextFramesAreSound` and `ControlFramesAreSound`.

### BrokerLifecycle

The `SessionStart` and `SessionEnd` hooks of a project's sessions, system call by system call:
`clearStaleBrokerState` (`ReadState`, `JudgeState`, `ClearDescriptor`, `ClearSocket`), `bootstrapBroker`
(`AcquireBrokerLock` … `ReleaseBrokerLock`, with `FailBootstrap` for the catch and the lock freed by the
`finally`) and `teardownBroker` (`ReadDescriptor`, `KillPid`, `GraceEnds`, the two unlinks, `TeardownReleases`).
`lock`, `descriptor` and `socket` are the files, `process` the app-servers, `peer` who answered a hook's
`initialize`. Any hook may be killed between two calls; any removal of a file or of the lock
directory may fail, which the code swallows everywhere (`Remaining`); an app-server may die, leaving its socket
file or removing it. A descriptor that is there can be read. Some sessions may run a plugin with another protocol version.

The code protects a bootstrap from other bootstraps, but not from a `SessionEnd` beside it, nor an
app-server of another protocol version from being forgotten. The properties say exactly how far it goes:

| property (run `broker_lifecycle`) | holds |
|---|---|
| `BootstrapsAreExclusive` | until the first session ends, whatever starts at once or is killed |
| `BootstrapsKeepNoChild` | always: a bootstrap that is not killed leaves only a published app-server |
| `PublishedBrokerAnswered`, `NoOrphanBroker` | while the course is calm: hooks take turns (and wait for an app-server that is stopping), no bootstrap is killed, no protocol version changes; app-servers may crash, `SessionEnd`s be killed and removals fail |
| `HooksEnd` | under fairness of each hook's own steps |

A lock directory is left behind by a killed bootstrap or by a removal that fails. It is not cleared by the next
`SessionStart`, as the comment at `broker-lifecycle.mjs:88` says it is, but only by a `SessionEnd`: nothing
looks at it in between. The properties are checked with such locks about; the hazard at that line has none of
its own, since the code does not do what the comment promises.

Bounds: two sessions are enough for each pair of hooks to interleave, for a second bootstrap over the
remains of a first, and for both protocol versions; three accidents kill a hook, an app-server and the hook
that recovers. Budgets are not counted: a wait gives up whenever it likes.

Proved (`BrokerLifecycleProofs`), for any number of sessions and accidents: types and the four safety
properties. `BootstrapsHoldTheLock` and `ChildrenAreSpawned` carry the unconditional ones; the calm ones
rest on `CalmHooksAreAlone`, `CalmStops`, `CalmBootstraps` and `PublishedBrokerListens`, which say at every
step of a hook which app-servers can be alive. `HooksEnd` is only model-checked.

### AskServer, ResponseCache, ChangeMode

One server from a tool call to its answer. A *job* is one run of an executor (`executeCodexCLI`,
`executeGeminiCLI`, `executeOllamaCLI`); a call starts one job, `multi-llm` several (`Begin`, which runs to
the first `await`). `process[j][a]` is the child or HTTP request of the first attempt or the fallback,
`settled` is `isResolved` of `executeCommand`, `killTimer` its SIGKILL timer. `ProcessEnds` is the provider;
`Close`, `SpawnFails` (the error event ahead of it), `Timeout` and `KillTimerFires` are callbacks, each with
everything the executor does next, up to its next `await`: `Resolved` (parse, usage, cache, session, chunks),
`SaveThrows` (the session cannot be saved, and the reply is lost) or `Rejected` (fallback or failure).
`Respond` answers the client. `ResponseCache` holds get, set, expiry and the eviction loop as operators,
`ChangeMode` the parser's loop, validation, grouping and chunking, with what chunking promises.

| property (run `ask_server`) | says |
|---|---|
| `CacheWithinLimits` | entries, bytes and the running total stay right through replacement, expiry, eviction and oversized responses |
| `CachedAnswersAreAsked` | a cached answer is of the model asked (a fallback's never is) and fresh |
| `OneProcessPerJob` | the fallback does not run beside the first process |
| `AnswersStand` | a late close changes neither an answer nor a cache, usage or session |
| `SessionsKeepTurns` | overlapping calls in one session lose no turn: the file is read again after the `await` |
| `ChunksAreExact` | chunks hold every edit once, within the limit, files whole where they fit; a chunk file is one whole reply |
| `CallsEnd` | every call is answered and its processes end, unless the parser hangs |

The parser can hang: its `continue` on a filename mismatch (`changeModeParser.ts:64`) skips the `exec` that
would move the loop on. The model has it as `hung`, from which the server does nothing more. "429" is one of
Codex's quota signals and a timeout's message names its length, so with such a timeout the fallback starts
beside the first process: `TimeoutReadsAsQuota`, FALSE in the run, free in the proofs. The run with TRUE also
passes; it has 1.1 million states and takes five times as long.

Bounds: two jobs are a `multi-llm` call, or two calls that overlap in a session or on the cache; what
more calls would leave in the cache is an initial state (`SomeCaches`: empty, or full with two entries that
the response to `p1` must both evict). `MaxTime` 1 over `Ttl` 0 lets an entry expire between two calls. The
replies in `SomeReplies` are a file met twice, one that alone exceeds a chunk, chunks exactly full, an edit
that exceeds one, an invalid edit, and a mismatch. Three messages: a second turn cuts
into the first; one session file and one chunk file make every other save evict.
Fairness: the event loop runs what is due, and Node's `fetch` gives up on a silent server (its
`headersTimeout`); nothing is assumed of the CLIs, whose end is the timers' work.

Abstracted: a process's output is how it ends (`Endings`); a workspace-trust error is any other error;
an empty response, which the cache keeps but `if (cached)` does not hand out, is a response like others;
`includeDirs` are part of the prompt; file writes succeed, and the file system calls of another
server do not come between (that is `SharedFiles`); `fetch-chunk` reads only. Codex and Gemini keep their sessions themselves.

Proved (`AskServerProofs`), for any jobs, requests, limits and initial caches: types and all six safety
properties. `CallsEnd` is only model-checked, but the safety it rests on is proved (`NobodyIsLeftWaiting`): a
job without a result has an attempt that is listened to unless the server hangs, a process that outlives its
timeout has SIGKILL due, an answered call has all its results. `NothingBeforeItsStart` strengthens it.

- The inductive invariant `IInv` has, beside types, `NotBegun`, `LateEndsAreSettled` (of a job with a result,
  whoever still runs is not listened to), `CacheIsTrue` (an entry is a response to its key) and `IsCache`.
  `CachedAnswersAreAsked`, `OneProcessPerJob` and `AnswersStand` follow.
- `CacheWithinLimits` needs `IsCache`: its limits, that the running total is the sum of the sizes, and that
  no two entries share a key (by which the bytes of one are told from those of another). The sum
  is a number of *bytes*: an entry stands for as many pairs of its key and a place as its size says, and
  `SizeIsBytes` shows by induction that the fold `SizeOfAll` counts them. Then what `set` evicts and adds is
  arithmetic of finite sets (`EvictedLeavesRoom`, `SetKeeps`, `GetKeeps`).
- `SessionsKeepTurns` needs `SessionsWithinLimits`, that a session has one file. `SavedIs` says what a save
  does to a directory: the file is in it, every other was there before, the oldest beyond the limit are gone.
- `ChunksAreExact` needs `ChunksAreOfReplies`: a chunk file is the chunking of the result of a job that asked
  for its prompt, which stands because results and requests do. That a chunking is exact is
  `ChunkingIsExact`, for every sequence of edits: `groupEditsByFile` yields one group for a file, with its
  edits in order (`GroupsAreOfFiles`), and `CutSoFar` holds after every group and every edit added: the chunks
  and the current one, joined, are the edits so far; each chunk is within the limit or one edit; each file
  that fits is whole in one chunk.

Assumed of the constants, beyond their types: the caches earlier calls leave (`WarmCaches`) are caches, which
`MethodsKeepCaches` shows of all that `get` and `set` can make of an empty one, and hold responses to their
keys; what Gemini replies in change mode (`EditReplies`) is a sequence of blocks.

### SharedFiles, ReviewLog

`SharedFiles` is what several servers do to one temporary directory: `sessions.ts` (load, append, save by
rename) and `chunkCache.ts` (write in place), with the sweep of the expired and the limit on files both have.
Every system call of every server is an action, a server may be killed between any two, and the disk may
refuse a write. `store` says which of the two stores a behaviour is about; `at` is a server's next call, `got`,
`names`, `aged`, `clock` and `victims` its locals, `opened` the inode it writes to. `written`, `lineage`,
`disturbed` and `overlaid` are history.

`ReviewLog` is `appendLog`, `clampReason` and `rotateLogIfNeeded` of `lib/state.mjs` for the hooks of all
files, which share the log and no lock: open, append, stat, open, read, rename. `nodes` are the files that
have had the log's name, as a hook goes on with the one it has opened.

| property (run `files`) | says |
|---|---|
| `LoadsAreWhole` | a load returns what one save wrote under that key, never a torn file, a mixed one or another key's |
| `TurnsAreKept` | a session has its last `MaxTurns` turns unless the file changed between a load and the save that followed it |
| `LogKeepsTheNewest` | the log is in order, without doubles, and lacks only entries that are `MaxLogEntries` old or were appended beside a rotation |
| `QuietLogIsBounded` | when nobody is at it the log is within one of its limits, unless a hook was stopped before its rotation and none has rotated since |

The two exceptions are what the code has: no lock protects a session or the log. The properties say that
there is no other way to lose anything.

Bounds: two servers, two keys and one file allowed, so that each save evicts the other's; three saves are one
that is overtaken and one after; `MaxTurns` 1 trims at the second turn, `MaxTime` 1 over `Ttl` 0 expires a file
in the middle of a load or a sweep. Three hooks are one that appends, one that rotates and one whose rotation
crosses that; an entry of one byte or of three, with `MaxLogBytes` 3 and `MaxLogEntries` 1, rotates at the
second or third. Servers, keys and hooks are interchangeable. The two modules have no variable in common, and
`moving` lets one of them move.

Abstracted: `updatedAt` and the mtime of the temporary file are one reading of the clock; a file that another
writer left half written or partly overwritten does not parse (`whole`); the directories exist, and the log
does, empty; of `clampReason` only where it cuts and the size are kept.

Proved (`SharedFilesProofs`), for any servers, keys, hooks, limits and entries: types of both and all four
properties. `Wholeness` adds to `LoadsAreWhole` that a whole file has something written; `Lineage` adds to
`TurnsAreKept` what an undisturbed server has loaded (trimming before and after an append is trimming once:
`TrimmedTwice`); `Watched` says who is still at a log that is too long, with `TailsAreShort`; `LogIsSound`
says the same as `LogKeepsTheNewest` of what every hook has read or is about to read.

## 4. Findings

| run | the repository says | the code does |
|---|---|---|
| `lock_overrun` | stale recovery "never steals still-valid locks" | the TTL covers one attempt of up to four |
| `dispatch_escalation` | "SIGTERM → SIGKILL escalation" | `process.exit` discards the SIGKILL timer |
| `broker_fallback` | after a `turn/start` failure "Hook falls back to spawnCodex" | an unhandled rejection ends the hook |
| `hook_coalesce` | the in-flight review sees "the cumulative content of all queued edits" | it reviews what was read before the lock |

`PROJECT.json` quotes the lines. `broker_fallback` depends on Node's default of ending a process on an
unhandled rejection, which nothing in the scripts changes.

Two more comments promise what the models, following the code, do not do; no run states them. A stuck lock
directory is not cleared "by stale-recovery at next SessionStart" (`broker-lifecycle.mjs:88`, see
BrokerLifecycle). A connection lost after the handshakes rejects with plain errors (`broker-rpc.mjs:109-134`),
so the edit goes without a review (`Refusal` and `TurnCompleted` of `BrokerReview`), where
`codex-pair-watch.mjs:748-750` has transport failures fall through to `spawnCodex`.

## 5. What is proved, what is checked, what is left out

- Proved by TLAPS for all constants: the safety properties and refinements named above; assumptions are
  the named `ASSUME`s of each module, plus those written in a theorem's own `ASSUME` (`ReviewsFitTtl`,
  `~TimeoutReadsAsQuota`). TLC evaluates the module assumptions in every run.
- Only model-checked: every liveness property (`HookEnds`, `AttemptEnds`, `ConnectSettles`,
  `BreakingIsReported`, `HooksEnd`, `VerdictFollows`, `CallsEnd`), as fairness and `ENABLED` are outside the
  prover, and the violations. Every safety property and refinement of a passing run is a theorem.
- Induction over data: the library's induction theorems take an operator, which the provers here cannot
  instantiate. `AskServerProofs` proves induction over the naturals and over sequences for *sets*
  (`InductionOnNat`, from well-foundedness; `InductionOnSeq`) and reads each fold as a run of its step, the
  function of the values it goes through (`RunExists`, `FoldIsRun`). A fold then has three facts, its type, its
  value at `<<>>` and its value at `Append(s, e)`, and nothing else of its definition is used.
- Abstractions common to all modules: file contents and messages are small sets; a rename or an exclusive
  create is atomic, as POSIX has it; pids are not reused; the clock is integer and shared by all processes.
- Not modelled:
  - the mode bits of the session directory, progress notifications, the REPL (one
    prompt at a time, from a terminal), the registration of tools with the MCP SDK;
  - the rules of `.codex-pair/include` and `ignore`: `Skip` may happen to any hook;
  - the order in which a `SessionEnd` and a `SessionStart` that runs beside it remove each other's files
    (hazard at `broker-lifecycle.mjs:547`): the code promises nothing there, and every property of
    `BrokerLifecycle` that could say more holds only while hooks take turns;
  - `parser.mjs`, `prompt.mjs` and other text building (data without control state); the payload bytes of
    a frame and their masking; Windows variants of killing and spawning;
  - the log viewer, `doctor`, logger and shell path (one-shot reading), the packaging scripts, the web site
    and documentation under `apps` and `docs`, agents and skills. `PROJECT.json` lists each with its reason.

Run a model with `tlc -config <cfg> <module>`, a proof with `tlapm <module>Proofs.tla`, both in this
directory; `PROJECT.json` names the module of each configuration.
