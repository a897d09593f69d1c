------------------------------- MODULE AskServer -------------------------------
(* An MCP server of the monorepo from a tool call to its answer: ask-gemini,  *)
(* ask-codex, ask-ollama, ask-llm, multi-llm and ask-gemini-edit over the     *)
(* executors, the child processes they spawn, the response cache, the usage   *)
(* counts, the session files and the chunk files.                             *)
(*                                                                            *)
(* A job is one run of an executor; a tool call starts one job, multi-llm one *)
(* per provider.  JavaScript runs one callback at a time, with the promise    *)
(* reactions it triggers: an action is a callback of the event loop, or an    *)
(* event outside the server (a child ends, a file is swept, time passes).     *)
EXTENDS ResponseCache, ChangeMode

CONSTANTS
    JobBound,           \* bound: executor runs
    WarmCaches,         \* what earlier calls may have left in the cache at 0
    MaxTime,            \* bound: the clock, in units a response may age
    Prompts, Sessions, NoSession,
    Requests,           \* the requests of the single-provider tools
    EditReplies,        \* what Gemini may reply in change mode, as blocks
    ByteSize,           \* the size of the response to a prompt
    MaxMessages,        \* MAX_MESSAGES_PER_SESSION
    MaxSessions,        \* MAX_SESSION_FILES
    MaxChunkFiles,      \* MAX_CACHE_FILES
    TimeoutReadsAsQuota \* Codex's timeout is a number with "429" in it

Providers == {"gemini", "codex", "ollama"}
Models == {"default", "fallback"}
Response == [provider : Providers, prompt : Prompts, model : Models]
Request == [tool : {"ask", "edit"}, provider : Providers, prompt : Prompts,
            model : Models, session : Sessions \cup {NoSession}]

ASSUME ServerAssumption ==
    /\ {JobBound, MaxTime} \subseteq Nat
    /\ NoSession \notin Sessions
    /\ Requests \subseteq Request
    /\ \A r \in Requests : r.tool = "edit" => r.provider = "gemini" /\ r.session = NoSession
    /\ EditReplies \subseteq Seq(Edit)
    /\ ByteSize \in [Prompts -> Nat]
    /\ \A c \in WarmCaches : IsCache(c)
    /\ \A c \in WarmCaches : \A e \in c.entries :
        e.key \in Response /\ e.response = e.key /\ e.createdAt = 0
    /\ {MaxMessages, MaxSessions, MaxChunkFiles} \subseteq Nat \ {0}
    /\ TimeoutReadsAsQuota \in BOOLEAN

Jobs == 1..JobBound
(* The two times an executor may call its provider.                           *)
Attempts == {"first", "second"}

VARIABLES
    now,        \* Date.now()
    begun,      \* how many jobs were started
    call,       \* per job: the first job of its tool call, 0 before it starts
    request,    \* per job: what its executor was asked
    process,    \* per job and attempt: the provider's process or HTTP request
    settled,    \* per job and attempt: isResolved of executeCommand
    killTimer,  \* per job and attempt: SIGTERM was sent and SIGKILL is due
    context,    \* per job: the earlier messages of its session it sent along
    result,     \* per job: what its executor returned
    answered,   \* tool calls (by first job) the client has the answer of
    cache,      \* responseCache
    usage,      \* per provider: calls and fellBack of the session usage
    sessions,   \* session files, oldest modification first
    chunkFiles, \* chunk files, oldest modification first
    hung        \* a callback of the server never returns

vars == <<now, begun, call, request, process, settled, killTimer, context, result,
          answered, cache, usage, sessions, chunkFiles, hung>>

-----------------------------------------------------------------------------
(* How a process may end: with a reply; with output that holds none ("raw":   *)
(* text without JSON, or Ollama's empty content); with an error that calls    *)
(* for the other model (quota, or model not found); with any other error.     *)
Endings == {"reply", "raw", "retry", "error"}
States == {"none", "running", "closed"} \cup Endings

(* With output that is no reply the executors answer the raw text.            *)
IsAnswer(e) == e \in {"reply", "raw"}

(* "429" is one of Codex's quota signals, and a timeout's message names its   *)
(* length.                                                                    *)
TimeoutIsQuota(r) == TimeoutReadsAsQuota /\ r.provider = "codex"

(* Quota and missing models call for the fallback, once, and only if it is    *)
(* not the model that was asked.                                              *)
CallsForFallback(r, a, e) ==
    /\ e = "retry" \/ (e = "timeout" /\ TimeoutIsQuota(r))
    /\ a = "first"
    /\ r.model # "fallback"

(* Gemini's raw text carries no usage; the others' results always do.         *)
RecordsUsage(r, e) == e = "reply" \/ r.provider # "gemini"

NoRequest == [tool |-> "none"]
Pending == [from |-> "pending"]
Failed == [from |-> "failed"]

(* An Ollama request is an HTTP request of the server's own.                  *)
HasChild(r) == r.provider # "ollama"

isCacheable(r) == r.tool = "ask" /\ r.session = NoSession

(* Only a first attempt is cached, and of Ollama only a reply with content.   *)
IsCached(r, a, e) ==
    a = "first" /\ isCacheable(r) /\ (e = "reply" \/ r.provider # "ollama")

(* Ollama's turns are kept by the server; a fallback keeps empty content too. *)
StoresTurn(r, a, e) ==
    r.provider = "ollama" /\ r.session # NoSession /\ (e = "reply" \/ a = "second")

buildKey(r) == [provider |-> r.provider, prompt |-> r.prompt, model |-> r.model]

LastOf(s, n) == IF Len(s) > n THEN SubSeq(s, Len(s) - n + 1, Len(s)) ELSE s

(* A directory of files after one is written: it is now the youngest, and the *)
(* oldest beyond the limit are removed.                                       *)
Saved(files, file, limit) ==
    LET same == {i \in DOMAIN files : files[i].id = file.id}
        others == IF same = {} THEN files ELSE RemoveAt(files, CHOOSE i \in same : TRUE)
    IN  LastOf(Append(others, file), limit)

loadSession(s) ==
    IF \E i \in DOMAIN sessions : sessions[i].id = s
    THEN (CHOOSE f \in {sessions[i] : i \in DOMAIN sessions} : f.id = s).messages
    ELSE <<>>

Turn(j, text) == << [role |-> "user", of |-> j, text |-> "prompt"],
                    [role |-> "assistant", of |-> j, text |-> text] >>

-----------------------------------------------------------------------------
Init ==
    /\ now = 0
    /\ begun = 0
    /\ call = [j \in Jobs |-> 0]
    /\ request = [j \in Jobs |-> NoRequest]
    /\ process = [j \in Jobs |-> [a \in Attempts |-> "none"]]
    /\ settled = [j \in Jobs |-> [a \in Attempts |-> FALSE]]
    /\ killTimer = [j \in Jobs |-> [a \in Attempts |-> FALSE]]
    /\ context = [j \in Jobs |-> <<>>]
    /\ result = [j \in Jobs |-> Pending]
    /\ answered = {}
    /\ cache \in WarmCaches
    /\ usage = [p \in Providers |-> [calls |-> 0, fellBack |-> 0]]
    /\ sessions = <<>>
    /\ chunkFiles = <<>>
    /\ hung = FALSE

(* A tool call reaches the server: its executors run up to the point where    *)
(* they wait, each with the cached response or with a process spawned.        *)
Begin(rs) ==
    LET new == {begun + i : i \in DOMAIN rs}
        asked(j) == rs[j - begun]
        hit(j) == IF isCacheable(asked(j)) THEN Fresh(cache, buildKey(asked(j)), now) ELSE {}
        keys == {buildKey(rs[i]) : i \in {k \in DOMAIN rs : isCacheable(rs[k])}}
    IN  /\ ~hung
        /\ begun + Len(rs) <= JobBound
        /\ begun' = begun + Len(rs)
        /\ call' = [j \in Jobs |-> IF j \in new THEN begun + 1 ELSE call[j]]
        /\ request' = [j \in Jobs |-> IF j \in new THEN asked(j) ELSE request[j]]
        /\ context' = [j \in Jobs |->
                IF j \in new /\ asked(j).provider = "ollama"
                THEN loadSession(asked(j).session) ELSE context[j]]
        /\ cache' = Get(cache, keys, now)
        /\ result' = [j \in Jobs |->
                IF j \in new /\ hit(j) # {}
                THEN LET e == CHOOSE e \in hit(j) : TRUE
                     IN  [from |-> "cache", response |-> e.response, age |-> now - e.createdAt]
                ELSE result[j]]
        /\ process' = [j \in Jobs |->
                IF j \in new /\ hit(j) = {}
                THEN [process[j] EXCEPT !["first"] = "running"] ELSE process[j]]
        /\ UNCHANGED <<now, settled, killTimer, answered, usage, sessions, chunkFiles, hung>>

Ask == \E r \in Requests : Begin(<<r>>)

(* multi-llm: several providers at once, with their default models and no     *)
(* session.                                                                   *)
MultiLlm ==
    \E p \in Prompts, ps \in SUBSET Providers :
        /\ Cardinality(ps) > 1
        /\ Begin(SetToSeq({[tool |-> "ask", provider |-> q, prompt |-> p,
                           model |-> "default", session |-> NoSession] : q \in ps}))

(* The provider's process ends, or its HTTP request does; how it does is told *)
(* apart only while somebody listens.                                         *)
ProcessEnds(j, a) ==
    /\ process[j][a] = "running"
    /\ \E e \in IF settled[j][a] THEN {"error"} ELSE Endings :
            process' = [process EXCEPT ![j][a] = e]
    /\ UNCHANGED <<now, begun, call, request, settled, killTimer, context, result,
                   answered, cache, usage, sessions, chunkFiles, hung>>

(* What an executor does with an error: on a first attempt with its default   *)
(* model, an error that calls for it starts the fallback model; every other   *)
(* error is the job's.                                                        *)
RejectedAny(j, a, e, ended) ==  \* mutant of Rejected
    LET again == e \in {"retry", "timeout"} /\ a = "first" /\ request[j].model # "fallback"
    IN  /\ process' = IF again THEN [ended EXCEPT ![j]["second"] = "running"] ELSE ended
        /\ result' = IF again THEN result ELSE [result EXCEPT ![j] = Failed]
        /\ UNCHANGED <<cache, usage, sessions, chunkFiles, hung>>
Rejected(j, a, e, ended) ==
    LET again == CallsForFallback(request[j], a, e)
    IN  /\ process' = IF again THEN [ended EXCEPT ![j]["second"] = "running"] ELSE ended
        /\ result' = IF again THEN result ELSE [result EXCEPT ![j] = Failed]
        /\ UNCHANGED <<cache, usage, sessions, chunkFiles, hung>>

ModelOf(j, a) == IF a = "first" THEN request[j].model ELSE "fallback"

(* The cache keeps what the first attempt of a job without a session got.     *)
CacheAfterAny(j, a, e) ==  \* mutant of CacheAfter
    LET r == request[j]
        response == [provider |-> r.provider, prompt |-> r.prompt, model |-> ModelOf(j, a)]
    IN  IF isCacheable(r)
        THEN Set(cache, buildKey(r), response, ByteSize[r.prompt], now)
        ELSE cache
CacheAfter(j, a, e) ==
    LET r == request[j]
        response == [provider |-> r.provider, prompt |-> r.prompt, model |-> ModelOf(j, a)]
    IN  IF IsCached(r, a, e)
        THEN Set(cache, buildKey(r), response, ByteSize[r.prompt], now)
        ELSE cache

(* Usage is recorded when the reply carries it.                               *)
UsageAfter(j, a, e) ==
    LET p == request[j].provider
    IN  IF RecordsUsage(request[j], e)
        THEN [usage EXCEPT ![p].calls = @ + 1,
                           ![p].fellBack = @ + (IF a = "second" THEN 1 ELSE 0)]
        ELSE usage

(* appendAndSaveSession reads the file again: the turn comes after all that   *)
(* was saved since the job began.                                             *)
SessionsAfterStale(j, a, e) ==  \* mutant of SessionsAfter
    LET s == request[j].session
        text == IF e = "reply" THEN "content" ELSE "empty"
    IN  IF StoresTurn(request[j], a, e)
        THEN Saved(sessions,
                   [id |-> s, messages |-> LastOf(context[j] \o Turn(j, text), MaxMessages)],
                   MaxSessions)
        ELSE sessions
SessionsAfter(j, a, e) ==
    LET s == request[j].session
        text == IF e = "reply" THEN "content" ELSE "empty"
    IN  IF StoresTurn(request[j], a, e)
        THEN Saved(sessions,
                   [id |-> s, messages |-> LastOf(loadSession(s) \o Turn(j, text), MaxMessages)],
                   MaxSessions)
        ELSE sessions

(* cacheChunks: the key is a hash of the prompt alone.                        *)
cacheChunks(prompt, chunks) ==
    Saved(chunkFiles, [id |-> prompt, chunks |-> chunks], MaxChunkFiles)

(* processChangeModeOutput: valid edits that need several chunks are kept for *)
(* fetch-chunk.                                                               *)
ChunkFilesAfter(j, edits) ==
    LET chunks == chunkChangeModeEdits(edits)
    IN  IF request[j].tool = "edit" /\ validateChangeModeEdits(edits) /\ Len(chunks) > 1
        THEN cacheChunks(request[j].prompt, chunks)
        ELSE chunkFiles

Resolved(j, a, e, ended) ==
    \E blocks \in (IF request[j].tool = "edit" THEN EditReplies ELSE {<<>>}) :
        /\ process' = ended
        /\ usage' = UsageAfter(j, a, e)
        /\ \/ /\ ParserHangs(blocks)
              /\ hung' = TRUE
              /\ UNCHANGED <<result, cache, sessions, chunkFiles>>
           \/ /\ ~ParserHangs(blocks)
              /\ result' = [result EXCEPT ![j] =
                    [from |-> a, edits |-> parseChangeModeOutput(blocks),
                     response |-> [provider |-> request[j].provider,
                                   prompt |-> request[j].prompt, model |-> ModelOf(j, a)]]]
              /\ cache' = CacheAfter(j, a, e)
              /\ sessions' = SessionsAfter(j, a, e)
              /\ chunkFiles' = ChunkFilesAfter(j, parseChangeModeOutput(blocks))
              /\ UNCHANGED hung

CloseUnguarded(j, a) ==  \* mutant of Close
    LET e == process[j][a]
        ended == [process EXCEPT ![j][a] = "closed"]
    IN  /\ ~hung
        /\ e \in Endings
        /\ settled' = [settled EXCEPT ![j][a] = TRUE]
        /\ \/ IsAnswer(e) /\ Resolved(j, a, e, ended)
           \/ ~IsAnswer(e) /\ Rejected(j, a, e, ended)
        /\ UNCHANGED <<now, begun, call, request, killTimer, context, answered>>

(* appendAndSaveSession throws, on an unsafe id or a directory it refuses: it *)
(* is called in the executor's try, and the reply is lost as an error.        *)
SaveThrows(j, a, e, ended) ==
    /\ StoresTurn(request[j], a, e)
    /\ Rejected(j, a, "error", ended)

(* The close event of a child, or the end of an HTTP request: the first to    *)
(* settle the promise decides, and its executor goes on at once.              *)
Close(j, a) ==
    LET e == process[j][a]
        ended == [process EXCEPT ![j][a] = "closed"]
    IN  /\ ~hung
        /\ e \in Endings
        /\ settled' = [settled EXCEPT ![j][a] = TRUE]
        /\ \/ /\ settled[j][a]
              /\ process' = ended
              /\ UNCHANGED <<result, cache, usage, sessions, chunkFiles, hung>>
           \/ /\ ~settled[j][a]
              /\ IsAnswer(e)
              /\ Resolved(j, a, e, ended) \/ SaveThrows(j, a, e, ended)
           \/ /\ ~settled[j][a]
              /\ ~IsAnswer(e)
              /\ Rejected(j, a, e, ended)
        /\ UNCHANGED <<now, begun, call, request, killTimer, context, answered>>

(* The error event of a child that cannot be run, ahead of its close event.   *)
SpawnFails(j, a) ==
    /\ ~hung
    /\ process[j][a] = "error"
    /\ HasChild(request[j])
    /\ ~settled[j][a]
    /\ settled' = [settled EXCEPT ![j][a] = TRUE]
    /\ Rejected(j, a, "error", process)
    /\ UNCHANGED <<now, begun, call, request, killTimer, context, answered>>

(* The timer of executeCommand: SIGTERM, a SIGKILL timer, and the executor    *)
(* gets an error while the process may still run.                             *)
Timeout(j, a) ==
    /\ ~hung
    /\ process[j][a] \notin {"none", "closed"}
    /\ HasChild(request[j])
    /\ ~settled[j][a]
    /\ settled' = [settled EXCEPT ![j][a] = TRUE]
    /\ killTimer' = [killTimer EXCEPT ![j][a] = TRUE]
    /\ Rejected(j, a, "timeout", process)
    /\ UNCHANGED <<now, begun, call, request, context, answered>>

KillTimerSkips(j, a) ==  \* mutant of KillTimerFires
    /\ ~hung
    /\ killTimer[j][a]
    /\ killTimer' = [killTimer EXCEPT ![j][a] = FALSE]
    /\ process' = IF process[j][a] = "running" /\ ~settled[j][a]
                  THEN [process EXCEPT ![j][a] = "error"] ELSE process
    /\ UNCHANGED <<now, begun, call, request, settled, context, result, answered,
                   cache, usage, sessions, chunkFiles, hung>>

(* The SIGKILL timer: it runs on whatever happened since.                     *)
KillTimerFires(j, a) ==
    /\ ~hung
    /\ killTimer[j][a]
    /\ killTimer' = [killTimer EXCEPT ![j][a] = FALSE]
    /\ process' = IF process[j][a] = "running"
                  THEN [process EXCEPT ![j][a] = "error"] ELSE process
    /\ UNCHANGED <<now, begun, call, request, settled, context, result, answered,
                   cache, usage, sessions, chunkFiles, hung>>

(* The handler returns to the client once all jobs of its call are done.      *)
Respond(c) ==
    /\ ~hung
    /\ c \in Jobs \ answered
    /\ call[c] = c
    /\ \A j \in Jobs : call[j] = c => result[j] # Pending
    /\ answered' = answered \cup {c}
    /\ UNCHANGED <<now, begun, call, request, process, settled, killTimer, context,
                   result, cache, usage, sessions, chunkFiles, hung>>

(* A file expires: loads and saves of any server treat it as absent and       *)
(* remove it.                                                                 *)
SessionExpires ==
    /\ \E i \in DOMAIN sessions : sessions' = RemoveAt(sessions, i)
    /\ UNCHANGED <<now, begun, call, request, process, settled, killTimer, context,
                   result, answered, cache, usage, chunkFiles, hung>>

ChunkFileExpires ==
    /\ \E i \in DOMAIN chunkFiles : chunkFiles' = RemoveAt(chunkFiles, i)
    /\ UNCHANGED <<now, begun, call, request, process, settled, killTimer, context,
                   result, answered, cache, usage, sessions, hung>>

Tick ==
    /\ now < MaxTime
    /\ now' = now + 1
    /\ UNCHANGED <<begun, call, request, process, settled, killTimer, context, result,
                   answered, cache, usage, sessions, chunkFiles, hung>>

Next ==
    \/ Ask
    \/ MultiLlm
    \/ \E j \in Jobs, a \in Attempts :
        \/ ProcessEnds(j, a) \/ Close(j, a) \/ SpawnFails(j, a)
        \/ Timeout(j, a) \/ KillTimerFires(j, a)
    \/ \E c \in Jobs : Respond(c)
    \/ SessionExpires
    \/ ChunkFileExpires
    \/ Tick

Spec == Init /\ [][Next]_vars

(* The event loop does not rest while a callback or a timer is due, and       *)
(* Node's fetch gives up on a server that stays silent (its headersTimeout).  *)
(* Nothing is assumed of the providers' CLIs.                                 *)
Callback ==
    \/ \E j \in Jobs, a \in Attempts :
        Close(j, a) \/ SpawnFails(j, a) \/ Timeout(j, a) \/ KillTimerFires(j, a)
    \/ \E c \in Jobs : Respond(c)

FetchEnds ==
    \E j \in 1..begun, a \in Attempts : ~HasChild(request[j]) /\ ProcessEnds(j, a)

Fairness == WF_vars(Callback) /\ WF_vars(FetchEnds)

FairSpec == Spec /\ Fairness

-----------------------------------------------------------------------------
(* Type correctness of the server's state.                                    *)
TypeOK ==
    /\ now \in 0..MaxTime
    /\ begun \in 0..JobBound
    /\ call \in [Jobs -> 0..JobBound]
    /\ request \in [Jobs -> Request \cup {NoRequest}]
    /\ \A j \in Jobs : request[j] = NoRequest <=> j > begun
    /\ process \in [Jobs -> [Attempts -> States]]
    /\ settled \in [Jobs -> [Attempts -> BOOLEAN]]
    /\ killTimer \in [Jobs -> [Attempts -> BOOLEAN]]
    /\ result = [j \in Jobs |-> result[j]]
    /\ \A j \in Jobs :
        /\ result[j].from \in {"pending", "failed", "cache"} \cup Attempts
        /\ result[j].from \in {"cache"} \cup Attempts => result[j].response \in Response
    /\ answered \subseteq Jobs
    /\ usage \in [Providers -> [calls : Nat, fellBack : Nat]]
    /\ hung \in BOOLEAN
    /\ \A e \in cache.entries : e.response \in Response /\ e.createdAt \in 0..now

(* The response cache keeps both of its limits, entries and bytes, and its    *)
(* running total is the size of what it holds, with one entry for a key: set, *)
(* get and the eviction loop of responseCache.ts never let the total drift.   *)
CacheWithinLimits ==
    /\ Cardinality(cache.entries) <= MaxEntries
    /\ cache.totalSizeBytes <= MaxBytes
    /\ cache.totalSizeBytes = SizeOfAll(cache.entries)
    /\ \A e, f \in cache.entries : e.key = f.key => e = f

(* A client that is answered from the cache is answered by the provider and   *)
(* the model it asked for, about its prompt, with a response no older than    *)
(* the cache's time to live, and never inside a session: what a fallback      *)
(* model said is never passed off as the default model's.                     *)
CachedAnswersAreAsked ==
    \A j \in Jobs : result[j].from = "cache" =>
        /\ isCacheable(request[j])
        /\ result[j].response = buildKey(request[j])
        /\ result[j].age <= Ttl

(* A job has at most one process at work for it: the executors start the      *)
(* fallback only when the first process is gone, and not after a timeout,     *)
(* when the first may still be running until SIGKILL, except where Codex's    *)
(* executor takes its own timeout for a quota error.                          *)
OneProcessPerJob ==
    \A j \in Jobs : process[j]["second"] # "none" =>
        \/ process[j]["first"] = "closed"
        \/ TimeoutIsQuota(request[j]) /\ settled[j]["first"]

(* What an executor returned stands: the late end of a process that timed out *)
(* (executeCommand's close after its timer) changes no answer, and no cache,  *)
(* usage or session beside it.                                                *)
AnswersStand ==
    [][\A j \in Jobs : result[j] # Pending =>
        /\ result'[j] = result[j]
        /\ \A a \in Attempts : process[j][a] # process'[j][a] =>
            UNCHANGED <<cache, usage, sessions, chunkFiles>>]_vars

(* A session file only changes by whole turns at its end, and is cut at its   *)
(* start only by the limit on messages: jobs that overlap in a session lose   *)
(* none of each other's turns (appendAndSaveSession of sessions.ts).          *)
SessionsKeepTurns ==
    [][\A s \in Sessions : loadSession(s)' # loadSession(s) =>
        \/ loadSession(s)' = <<>>
        \/ \E j \in Jobs, text \in {"content", "empty"} :
            loadSession(s)' = LastOf(loadSession(s) \o Turn(j, text), MaxMessages)]_vars

(* The chunks of an edit reply hold every edit of it once, in order within a  *)
(* file, each chunk within its limit, and a file that fits is not parted; the *)
(* chunk file of a prompt is the chunking of one whole reply to that prompt.  *)
ChunksAreExact ==
    /\ \A j \in Jobs :
        request[j].tool = "edit" /\ result[j].from \in Attempts =>
            LET edits == result[j].edits
                chunks == chunkChangeModeEdits(edits)
            IN  KeepsEveryEdit(edits, chunks)
                /\ KeepsTheLimit(chunks)
                /\ KeepsFilesWhole(edits, chunks)
    /\ \A i \in DOMAIN chunkFiles : \E j \in Jobs :
        /\ request[j].tool = "edit" /\ request[j].prompt = chunkFiles[i].id
        /\ result[j].from \in Attempts
        /\ FlattenSeq(chunkFiles[i].chunks)
                = FlattenSeq(chunkChangeModeEdits(result[j].edits))

(* Every tool call that reaches the server is answered and leaves no process  *)
(* behind, unless the change-mode parser never returns: whatever a provider's *)
(* CLI does, the timeout and the SIGKILL that follows it end both.            *)
CallsEnd ==
    []<>(\/ hung
         \/ \A j \in 1..begun :
                /\ call[j] \in answered
                /\ \A a \in Attempts : process[j][a] \in {"none", "closed"})

-----------------------------------------------------------------------------
(* Why the safety properties hold, as an inductive invariant.                 *)

(* Nothing has happened for a job that was not started.                       *)
NotBegun ==
    \A j \in Jobs : j > begun =>
        result[j] = Pending /\ process[j] = [a \in Attempts |-> "none"]

(* Whoever still works for a job that has its result is not listened to.      *)
LateEndsAreSettled ==
    \A j \in Jobs, a \in Attempts :
        result[j] # Pending /\ process[j][a] \notin {"none", "closed"} => settled[j][a]

(* What the cache holds under a key is a response to that key.                *)
CacheIsTrue ==
    \A e \in cache.entries : e.response = e.key

(* One file for a session, of no more messages than the limit, and no more    *)
(* files than theirs.                                                         *)
Message == [role : {"user", "assistant"}, of : Jobs, text : {"prompt", "content", "empty"}]
SessionFile == [id : Sessions, messages : Seq(Message)]

SessionsWithinLimits ==
    /\ sessions \in Seq(SessionFile)
    /\ Len(sessions) <= MaxSessions
    /\ \A i \in 1..Len(sessions) : Len(sessions[i].messages) <= MaxMessages
    /\ \A i, k \in 1..Len(sessions) : sessions[i].id = sessions[k].id => i = k

(* A result holds edits; one chunk file for a prompt, no more files than      *)
(* theirs, and each is the chunking of a reply to its prompt.                 *)
ChunkFile == [id : Prompts, chunks : Seq(Seq(Edit))]

IsChunkingOf(file, j) ==
    /\ request[j].tool = "edit" /\ request[j].prompt = file.id
    /\ result[j].from \in Attempts
    /\ file.chunks = chunkChangeModeEdits(result[j].edits)

ChunksAreOfReplies ==
    /\ \A j \in Jobs : result[j].from \in Attempts => result[j].edits \in Seq(Edit)
    /\ chunkFiles \in Seq(ChunkFile)
    /\ Len(chunkFiles) <= MaxChunkFiles
    /\ \A i, k \in 1..Len(chunkFiles) : chunkFiles[i].id = chunkFiles[k].id => i = k
    /\ \A i \in 1..Len(chunkFiles) : \E j \in Jobs : IsChunkingOf(chunkFiles[i], j)

(* What the end of every call rests on, whatever the CLIs do: a job without a *)
(* result has an attempt that is listened to, a process that runs on after    *)
(* its timeout has SIGKILL due, and a call that is answered waits for nobody. *)
NobodyIsForgotten ==
    /\ \A j \in 1..begun : result[j] = Pending =>
        hung \/ \E a \in Attempts : process[j][a] \notin {"none", "closed"} /\ ~settled[j][a]
    /\ \A j \in Jobs, a \in Attempts :
        settled[j][a] /\ process[j][a] = "running" => killTimer[j][a]
    /\ \A j \in Jobs : call[j] \in answered => result[j] # Pending

(* No callback is of an attempt or a call that was not started.               *)
NothingBeforeItsStart ==
    /\ \A j \in Jobs, a \in Attempts : process[j][a] = "none" => ~settled[j][a]
    /\ \A j \in Jobs : j > begun => call[j] = 0 /\ j \notin answered

IInv ==
    /\ TypeOK
    /\ NotBegun
    /\ LateEndsAreSettled
    /\ IsCache(cache)
    /\ CacheIsTrue
    /\ OneProcessPerJob
    /\ CachedAnswersAreAsked

=============================================================================
