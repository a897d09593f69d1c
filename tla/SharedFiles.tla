------------------------------ MODULE SharedFiles ------------------------------
(****************************************************************************)
(* The two stores MCP servers share through the temporary directory:        *)
(* sessions.ts, which appends a turn to a session by read, change and       *)
(* rename, and chunkCache.ts, which keeps the chunks of an edit reply under *)
(* a hash of its prompt and writes them in place.                           *)
(*                                                                          *)
(* A server is one process that calls the file system synchronously, so     *)
(* only the calls of different servers interleave: every system call is an  *)
(* action.  A server may be killed between any two of them.                 *)
(*                                                                          *)
(* Both stores have the same life of a file - load, sweep of the expired,   *)
(* write, enforcement of a maximum number - and one module shows it; store  *)
(* says which of the two a behaviour is about.                              *)
(****************************************************************************)
EXTENDS Integers, Sequences, FiniteSets

CONSTANTS
    Servers,      \* MCP server processes
    Keys,         \* session ids, or hashes of prompts
    Ttl,          \* SESSION_TTL_MS, CACHE_TTL
    MaxFiles,     \* MAX_SESSION_FILES, MAX_CACHE_FILES
    MaxTurns,     \* MAX_MESSAGES_PER_SESSION, in turns of two messages
    NoFile,
    NoKey,
    MaxTime,      \* bound on the clock
    SaveBound     \* bound on the saves

ASSUME StoreAssumption ==
    /\ IsFiniteSet(Servers)
    /\ NoKey \notin Keys
    /\ Ttl \in Nat
    /\ MaxFiles \in Nat \ {0}
    /\ MaxTurns \in Nat \ {0}
    /\ MaxTime \in Nat
    /\ SaveBound \in Nat

VARIABLES
    store,     \* "sessions" or "chunks"
    now,
    file,      \* what the directory has under the name of each key
    saves,     \* saves begun: names the turns, and the inodes
    at,        \* the system call each server makes next
    key,       \* the key it works on
    turn,      \* the turn or reply it saves, 0 when it only reads
    got,       \* what its load returned
    names,     \* the names its readdir returned and it has not visited
    aged,      \* those it has seen, with their mtimes
    clock,     \* what it has read from Date.now() and still uses
    victims,   \* those it goes on to unlink
    opened,    \* the inode it has opened for writing
    written,   \* history: the contents saved under each key
    lineage,   \* history: the turns of the session, since it was created
    disturbed, \* history: its key changed under it since it loaded
    overlaid   \* history: keys whose file was saved by a disturbed server

request == <<key, turn, clock>>
listing == <<names, aged, victims>>
lineages == <<written, lineage, overlaid>>
history == <<lineages, disturbed>>
ours == <<store, saves>>
storeVars == <<ours, now, file, at, request, got, opened, listing, history>>

Calls == {"idle", "exists", "read", "discard", "list", "sweep", "expire", "write", "rename",
          "open", "fill", "relist", "stat", "evict"}

Turns == Seq(Nat)
File == [inode : Nat, turns : Turns, stamp : Nat, mtime : Nat, whole : BOOLEAN]

StoreTypeOK ==
    /\ store \in {"sessions", "chunks"}
    /\ now \in 0..MaxTime
    /\ file \in [Keys -> File \cup {NoFile}]
    /\ saves \in Nat
    /\ at \in [Servers -> Calls]
    /\ key \in [Servers -> Keys \cup {NoKey}]
    /\ \A s \in Servers : at[s] # "idle" => key[s] \in Keys
    /\ turn \in [Servers -> Nat]
    /\ got \in [Servers -> Turns]
    /\ names \in [Servers -> SUBSET Keys]
    /\ aged \in [Servers -> SUBSET (Keys \X Nat)]
    /\ clock \in [Servers -> Nat]
    /\ victims \in [Servers -> SUBSET Keys]
    /\ opened \in [Servers -> Nat]
    /\ written \in [Keys -> SUBSET Turns]
    /\ lineage \in [Keys -> Turns]
    /\ disturbed \in [Servers -> BOOLEAN]
    /\ overlaid \in SUBSET Keys

StoreInit ==
    /\ store \in {"sessions", "chunks"}
    /\ now = 0
    /\ file = [k \in Keys |-> NoFile]
    /\ saves = 0
    /\ at = [s \in Servers |-> "idle"]
    /\ key = [s \in Servers |-> NoKey]
    /\ turn = [s \in Servers |-> 0]
    /\ got = [s \in Servers |-> <<>>]
    /\ names = [s \in Servers |-> {}]
    /\ aged = [s \in Servers |-> {}]
    /\ clock = [s \in Servers |-> 0]
    /\ victims = [s \in Servers |-> {}]
    /\ opened = [s \in Servers |-> 0]
    /\ written = [k \in Keys |-> {}]
    /\ lineage = [k \in Keys |-> <<>>]
    /\ disturbed = [s \in Servers |-> FALSE]
    /\ overlaid = {}

Goes(s, call) == at' = [at EXCEPT ![s] = call]
Forgets(s) == clock' = [clock EXCEPT ![s] = 0]
Present == {k \in Keys : file[k] # NoFile}
Expired(time, since) == time - since > Ttl

(* The directory changes under k; who has loaded k and has not saved it yet *)
(* is disturbed.                                                            *)
Works(t, k) == at[t] # "idle" /\ key[t] = k
Disturbed(s, k) == [t \in Servers |-> disturbed[t] \/ (t # s /\ Works(t, k))]
Settled(s, k) == [Disturbed(s, k) EXCEPT ![s] = FALSE]

Replaces(s, k, f) ==
    /\ file' = [file EXCEPT ![k] = f]
    /\ disturbed' = Settled(s, k)
Unlinks(s, k) ==
    /\ file' = [file EXCEPT ![k] = NoFile]
    /\ disturbed' = Disturbed(s, k)

-----------------------------------------------------------------------------
(* appendAndSaveSession, buildPriorMessages, cacheChunks and getChunks      *)

Begins(s, k) ==
    /\ at[s] = "idle"
    /\ key' = [key EXCEPT ![s] = k]
    /\ got' = [got EXCEPT ![s] = <<>>]
    /\ UNCHANGED <<store, now, file, clock, opened, listing, history>>

(* A session is loaded before it is saved; the chunks of a reply are not.   *)
BeginSave(s, k) ==
    /\ Begins(s, k)
    /\ saves < SaveBound
    /\ saves' = saves + 1
    /\ turn' = [turn EXCEPT ![s] = saves + 1]
    /\ Goes(s, IF store = "sessions" THEN "exists" ELSE "list")

(* buildPriorMessages, and fetch-chunk.                                     *)
BeginLoad(s, k) ==
    /\ Begins(s, k)
    /\ turn' = [turn EXCEPT ![s] = 0]
    /\ Goes(s, "exists")
    /\ UNCHANGED saves

(* The load returns; a save goes on with it.                                *)
Returns(s, turns) ==
    /\ got' = [got EXCEPT ![s] = turns]
    /\ Goes(s, IF turn[s] = 0 THEN "idle" ELSE "list")
    /\ UNCHANGED <<ours, now, request, opened, listing, lineages>>

Loads(s, turns) ==
    /\ Returns(s, turns)
    /\ disturbed' = [disturbed EXCEPT ![s] = FALSE]
    /\ UNCHANGED file

Exists(s) ==
    /\ at[s] = "exists"
    /\ file[key[s]] # NoFile
    /\ Goes(s, "read")
    /\ UNCHANGED <<ours, now, file, request, got, opened, listing, history>>

Misses(s) ==
    /\ at[s] = "exists"
    /\ file[key[s]] = NoFile
    /\ Loads(s, <<>>)

ReadableUnparsed(f) == f # NoFile /\ ~Expired(now, f.stamp)

(* What the file has parses, and its own timestamp is young enough.         *)
Readable(f) == f # NoFile /\ f.whole /\ ~Expired(now, f.stamp)

Read(s) ==
    /\ at[s] = "read"
    /\ Readable(file[key[s]])
    /\ Loads(s, file[key[s]].turns)

(* Gone meanwhile, torn or expired.                                         *)
ReadFails(s) ==
    /\ at[s] = "read"
    /\ ~Readable(file[key[s]])
    /\ Goes(s, "discard")
    /\ UNCHANGED <<ours, now, file, request, got, opened, listing, history>>

(* The unlink takes what has the name by now.                               *)
Discard(s) ==
    /\ at[s] = "discard"
    /\ Returns(s, <<>>)
    /\ file' = [file EXCEPT ![key[s]] = NoFile]
    /\ disturbed' = Settled(s, key[s])

-----------------------------------------------------------------------------
(* cleanExpiredSessions, cleanExpiredFiles                                  *)

List(s) ==
    /\ at[s] = "list"
    /\ names' = [names EXCEPT ![s] = Present]
    /\ clock' = [clock EXCEPT ![s] = now]
    /\ Goes(s, "sweep")
    /\ UNCHANGED <<ours, now, file, key, turn, got, opened, aged, victims, history>>

SweepStat(s, k) ==
    /\ at[s] = "sweep"
    /\ k \in names[s]
    /\ names' = [names EXCEPT ![s] = @ \ {k}]
    /\ IF file[k] # NoFile /\ Expired(clock[s], file[k].mtime)
       THEN Goes(s, "expire") /\ victims' = [victims EXCEPT ![s] = {k}]
       ELSE UNCHANGED <<at, victims>>
    /\ UNCHANGED <<ours, now, file, request, got, opened, aged, history>>

SweepUnlink(s, k) ==
    /\ at[s] = "expire"
    /\ k \in victims[s]
    /\ Unlinks(s, k)
    /\ victims' = [victims EXCEPT ![s] = {}]
    /\ Goes(s, "sweep")
    /\ UNCHANGED <<ours, now, request, got, opened, names, aged, lineages>>

SweepEnds(s) ==
    /\ at[s] = "sweep"
    /\ names[s] = {}
    /\ Goes(s, IF store = "sessions" THEN "write" ELSE "open")
    /\ Forgets(s)
    /\ UNCHANGED <<ours, now, file, key, turn, got, opened, listing, history>>

-----------------------------------------------------------------------------
(* saveSession: a temporary file of this process, then rename.  Its         *)
(* updatedAt and the mtime of the temporary file are one reading.           *)

Trimmed(turns) ==
    IF Len(turns) > MaxTurns
    THEN SubSeq(turns, Len(turns) - MaxTurns + 1, Len(turns)) ELSE turns

TrimmedBeforeAppend(s) == Append(Trimmed(got[s]), turn[s])
Record(s) == Trimmed(Append(got[s], turn[s]))

WriteTemp(s) ==
    /\ at[s] = "write"
    /\ clock' = [clock EXCEPT ![s] = now]
    /\ Goes(s, "rename")
    /\ UNCHANGED <<ours, now, file, key, turn, got, opened, listing, history>>

Rename(s) ==
    /\ at[s] = "rename"
    /\ LET k == key[s]
           fresh == got[s] = <<>>
       IN /\ Replaces(s, k, [inode |-> turn[s], turns |-> Record(s), stamp |-> clock[s],
                             mtime |-> clock[s], whole |-> TRUE])
          /\ written' = [written EXCEPT ![k] = @ \cup {Record(s)}]
          /\ lineage' = [lineage EXCEPT ![k] =
                            IF fresh THEN <<turn[s]>> ELSE Append(@, turn[s])]
          /\ overlaid' = IF disturbed[s] THEN overlaid \cup {k}
                         ELSE IF fresh THEN overlaid \ {k} ELSE overlaid
    /\ Goes(s, "relist")
    /\ Forgets(s)
    /\ UNCHANGED <<ours, now, key, turn, got, opened, listing>>

-----------------------------------------------------------------------------
(* cacheChunks: writeFileSync truncates the file or creates it, then fills  *)
(* it.                                                                      *)

Open(s) ==
    /\ at[s] = "open"
    /\ LET f == file[key[s]]
           inode == IF f = NoFile THEN turn[s] ELSE f.inode
       IN /\ opened' = [opened EXCEPT ![s] = inode]
          /\ Replaces(s, key[s], [inode |-> inode, turns |-> <<>>, stamp |-> now, mtime |-> now,
                                  whole |-> FALSE])
    /\ clock' = [clock EXCEPT ![s] = now]
    /\ Goes(s, "fill")
    /\ UNCHANGED <<ours, now, key, turn, got, listing, lineages>>

(* The inode may have lost its name by now.  If another server has filled   *)
(* it since and its reply is the longer one, the end of that sticks out.    *)
Fill(s) ==
    /\ at[s] = "fill"
    /\ LET f == file[key[s]]
           filled == [f EXCEPT !.turns = <<turn[s]>>, !.stamp = clock[s], !.mtime = now,
                               !.whole = TRUE]
           mixed == [filled EXCEPT !.turns = @ \o f.turns, !.whole = FALSE]
       IN IF f = NoFile \/ f.inode # opened[s]
          THEN UNCHANGED <<file, disturbed, written>>
          ELSE /\ \E content \in {filled} \cup (IF f.turns = <<>> THEN {} ELSE {mixed}) :
                      Replaces(s, key[s], content)
               /\ written' = [written EXCEPT ![key[s]] = @ \cup {<<turn[s]>>}]
    /\ opened' = [opened EXCEPT ![s] = 0]
    /\ Goes(s, "relist")
    /\ Forgets(s)
    /\ UNCHANGED <<ours, now, key, turn, got, listing, lineage, overlaid>>

(* The disk refuses one of the writes: the error is logged, the save goes   *)
(* on, and what a chunk file has lost by then stays lost.                   *)
WriteFails(s) ==
    /\ at[s] \in {"write", "rename", "open", "fill"}
    /\ opened' = [opened EXCEPT ![s] = 0]
    /\ Goes(s, "relist")
    /\ Forgets(s)
    /\ UNCHANGED <<ours, now, file, key, turn, got, listing, history>>

-----------------------------------------------------------------------------
(* enforceSessionLimit, enforceFileLimits                                   *)

Relist(s) ==
    /\ at[s] = "relist"
    /\ names' = [names EXCEPT ![s] = Present]
    /\ Goes(s, "stat")
    /\ UNCHANGED <<ours, now, file, request, got, opened, aged, victims, history>>

Stat(s, k) ==
    /\ at[s] = "stat"
    /\ k \in names[s]
    /\ file[k] # NoFile
    /\ names' = [names EXCEPT ![s] = @ \ {k}]
    /\ aged' = [aged EXCEPT ![s] = @ \cup {<<k, file[k].mtime>>}]
    /\ UNCHANGED <<ours, now, file, at, request, got, opened, victims, history>>

Ends(s) ==
    /\ Goes(s, "idle")
    /\ names' = [names EXCEPT ![s] = {}]
    /\ aged' = [aged EXCEPT ![s] = {}]
    /\ key' = [key EXCEPT ![s] = NoKey]
    /\ turn' = [turn EXCEPT ![s] = 0]
    /\ got' = [got EXCEPT ![s] = <<>>]
    /\ UNCHANGED <<ours, now, clock, opened, lineages>>

(* A name that has gone makes statSync throw, out of the whole function.    *)
StatThrows(s, k) ==
    /\ at[s] = "stat"
    /\ k \in names[s]
    /\ file[k] = NoFile
    /\ Ends(s)
    /\ UNCHANGED <<file, disturbed, victims>>

(* Sorted by mtime, files of one mtime in the order of readdir.             *)
Oldest(stats) ==
    {v \in SUBSET {p[1] : p \in stats} :
        /\ Cardinality(v) = Cardinality(stats) - MaxFiles
        /\ \A p, q \in stats : p[1] \in v /\ q[1] \notin v => p[2] <= q[2]}

Chooses(s) ==
    /\ at[s] = "stat"
    /\ names[s] = {}
    /\ Cardinality(aged[s]) > MaxFiles
    /\ \E v \in Oldest(aged[s]) : victims' = [victims EXCEPT ![s] = v]
    /\ aged' = [aged EXCEPT ![s] = {}]
    /\ Goes(s, "evict")
    /\ UNCHANGED <<ours, now, file, request, got, opened, names, history>>

Fits(s) ==
    /\ at[s] = "stat"
    /\ names[s] = {}
    /\ Cardinality(aged[s]) <= MaxFiles
    /\ Ends(s)
    /\ UNCHANGED <<file, disturbed, victims>>

Evict(s, k) ==
    /\ at[s] = "evict"
    /\ k \in victims[s]
    /\ Unlinks(s, k)
    /\ victims' = [victims EXCEPT ![s] = @ \ {k}]
    /\ IF victims[s] = {k}
       THEN Ends(s)
       ELSE UNCHANGED <<ours, now, at, request, got, opened, names, aged, lineages>>

-----------------------------------------------------------------------------
(* A server is killed, and started again.  Its temporary file stays behind  *)
(* under a name no sweep looks at.                                          *)
Crash(s) ==
    /\ at[s] # "idle"
    /\ Goes(s, "idle")
    /\ got' = [got EXCEPT ![s] = <<>>]
    /\ names' = [names EXCEPT ![s] = {}]
    /\ aged' = [aged EXCEPT ![s] = {}]
    /\ victims' = [victims EXCEPT ![s] = {}]
    /\ opened' = [opened EXCEPT ![s] = 0]
    /\ key' = [key EXCEPT ![s] = NoKey]
    /\ turn' = [turn EXCEPT ![s] = 0]
    /\ Forgets(s)
    /\ disturbed' = [disturbed EXCEPT ![s] = FALSE]
    /\ UNCHANGED <<ours, now, file, lineages>>

StoreTick ==
    /\ now < MaxTime
    /\ now' = now + 1
    /\ UNCHANGED <<ours, file, at, request, got, opened, listing, history>>

Step(s) ==
    \/ \E k \in Keys : BeginSave(s, k) \/ BeginLoad(s, k)
    \/ Exists(s)
    \/ Misses(s)
    \/ Read(s)
    \/ ReadFails(s)
    \/ Discard(s)
    \/ List(s)
    \/ \E k \in Keys : SweepStat(s, k) \/ SweepUnlink(s, k)
    \/ SweepEnds(s)
    \/ WriteTemp(s)
    \/ Rename(s)
    \/ Open(s)
    \/ Fill(s)
    \/ WriteFails(s)
    \/ Relist(s)
    \/ \E k \in Keys : Stat(s, k) \/ StatThrows(s, k) \/ Evict(s, k)
    \/ Chooses(s)
    \/ Fits(s)
    \/ Crash(s)

StoreNext == StoreTick \/ \E s \in Servers : Step(s)

StoreSpec == StoreInit /\ [][StoreNext]_storeVars

-----------------------------------------------------------------------------
(* Whatever else the servers do, what a load returns is what one save has   *)
(* written under that key: a session as it was renamed, the chunks of one   *)
(* whole reply to that prompt.                                              *)
LoadsAreWhole == \A s \in Servers : got[s] # <<>> => got[s] \in written[key[s]]

(* A session has the last MaxTurns of its turns unless somebody saved,      *)
(* discarded or evicted it between a load and the save that followed: this  *)
(* is the only way to lose a turn.                                          *)
TurnsAreKept ==
    store = "sessions" =>
        \A k \in Keys \ overlaid :
            file[k] # NoFile => file[k].turns = Trimmed(lineage[k])

=============================================================================
