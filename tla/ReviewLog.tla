------------------------------- MODULE ReviewLog -------------------------------
(****************************************************************************)
(* The log of reviews (lib/state.mjs): each hook appends its entries with   *)
(* appendFile and then replaces the log, when it has grown too long, by its *)
(* last lines.  The hooks of different files share the log and no lock, so  *)
(* every system call is an action.                                          *)
(*                                                                          *)
(* A rename gives the name of the log to a new file; a hook that has opened *)
(* the old one goes on with it.  nodes has the lines of every file that has *)
(* had the name, in the order in which they had it: the last is the log.    *)
(* The directory exists, and so does the log, empty before the first entry. *)
(****************************************************************************)
EXTENDS Integers, Sequences, FiniteSets

CONSTANTS
    Hooks,           \* hook processes
    Reasons,         \* reasons to log: their bytes, and where characters start
    MaxLogBytes,     \* MAX_LOG_BYTES
    MaxLogEntries,   \* MAX_LOG_ENTRIES
    MaxReasonBytes,  \* MAX_LOG_REASON_BYTES
    SuffixBytes,     \* of the note on what clampReason dropped
    EntryBytes,      \* of the rest of an entry
    EntryBound       \* bound on the entries

ReasonsAreText ==
    \A r \in Reasons :
        /\ r.bytes \in Nat
        /\ r.starts \subseteq Nat
        /\ 0 \in r.starts

ASSUME LogAssumption ==
    /\ MaxLogBytes \in Nat
    /\ MaxLogEntries \in Nat \ {0}
    /\ MaxReasonBytes \in Nat
    /\ SuffixBytes \in Nat
    /\ EntryBytes \in Nat
    /\ EntryBound \in Nat
    /\ ReasonsAreText

VARIABLES
    nodes,      \* the lines of each file that has had the log's name
    count,      \* entries appended
    pc,         \* the system call each hook makes next
    entry,      \* the bytes of the entry it appends, clamped
    node,       \* the file it has opened
    tail,       \* the lines it goes on to replace the log by
    unrotated,  \* history: a hook was stopped before it had rotated
    overlapped  \* history: entries written where a rotation loses them

logVars == <<nodes, count, pc, entry, node, tail, unrotated, overlapped>>

Line == [id : Nat \ {0}, bytes : Nat]
Lines == Seq(Line)

LogTypeOK ==
    /\ nodes \in Seq(Lines) \ {<<>>}
    /\ count \in Nat
    /\ pc \in [Hooks -> {"idle", "open", "write", "stat", "reopen", "read", "rename"}]
    /\ entry \in [Hooks -> Nat]
    /\ node \in [Hooks -> Nat]
    /\ \A h \in Hooks : pc[h] \in {"write", "read"} => node[h] \in 1..Len(nodes)
    /\ tail \in [Hooks -> Lines]
    /\ unrotated \in BOOLEAN
    /\ overlapped \subseteq Nat

LogInit ==
    /\ nodes = << <<>> >>
    /\ count = 0
    /\ pc = [h \in Hooks |-> "idle"]
    /\ entry = [h \in Hooks |-> 0]
    /\ node = [h \in Hooks |-> 0]
    /\ tail = [h \in Hooks |-> <<>>]
    /\ unrotated = FALSE
    /\ overlapped = {}

Log == nodes[Len(nodes)]
Proceeds(h, call) == pc' = [pc EXCEPT ![h] = call]

(* What statSync says of a file of these lines.                             *)
SizeOf(lines) ==
    LET size[n \in 0..Len(lines)] ==
            IF n = 0 THEN 0 ELSE size[n - 1] + lines[n].bytes
    IN size[Len(lines)]

-----------------------------------------------------------------------------
(* The end backs off from the limit to where a character starts.            *)
CutsOf(r) ==
    {end \in r.starts :
        /\ end <= MaxReasonBytes
        /\ \A other \in r.starts : other <= MaxReasonBytes => other <= end}

(* The size it may have: one, as the cut is one.                            *)
clampReason(r) ==
    IF r.bytes <= MaxReasonBytes THEN {r.bytes} ELSE {end + SuffixBytes : end \in CutsOf(r)}

(* appendLog                                                                *)
BeginAppend(h) ==
    /\ pc[h] = "idle"
    /\ count < EntryBound
    /\ \E r \in Reasons : \E bytes \in clampReason(r) :
           entry' = [entry EXCEPT ![h] = EntryBytes + bytes]
    /\ Proceeds(h, "open")
    /\ UNCHANGED <<nodes, count, node, tail, unrotated, overlapped>>

OpenLog(h) ==
    /\ pc[h] = "open"
    /\ node' = [node EXCEPT ![h] = Len(nodes)]
    /\ Proceeds(h, "write")
    /\ UNCHANGED <<nodes, count, entry, tail, unrotated, overlapped>>

(* A hook that has read, or reads from a file without the name, replaces    *)
(* the log by lines among which this entry is not.                          *)
Outdated(h) == pc[h] = "rename" \/ (pc[h] = "read" /\ node[h] # Len(nodes))
IsLossy(h) == node[h] # Len(nodes) \/ \E other \in Hooks : Outdated(other)

WriteLog(h) ==
    /\ pc[h] = "write"
    /\ LET line == [id |-> count + 1, bytes |-> entry[h]]
       IN nodes' = [nodes EXCEPT ![node[h]] = Append(@, line)]
    /\ count' = count + 1
    /\ overlapped' = IF IsLossy(h) THEN overlapped \cup {count + 1} ELSE overlapped
    /\ node' = [node EXCEPT ![h] = 0]
    /\ entry' = [entry EXCEPT ![h] = 0]
    /\ Proceeds(h, "stat")
    /\ UNCHANGED <<tail, unrotated>>

-----------------------------------------------------------------------------
(* rotateLogIfNeeded                                                        *)

IsSmall(lines) == SizeOf(lines) <= MaxLogBytes
IsShort(lines) == Len(lines) <= MaxLogEntries
HeadOf(lines) == SubSeq(lines, 1, MaxLogEntries)
TailAndOneMore(lines) == SubSeq(lines, Len(lines) - MaxLogEntries, Len(lines))
TailOf(lines) == SubSeq(lines, Len(lines) - MaxLogEntries + 1, Len(lines))

StatLog(h) ==
    /\ pc[h] = "stat"
    /\ Proceeds(h, IF IsSmall(Log) THEN "idle" ELSE "reopen")
    /\ UNCHANGED <<nodes, count, entry, node, tail, unrotated, overlapped>>

ReopenLog(h) ==
    /\ pc[h] = "reopen"
    /\ node' = [node EXCEPT ![h] = Len(nodes)]
    /\ Proceeds(h, "read")
    /\ UNCHANGED <<nodes, count, entry, tail, unrotated, overlapped>>

(* Then the tail is written to a file with the process id in its name,      *)
(* which nobody else opens.                                                 *)
ReadLog(h) ==
    /\ pc[h] = "read"
    /\ LET lines == nodes[node[h]]
       IN IF IsShort(lines)
          THEN Proceeds(h, "idle") /\ UNCHANGED tail
          ELSE Proceeds(h, "rename") /\ tail' = [tail EXCEPT ![h] = TailOf(lines)]
    /\ node' = [node EXCEPT ![h] = 0]
    /\ UNCHANGED <<nodes, count, entry, unrotated, overlapped>>

RenameLog(h) ==
    /\ pc[h] = "rename"
    /\ nodes' = Append(nodes, tail[h])
    /\ tail' = [tail EXCEPT ![h] = <<>>]
    /\ unrotated' = FALSE
    /\ Proceeds(h, "idle")
    /\ UNCHANGED <<count, entry, node, overlapped>>

(* The hook is killed, or a call fails: the catch blocks end the append or  *)
(* the rotation where it is.                                                *)
StopLogging(h) ==
    /\ pc[h] # "idle"
    /\ unrotated' = (unrotated \/ pc[h] \in {"stat", "reopen", "read", "rename"})
    /\ entry' = [entry EXCEPT ![h] = 0]
    /\ node' = [node EXCEPT ![h] = 0]
    /\ tail' = [tail EXCEPT ![h] = <<>>]
    /\ Proceeds(h, "idle")
    /\ UNCHANGED <<nodes, count, overlapped>>

LogStep(h) ==
    \/ BeginAppend(h)
    \/ OpenLog(h)
    \/ WriteLog(h)
    \/ StatLog(h)
    \/ ReopenLog(h)
    \/ ReadLog(h)
    \/ RenameLog(h)
    \/ StopLogging(h)

LogNext == \E h \in Hooks : LogStep(h)

LogSpec == LogInit /\ [][LogNext]_logVars

-----------------------------------------------------------------------------
(* The log has its entries in the order in which they were appended, each   *)
(* at most once, however its rotations cross; and it has every entry except *)
(* those that are MaxLogEntries old and those appended while a rotation was *)
(* about to replace it.                                                     *)
LogKeepsTheNewest ==
    /\ \A i, j \in 1..Len(Log) : i < j => Log[i].id < Log[j].id
    /\ \A id \in 1..count :
        \/ \E i \in 1..Len(Log) : Log[i].id = id
        \/ id \in overlapped
        \/ count - id >= MaxLogEntries

(* Once no hook is at it, the log is within one of its two limits, unless a *)
(* hook was stopped between its append and the end of its rotation and none *)
(* has rotated since.                                                       *)
QuietLogIsBounded ==
    (\A h \in Hooks : pc[h] = "idle") =>
        IsSmall(Log) \/ IsShort(Log) \/ unrotated

=============================================================================
