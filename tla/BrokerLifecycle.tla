---------------------------- MODULE BrokerLifecycle ----------------------------
(****************************************************************************)
(* The shared broker of a project: the SessionStart and SessionEnd hooks of *)
(* its sessions (codex-pair-session.mjs) with clearStaleBrokerState,        *)
(* bootstrapBroker and teardownBroker (lib/broker-lifecycle.mjs), system    *)
(* call by system call, on POSIX.                                           *)
(*                                                                          *)
(* A session bootstraps at most once, so the app-server it spawns, and the  *)
(* pid of that app-server, carry its name.  Pids are not reused, and a      *)
(* descriptor that is there can be read.  Budgets are not counted: a wait   *)
(* may give up at any time.  Every removal is best-effort and may fail.     *)
(****************************************************************************)
EXTENDS Integers

CONSTANTS
    N,          \* how many sessions are opened in the project
    None,       \* no session, app-server, lock holder or descriptor
    AccidentBound   \* bound on killed hooks and dying app-servers

(* Sessions are numbered in the order in which they start.                  *)
Sessions == 1..N

ASSUME LifecycleAssumption ==
    /\ N \in Nat
    /\ None \notin Sessions
    /\ AccidentBound \in Nat

VARIABLES
    step,        \* where the hook of each session is
    seen,        \* the descriptor a hook has read
    peer,        \* the app-server that answered a hook's initialize
    lock,        \* who made the lock directory
    descriptor,  \* whose app-server broker.json names
    socket,      \* whose socket is at the path of the transport
    process,     \* the app-server each session spawned
    updated,     \* the sessions whose plugin has another protocol version
    published,   \* the sessions that wrote their descriptor
    killed,      \* the sessions whose bootstrap was killed
    accidents,   \* how many hooks were killed and app-servers died untold
    course       \* whether something happened that the design does not provide for

locals == <<seen, peer>>
files == <<lock, descriptor, socket>>
history == <<updated, published, killed, accidents, course>>
vars == <<step, seen, peer, lock, descriptor, socket, process, updated, published, killed, accidents, course>>

(* Steps of clearStaleBrokerState, bootstrapBroker and teardownBroker.      *)
Clearing == {"check", "judge", "clear_descriptor", "clear_socket", "lock"}
Bootstrap == {"spawn", "poll", "initialize", "publish", "unlock"}
Teardown == {"read", "kill", "grace", "unlink_socket", "unlink_descriptor", "release"}

HookSteps == Clearing \cup Bootstrap \cup Teardown

TypeOK ==
    /\ step \in [Sessions -> HookSteps \cup {"new", "active", "over"}]
    /\ seen \in [Sessions -> Sessions \cup {None}]
    /\ peer \in [Sessions -> Sessions \cup {None}]
    /\ lock \in Sessions \cup {None}
    /\ descriptor \in Sessions \cup {None}
    /\ socket \in Sessions \cup {None}
    /\ process \in [Sessions -> {"none", "starting", "listening", "stopping", "dead"}]
    /\ updated \in SUBSET Sessions
    /\ published \in SUBSET Sessions
    /\ killed \in SUBSET Sessions
    /\ accidents \in 0..AccidentBound
    /\ course \in {"calm", "disturbed"}

Init ==
    /\ step = [s \in Sessions |-> "new"]
    /\ seen = [s \in Sessions |-> None]
    /\ peer = [s \in Sessions |-> None]
    /\ lock = None
    /\ descriptor = None
    /\ socket = None
    /\ process = [s \in Sessions |-> "none"]
    /\ updated \in SUBSET Sessions
    /\ published = {}
    /\ killed = {}
    /\ accidents = 0
    /\ course = "calm"

-----------------------------------------------------------------------------
Running(s) == step[s] \in HookSteps

(* isPidAlive, of an app-server.                                            *)
Alive(b) == process[b] \in {"starting", "listening", "stopping"}

(* Alive and not told to stop.                                              *)
Serving(b) == process[b] \in {"starting", "listening"}

Goto(s, there) == step' = [step EXCEPT ![s] = there]

(* A local of a function that returns.                                      *)
Forget(s) == seen' = [seen EXCEPT ![s] = None]

(* SIGTERM and SIGKILL to the process group of an app-server.               *)
Terminate(b) == process' = IF Serving(b) THEN [process EXCEPT ![b] = "stopping"] ELSE process
KillHard(b) == process' = IF Alive(b) THEN [process EXCEPT ![b] = "dead"] ELSE process

(* unlink and rmSync in a try whose catch is empty: what was to be removed  *)
(* may stay.                                                                *)
Remaining(path) == {None, path}

(* A hook that begins while another hook, or an app-server that was told to *)
(* stop, is still there.                                                    *)
Overlaps(s) ==
    \/ \E t \in Sessions \ {s} : Running(t)
    \/ \E b \in Sessions : process[b] = "stopping"

Begin(s, first) ==
    /\ Goto(s, first)
    /\ course' = IF Overlaps(s) THEN "disturbed" ELSE course
    /\ UNCHANGED <<locals, files, process, updated, published, killed, accidents>>

-----------------------------------------------------------------------------
(* SessionStart: clearStaleBrokerState                                      *)

SessionStart(s) ==
    /\ step[s] = "new"
    /\ \A t \in Sessions : t < s => step[t] # "new"
    /\ Begin(s, "check")

(* Mutant of ReadState: the state is not looked at.                         *)
ReadStateNever(s) ==
    /\ step[s] = "check"
    /\ Goto(s, "lock")
    /\ UNCHANGED <<locals, files, process, history>>

ReadState(s) ==
    /\ step[s] = "check"
    /\ seen' = [seen EXCEPT ![s] = descriptor]
    /\ Goto(s, IF descriptor = None THEN "lock" ELSE "judge")
    /\ UNCHANGED <<peer, files, process, history>>

ProtoOk(s) == s \in updated <=> seen[s] \in updated

(* "live": the pid lives, the protocol is ours, a socket file is there.     *)
IsLive(s) == Alive(seen[s]) /\ ProtoOk(s) /\ socket # None

JudgeState(s) ==
    /\ step[s] = "judge"
    /\ Goto(s, IF IsLive(s) THEN "active" ELSE "clear_descriptor")
    /\ course' = IF Alive(seen[s]) /\ ~ProtoOk(s) THEN "disturbed" ELSE course
    /\ Forget(s)
    /\ UNCHANGED <<peer, files, process, updated, published, killed, accidents>>

ClearDescriptor(s) ==
    /\ step[s] = "clear_descriptor"
    /\ descriptor' \in Remaining(descriptor)
    /\ Goto(s, "clear_socket")
    /\ UNCHANGED <<locals, lock, socket, process, history>>

ClearSocket(s) ==
    /\ step[s] = "clear_socket"
    /\ socket' \in Remaining(socket)
    /\ Goto(s, "lock")
    /\ UNCHANGED <<locals, lock, descriptor, process, history>>

-----------------------------------------------------------------------------
(* SessionStart: bootstrapBroker                                            *)

(* Mutant of AcquireBrokerLock: a recursive mkdir, which never fails.       *)
AcquireBrokerLockRecursive(s) ==
    /\ step[s] = "lock"
    /\ lock' = s
    /\ Goto(s, "spawn")
    /\ UNCHANGED <<locals, descriptor, socket, process, history>>

(* mkdir decides; a hook that meets the lock returns, and so does one whose *)
(* mkdir fails in another way.                                              *)
AcquireBrokerLock(s) ==
    /\ step[s] = "lock"
    /\ \/ lock = None /\ lock' = s /\ Goto(s, "spawn")
       \/ Goto(s, "active") /\ UNCHANGED lock
    /\ UNCHANGED <<locals, descriptor, socket, process, history>>

SpawnBroker(s) ==
    /\ step[s] = "spawn"
    /\ process' = [process EXCEPT ![s] = "starting"]
    /\ Goto(s, "poll")
    /\ UNCHANGED <<locals, files, history>>

(* Whoever has the socket accepts connections.                              *)
Accepting == socket # None /\ process[socket] \in {"listening", "stopping"}

PollSocketReachable(s) ==
    /\ step[s] = "poll"
    /\ Accepting
    /\ Goto(s, "initialize")
    /\ UNCHANGED <<locals, files, process, history>>

InitializeBroker(s) ==
    /\ step[s] = "initialize"
    /\ Accepting
    /\ peer' = [peer EXCEPT ![s] = socket]
    /\ Goto(s, "publish")
    /\ UNCHANGED <<seen, files, process, history>>

(* The rename: the descriptor carries the pid of our own child.             *)
WriteBrokerDescriptor(s) ==
    /\ step[s] = "publish"
    /\ descriptor' = s
    /\ published' = published \cup {s}
    /\ Goto(s, "unlock")
    /\ UNCHANGED <<locals, lock, socket, process, updated, killed, accidents, course>>

(* Mutant of FailBootstrap: the child is left alone.                        *)
FailBootstrapQuietly(s) ==
    /\ step[s] \in {"spawn", "poll", "initialize", "publish"}
    /\ Goto(s, "unlock")
    /\ UNCHANGED <<locals, files, process, history>>

(* The catch: a budget used up, a refused handshake, a failed write.  The   *)
(* child gets SIGTERM and is not waited for.                                *)
FailBootstrap(s) ==
    /\ step[s] \in {"spawn", "poll", "initialize", "publish"}
    /\ Terminate(s)
    /\ Goto(s, "unlock")
    /\ UNCHANGED <<locals, files, history>>

(* The finally: it removes the path, whoever made it.                       *)
ReleaseBrokerLock(s) ==
    /\ step[s] = "unlock"
    /\ lock' \in Remaining(lock)
    /\ Goto(s, "active")
    /\ UNCHANGED <<locals, descriptor, socket, process, history>>

-----------------------------------------------------------------------------
(* SessionEnd: teardownBroker                                               *)

SessionEnd(s) == step[s] = "active" /\ Begin(s, "read")

ReadDescriptor(s) ==
    /\ step[s] = "read"
    /\ seen' = [seen EXCEPT ![s] = descriptor]
    /\ Goto(s, IF descriptor = None THEN "release" ELSE "kill")
    /\ UNCHANGED <<peer, files, process, history>>

(* Mutant of KillPid: unlinking the socket is left to stop the app-server.  *)
KillPidForgotten(s) ==
    /\ step[s] = "kill"
    /\ Goto(s, "unlink_socket")
    /\ Forget(s)
    /\ UNCHANGED <<peer, files, process, history>>

(* killPidGracefully: SIGTERM, a grace period, SIGKILL.                     *)
KillPid(s) ==
    /\ step[s] = "kill"
    /\ \/ Alive(seen[s]) /\ Goto(s, "grace") /\ UNCHANGED seen
       \/ ~Alive(seen[s]) /\ Goto(s, "unlink_socket") /\ Forget(s)
    /\ Terminate(seen[s])
    /\ UNCHANGED <<peer, files, history>>

(* Mutant of GraceEnds: no SIGKILL, the wait goes on.                       *)
GraceWaits(s) ==
    /\ step[s] = "grace"
    /\ ~Alive(seen[s])
    /\ Goto(s, "unlink_socket")
    /\ Forget(s)
    /\ UNCHANGED <<peer, files, process, history>>

GraceEnds(s) ==
    /\ step[s] = "grace"
    /\ KillHard(seen[s])
    /\ Goto(s, "unlink_socket")
    /\ Forget(s)
    /\ UNCHANGED <<peer, files, history>>

UnlinkTransportArtifact(s) ==
    /\ step[s] = "unlink_socket"
    /\ socket' \in Remaining(socket)
    /\ Goto(s, "unlink_descriptor")
    /\ UNCHANGED <<locals, lock, descriptor, process, history>>

UnlinkBrokerDescriptor(s) ==
    /\ step[s] = "unlink_descriptor"
    /\ descriptor' \in Remaining(descriptor)
    /\ Goto(s, "release")
    /\ UNCHANGED <<locals, lock, socket, process, history>>

(* The lock of a bootstrap that was killed, or of one that still runs.      *)
TeardownReleases(s) ==
    /\ step[s] = "release"
    /\ lock' \in Remaining(lock)
    /\ Goto(s, "over")
    /\ UNCHANGED <<locals, descriptor, socket, process, history>>

-----------------------------------------------------------------------------
Accident == accidents < AccidentBound /\ accidents' = accidents + 1

(* The hook process is killed; its session goes on.                         *)
KillHook(s) ==
    /\ Running(s)
    /\ Accident
    /\ Goto(s, IF step[s] \in Teardown THEN "over" ELSE "active")
    /\ killed' = IF step[s] \in Bootstrap THEN killed \cup {s} ELSE killed
    /\ Forget(s)
    /\ UNCHANGED <<peer, files, process, updated, published, course>>

(* The app-server.  It listens, over a socket file it finds too, or gives   *)
(* up on one; a codex that cannot be run is one that ends at once.          *)
Listens(b) ==
    /\ process[b] = "starting"
    /\ process' = [process EXCEPT ![b] = "listening"]
    /\ socket' = b
    /\ UNCHANGED <<step, locals, lock, descriptor, history>>

(* It ends by itself or because it was told to; it removes the socket it    *)
(* listens on or leaves it.                                                 *)
Ends(b) ==
    /\ \/ Serving(b) /\ Accident
       \/ process[b] = "stopping" /\ UNCHANGED accidents
    /\ process' = [process EXCEPT ![b] = "dead"]
    /\ socket' \in (IF socket = b THEN {b, None} ELSE {socket})
    /\ UNCHANGED <<step, locals, lock, descriptor, updated, published, killed, course>>

StartStep(s) ==
    \/ ReadState(s)
    \/ JudgeState(s)
    \/ ClearDescriptor(s)
    \/ ClearSocket(s)
    \/ AcquireBrokerLock(s)
    \/ SpawnBroker(s)
    \/ PollSocketReachable(s)
    \/ InitializeBroker(s)
    \/ WriteBrokerDescriptor(s)
    \/ FailBootstrap(s)
    \/ ReleaseBrokerLock(s)

EndStep(s) ==
    \/ ReadDescriptor(s)
    \/ KillPid(s)
    \/ GraceEnds(s)
    \/ UnlinkTransportArtifact(s)
    \/ UnlinkBrokerDescriptor(s)
    \/ TeardownReleases(s)

HookStep(s) == StartStep(s) \/ EndStep(s)

Next ==
    \E s \in Sessions :
        \/ HookStep(s)
        \/ SessionStart(s)
        \/ SessionEnd(s)
        \/ KillHook(s)
        \/ Listens(s)
        \/ Ends(s)

(* A hook that runs takes its next step: its waits have budgets.  Sessions  *)
(* need never begin or end, app-servers need never obey.                    *)
Fairness == \A s \in Sessions : WF_vars(HookStep(s))

Spec == Init /\ [][Next]_vars
FairSpec == Spec /\ Fairness

-----------------------------------------------------------------------------
(* Properties                                                               *)

(* Hooks ran one after another, each bootstrap to its end, and no protocol  *)
(* version changed under a live broker.                                     *)
Calm == course = "calm" /\ killed = {}

(* "another SessionStart holds the lock": until a session ends, at most one *)
(* hook bootstraps, however many start at once and whoever is killed.       *)
BootstrapsAreExclusive ==
    (\A s \in Sessions : step[s] \notin Teardown \cup {"over"})
      => \A s, t \in Sessions : step[s] \in Bootstrap /\ step[t] \in Bootstrap => s = t

(* "On ANY failure, terminates the spawned child": an app-server whose hook *)
(* is done was published or told to stop, unless the hook was killed.       *)
BootstrapsKeepNoChild ==
    \A b \in Sessions :
        Serving(b) /\ step[b] \notin Bootstrap => b \in published \cup killed

(* "readiness is initialize round-trip success": the app-server whose pid   *)
(* the descriptor has is the one that answered initialize.                  *)
PublishedBrokerAnswered == Calm /\ descriptor # None => peer[descriptor] = descriptor

(* No app-server serves unseen: if it is not being bootstrapped, the        *)
(* descriptor names it, and some SessionEnd will find and kill it.  Crashes *)
(* of app-servers and killed SessionEnds included.                          *)
NoOrphanBroker ==
    Calm => \A b \in Sessions : Serving(b) => step[b] \in Bootstrap \/ descriptor = b

(* Every hook ends: no lock, no dead or deaf app-server holds it up.        *)
HooksEnd == \A s \in Sessions : Running(s) ~> ~Running(s)

(* Why bootstraps exclude each other: before a SessionEnd removes it, each  *)
(* has the lock.                                                            *)
BootstrapsHoldTheLock ==
    (\A s \in Sessions : step[s] \notin Teardown \cup {"over"})
      => \A s \in Sessions : step[s] \in Bootstrap => lock = s

(* Why no child is kept: there is none before the spawn, and a bootstrap    *)
(* that is about to return has published its own or told it to stop.        *)
ChildrenAreSpawned ==
    \A b \in Sessions :
        /\ step[b] \in {"new", "spawn"} \cup Clearing => process[b] = "none"
        /\ step[b] = "unlock" /\ Serving(b) => b \in published

(* What a hook may rely on while the course is calm: it is the only one,    *)
(* and the only app-servers are the one it starts or stops and the one      *)
(* published.                                                               *)
NobodyAlive == \A b \in Sessions : ~Alive(b)
OnlyAlive(s) == \A b \in Sessions : Alive(b) => b = s

CalmHooksAreAlone ==
    Calm => \A s, t \in Sessions : Running(s) /\ Running(t) => s = t

CalmStops ==
    Calm => \A s \in Sessions :
        /\ step[s] \in Clearing \cup {"read", "kill"} =>
               \A b \in Sessions : process[b] # "stopping"
        /\ step[s] \in {"judge", "kill", "grace"} => seen[s] = descriptor /\ seen[s] # None
        /\ step[s] = "grace" => \A b \in Sessions : ~Serving(b)
        /\ step[s] = "grace" => OnlyAlive(seen[s])
        /\ step[s] \in {"clear_descriptor", "clear_socket", "lock",
                        "unlink_socket", "unlink_descriptor", "release"} => NobodyAlive

CalmBootstraps ==
    Calm => \A s \in Sessions :
        /\ step[s] \in Bootstrap => OnlyAlive(s)
        /\ step[s] \in {"new"} \cup Clearing \cup (Bootstrap \ {"unlock"}) => descriptor # s
        /\ step[s] \in Bootstrap \ {"unlock"} => process[s] # "stopping"
        /\ step[s] = "publish" => peer[s] = s
        /\ step[s] = "publish" /\ Serving(s) => process[s] = "listening" /\ socket = s
        /\ step[s] = "unlock" /\ Serving(s) => descriptor = s

(* A published app-server listens at the path until it dies.                *)
PublishedBrokerListens ==
    Calm /\ descriptor # None /\ Serving(descriptor)
      => process[descriptor] = "listening" /\ socket = descriptor

=============================================================================
