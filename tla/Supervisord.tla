----------------------------- MODULE Supervisord -----------------------------
(***************************************************************************)
(* The supervisord daemon that runs a devnet's node processes, as far as   *)
(* tempo/devnet/cluster.py depends on it.  supervisord is a dependency,    *)
(* not part of the repository: its process states and the outcome of the   *)
(* XML-RPC calls are modelled from the calls ClusterCLI makes, under the   *)
(* program options of tempo/devnet/supervisor.py (autostart, autorestart). *)
(***************************************************************************)
EXTENDS Integers, FiniteSets

CONSTANTS
    Nodes,         \* the supervised programs; their order is that of their names
    StartRetries,  \* attempts to start a program before it is given up
    MaxBoots,      \* bound: how often supervisord is started
    MaxExits       \* bound: how often a node process exits by itself

ASSUME SupervisordBounds ==
    /\ Nodes \subseteq Int /\ IsFiniteSet(Nodes)
    /\ StartRetries \in Nat /\ MaxBoots \in Nat /\ MaxExits \in Nat

VARIABLES
    up,       \* supervisord runs and serves its socket
    boots,    \* how often it was started; identifies the running instance
    proc,     \* the state of each node process
    pending,  \* nodes that were not started yet in this instance (autostart)
    failed,   \* starts of a node that ended early, since it ran or was given up;
              \* a stop request forgets none of them
    exits     \* how often any node exited by itself so far

supervisordVars == <<up, boots, proc, pending, failed, exits>>

RunningStates == {"STARTING", "RUNNING", "BACKOFF"}
StoppedStates == {"STOPPED", "EXITED", "FATAL"}
ProcessStates == RunningStates \cup StoppedStates \cup {"STOPPING"}

SupervisordTypeOK ==
    /\ up \in BOOLEAN
    /\ boots \in 0 .. MaxBoots
    /\ proc \in [Nodes -> ProcessStates]
    /\ pending \subseteq Nodes
    /\ failed \in [Nodes -> 0 .. MaxExits]
    /\ exits \in 0 .. MaxExits

SupervisordInit ==
    /\ up = FALSE
    /\ boots = 0
    /\ proc = [n \in Nodes |-> "STOPPED"]
    /\ pending = {}
    /\ failed = [n \in Nodes |-> 0]
    /\ exits = 0

Boot ==
    /\ ~up /\ boots < MaxBoots
    /\ up' = TRUE
    /\ boots' = boots + 1
    /\ pending' = Nodes
    /\ failed' = [n \in Nodes |-> 0]
    /\ UNCHANGED <<proc, exits>>

\* Ctrl+C or a crash: the nodes go down with their supervisor.
Shutdown ==
    /\ up
    /\ up' = FALSE
    /\ proc' = [n \in Nodes |-> "STOPPED"]
    /\ pending' = {}
    /\ UNCHANGED <<boots, failed, exits>>

\* Process n moves from one of the given states to another; nothing else changes.
Move(n, from, to) ==
    /\ up /\ proc[n] \in from
    /\ proc' = [proc EXCEPT ![n] = to]
    /\ UNCHANGED <<up, boots>>

Autostart(n) ==
    /\ n \in pending
    /\ Move(n, {"STOPPED"}, "STARTING")
    /\ pending' = pending \ {n}
    /\ UNCHANGED <<failed, exits>>

Started(n) ==
    /\ Move(n, {"STARTING"}, "RUNNING")
    /\ failed' = [failed EXCEPT ![n] = 0]
    /\ UNCHANGED <<pending, exits>>

ExitEarly(n) ==
    /\ exits < MaxExits
    /\ Move(n, {"STARTING"}, "BACKOFF")
    /\ failed' = [failed EXCEPT ![n] = @ + 1]
    /\ exits' = exits + 1
    /\ UNCHANGED pending

Retry(n) ==
    /\ failed[n] <= StartRetries
    /\ Move(n, {"BACKOFF"}, "STARTING")
    /\ UNCHANGED <<pending, failed, exits>>

GiveUp(n) ==
    /\ failed[n] > StartRetries
    /\ Move(n, {"BACKOFF"}, "FATAL")
    /\ failed' = [failed EXCEPT ![n] = 0]
    /\ UNCHANGED <<pending, exits>>

Exit(n) ==
    /\ exits < MaxExits
    /\ Move(n, {"RUNNING"}, "EXITED")
    /\ exits' = exits + 1
    /\ UNCHANGED <<pending, failed>>

Respawn(n) ==
    /\ Move(n, {"EXITED"}, "STARTING")
    /\ UNCHANGED <<pending, failed, exits>>

Stopped(n) ==
    /\ Move(n, {"STOPPING"}, "STOPPED")
    /\ UNCHANGED <<pending, failed, exits>>

\* What supervisord does by itself, by its timers and the exits it reaps.
Scheduled(n) ==
    \/ Autostart(n) \/ Started(n) \/ Retry(n) \/ GiveUp(n)
    \/ Respawn(n) \/ Stopped(n)

-----------------------------------------------------------------------------
(* The remote calls: what the request does at once, and what the deferred *)
(* response waits for.                                                    *)

\* startProcess raises ALREADY_STARTED, stopProcess NOT_RUNNING.
Refuses(kind, n) ==
    IF kind = "start" THEN proc[n] \in RunningStates
                      ELSE proc[n] \notin RunningStates

\* A process that is still stopping is not spawned again; one in BACKOFF has
\* nothing to kill.
Accept(kind, n) ==
    /\ ~Refuses(kind, n)
    /\ proc' = [proc EXCEPT ![n] =
         IF kind = "start"
         THEN IF @ = "STOPPING" THEN @ ELSE "STARTING"
         ELSE IF @ = "BACKOFF" THEN "STOPPED" ELSE "STOPPING"]
    /\ pending' = IF kind = "start" THEN pending \ {n} ELSE pending
    /\ UNCHANGED <<up, boots, failed, exits>>

\* The deferred response: TRUE, a fault, or not yet.
Response(kind, n) ==
    IF kind = "start"
    THEN CASE proc[n] = "RUNNING"  -> "ok"
           [] proc[n] = "STARTING" -> "wait"
           [] OTHER                -> "fault"
    ELSE IF proc[n] \in StoppedStates THEN "ok" ELSE "wait"
=============================================================================
