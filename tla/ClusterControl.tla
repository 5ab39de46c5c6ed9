--------------------------- MODULE ClusterControl ---------------------------
(***************************************************************************)
(* Several ClusterCLI objects (tempo/devnet/cluster.py), each used by one  *)
(* thread or process, control one supervisord.  A method is a sequence of  *)
(* blocking remote calls; other clients, supervisord's own timers, exits   *)
(* of nodes and restarts of supervisord come between any two of them, and  *)
(* between a request and its response.                                     *)
(***************************************************************************)
EXTENDS Supervisord, Sequences

CONSTANTS Clients

\* The methods of ClusterCLI that talk to supervisord (summary is a status).
ListOps == {"status", "start_all", "stop_all"}
NodeOps == {"start_node", "stop_node", "restart_node"}

VARIABLES
    call,    \* the method each client runs: what is left of it and its outcome
    proxy,   \* its cached _supervisor_proxy and the connection in it
    since    \* history: states nodes were seen in since the call began

vars == <<supervisordVars, call, proxy, since>>

\* The connection inside a proxy: none before the proxy exists, not connected
\* yet, the instance of supervisord it is connected to, or "Request-sent": a
\* request on it failed to be sent, and no later one can be.
NoProxy == -2
RequestSent == -1
Unconnected == 0
ProxyStates == {NoProxy, RequestSent, Unconnected} \cup (1 .. MaxBoots)

Requests == [kind: {"start", "stop"}, node: Nodes]

Request(kind, n) == [kind |-> kind, node |-> n]

Calls ==
    [op: ListOps \cup NodeOps \cup {"none"},
     pc: {"idle", "list", "send", "wait"},
     todo: Seq(Requests),
     asked: SUBSET Nodes,
     result: {"none", "ok", "fault", "error"}]

Since == [stopped: SUBSET Nodes, started: SUBSET Nodes]
NothingSeen == [stopped |-> {}, started |-> {}]

TypeOK ==
    /\ SupervisordTypeOK
    /\ call \in [Clients -> Calls]
    /\ proxy \in [Clients -> ProxyStates]
    /\ since \in [Clients -> Since]

Init ==
    /\ SupervisordInit
    /\ call = [c \in Clients |->
         [op |-> "none", pc |-> "idle", todo |-> <<>>, asked |-> {}, result |-> "none"]]
    /\ proxy = [c \in Clients |-> NoProxy]
    /\ since = [c \in Clients |-> NothingSeen]

-----------------------------------------------------------------------------
(* The connection *)

Reachable(c) == up /\ proxy[c] \in {NoProxy, Unconnected, boots}

\* Mutant: status() has no except branch.
ProxyAfterStatusError_Kept(c) == RequestSent

\* status() drops the proxy when its request failed.
ProxyAfterStatusError(c) == NoProxy

\* The other methods keep it, in whatever state the failure left it.
ProxyAfterSendError(c) == RequestSent

-----------------------------------------------------------------------------
(* The methods *)

Idle(c) == call[c].pc = "idle"

\* History: nodes seen stopped, and running after they were seen stopped.
\* A call forgets what was seen before it began; what it saw stays when it ends.
Observe ==
    since' = [c \in Clients |->
      IF Idle(c) /\ call'[c].pc = "idle" THEN since[c]
      ELSE LET seen == IF Idle(c) THEN NothingSeen ELSE since[c]
           IN  [stopped |-> seen.stopped \cup {n \in Nodes : proc'[n] \in StoppedStates},
                started |-> seen.started \cup
                              {n \in seen.stopped : proc'[n] = "RUNNING"}]]

Begin(c, op, pc, todo, asked) ==
    /\ Idle(c)
    /\ call' = [call EXCEPT ![c] =
         [op |-> op, pc |-> pc, todo |-> todo, asked |-> asked, result |-> "none"]]
    /\ UNCHANGED <<supervisordVars, proxy>>
    /\ Observe

\* status(), start_all() and stop_all() list the processes first.
CallList(c, op) == Begin(c, op, "list", <<>>, {})

StartNode(c, n) == Begin(c, "start_node", "send", <<Request("start", n)>>, {n})

StopNode(c, n) == Begin(c, "stop_node", "send", <<Request("stop", n)>>, {n})

\* Mutants: a call supervisord does not have;
RestartNode_OneCall(c, n) ==
    Begin(c, "restart_node", "send", <<Request("restart", n)>>, {n})

\* "or" for "and", so that a True from stopProcess ends the method.
RestartNode_Or(c, n) ==
    Begin(c, "restart_node", "send", <<Request("stop", n)>>, {n})

RestartNode(c, n) ==
    Begin(c, "restart_node", "send",
          <<Request("stop", n), Request("start", n)>>, {n})

Finish(c, result) ==
    call' = [call EXCEPT ![c].pc = "idle", ![c].todo = <<>>, ![c].result = result]

\* The nodes a listing makes start_all() and stop_all() act on.
Selected(op) ==
    CASE op = "start_all" -> {n \in Nodes : proc[n] = "STOPPED"}
      [] op = "stop_all"  -> Nodes
      [] op = "status"    -> {}

InOrder(S) ==
    CHOOSE s \in [1 .. Cardinality(S) -> S] :
        \A i, k \in 1 .. Cardinality(S) : i < k => s[i] < s[k]

List(c) ==
    /\ call[c].pc = "list"
    /\ Reachable(c)
    /\ proxy' = [proxy EXCEPT ![c] = boots]
    /\ LET op == call[c].op
           kind == IF op = "start_all" THEN "start" ELSE "stop"
           nodes == InOrder(Selected(op))
       IN  IF nodes = <<>> THEN Finish(c, "ok")
           ELSE call' = [call EXCEPT
                  ![c].pc = "send",
                  ![c].asked = Selected(op),
                  ![c].todo = [i \in DOMAIN nodes |-> Request(kind, nodes[i])]]
    /\ UNCHANGED supervisordVars
    /\ Observe

ListFails(c) ==
    /\ call[c].pc = "list"
    /\ ~Reachable(c)
    /\ proxy' = [proxy EXCEPT ![c] = ProxyAfterStatusError(c)]
    /\ Finish(c, "error")
    /\ UNCHANGED supervisordVars
    /\ Observe

\* The request reaches supervisord and is accepted; its response is awaited.
Send(c) ==
    /\ call[c].pc = "send"
    /\ Reachable(c)
    /\ Accept(Head(call[c].todo).kind, Head(call[c].todo).node)
    /\ proxy' = [proxy EXCEPT ![c] = boots]
    /\ call' = [call EXCEPT ![c].pc = "wait"]
    /\ Observe

\* A Fault ends the method, the loops of start_all and stop_all included.
SendRefused(c) ==
    /\ call[c].pc = "send"
    /\ Reachable(c)
    /\ Refuses(Head(call[c].todo).kind, Head(call[c].todo).node)
    /\ proxy' = [proxy EXCEPT ![c] = boots]
    /\ Finish(c, "fault")
    /\ UNCHANGED supervisordVars
    /\ Observe

\* Mutant: the method tries again on the connection it has.
SendFails_Retries(c) ==
    /\ call[c].pc = "send"
    /\ ~Reachable(c)
    /\ proxy' = [proxy EXCEPT ![c] = ProxyAfterSendError(c)]
    /\ UNCHANGED <<supervisordVars, call>>
    /\ Observe

SendFails(c) ==
    /\ call[c].pc = "send"
    /\ ~Reachable(c)
    /\ proxy' = [proxy EXCEPT ![c] = ProxyAfterSendError(c)]
    /\ Finish(c, "error")
    /\ UNCHANGED supervisordVars
    /\ Observe

Receive(c) ==
    /\ call[c].pc = "wait"
    /\ up /\ proxy[c] = boots
    /\ LET response == Response(Head(call[c].todo).kind, Head(call[c].todo).node)
           rest == Tail(call[c].todo)
       IN  /\ response # "wait"
           /\ IF response = "fault" \/ rest = <<>> THEN Finish(c, response)
              ELSE call' = [call EXCEPT ![c].pc = "send", ![c].todo = rest]
    /\ UNCHANGED <<supervisordVars, proxy>>
    /\ Observe

\* The connection breaks while the response is awaited: it is closed, and the
\* next request opens it again.
ReceiveFails(c) ==
    /\ call[c].pc = "wait"
    /\ ~(up /\ proxy[c] = boots)
    /\ proxy' = [proxy EXCEPT ![c] = Unconnected]
    /\ Finish(c, "error")
    /\ UNCHANGED supervisordVars
    /\ Observe

Proceed(c) ==
    \/ List(c) \/ ListFails(c)
    \/ Send(c) \/ SendRefused(c) \/ SendFails(c)
    \/ Receive(c) \/ ReceiveFails(c)

CallMethod(c) ==
    \/ \E op \in ListOps : CallList(c, op)
    \/ \E n \in Nodes : StartNode(c, n) \/ StopNode(c, n) \/ RestartNode(c, n)

\* A step of supervisord or of a node process; the clients do nothing.
ClientsWait == UNCHANGED <<call, proxy>> /\ Observe

Next ==
    \/ Boot /\ ClientsWait
    \/ Shutdown /\ ClientsWait
    \/ \E n \in Nodes :
         \/ Autostart(n) /\ ClientsWait
         \/ Started(n) /\ ClientsWait
         \/ ExitEarly(n) /\ ClientsWait
         \/ Retry(n) /\ ClientsWait
         \/ GiveUp(n) /\ ClientsWait
         \/ Exit(n) /\ ClientsWait
         \/ Respawn(n) /\ ClientsWait
         \/ Stopped(n) /\ ClientsWait
    \/ \E c \in Clients : CallMethod(c) \/ Proceed(c)

Spec == Init /\ [][Next]_vars

\* A client that is in a method goes on with it, and supervisord's timers fire.
\* No fairness on calling a method, on exits, or on booting.
Fairness ==
    /\ \A c \in Clients : WF_vars(Proceed(c))
    /\ \A n \in Nodes : WF_vars(Scheduled(n) /\ ClientsWait)

FairSpec == Spec /\ Fairness

-----------------------------------------------------------------------------
(* Properties *)

Over(c, op, results) ==
    Idle(c) /\ call[c].op = op /\ call[c].result \in results

\* A method that returns True has done what it says to every node it acted on,
\* whatever other clients and supervisord did meanwhile: the nodes it stops were
\* stopped during the call, the nodes it starts or restarts ran after they were
\* stopped.
OkMeansDone ==
    \A c \in Clients :
      /\ \A op \in {"stop_node", "stop_all"} :
           Over(c, op, {"ok"}) => call[c].asked \subseteq since[c].stopped
      /\ \A op \in {"start_node", "start_all", "restart_node"} :
           Over(c, op, {"ok"}) => call[c].asked \subseteq since[c].started

\* A listing never leaves an unusable connection behind, neither its own nor one
\* that an earlier start or stop broke (the except branch of status()).
ListingDropsBrokenProxy ==
    \A c \in Clients :
      Over(c, "status", {"ok", "error"}) => proxy[c] # RequestSent

\* Once supervisord stays up, a caller that keeps calling status() gets answers,
\* however many requests failed while it was booting.
StatusRecovers ==
    \A c \in Clients :
      (<>[]up /\ []<>(call[c].op = "status" /\ call[c].pc = "list"))
        => []<>Over(c, "status", {"ok"})

\* Every method returns.  (Of a single client: stop_node waits as long as
\* another client keeps the node from being seen stopped.)
CallsReturn == \A c \in Clients : []<>Idle(c)

-----------------------------------------------------------------------------
(* What the documentation says and the code does not do *)

\* stop_all: "Stop all validator nodes."
StopAllStopsAll ==
    \A c \in Clients :
      Over(c, "stop_all", {"ok", "fault"}) => Nodes \subseteq since[c].stopped
=============================================================================
