--------------------------- MODULE PortReservation ---------------------------
(***************************************************************************)
(* find_free_base_ports, tempo/devnet/ports.py, called by several          *)
(* processes of one host at the same time (parallel test runs, each        *)
(* building a DevnetConfig.ephemeral), beside processes that know nothing  *)
(* of it.  The call holds no port while it returns: it binds each port it  *)
(* needs, closes the socket, and goes to the next one, and the nodes       *)
(* listen much later.                                                      *)
(*                                                                         *)
(* A socket is a pair of what it is bound to and a port: TCP on 127.0.0.1, *)
(* the one address the function probes, TCP on the host's other addresses, *)
(* or UDP.  A listener on 0.0.0.0 has both TCP sockets of its port.        *)
(*                                                                         *)
(* A caller is at one of                                                   *)
(*    idle      no devnet,                                                 *)
(*    choosing  about to ask the kernel for a base,                        *)
(*    chosen    with the socket of the base open,                          *)
(*    probing   between two probes,                                        *)
(*    holding   with the socket of a probe open,                           *)
(*    returned  with the base ports, its nodes starting,                   *)
(*    raised    after the RuntimeError (or bind's OSError).                *)
(***************************************************************************)
EXTENDS Ports, Integers, FiniteSets, FiniteSetsExt

\* What a socket is bound to.
Kinds == {"loopback", "outside", "udp"}

CONSTANTS
    Callers,     \* the processes that call find_free_base_ports
    Squatters,   \* the other processes that open sockets on the host
    SquatSockets, \* the sockets those use
    Ephemeral,   \* the ports the kernel gives to bind(0)
    Count,       \* validators of each ephemeral devnet
    Stride,      \* the stride of each caller's call, 10 by default
    Hosts,       \* where its config puts the nodes: TCP kinds of socket
    Ceiling,     \* the first port the code takes for too high, 65500
    Tries,       \* attempts of one call, 200
    Free         \* the owner of a port nobody has bound

ASSUME CountAssumption == Count \in Nat \ {0} /\ Tries \in Nat \ {0}
ASSUME StrideAssumption == Stride \in [Callers -> Nat]
ASSUME HostAssumption == Hosts \in [Callers -> (SUBSET {"loopback", "outside"}) \ {{}}]
ASSUME PortAssumption == Ephemeral \subseteq Nat /\ SquatSockets \subseteq Kinds \X Nat
                         /\ Ceiling \in Nat /\ IsFiniteSet(Ephemeral)
                         /\ Ephemeral # {}
ASSUME OwnerAssumption == Callers \cap Squatters = {}
                          /\ Free \notin Callers \cup Squatters

VARIABLES
    owner,   \* which process has a socket
    pc,      \* where each caller is
    base,    \* the base port of its current attempt
    next,    \* how many of the needed ports it has probed
    left,    \* attempts left
    up,      \* the validators whose node has been started
    clash,   \* what its nodes found taken
    old      \* history: what others have had since before c probed the port

vars == <<owner, pc, base, next, left, up, clash, old>>

Validators == 0..(Count - 1)

NoBase == CHOOSE b \in Ephemeral : TRUE

\* Mutant: the blocks are a port further apart.
BaseOf_Apart(c, b, i) == b + i * (Stride[c] + 1)

\* bases, and the ports of a validator's node.
BaseOf(c, b, i) == b + i * Stride[c]

NodePorts(c, b, i) == ServicePorts(BaseOf(c, b, i))

\* needed, in the order the generator yields the ports.
Needed(c, b, n) == BaseOf(c, b, n \div PORTS_PER_NODE) + (n % PORTS_PER_NODE)

NeededCount == Count * PORTS_PER_NODE

AllNeeded(c, b) == {Needed(c, b, n) : n \in 0..(NeededCount - 1)}

AllPorts == {s[2] : s \in SquatSockets} \cup Ephemeral
            \cup UNION {NodePorts(c, b, i) :
                           c \in Callers, b \in Ephemeral, i \in Validators}

AllSockets == Kinds \X AllPorts

\* What a node opens: consensus, metrics, HTTP and WS on the host of the
\* config, the engine API on 127.0.0.1, and the execution P2P port on every
\* address, by TCP and, for discovery, by UDP.
NodeSockets(c, b, i) ==
    LET at == BaseOf(c, b, i)
    IN  (Hosts[c] \X {ConsensusP2pPort(at), ConsensusMetricsPort(at),
                      HttpRpcPort(at), WsRpcPort(at)})
        \cup {<<"loopback", AuthrpcPort(at)>>}
        \cup (Kinds \X {ExecutionP2pPort(at)})

\* A socket a node found taken, by whom, and whether since its port was probed.
Clashes == [at : AllSockets, who : Callers \cup Squatters, since : BOOLEAN]

TypeOK ==
    /\ owner \in [AllSockets -> Callers \cup Squatters \cup {Free}]
    /\ pc \in [Callers -> {"idle", "choosing", "chosen", "probing", "holding",
                           "returned", "raised"}]
    /\ base \in [Callers -> Ephemeral]
    /\ next \in [Callers -> 0..NeededCount]
    /\ left \in [Callers -> 0..Tries]
    /\ up \in [Callers -> SUBSET Validators]
    /\ clash \in [Callers -> SUBSET Clashes]
    /\ old \in [Callers -> SUBSET AllSockets]

Init ==
    /\ owner = [s \in AllSockets |-> Free]
    /\ pc = [c \in Callers |-> "idle"]
    /\ base = [c \in Callers |-> NoBase]
    /\ next = [c \in Callers |-> 0]
    /\ left = [c \in Callers |-> 0]
    /\ up = [c \in Callers |-> {}]
    /\ clash = [c \in Callers |-> {}]
    /\ old = [c \in Callers |-> {}]

-----------------------------------------------------------------------------
(* Sockets.                                                                *)

\* The ports the last attempt of c found bindable.
Probed(c) == {Needed(c, base[c], n) : n \in 0..(next[c] - 1)}

Bind(x, S) ==
    /\ \A s \in S : owner[s] = Free
    /\ owner' = [s \in AllSockets |-> IF s \in S THEN x ELSE owner[s]]

Release(x) ==
    /\ owner' = [s \in AllSockets |-> IF owner[s] = x THEN Free ELSE owner[s]]
    /\ old' = [c \in Callers |-> {s \in old[c] : owner[s] # x}]

SquatterBinds(x) ==
    /\ x \notin {owner[s] : s \in SquatSockets}
    /\ \E s \in SquatSockets : Bind(x, {s})
    /\ UNCHANGED <<pc, base, next, left, up, clash, old>>

SquatterReleases(x) ==
    /\ x \in {owner[s] : s \in SquatSockets}
    /\ Release(x)
    /\ UNCHANGED <<pc, base, next, left, up, clash>>

-----------------------------------------------------------------------------
(* find_free_base_ports.                                                   *)

Goto(c, where) == pc' = [pc EXCEPT ![c] = where]

\* Caller c has no base, and has probed nothing.
Forget(c) ==
    /\ base' = [base EXCEPT ![c] = NoBase]
    /\ next' = [next EXCEPT ![c] = 0]

CallFind(c) ==
    /\ pc[c] \in {"idle", "raised"}
    /\ Goto(c, "choosing")
    /\ left' = [left EXCEPT ![c] = Tries]
    /\ UNCHANGED <<owner, base, next, up, clash, old>>

\* for _ in range(200): the next attempt, or RuntimeError after the last.
\* Mutant: an attempt that fails is not counted.
NextTry_Uncounted(c) ==
    /\ Forget(c)
    /\ Goto(c, "choosing")
    /\ UNCHANGED left

\* Mutant: one attempt too many.
NextTry_OneMore(c) ==
    /\ Forget(c)
    /\ left' = [left EXCEPT ![c] = @ - 1]
    /\ Goto(c, IF left[c] >= 1 THEN "choosing" ELSE "raised")

NextTry(c) ==
    /\ Forget(c)
    /\ left' = [left EXCEPT ![c] = @ - 1]
    /\ Goto(c, IF left[c] > 1 THEN "choosing" ELSE "raised")

\* s.bind((host, 0)): the kernel takes a port nobody has bound on 127.0.0.1.
ChooseBase(c) ==
    /\ pc[c] = "choosing"
    /\ \E b \in Ephemeral :
          /\ Bind(c, {<<"loopback", b>>})
          /\ base' = [base EXCEPT ![c] = b]
    /\ Goto(c, "chosen")
    /\ UNCHANGED <<next, left, up, clash, old>>

\* The kernel has none: OSError leaves the function.
ChooseRaises(c) ==
    /\ pc[c] = "choosing"
    /\ \A b \in Ephemeral : owner[<<"loopback", b>>] # Free
    /\ Goto(c, "raised")
    /\ left' = [left EXCEPT ![c] = 0]
    /\ UNCHANGED <<owner, base, next, up, clash, old>>

\* The with block closes the socket of the base; max(needed) < 65500.
CloseBase(c) ==
    /\ pc[c] = "chosen"
    /\ Release(c)
    /\ IF Max(AllNeeded(c, base[c])) < Ceiling
       THEN Goto(c, "probing") /\ UNCHANGED <<base, next, left>>
       ELSE NextTry(c)
    /\ UNCHANGED <<up, clash>>

\* _can_bind on the next needed port, by TCP on 127.0.0.1: whoever has it
\* elsewhere, or by UDP, is not noticed.
ToProbe(c) == <<"loopback", Needed(c, base[c], next[c])>>

ProbeBinds(c) ==
    /\ pc[c] = "probing"
    /\ Bind(c, {ToProbe(c)})
    /\ old' = [old EXCEPT ![c] = @ \cup
                  {s \in AllSockets : s[2] = Needed(c, base[c], next[c])
                                      /\ owner[s] \notin {Free, c}}]
    /\ Goto(c, "holding")
    /\ UNCHANGED <<base, next, left, up, clash>>

ProbeFails(c) ==
    /\ pc[c] = "probing"
    /\ owner[ToProbe(c)] # Free
    /\ NextTry(c)
    /\ UNCHANGED <<owner, up, clash, old>>

\* _can_bind returns True and closes its socket; after the last port the
\* call returns the bases.
ProbeCloses(c) ==
    /\ pc[c] = "holding"
    /\ Release(c)
    /\ next' = [next EXCEPT ![c] = @ + 1]
    /\ IF next'[c] = NeededCount
       THEN Goto(c, "returned") /\ left' = [left EXCEPT ![c] = 0]
       ELSE Goto(c, "probing") /\ UNCHANGED left
    /\ UNCHANGED <<base, up, clash>>

-----------------------------------------------------------------------------
(* The devnet that uses the bases (external).                              *)

\* A node opens its sockets.
NodeListens(c, i) ==
    /\ pc[c] = "returned"
    /\ i \notin up[c]
    /\ Bind(c, NodeSockets(c, base[c], i))
    /\ up' = [up EXCEPT ![c] = @ \cup {i}]
    /\ UNCHANGED <<pc, base, next, left, clash, old>>

\* A node of c finds s taken.
Clash(c, s) ==
    [at |-> s, who |-> owner[s], since |-> s[2] \in Probed(c) /\ s \notin old[c]]

\* A node exits because a socket is taken.
NodeExits(c, i) ==
    /\ pc[c] = "returned"
    /\ i \notin up[c]
    /\ \E s \in NodeSockets(c, base[c], i) :
          /\ owner[s] # Free
          /\ clash' = [clash EXCEPT ![c] = @ \cup {Clash(c, s)}]
    /\ up' = [up EXCEPT ![c] = @ \cup {i}]
    /\ UNCHANGED <<owner, pc, base, next, left, old>>

\* The run ends and its devnet is stopped.
Teardown(c) ==
    /\ pc[c] = "returned"
    /\ up[c] = Validators
    /\ Release(c)
    /\ Forget(c)
    /\ Goto(c, "idle")
    /\ up' = [up EXCEPT ![c] = {}]
    /\ clash' = [clash EXCEPT ![c] = {}]
    /\ UNCHANGED left

-----------------------------------------------------------------------------
Search(c) ==
    \/ ChooseBase(c)
    \/ ChooseRaises(c)
    \/ CloseBase(c)
    \/ ProbeBinds(c)
    \/ ProbeFails(c)
    \/ ProbeCloses(c)

Next ==
    \/ \E c \in Callers : CallFind(c) \/ Search(c) \/ Teardown(c)
    \/ \E c \in Callers, i \in Validators : NodeListens(c, i) \/ NodeExits(c, i)
    \/ \E x \in Squatters : SquatterBinds(x) \/ SquatterReleases(x)

\* A call runs on: nothing in it waits for another process.
Spec == Init /\ [][Next]_vars /\ \A c \in Callers : WF_vars(Search(c))

-----------------------------------------------------------------------------
(* Properties.                                                             *)

\* A node of an ephemeral devnet finds a socket taken for one of three reasons:
\* another process took it after find_free_base_ports had found its port
\* free, the race the function cannot close; another process has it where
\* _can_bind does not look, on another address or by UDP, and may have had it
\* all along; or a node of the same devnet has it, which needs a stride below
\* the ports of a node.  The second is what "Every derived service port of every
\* block is probed to be bindable" (ports.py:68-69) leaves open, of a devnet that
\* ephemeral puts on another host "on free base ports" (config.py:334) too.
ClashHasCause ==
    \A c \in Callers : \A k \in clash[c] :
        \/ k.who # c /\ k.since
        \/ k.who # c /\ k.at[1] # "loopback"
        \/ k.who = c /\ Stride[c] < PORTS_PER_NODE

\* The function probes the blocks of an overlapping stride like any others and
\* returns them; but no devnet of several validators comes up on them: one of
\* its nodes has found a socket taken when the last has been started.
OverlapKeepsDown ==
    \A c \in Callers :
        pc[c] = "returned" /\ up[c] = Validators /\ clash[c] = {} =>
            Count = 1 \/ Stride[c] >= PORTS_PER_NODE

Searching(c) == pc[c] \in {"choosing", "chosen", "probing", "holding"}

\* The steps of one attempt that probes every port, and those a call has left
\* at most.
Round == 2 * NeededCount + 2

StepsLeft(c) ==
    CASE pc[c] = "choosing" -> left[c] * Round
      [] pc[c] = "chosen"   -> left[c] * Round - 1
      [] pc[c] = "probing"  -> left[c] * Round - 2 - 2 * next[c]
      [] pc[c] = "holding"  -> left[c] * Round - 3 - 2 * next[c]
      [] OTHER              -> 0

\* No call goes on for ever, whatever the other processes do to the ports it
\* probes: a step of somebody else leaves it where it is, and each of its own
\* steps, the ones that give up an attempt and start the next among them,
\* leaves it fewer than it had, of Tries times Round at the start.
CallsRunDown ==
    [][\A c \in Callers : Searching(c) =>
          \/ UNCHANGED <<pc[c], base[c], next[c], left[c]>>
          \/ StepsLeft(c)' \in Nat /\ StepsLeft(c)' < StepsLeft(c)]_vars

\* Every call ends, with the base ports or with an error, whatever the other
\* processes do to the ports it probes: it tries a bounded number of times
\* and waits for nobody.
EveryCallEnds ==
    \A c \in Callers :
        pc[c] = "choosing" ~> pc[c] \in {"returned", "raised"}
=============================================================================
