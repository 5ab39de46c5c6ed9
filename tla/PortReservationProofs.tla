------------------------ MODULE PortReservationProofs ------------------------
(***************************************************************************)
(* Proofs about PortReservation, for any number of callers, squatters,     *)
(* validators, attempts and ports, and any stride and host of each call.   *)
(* The argument: where a caller is in the function says which sockets it   *)
(* can have open (Sockets) and how far its probes got (Counters), so a     *)
(* caller that has returned has probed the ports of all its nodes, and has *)
(* bound only the sockets of those it has started.  A probe that succeeds  *)
(* shows that nobody had the socket on 127.0.0.1 (OldElsewhere).           *)
(***************************************************************************)
EXTENDS PortReservation, TLAPS

\* Progress of a call, by where it is.
Counters ==
    \A c \in Callers :
      /\ pc[c] \in {"choosing", "chosen", "probing", "holding"} => left[c] >= 1
      /\ pc[c] \in {"probing", "holding"} => next[c] < NeededCount
      /\ pc[c] = "returned" => next[c] = NeededCount
      /\ pc[c] \notin {"probing", "holding", "returned"} => next[c] = 0

\* The sockets a caller has open, by where it is.
MayOwn(c, s) ==
    \/ pc[c] = "chosen" /\ s = <<"loopback", base[c]>>
    \/ pc[c] = "holding" /\ s = ToProbe(c)
    \/ pc[c] = "returned" /\ \E i \in up[c] : s \in NodeSockets(c, base[c], i)

Sockets == \A c \in Callers, s \in AllSockets : owner[s] = c => MayOwn(c, s)

\* No node runs, and nothing has clashed, before the call has returned.
NoEarlyNode == \A c \in Callers : clash[c] # {} \/ up[c] # {} => pc[c] = "returned"

\* What others had of a port when its probe succeeded was not on 127.0.0.1.
OldElsewhere == \A c \in Callers : \A s \in old[c] : s[1] # "loopback"

\* As long as nothing has clashed, the nodes that were started run, and have
\* sockets of their own.
Runs(c) ==
    clash[c] = {} =>
        /\ \A i \in up[c] : \A s \in NodeSockets(c, base[c], i) : owner[s] = c
        /\ \A i, j \in up[c] : i # j =>
             NodeSockets(c, base[c], i) \cap NodeSockets(c, base[c], j) = {}

NodesRun == \A c \in Callers : Runs(c)

IInv == TypeOK /\ Counters /\ Sockets /\ NoEarlyNode /\ OldElsewhere /\ NodesRun
        /\ ClashHasCause

-----------------------------------------------------------------------------
(* Arithmetic of the ports *)

LEMMA NeededCountNat == NeededCount \in Nat /\ NeededCount >= 1
  BY CountAssumption DEF NeededCount, PORTS_PER_NODE

LEMMA BaseOfNat ==
    ASSUME NEW c \in Callers, NEW b \in Ephemeral, NEW i \in Validators
    PROVE  BaseOf(c, b, i) \in Nat
  BY PortAssumption, StrideAssumption, CountAssumption DEF BaseOf, Validators

\* Every port of a node is one the call probes.
LEMMA NodePortNeeded ==
    ASSUME NEW c \in Callers, NEW b \in Ephemeral, NEW i \in Validators,
           NEW p \in NodePorts(c, b, i)
    PROVE  \E n \in 0..(NeededCount - 1) : p = Needed(c, b, n)
  <1>1. PICK k \in 0..5 : p = BaseOf(c, b, i) + k
    BY BaseOfNat DEF NodePorts, ServicePorts, ConsensusP2pPort, ExecutionP2pPort,
       ConsensusMetricsPort, AuthrpcPort, HttpRpcPort, WsRpcPort
  <1> DEFINE n == 6 * i + k
  <1>2. n \div 6 = i /\ n % 6 = k /\ n \in 0..(6 * Count - 1)
    BY CountAssumption DEF Validators
  <1>3. n \in 0..(NeededCount - 1)
    BY <1>2, CountAssumption DEF NeededCount, PORTS_PER_NODE
  <1> HIDE DEF n
  <1>4. p = Needed(c, b, n)
    BY <1>1, <1>2 DEF Needed, PORTS_PER_NODE
  <1>5. QED
    BY <1>3, <1>4

\* What a node opens is on its ports.
LEMMA NodeSocketIs ==
    ASSUME NEW c \in Callers, NEW b \in Ephemeral, NEW i \in Validators,
           NEW s \in NodeSockets(c, b, i)
    PROVE  s \in AllSockets /\ s[2] \in NodePorts(c, b, i)
  <1>1. Hosts[c] \subseteq Kinds
    BY HostAssumption DEF Kinds
  <1>2. PICK k \in Kinds, p \in NodePorts(c, b, i) : s = <<k, p>>
    <2> DEFINE at == BaseOf(c, b, i)
    <2>1. {ConsensusP2pPort(at), ConsensusMetricsPort(at), HttpRpcPort(at),
           WsRpcPort(at), AuthrpcPort(at), ExecutionP2pPort(at)}
             \subseteq NodePorts(c, b, i)
      BY DEF NodePorts, ServicePorts
    <2>2. \/ s \in Hosts[c] \X {ConsensusP2pPort(at), ConsensusMetricsPort(at),
                                HttpRpcPort(at), WsRpcPort(at)}
          \/ s = <<"loopback", AuthrpcPort(at)>>
          \/ s \in Kinds \X {ExecutionP2pPort(at)}
      BY DEF NodeSockets
    <2> HIDE DEF at
    <2>3. "loopback" \in Kinds
      BY DEF Kinds
    <2>4. QED
      BY <1>1, <2>1, <2>2, <2>3
  <1>3. QED
    BY <1>2 DEF AllSockets, AllPorts

\* Two nodes of one devnet have no port in common when the stride is at least
\* what a node takes.
LEMMA NodesApart ==
    ASSUME NEW c \in Callers, NEW b \in Ephemeral, NEW i \in Validators,
           NEW j \in Validators, NEW p \in NodePorts(c, b, i),
           p \in NodePorts(c, b, j), Stride[c] >= PORTS_PER_NODE
    PROVE  i = j
  <1> DEFINE st == Stride[c]
  <1>1. i \in Nat /\ j \in Nat /\ b \in Nat /\ st \in Nat /\ st >= 6
    BY PortAssumption, StrideAssumption, CountAssumption
       DEF Validators, PORTS_PER_NODE
  <1> DEFINE x == i * st
             y == j * st
  <1>2. x \in Nat /\ y \in Nat
    BY <1>1
  <1>3. PICK k \in 0..5 : p = b + x + k
    BY <1>1, <1>2 DEF NodePorts, BaseOf, ServicePorts, ConsensusP2pPort,
       ExecutionP2pPort, ConsensusMetricsPort, AuthrpcPort, HttpRpcPort, WsRpcPort
  <1>4. PICK l \in 0..5 : p = b + y + l
    BY <1>1, <1>2 DEF NodePorts, BaseOf, ServicePorts, ConsensusP2pPort,
       ExecutionP2pPort, ConsensusMetricsPort, AuthrpcPort, HttpRpcPort, WsRpcPort
  <1> HIDE DEF st
  <1>5. i > j => x >= y + st
    BY <1>1
  <1>6. j > i => y >= x + st
    BY <1>1
  <1> HIDE DEF x, y
  <1>7. QED
    BY <1>1, <1>2, <1>3, <1>4, <1>5, <1>6

\* With a smaller one the first two have a socket in common.
LEMMA NodesOverlap ==
    ASSUME NEW c \in Callers, NEW b \in Ephemeral, Count > 1,
           Stride[c] < PORTS_PER_NODE
    PROVE  NodeSockets(c, b, 0) \cap NodeSockets(c, b, 1) # {}
  <1>1. b \in Nat /\ Stride[c] \in 0..5
    BY PortAssumption, StrideAssumption DEF PORTS_PER_NODE
  <1>2. BaseOf(c, b, 0) = b /\ BaseOf(c, b, 1) = b + Stride[c]
    BY <1>1 DEF BaseOf
  <1>3. PICK h \in Hosts[c] : h \in {"loopback", "outside"}
    BY HostAssumption
  <1>4. /\ \A k \in {0, 2, 4, 5} : <<h, b + k>> \in NodeSockets(c, b, 0)
        /\ \A k \in Kinds : <<k, b + 1>> \in NodeSockets(c, b, 0)
        /\ <<"loopback", b + 3>> \in NodeSockets(c, b, 0)
    BY <1>1, <1>2, <1>3 DEF NodeSockets, ConsensusP2pPort, ConsensusMetricsPort,
       HttpRpcPort, WsRpcPort, AuthrpcPort, ExecutionP2pPort
  <1>5. /\ \A k \in {0, 2, 4, 5} :
             <<h, b + Stride[c] + k>> \in NodeSockets(c, b, 1)
        /\ \A k \in Kinds : <<k, b + Stride[c] + 1>> \in NodeSockets(c, b, 1)
    BY <1>1, <1>2, <1>3 DEF NodeSockets, ConsensusP2pPort, ConsensusMetricsPort,
       HttpRpcPort, WsRpcPort, AuthrpcPort, ExecutionP2pPort
  <1>6. CASE Stride[c] \in {0, 2, 4, 5}
    BY <1>1, <1>4, <1>5, <1>6
  <1>7. CASE Stride[c] = 1
    <2>1. <<h, b + 1>> \in NodeSockets(c, b, 0)
      BY <1>3, <1>4 DEF Kinds
    <2>2. <<h, b + 1>> \in NodeSockets(c, b, 1)
      BY <1>1, <1>5, <1>7
    <2>3. QED
      BY <2>1, <2>2
  <1>8. CASE Stride[c] = 3
    <2>1. <<h, b + 4>> \in NodeSockets(c, b, 0)
      BY <1>4
    <2>2. <<h, b + 4>> \in NodeSockets(c, b, 1)
      BY <1>1, <1>3, <1>5, <1>8 DEF Kinds
    <2>3. QED
      BY <2>1, <2>2
  <1>9. QED
    BY <1>1, <1>6, <1>7, <1>8

\* Once every needed port is probed, no port of a node is left out.
LEMMA AllProbed ==
    ASSUME TypeOK, NEW c \in Callers, next[c] = NeededCount, NEW i \in Validators
    PROVE  NodePorts(c, base[c], i) \subseteq Probed(c)
  BY NodePortNeeded DEF Probed, TypeOK

-----------------------------------------------------------------------------
(* The inductive invariant *)

LEMMA NoBaseType == NoBase \in Ephemeral
  BY PortAssumption DEF NoBase

LEMMA InitIInv == Init => IInv
  BY NoBaseType, NeededCountNat, CountAssumption, OwnerAssumption
     DEF Init, IInv, TypeOK, Counters, Sockets, NoEarlyNode, OldElsewhere, NodesRun,
         Runs, ClashHasCause

\* What binding and releasing do to the sockets of everybody.
LEMMA BindOwner ==
    ASSUME TypeOK, NEW x \in Callers \cup Squatters, NEW S \in SUBSET AllSockets,
           Bind(x, S)
    PROVE  /\ owner' \in [AllSockets -> Callers \cup Squatters \cup {Free}]
           /\ \A s \in AllSockets : owner'[s] = IF s \in S THEN x ELSE owner[s]
           /\ \A e \in Callers, s \in AllSockets :
                e # x => (owner'[s] = e <=> owner[s] = e)
  <1>1. \A s \in S : owner[s] = Free
    BY DEF Bind
  <1>2. /\ owner' \in [AllSockets -> Callers \cup Squatters \cup {Free}]
        /\ \A s \in AllSockets : owner'[s] = IF s \in S THEN x ELSE owner[s]
    BY DEF Bind, TypeOK
  <1>3. QED
    BY <1>1, <1>2, OwnerAssumption

LEMMA ReleaseOwner ==
    ASSUME TypeOK, OldElsewhere, NEW x \in Callers \cup Squatters, Release(x)
    PROVE  /\ owner' \in [AllSockets -> Callers \cup Squatters \cup {Free}]
           /\ \A s \in AllSockets : owner'[s] = IF owner[s] = x THEN Free ELSE owner[s]
           /\ \A e \in Callers, s \in AllSockets :
                e # x => (owner'[s] = e <=> owner[s] = e)
           /\ \A s \in AllSockets : owner'[s] # x
           /\ old' \in [Callers -> SUBSET AllSockets]
           /\ OldElsewhere'
  <1>1. /\ owner' \in [AllSockets -> Callers \cup Squatters \cup {Free}]
        /\ \A s \in AllSockets : owner'[s] = IF owner[s] = x THEN Free ELSE owner[s]
    BY DEF Release, TypeOK
  <1>2. old' \in [Callers -> SUBSET AllSockets] /\ OldElsewhere'
    BY DEF Release, TypeOK, OldElsewhere
  <1>3. QED
    BY <1>1, <1>2, OwnerAssumption

LEMMA NodeSocketsInAll ==
    ASSUME NEW c \in Callers, NEW b \in Ephemeral, NEW i \in Validators
    PROVE  NodeSockets(c, b, i) \in SUBSET AllSockets
  BY NodeSocketIs

\* What stays true of a caller that a step says nothing about: every part of
\* the invariant speaks of one caller at a time.
LEMMA PartsIInv ==
    ASSUME IInv, TypeOK', Counters', OldElsewhere', NEW c,
           \A e \in Callers : e # c =>
             /\ pc'[e] = pc[e] /\ base'[e] = base[e] /\ next'[e] = next[e]
             /\ up'[e] = up[e] /\ clash'[e] = clash[e],
           \A e \in Callers, s \in AllSockets :
             e # c => (owner'[s] = e <=> owner[s] = e),
           c \in Callers =>
             /\ \A s \in AllSockets : owner'[s] = c => MayOwn(c, s)'
             /\ clash'[c] # {} \/ up'[c] # {} => pc'[c] = "returned"
             /\ Runs(c)'
             /\ \A k \in clash'[c] :
                   \/ k.who # c /\ k.since
                   \/ k.who # c /\ k.at[1] # "loopback"
                   \/ k.who = c /\ Stride[c] < PORTS_PER_NODE
    PROVE  IInv'
  <1>1. Sockets'
    <2> SUFFICES ASSUME NEW e \in Callers, NEW s \in AllSockets, owner'[s] = e
                 PROVE  MayOwn(e, s)'
      BY DEF Sockets
    <2>1. CASE e = c
      BY <2>1
    <2>2. CASE e # c
      BY <2>2 DEF IInv, Sockets, MayOwn, ToProbe
    <2>3. QED
      BY <2>1, <2>2
  <1>2. NoEarlyNode'
    BY DEF IInv, NoEarlyNode
  <1>3. ClashHasCause'
    BY DEF IInv, ClashHasCause
  <1>4. NodesRun'
    <2> SUFFICES ASSUME NEW e \in Callers
                 PROVE  Runs(e)'
      BY DEF NodesRun
    <2>1. CASE e = c
      BY <2>1
    <2>2. CASE e # c
      <3>1. Runs(e)
        BY DEF IInv, NodesRun
      <3>2. \A i \in up[e] : NodeSockets(e, base[e], i) \subseteq AllSockets
        BY NodeSocketsInAll DEF IInv, TypeOK
      <3>3. QED
        BY <2>2, <3>1, <3>2 DEF Runs
    <2>3. QED
      BY <2>1, <2>2
  <1>5. QED
    BY <1>1, <1>2, <1>3, <1>4 DEF IInv

\* A caller that has not returned, and does not with this step, runs nothing.
LEMMA NothingRuns ==
    ASSUME IInv, NEW c \in Callers, pc[c] # "returned",
           clash'[c] = clash[c], up'[c] = up[c]
    PROVE  clash'[c] = {} /\ up'[c] = {} /\ Runs(c)'
  BY DEF IInv, NoEarlyNode, Runs

LEMMA SquatterIInv ==
    ASSUME IInv, NEW x \in Squatters, SquatterBinds(x) \/ SquatterReleases(x)
    PROVE  IInv'
  <1>1. /\ owner' \in [AllSockets -> Callers \cup Squatters \cup {Free}]
        /\ \A e \in Callers, s \in AllSockets :
             e # x => (owner'[s] = e <=> owner[s] = e)
        /\ old' \in [Callers -> SUBSET AllSockets] /\ OldElsewhere'
        /\ UNCHANGED <<pc, base, next, left, up, clash>>
    <2>1. CASE SquatterBinds(x)
      <3>1. PICK s \in SquatSockets : Bind(x, {s})
        BY <2>1 DEF SquatterBinds
      <3>2. {s} \in SUBSET AllSockets
        BY PortAssumption DEF AllSockets, AllPorts
      <3>3. old' = old /\ UNCHANGED <<pc, base, next, left, up, clash>>
        BY <2>1 DEF SquatterBinds
      <3>4. QED
        BY <3>1, <3>2, <3>3, BindOwner DEF IInv, TypeOK, OldElsewhere
    <2>2. CASE SquatterReleases(x)
      BY <2>2, ReleaseOwner DEF SquatterReleases, IInv
    <2>3. QED
      BY <2>1, <2>2
  <1>2. TypeOK' /\ Counters'
    BY <1>1 DEF IInv, TypeOK, Counters
  <1>3. QED
    BY <1>1, <1>2, PartsIInv, OwnerAssumption

LEMMA CallFindIInv ==
    ASSUME IInv, NEW c \in Callers, CallFind(c)
    PROVE  IInv'
  <1>1. TypeOK' /\ OldElsewhere'
    BY CountAssumption DEF CallFind, Goto, IInv, TypeOK, OldElsewhere
  <1>2. Counters'
    BY CountAssumption DEF CallFind, Goto, IInv, TypeOK, Counters
  <1>3. /\ pc[c] # "returned" /\ clash' = clash /\ up' = up
        /\ \A s \in AllSockets : owner[s] # c
    BY DEF CallFind, IInv, Sockets, MayOwn
  <1>4. clash'[c] = {} /\ up'[c] = {} /\ Runs(c)'
    BY <1>3, NothingRuns
  <1>5. /\ \A e \in Callers : e # c => pc'[e] = pc[e]
        /\ UNCHANGED <<owner, base, next>>
    BY DEF CallFind, Goto, IInv, TypeOK
  <1>6. QED
    BY <1>1, <1>2, <1>3, <1>4, <1>5, PartsIInv

\* The next attempt starts from nothing, and there is one less.
LEMMA NextTryStep ==
    ASSUME IInv, NEW c \in Callers, NextTry(c),
           pc[c] \in {"choosing", "chosen", "probing", "holding"}
    PROVE  /\ pc' \in [Callers -> {"idle", "choosing", "chosen", "probing",
                                   "holding", "returned", "raised"}]
           /\ base' \in [Callers -> Ephemeral]
           /\ next' \in [Callers -> 0..NeededCount]
           /\ left' \in [Callers -> 0..Tries]
           /\ pc'[c] \in {"choosing", "raised"} /\ next'[c] = 0
           /\ pc'[c] = "choosing" => left'[c] >= 1
           /\ \A e \in Callers : e # c =>
                /\ pc'[e] = pc[e] /\ base'[e] = base[e] /\ next'[e] = next[e]
                /\ left'[e] = left[e]
  BY NoBaseType, NeededCountNat, CountAssumption
     DEF NextTry, Forget, Goto, IInv, TypeOK, Counters

LEMMA ChooseIInv ==
    ASSUME IInv, NEW c \in Callers, ChooseBase(c) \/ ChooseRaises(c)
    PROVE  IInv'
  <1>1. /\ pc[c] = "choosing" /\ clash' = clash /\ up' = up /\ next' = next
        /\ old' = old /\ \A s \in AllSockets : owner[s] # c
    BY DEF ChooseBase, ChooseRaises, IInv, Sockets, MayOwn
  <1>2. clash'[c] = {} /\ up'[c] = {} /\ Runs(c)' /\ OldElsewhere'
    BY <1>1, NothingRuns DEF IInv, OldElsewhere
  <1>3. CASE ChooseRaises(c)
    <2>1. TypeOK' /\ Counters'
      BY <1>3, CountAssumption DEF ChooseRaises, Goto, IInv, TypeOK, Counters
    <2>2. /\ \A e \in Callers : e # c => pc'[e] = pc[e]
          /\ UNCHANGED <<owner, base>>
      BY <1>3 DEF ChooseRaises, Goto, IInv, TypeOK
    <2>3. QED
      BY <1>1, <1>2, <2>1, <2>2, PartsIInv
  <1>4. CASE ChooseBase(c)
    <2>1. PICK b \in Ephemeral :
            Bind(c, {<<"loopback", b>>}) /\ base' = [base EXCEPT ![c] = b]
      BY <1>4 DEF ChooseBase
    <2>2. {<<"loopback", b>>} \in SUBSET AllSockets
      BY DEF AllSockets, AllPorts, Kinds
    <2>3. /\ owner' \in [AllSockets -> Callers \cup Squatters \cup {Free}]
          /\ \A s \in AllSockets :
               owner'[s] = IF s \in {<<"loopback", b>>} THEN c ELSE owner[s]
          /\ \A e \in Callers, s \in AllSockets :
               e # c => (owner'[s] = e <=> owner[s] = e)
      BY <2>1, <2>2, BindOwner DEF IInv
    <2>4. TypeOK'
      BY <1>1, <1>4, <2>1, <2>3 DEF ChooseBase, Goto, IInv, TypeOK
    <2>5. Counters'
      BY <1>4, <2>1 DEF ChooseBase, Goto, IInv, TypeOK, Counters
    <2>6. base'[c] = b /\ pc'[c] = "chosen"
      BY <1>4, <2>1 DEF ChooseBase, Goto, IInv, TypeOK
    <2>7. \A e \in Callers : e # c => pc'[e] = pc[e] /\ base'[e] = base[e]
      BY <1>4, <2>1 DEF ChooseBase, Goto, IInv, TypeOK
    <2>8. \A s \in AllSockets : owner'[s] = c => MayOwn(c, s)'
      BY <1>1, <2>3, <2>6 DEF MayOwn
    <2>9. QED
      BY <1>1, <1>2, <2>3, <2>4, <2>5, <2>7, <2>8, PartsIInv
  <1>5. QED
    BY <1>3, <1>4

LEMMA CloseBaseIInv ==
    ASSUME IInv, NEW c \in Callers, CloseBase(c)
    PROVE  IInv'
  <1>1. /\ owner' \in [AllSockets -> Callers \cup Squatters \cup {Free}]
        /\ \A e \in Callers, s \in AllSockets :
             e # c => (owner'[s] = e <=> owner[s] = e)
        /\ \A s \in AllSockets : owner'[s] # c
        /\ old' \in [Callers -> SUBSET AllSockets] /\ OldElsewhere'
    BY ReleaseOwner DEF CloseBase, IInv
  <1>2. pc[c] = "chosen" /\ up' = up /\ clash' = clash
    BY DEF CloseBase
  <1>3. clash'[c] = {} /\ up'[c] = {} /\ Runs(c)'
    BY <1>2, NothingRuns
  <1>4. CASE Goto(c, "probing") /\ UNCHANGED <<base, next, left>>
    <2>1. TypeOK'
      BY <1>1, <1>2, <1>4 DEF Goto, IInv, TypeOK
    <2>2. Counters'
      BY <1>2, <1>4, NeededCountNat DEF Goto, IInv, TypeOK, Counters
    <2>3. \A e \in Callers : e # c => pc'[e] = pc[e]
      BY <1>4 DEF Goto, IInv, TypeOK
    <2>4. QED
      BY <1>1, <1>2, <1>3, <1>4, <2>1, <2>2, <2>3, PartsIInv
  <1>5. CASE NextTry(c)
    <2>1. TypeOK'
      BY <1>1, <1>2, <1>5, NextTryStep DEF IInv, TypeOK
    <2>2. Counters'
      BY <1>2, <1>5, NextTryStep DEF IInv, Counters
    <2>3. QED
      BY <1>1, <1>2, <1>3, <1>5, <2>1, <2>2, NextTryStep, PartsIInv
  <1>6. QED
    BY <1>4, <1>5 DEF CloseBase

\* A probe that succeeds shows that nobody had the socket: what others have of
\* the port is elsewhere.
LEMMA ProbeBindsIInv ==
    ASSUME IInv, NEW c \in Callers, ProbeBinds(c)
    PROVE  IInv'
  <1> DEFINE q == Needed(c, base[c], next[c])
  <1>1. /\ pc[c] = "probing" /\ pc'[c] = "holding"
        /\ UNCHANGED <<base, next, left, up, clash>>
        /\ \A e \in Callers : e # c => pc'[e] = pc[e]
    BY DEF ProbeBinds, Goto, IInv, TypeOK
  <1>2. q \in AllPorts
    <2>1. base[c] \in Ephemeral /\ next[c] \in Nat /\ next[c] < NeededCount
      BY <1>1, NeededCountNat DEF IInv, TypeOK, Counters
    <2> DEFINE i == next[c] \div PORTS_PER_NODE
               k == next[c] % PORTS_PER_NODE
    <2>2. i \in Validators /\ k \in 0..5
      BY <2>1, CountAssumption DEF NeededCount, PORTS_PER_NODE, Validators
    <2>3. q = BaseOf(c, base[c], i) + k
      BY DEF Needed
    <2> HIDE DEF i, k, q
    <2>4. BaseOf(c, base[c], i) \in Nat
      BY <2>1, <2>2, BaseOfNat
    <2>5. q \in NodePorts(c, base[c], i)
      BY <2>2, <2>3, <2>4 DEF NodePorts, ServicePorts, ConsensusP2pPort,
         ExecutionP2pPort, ConsensusMetricsPort, AuthrpcPort, HttpRpcPort, WsRpcPort
    <2>6. QED
      BY <2>1, <2>2, <2>5 DEF AllPorts
  <1> HIDE DEF q
  <1>3. ToProbe(c) = <<"loopback", q>> /\ {ToProbe(c)} \in SUBSET AllSockets
    BY <1>2 DEF ToProbe, q, AllSockets, Kinds
  <1>4. /\ owner' \in [AllSockets -> Callers \cup Squatters \cup {Free}]
        /\ \A s \in AllSockets :
             owner'[s] = IF s \in {ToProbe(c)} THEN c ELSE owner[s]
        /\ \A e \in Callers, s \in AllSockets :
             e # c => (owner'[s] = e <=> owner[s] = e)
        /\ owner[ToProbe(c)] = Free
    <2>1. Bind(c, {ToProbe(c)})
      BY DEF ProbeBinds
    <2>2. QED
      BY <1>3, <2>1, BindOwner DEF IInv, Bind
  <1>5. old' \in [Callers -> SUBSET AllSockets] /\ OldElsewhere'
    <2> DEFINE had == {s \in AllSockets : s[2] = q /\ owner[s] \notin {Free, c}}
    <2>1. old' = [old EXCEPT ![c] = @ \cup had]
      BY DEF ProbeBinds, q
    <2>2. \A s \in had : s[1] # "loopback"
      BY <1>3, <1>4 DEF AllSockets
    <2>3. had \subseteq AllSockets
      OBVIOUS
    <2> HIDE DEF had
    <2>4. QED
      BY <2>1, <2>2, <2>3 DEF IInv, TypeOK, OldElsewhere
  <1>6. clash'[c] = {} /\ up'[c] = {} /\ Runs(c)'
    BY <1>1, NothingRuns
  <1>7. TypeOK'
    BY <1>1, <1>4, <1>5 DEF ProbeBinds, Goto, IInv, TypeOK
  <1>8. Counters'
    BY <1>1 DEF IInv, Counters
  <1>9. \A s \in AllSockets : owner'[s] = c => MayOwn(c, s)'
    <2>1. \A s \in AllSockets : owner[s] # c
      BY <1>1 DEF IInv, Sockets, MayOwn
    <2>2. ToProbe(c)' = ToProbe(c)
      BY <1>1 DEF ToProbe
    <2>3. QED
      BY <1>1, <1>4, <2>1, <2>2 DEF MayOwn
  <1>10. QED
    BY <1>1, <1>4, <1>5, <1>6, <1>7, <1>8, <1>9, PartsIInv

LEMMA ProbeFailsIInv ==
    ASSUME IInv, NEW c \in Callers, ProbeFails(c)
    PROVE  IInv'
  <1>1. pc[c] = "probing" /\ NextTry(c) /\ UNCHANGED <<owner, up, clash, old>>
    BY DEF ProbeFails
  <1>2. TypeOK' /\ OldElsewhere'
    BY <1>1, NextTryStep DEF IInv, TypeOK, OldElsewhere
  <1>3. Counters'
    BY <1>1, NextTryStep DEF IInv, Counters
  <1>4. \A s \in AllSockets : owner[s] # c
    BY <1>1 DEF IInv, Sockets, MayOwn
  <1>5. clash'[c] = {} /\ up'[c] = {} /\ Runs(c)'
    BY <1>1, NothingRuns
  <1>6. QED
    BY <1>1, <1>2, <1>3, <1>4, <1>5, NextTryStep, PartsIInv

LEMMA ProbeClosesIInv ==
    ASSUME IInv, NEW c \in Callers, ProbeCloses(c)
    PROVE  IInv'
  <1>1. /\ owner' \in [AllSockets -> Callers \cup Squatters \cup {Free}]
        /\ \A e \in Callers, s \in AllSockets :
             e # c => (owner'[s] = e <=> owner[s] = e)
        /\ \A s \in AllSockets : owner'[s] # c
        /\ old' \in [Callers -> SUBSET AllSockets] /\ OldElsewhere'
    BY ReleaseOwner DEF ProbeCloses, IInv
  <1>2. /\ pc[c] = "holding" /\ UNCHANGED <<base, up, clash>>
        /\ next[c] < NeededCount /\ left[c] >= 1
        /\ next' = [next EXCEPT ![c] = @ + 1]
    BY DEF ProbeCloses, IInv, Counters
  <1>3. clash'[c] = {} /\ up'[c] = {} /\ Runs(c)'
    BY <1>2, NothingRuns
  <1>4. next'[c] = next[c] + 1 /\ next'[c] \in 0..NeededCount
    BY <1>2, NeededCountNat DEF IInv, TypeOK
  <1>5. \/ next'[c] = NeededCount /\ pc' = [pc EXCEPT ![c] = "returned"]
           /\ left' = [left EXCEPT ![c] = 0]
        \/ next'[c] # NeededCount /\ pc' = [pc EXCEPT ![c] = "probing"]
           /\ left' = left
    BY DEF ProbeCloses, Goto
  <1>6. TypeOK'
    BY <1>1, <1>2, <1>4, <1>5, CountAssumption DEF IInv, TypeOK
  <1>7. Counters'
    BY <1>2, <1>4, <1>5, NeededCountNat DEF IInv, TypeOK, Counters
  <1>8. \A e \in Callers : e # c => pc'[e] = pc[e] /\ next'[e] = next[e]
    BY <1>2, <1>5 DEF IInv, TypeOK
  <1>9. QED
    BY <1>1, <1>2, <1>3, <1>6, <1>7, <1>8, PartsIInv

LEMMA NodeListensIInv ==
    ASSUME IInv, NEW c \in Callers, NEW i \in Validators, NodeListens(c, i)
    PROVE  IInv'
  <1> DEFINE mine == NodeSockets(c, base[c], i)
  <1>1. /\ pc[c] = "returned" /\ up' = [up EXCEPT ![c] = @ \cup {i}]
        /\ UNCHANGED <<pc, base, next, left, clash, old>>
        /\ Bind(c, mine)
    BY DEF NodeListens
  <1>2. mine \in SUBSET AllSockets /\ \A s \in mine : owner[s] = Free
    BY <1>1, NodeSocketsInAll DEF IInv, TypeOK, Bind
  <1> HIDE DEF mine
  <1>3. /\ owner' \in [AllSockets -> Callers \cup Squatters \cup {Free}]
        /\ \A s \in AllSockets : owner'[s] = IF s \in mine THEN c ELSE owner[s]
        /\ \A e \in Callers, s \in AllSockets :
             e # c => (owner'[s] = e <=> owner[s] = e)
    BY <1>1, <1>2, BindOwner DEF IInv
  <1>4. up'[c] = up[c] \cup {i} /\ \A e \in Callers : e # c => up'[e] = up[e]
    BY <1>1 DEF IInv, TypeOK
  <1>5. TypeOK' /\ OldElsewhere'
    BY <1>1, <1>3 DEF IInv, TypeOK, OldElsewhere
  <1>6. Counters'
    BY <1>1 DEF IInv, Counters
  <1>7. \A s \in AllSockets : owner'[s] = c => MayOwn(c, s)'
    BY <1>1, <1>3, <1>4 DEF IInv, Sockets, MayOwn, mine
  <1>8. Runs(c)'
    <2> SUFFICES ASSUME clash[c] = {}
                 PROVE  /\ \A j \in up'[c] : \A s \in NodeSockets(c, base[c], j) :
                             owner'[s] = c
                        /\ \A j, k \in up'[c] : j # k =>
                             NodeSockets(c, base[c], j) \cap NodeSockets(c, base[c], k) = {}
      BY <1>1 DEF Runs
    <2>1. /\ \A j \in up[c] : \A s \in NodeSockets(c, base[c], j) : owner[s] = c
          /\ \A j, k \in up[c] : j # k =>
               NodeSockets(c, base[c], j) \cap NodeSockets(c, base[c], k) = {}
      BY DEF IInv, NodesRun, Runs
    <2>2. \A j \in up[c] : NodeSockets(c, base[c], j) \in SUBSET AllSockets
      BY NodeSocketsInAll DEF IInv, TypeOK
    <2>3. \A j \in up[c] : NodeSockets(c, base[c], j) \cap mine = {}
      BY <1>2, <2>1, OwnerAssumption
    <2>4. \A j \in up'[c] : \A s \in NodeSockets(c, base[c], j) : owner'[s] = c
      BY <1>2, <1>3, <1>4, <2>1, <2>2 DEF mine
    <2>5. \A j, k \in up'[c] : j # k =>
            NodeSockets(c, base[c], j) \cap NodeSockets(c, base[c], k) = {}
      BY <1>4, <2>1, <2>3 DEF mine
    <2>6. QED
      BY <2>4, <2>5
  <1>9. QED
    BY <1>1, <1>3, <1>4, <1>5, <1>6, <1>7, <1>8, PartsIInv DEF IInv, ClashHasCause

\* Of a node that finds a socket taken: the sockets of c are those of its other
\* nodes, whose ports are not this one's unless the blocks overlap; and whoever
\* else has it on 127.0.0.1 took it after the probe.
LEMMA NodeExitsIInv ==
    ASSUME IInv, NEW c \in Callers, NEW i \in Validators, NodeExits(c, i)
    PROVE  IInv'
  <1>1. /\ pc[c] = "returned" /\ i \notin up[c]
        /\ up' = [up EXCEPT ![c] = @ \cup {i}]
        /\ UNCHANGED <<owner, pc, base, next, left, old>>
    BY DEF NodeExits
  <1>2. PICK s \in NodeSockets(c, base[c], i) :
          /\ owner[s] # Free
          /\ clash' = [clash EXCEPT ![c] = @ \cup {Clash(c, s)}]
    BY DEF NodeExits
  <1>3. base[c] \in Ephemeral
    BY DEF IInv, TypeOK
  <1>4. s \in AllSockets /\ s[2] \in NodePorts(c, base[c], i)
    BY <1>3, NodeSocketIs
  <1>5. owner[s] \in Callers \cup Squatters
    BY <1>2, <1>4 DEF IInv, TypeOK
  <1> DEFINE k == Clash(c, s)
  <1>6. /\ k \in Clashes /\ k.at = s /\ k.who = owner[s]
        /\ k.since = (s[2] \in Probed(c) /\ s \notin old[c])
    BY <1>4, <1>5 DEF Clash, Clashes
  <1>7. s[2] \in Probed(c)
    BY <1>1, <1>4, AllProbed DEF IInv, Counters
  <1>8. s[1] = "loopback" => k.since
    BY <1>6, <1>7 DEF IInv, OldElsewhere
  <1>9. owner[s] = c => Stride[c] < PORTS_PER_NODE
    <2> SUFFICES ASSUME owner[s] = c, ~(Stride[c] < PORTS_PER_NODE)
                 PROVE  FALSE
      OBVIOUS
    <2>1. PICK j \in up[c] : s \in NodeSockets(c, base[c], j)
      BY <1>1, <1>4 DEF IInv, Sockets, MayOwn
    <2>2. j \in Validators
      BY DEF IInv, TypeOK
    <2>3. s[2] \in NodePorts(c, base[c], j)
      BY <1>3, <2>1, <2>2, NodeSocketIs
    <2>4. Stride[c] >= PORTS_PER_NODE
      BY StrideAssumption DEF PORTS_PER_NODE
    <2>5. QED
      BY <1>1, <1>3, <1>4, <2>1, <2>2, <2>3, <2>4, NodesApart
  <1> HIDE DEF k
  <1>10. /\ up'[c] = up[c] \cup {i} /\ clash'[c] = clash[c] \cup {k}
         /\ \A e \in Callers : e # c => up'[e] = up[e] /\ clash'[e] = clash[e]
    BY <1>1, <1>2 DEF IInv, TypeOK, k
  <1>11. TypeOK' /\ OldElsewhere'
    BY <1>1, <1>2, <1>6 DEF IInv, TypeOK, OldElsewhere, k
  <1>12. Counters'
    BY <1>1 DEF IInv, Counters
  <1>13. \A q \in AllSockets : owner'[q] = c => MayOwn(c, q)'
    BY <1>1, <1>10 DEF IInv, Sockets, MayOwn
  <1>14. \A l \in clash'[c] : \/ l.who # c /\ l.since
                              \/ l.who # c /\ l.at[1] # "loopback"
                              \/ l.who = c /\ Stride[c] < PORTS_PER_NODE
    BY <1>6, <1>8, <1>9, <1>10 DEF IInv, ClashHasCause
  <1>15. Runs(c)'
    BY <1>10 DEF Runs
  <1>16. QED
    BY <1>1, <1>10, <1>11, <1>12, <1>13, <1>14, <1>15, PartsIInv

LEMMA TeardownIInv ==
    ASSUME IInv, NEW c \in Callers, Teardown(c)
    PROVE  IInv'
  <1>1. /\ owner' \in [AllSockets -> Callers \cup Squatters \cup {Free}]
        /\ \A e \in Callers, s \in AllSockets :
             e # c => (owner'[s] = e <=> owner[s] = e)
        /\ \A s \in AllSockets : owner'[s] # c
        /\ old' \in [Callers -> SUBSET AllSockets] /\ OldElsewhere'
    BY ReleaseOwner DEF Teardown, IInv
  <1>2. /\ base' = [base EXCEPT ![c] = NoBase] /\ next' = [next EXCEPT ![c] = 0]
        /\ pc' = [pc EXCEPT ![c] = "idle"]
        /\ up' = [up EXCEPT ![c] = {}] /\ clash' = [clash EXCEPT ![c] = {}]
        /\ left' = left
    BY DEF Teardown, Forget, Goto
  <1>3. TypeOK'
    BY <1>1, <1>2, NoBaseType, NeededCountNat DEF IInv, TypeOK
  <1>4. Counters'
    BY <1>2 DEF IInv, TypeOK, Counters
  <1>5. /\ clash'[c] = {} /\ up'[c] = {} /\ Runs(c)'
        /\ \A e \in Callers : e # c =>
             /\ pc'[e] = pc[e] /\ base'[e] = base[e] /\ next'[e] = next[e]
             /\ up'[e] = up[e] /\ clash'[e] = clash[e]
    BY <1>2 DEF IInv, TypeOK, Runs
  <1>6. QED
    BY <1>1, <1>3, <1>4, <1>5, PartsIInv

LEMMA NextIInv == IInv /\ [Next]_vars => IInv'
  <1> SUFFICES ASSUME IInv, [Next]_vars
               PROVE  IInv'
    OBVIOUS
  <1>1. ASSUME NEW c \in Callers, CallFind(c) \/ Search(c) \/ Teardown(c)
        PROVE  IInv'
    BY <1>1, CallFindIInv, ChooseIInv, CloseBaseIInv, ProbeBindsIInv,
       ProbeFailsIInv, ProbeClosesIInv, TeardownIInv DEF Search
  <1>2. ASSUME NEW c \in Callers, NEW i \in Validators,
               NodeListens(c, i) \/ NodeExits(c, i)
        PROVE  IInv'
    BY <1>2, NodeListensIInv, NodeExitsIInv
  <1>3. ASSUME NEW x \in Squatters, SquatterBinds(x) \/ SquatterReleases(x)
        PROVE  IInv'
    BY <1>3, SquatterIInv
  <1>4. CASE UNCHANGED vars
    BY <1>4 DEF vars, IInv, TypeOK, Counters, Sockets, MayOwn, ToProbe, NoEarlyNode,
       OldElsewhere, NodesRun, Runs, ClashHasCause
  <1>5. QED
    BY <1>1, <1>2, <1>3, <1>4 DEF Next

LEMMA SpecIInv == Spec => []IInv
  <1>1. Spec => Init /\ [][Next]_vars
    BY PTL DEF Spec
  <1>2. QED
    BY <1>1, InitIInv, NextIInv, PTL

-----------------------------------------------------------------------------
(* The theorems *)

\* Every caller is somewhere in the function, with a base the kernel gave, a
\* probe that exists and an attempt it is allowed.
THEOREM TypeCorrect == Spec => []TypeOK
  BY SpecIInv, PTL DEF IInv

\* However many processes search, start and stop devnets at once, a node finds
\* a socket taken only by a process that took it after the probe, by one that
\* has it where no probe looks, or by a node of its own devnet, with a stride
\* that makes blocks overlap.
THEOREM ClashesHaveCauses == Spec => []ClashHasCause
  BY SpecIInv, PTL DEF IInv

\* A stride below the ports of a node goes through the search unnoticed, and
\* leaves a node of every devnet of several validators without its sockets.
THEOREM OverlapsKeepDown == Spec => []OverlapKeepsDown
  <1>1. IInv => OverlapKeepsDown
    <2> SUFFICES ASSUME IInv, NEW c \in Callers, up[c] = Validators, clash[c] = {},
                        Count # 1, ~(Stride[c] >= PORTS_PER_NODE)
                 PROVE  FALSE
      BY DEF OverlapKeepsDown
    <2>1. Count > 1 /\ Stride[c] < PORTS_PER_NODE /\ {0, 1} \subseteq up[c]
      BY CountAssumption, StrideAssumption DEF Validators, PORTS_PER_NODE
    <2>2. base[c] \in Ephemeral
      BY DEF IInv, TypeOK
    <2>3. NodeSockets(c, base[c], 0) \cap NodeSockets(c, base[c], 1) = {}
      BY <2>1 DEF IInv, NodesRun, Runs
    <2>4. QED
      BY <2>1, <2>2, <2>3, NodesOverlap
  <1>2. QED
    BY <1>1, SpecIInv, PTL

-----------------------------------------------------------------------------
(* What is left of a call *)

\* An attempt less is a whole round less.
LEMMA RoundIs ==
    ASSUME NEW l \in Nat, l >= 1
    PROVE  /\ Round = 2 * NeededCount + 2 /\ Round \in Nat
           /\ l * Round \in Nat /\ l * Round >= Round
           /\ (l - 1) * Round = l * Round - Round
  <1>1. Round \in Nat /\ Round = 2 * NeededCount + 2
    BY NeededCountNat DEF Round
  <1> HIDE DEF Round
  <1>2. PICK k \in Nat : l = k + 1
    <2>1. l = (l - 1) + 1 /\ l - 1 \in Nat
      OBVIOUS
    <2>2. QED
      BY <2>1
  <1>3. l * Round = k * Round + Round /\ k * Round \in Nat /\ l - 1 = k
    BY <1>1, <1>2
  <1>4. QED
    BY <1>1, <1>3

\* The next attempt is counted.
LEMMA NextTryCounts ==
    ASSUME IInv, NEW c \in Callers, NextTry(c), Searching(c)
    PROVE  /\ pc'[c] \in {"choosing", "raised"} /\ left'[c] = left[c] - 1
           /\ StepsLeft(c)' \in Nat /\ StepsLeft(c)' <= left[c] * Round - Round
  <1>1. pc'[c] \in {"choosing", "raised"}
    BY NextTryStep DEF Searching
  <1>2. left[c] \in Nat /\ left[c] >= 1 /\ left'[c] = left[c] - 1
    BY CountAssumption DEF IInv, TypeOK, Counters, NextTry, Searching
  <1> DEFINE whole == left[c] * Round
             rest == (left[c] - 1) * Round
  <1>3. whole \in Nat /\ whole >= Round /\ Round \in Nat /\ rest = whole - Round
    BY <1>2, RoundIs
  <1>4. StepsLeft(c)' \in {rest, 0}
    BY <1>1, <1>2 DEF StepsLeft, Round, NeededCount
  <1> HIDE DEF whole, rest
  <1>5. StepsLeft(c)' \in Nat /\ StepsLeft(c)' <= whole - Round
    BY <1>3, <1>4
  <1>6. QED
    BY <1>1, <1>2, <1>5 DEF whole

\* A step of a call leaves it fewer.
LEMMA SearchLowers ==
    ASSUME IInv, NEW c \in Callers, Searching(c), Search(c)
    PROVE  StepsLeft(c)' \in Nat /\ StepsLeft(c)' < StepsLeft(c)
  <1> DEFINE whole == left[c] * Round
  <1>1. /\ left[c] \in Nat /\ left[c] >= 1 /\ next[c] \in Nat
        /\ pc[c] \in {"probing", "holding"} => next[c] < NeededCount
        /\ pc[c] \in {"choosing", "chosen"} => next[c] = 0
    BY NeededCountNat, CountAssumption DEF IInv, TypeOK, Counters, Searching
  <1>2. /\ NeededCount \in Nat /\ NeededCount >= 1
        /\ Round \in Nat /\ Round = 2 * NeededCount + 2
        /\ whole \in Nat /\ whole >= Round
    BY <1>1, NeededCountNat, RoundIs
  <1>3. /\ pc[c] = "choosing" => StepsLeft(c) = whole
        /\ pc[c] = "chosen" => StepsLeft(c) = whole - 1
        /\ pc[c] = "probing" => StepsLeft(c) = whole - 2 - 2 * next[c]
        /\ pc[c] = "holding" => StepsLeft(c) = whole - 3 - 2 * next[c]
    BY DEF StepsLeft
  <1>4. left'[c] = left[c] =>
          /\ pc'[c] = "chosen" => StepsLeft(c)' = whole - 1
          /\ pc'[c] = "probing" => StepsLeft(c)' = whole - 2 - 2 * next'[c]
          /\ pc'[c] = "holding" => StepsLeft(c)' = whole - 3 - 2 * next'[c]
    BY DEF StepsLeft, Round, NeededCount
  <1>5. pc'[c] \in {"returned", "raised"} => StepsLeft(c)' = 0
    BY DEF StepsLeft
  <1> HIDE DEF whole
  <1>6. CASE ChooseBase(c)
    <2>1. pc[c] = "choosing" /\ pc'[c] = "chosen" /\ left'[c] = left[c]
      BY <1>6 DEF ChooseBase, Goto, IInv, TypeOK
    <2>2. QED
      BY <1>2, <1>3, <1>4, <2>1
  <1>7. CASE ChooseRaises(c)
    <2>1. pc[c] = "choosing" /\ pc'[c] = "raised"
      BY <1>7 DEF ChooseRaises, Goto, IInv, TypeOK
    <2>2. QED
      BY <1>2, <1>3, <1>5, <2>1
  <1>8. CASE CloseBase(c)
    <2>1. pc[c] = "chosen"
      BY <1>8 DEF CloseBase
    <2>2. CASE Goto(c, "probing") /\ UNCHANGED <<base, next, left>>
      <3>1. pc'[c] = "probing" /\ left'[c] = left[c] /\ next'[c] = 0
        BY <1>1, <2>1, <2>2 DEF Goto, IInv, TypeOK
      <3>2. QED
        BY <1>2, <1>3, <1>4, <2>1, <3>1
    <2>3. CASE NextTry(c)
      <3>1. StepsLeft(c)' \in Nat /\ StepsLeft(c)' <= whole - Round
        BY <2>3, NextTryCounts DEF whole
      <3>2. QED
        BY <1>2, <1>3, <2>1, <3>1
    <2>4. QED
      BY <1>8, <2>2, <2>3 DEF CloseBase
  <1>9. CASE ProbeBinds(c)
    <2>1. /\ pc[c] = "probing" /\ pc'[c] = "holding"
          /\ left'[c] = left[c] /\ next'[c] = next[c]
      BY <1>9 DEF ProbeBinds, Goto, IInv, TypeOK
    <2>2. QED
      BY <1>1, <1>2, <1>3, <1>4, <2>1
  <1>10. CASE ProbeFails(c)
    <2>1. pc[c] = "probing"
      BY <1>10 DEF ProbeFails
    <2>2. StepsLeft(c)' \in Nat /\ StepsLeft(c)' <= whole - Round
      BY <1>10, NextTryCounts DEF ProbeFails, whole
    <2>3. QED
      BY <1>1, <1>2, <1>3, <2>1, <2>2
  <1>11. CASE ProbeCloses(c)
    <2>1. pc[c] = "holding" /\ next'[c] = next[c] + 1
      BY <1>11 DEF ProbeCloses, IInv, TypeOK
    <2>2. CASE next'[c] = NeededCount
      <3>1. pc'[c] = "returned"
        BY <1>11, <2>2 DEF ProbeCloses, Goto, IInv, TypeOK
      <3>2. QED
        BY <1>1, <1>2, <1>3, <1>5, <2>1, <3>1
    <2>3. CASE next'[c] # NeededCount
      <3>1. pc'[c] = "probing" /\ left'[c] = left[c]
        BY <1>11, <2>3 DEF ProbeCloses, Goto, IInv, TypeOK
      <3>2. next'[c] < NeededCount
        BY <1>1, <1>2, <2>1, <2>3
      <3>3. QED
        BY <1>1, <1>2, <1>3, <1>4, <2>1, <3>1, <3>2
    <2>4. QED
      BY <2>2, <2>3
  <1>12. QED
    BY <1>6, <1>7, <1>8, <1>9, <1>10, <1>11 DEF Search

\* A step of another process, or of a devnet that has its ports, leaves the call
\* where it is.
LEMMA OthersLeave ==
    ASSUME IInv, NEW c \in Callers, Searching(c), [Next]_vars, ~ Search(c)
    PROVE  /\ pc'[c] = pc[c] /\ base'[c] = base[c]
           /\ next'[c] = next[c] /\ left'[c] = left[c]
  <1>1. ASSUME NEW e \in Callers, CallFind(e) \/ Teardown(e)
        PROVE  e # c /\ UNCHANGED <<pc[c], base[c], next[c], left[c]>>
    BY <1>1 DEF CallFind, Teardown, Forget, Goto, Searching, IInv, TypeOK
  <1>2. ASSUME NEW e \in Callers, Search(e)
        PROVE  UNCHANGED <<pc[c], base[c], next[c], left[c]>>
    <2>1. e # c
      BY <1>2
    <2>2. CASE ChooseBase(e) \/ ChooseRaises(e)
      BY <2>1, <2>2 DEF ChooseBase, ChooseRaises, Goto, IInv, TypeOK
    <2>3. CASE CloseBase(e)
      BY <2>1, <2>3 DEF CloseBase, NextTry, Forget, Goto, IInv, TypeOK
    <2>4. CASE ProbeBinds(e) \/ ProbeFails(e)
      BY <2>1, <2>4 DEF ProbeBinds, ProbeFails, NextTry, Forget, Goto, IInv, TypeOK
    <2>5. CASE ProbeCloses(e)
      BY <2>1, <2>5 DEF ProbeCloses, Goto, IInv, TypeOK
    <2>6. QED
      BY <1>2, <2>2, <2>3, <2>4, <2>5 DEF Search
  <1>3. ASSUME NEW e \in Callers, NEW i \in Validators,
               NodeListens(e, i) \/ NodeExits(e, i)
        PROVE  UNCHANGED <<pc, base, next, left>>
    BY <1>3 DEF NodeListens, NodeExits
  <1>4. ASSUME NEW x \in Squatters, SquatterBinds(x) \/ SquatterReleases(x)
        PROVE  UNCHANGED <<pc, base, next, left>>
    BY <1>4 DEF SquatterBinds, SquatterReleases
  <1>5. CASE UNCHANGED vars
    BY <1>5 DEF vars
  <1>6. QED
    BY <1>1, <1>2, <1>3, <1>4, <1>5 DEF Next

\* A call that runs among any number of others is over after at most Tries
\* attempts of Round steps each: every step of its own brings it nearer to its
\* end, and nobody else's step takes it back.
THEOREM CallsComeToAnEnd == Spec => CallsRunDown
  <1>1. ASSUME IInv, [Next]_vars, NEW c \in Callers, Searching(c)
        PROVE  \/ UNCHANGED <<pc[c], base[c], next[c], left[c]>>
               \/ StepsLeft(c)' \in Nat /\ StepsLeft(c)' < StepsLeft(c)
    BY <1>1, SearchLowers, OthersLeave
  <1>2. IInv /\ [Next]_vars =>
          [\A c \in Callers : Searching(c) =>
             \/ UNCHANGED <<pc[c], base[c], next[c], left[c]>>
             \/ StepsLeft(c)' \in Nat /\ StepsLeft(c)' < StepsLeft(c)]_vars
    BY <1>1
  <1>3. Spec => [][Next]_vars
    BY PTL DEF Spec
  <1>4. QED
    BY <1>2, <1>3, SpecIInv, PTL DEF CallsRunDown
=============================================================================
