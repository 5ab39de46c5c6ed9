-------------------------- MODULE ClusterEndpoints --------------------------
(***************************************************************************)
(* What a ClusterCLI (tempo/devnet/cluster.py) knows of the devnet that    *)
(* ComposeTopology leaves in the data directory: its configuration, read   *)
(* from devnet.yaml or guessed from the directories, once per object, and  *)
(* the RPC endpoints that follow from it.                                  *)
(***************************************************************************)
EXTENDS ComposeTopology

CONSTANT NameRank   \* where each moniker that begins with "node" sorts

VARIABLE cluster    \* the configuration the object caches, None before

\* Names sort as strings do: "node10" before "node2".
ASSUME NamesSort ==
    /\ NameRank \in [DOMAIN NameRank -> Nat] /\ IsInjective(NameRank)
    /\ DOMAIN NameRank \subseteq Monikers
    /\ \A n \in 0 .. 10 : NodeName[n] \in DOMAIN NameRank
    /\ \A n, o \in 0 .. 9 : n < o => NameRank[NodeName[n]] < NameRank[NodeName[o]]
    /\ NameRank[NodeName[1]] < NameRank[NodeName[10]]
    /\ NameRank[NodeName[10]] < NameRank[NodeName[2]]

-----------------------------------------------------------------------------
\* The directories whose name begins with "node".
Found == {m \in DOMAIN NameRank : disk.dirs[m] # None}

\* How many of the names come before m.
Position(names, m) == Cardinality({n \in names : NameRank[n] < NameRank[m]})

Sorted(names) ==
    [i \in 1 .. Cardinality(names) |-> CHOOSE m \in names : Position(names, m) = i - 1]

\* The mapping guessed without a devnet.yaml.
\* Mutant: base ports as close as a node's ports allow.
Guessed_Dense ==
    LET names == Sorted(Found)
    IN  [backend |-> None, tempo_bin |-> None, tempo_xtask_bin |-> None,
         validators |->
           [i \in DOMAIN names |->
              [host |-> Localhost, port |-> 8000 + (i - 1) * PORTS_PER_NODE,
               moniker |-> names[i], base_port |-> None, p2p_host |-> None,
               rpc_host |-> None]],
         docker |->
           [network |-> None, subnet |-> None, validator_network |-> None,
            public_network |-> None, follow_nodes |-> <<>>,
            p2p_proxies |-> <<>>, public_nodes |-> <<>>]]

Guessed ==
    LET names == Sorted(Found)
    IN  [backend |-> None, tempo_bin |-> None, tempo_xtask_bin |-> None,
         validators |->
           [i \in DOMAIN names |->
              [host |-> Localhost, port |-> 8000 + (i - 1) * 10,
               moniker |-> names[i], base_port |-> None, p2p_host |-> None,
               rpc_host |-> None]],
         docker |->
           [network |-> None, subnet |-> None, validator_network |-> None,
            public_network |-> None, follow_nodes |-> <<>>,
            p2p_proxies |-> <<>>, public_nodes |-> <<>>]]

Config == FromDict(IF disk.yaml # None THEN disk.yaml ELSE Guessed)

\* ClusterCLI.config; a data directory that is not there cannot be listed.
ReadConfig ==
    /\ cluster = None
    /\ disk.genesis # None
    /\ cluster' = Config
    /\ UNCHANGED vars

NewCluster ==
    /\ cluster # None
    /\ cluster' = None
    /\ UNCHANGED vars

\* Of several nodes of one name the first is found.
Named(nodes, moniker) == {i \in DOMAIN nodes : nodes[i].moniker = moniker}
FirstNamed(nodes, moniker) == nodes[Min(Named(nodes, moniker))]

\* Mutant: the consensus port instead of the base port.
FindRpcEndpoint_Port(cfg, moniker) ==
    LET services == cfg.docker.follow_nodes \o cfg.docker.public_nodes
    IN  IF Named(cfg.validators, moniker) # {}
        THEN LET v == FirstNamed(cfg.validators, moniker)
             IN  [host |-> v.host, base |-> v.port]
        ELSE IF Named(services, moniker) # {}
        THEN [host |-> Localhost, base |-> FirstNamed(services, moniker).port]
        ELSE None

\* None stands for KeyError.
FindRpcEndpoint(cfg, moniker) ==
    LET services == cfg.docker.follow_nodes \o cfg.docker.public_nodes
    IN  IF Named(cfg.validators, moniker) # {}
        THEN LET v == FirstNamed(cfg.validators, moniker)
             IN  [host |-> v.host, base |-> v.base_port]
        ELSE IF Named(services, moniker) # {}
        THEN [host |-> Localhost, base |-> FirstNamed(services, moniker).port]
        ELSE None

NodeRpcUrl(cfg, moniker) ==
    LET endpoint == FindRpcEndpoint(cfg, moniker)
    IN  [host |-> endpoint.host, port |-> HttpRpcPort(endpoint.base)]

NodeWsUrl(cfg, moniker) ==
    LET endpoint == FindRpcEndpoint(cfg, moniker)
    IN  [host |-> endpoint.host, port |-> WsRpcPort(endpoint.base)]

-----------------------------------------------------------------------------
(* The servers of a devnet on the host *)

\* The TCP sockets of a validator's run.sh; authrpc and the execution P2P have no
\* address of their own and take their program's.  Allegro has no metrics.
HostSockets(cfg, v) ==
    LET Socket(service, address, port) ==
          [service |-> service, address |-> address, port |-> port]
        base == v.base_port
    IN  {Socket("consensus", v.p2p_host, ConsensusP2pPort(base)),
         Socket("execution", AnyHost, ExecutionP2pPort(base)),
         Socket("authrpc", Localhost, AuthrpcPort(base)),
         Socket("http", v.rpc_host, HttpRpcPort(base)),
         Socket("ws", v.rpc_host, WsRpcPort(base))}
        \cup IF cfg.backend = DEFAULT_BACKEND
             THEN {Socket("metrics", v.host, ConsensusMetricsPort(base))} ELSE {}

\* What is bound to an address, or to every address, takes connections to it; a
\* client that connects to 0.0.0.0 comes to the local host.
Reaches(host, address) ==
    address \in {AnyHost, IF host = AnyHost THEN Localhost ELSE host}

\* Which server of which validator a connection to the URL comes to.
Answering(cfg, url) ==
    {a \in (DOMAIN cfg.validators)
            \X {"consensus", "execution", "metrics", "authrpc", "http", "ws"} :
       \E socket \in HostSockets(cfg, cfg.validators[a[1]]) :
         /\ socket.service = a[2]
         /\ socket.port = url.port
         /\ Reaches(url.host, socket.address)}

-----------------------------------------------------------------------------
ClusterInit == Init /\ cluster = None

ClusterNext ==
    \/ Next /\ UNCHANGED cluster
    \/ ReadConfig
    \/ NewCluster

ClusterSpec == ClusterInit /\ [][ClusterNext]_<<vars, cluster>>

-----------------------------------------------------------------------------
(* Properties *)

\* The devnet.yaml that init saves reads back as the configuration init ran
\* with, whatever was defaulted, given or overridden, but for the binaries: they
\* become the backend's (to_dict leaves them out), even if init ran others.
SavedConfigReloads ==
    (laid # None /\ laid.saved) =>
      FromDict(disk.yaml) =
        [laid.cfg EXCEPT !.tempo_bin = DefaultBin(laid.cfg.backend),
                         !.tempo_xtask_bin = DefaultXtaskBin(laid.cfg.backend)]

\* Nodes whose port blocks do not overlap.
BlocksApart(nodes) ==
    \A i, k \in DOMAIN nodes :
      i < k => \/ nodes[i].port + PORTS_PER_NODE <= nodes[k].port
               \/ nodes[k].port + PORTS_PER_NODE <= nodes[i].port

Serving(services, port) ==
    {m \in DOMAIN services : \E p \in services[m].ports : p.host = port}

\* While a ClusterCLI's configuration is the one on disk, the HTTP and the WebSocket
\* URL of a node lead to this node and to no other, provided no port blocks overlap
\* (two services left at a default port do).  In Docker they name ports that only
\* this service publishes.  On the host they lead to the RPC servers of its run.sh
\* exactly if these are bound to the host of the URL, or to every address: with
\* another rpc_host nothing answers them.
EndpointsLeadHome ==
    (/\ cluster # None /\ laid # None /\ laid.saved
     /\ cluster = FromDict(disk.yaml)
     /\ DistinctNodes(cluster)) =>
      /\ (disk.compose = laid.cfg /\ BlocksApart(Nodes(laid.cfg))) =>
           \A m \in NamesOf(Nodes(laid.cfg)) :
             LET services == Services(laid.cfg)
             IN  IF services[m].kind = "proxy"
                 THEN FindRpcEndpoint(cluster, m) = None
                 ELSE /\ Serving(services, NodeRpcUrl(cluster, m).port) = {m}
                      /\ Serving(services, NodeWsUrl(cluster, m).port) = {m}
      /\ (~laid.docker /\ BlocksApart(ValidatorNodes(laid.cfg))) =>
           \A i \in DOMAIN laid.cfg.validators :
             LET v == laid.cfg.validators[i]
                 Served(service) ==
                   IF Reaches(v.host, v.rpc_host) THEN {<<i, service>>} ELSE {}
             IN  /\ Answering(laid.cfg, NodeRpcUrl(cluster, v.moniker)) = Served("http")
                 /\ Answering(laid.cfg, NodeWsUrl(cluster, v.moniker)) = Served("ws")

\* Without a devnet.yaml (generate_localnet alone) the guess is right about a
\* standard devnet, local validators on 8000, 8010, ..., exactly if they are listed
\* as their names sort; those of node0, node1, ... are as long as they are at most
\* ten.
Standard(cfg) ==
    \A i \in DOMAIN cfg.validators :
      /\ cfg.validators[i].host = Localhost
      /\ cfg.validators[i].base_port = 8000 + 10 * (i - 1)

Numbered(cfg) ==
    \A i \in DOMAIN cfg.validators :
      i <= 11 => cfg.validators[i].moniker = NodeName[i - 1]

InOrder(cfg) ==
    \A i, k \in DOMAIN cfg.validators :
      i < k => NameRank[cfg.validators[i].moniker] < NameRank[cfg.validators[k].moniker]

Serves(cfg) ==
    \A i \in DOMAIN cfg.validators :
      LET v == cfg.validators[i]
      IN  FindRpcEndpoint(cluster, v.moniker) = [host |-> v.host, base |-> v.base_port]

GuessServes ==
    (/\ cluster # None /\ laid # None /\ disk.yaml = None
     /\ cluster = FromDict(Guessed)
     /\ Standard(laid.cfg)
     /\ Found = NamesOf(ValidatorNodes(laid.cfg))) =>
        /\ Serves(laid.cfg) <=> InOrder(laid.cfg)
        /\ Numbered(laid.cfg) =>
             (Serves(laid.cfg) <=> Len(laid.cfg.validators) <= 10)
=============================================================================
