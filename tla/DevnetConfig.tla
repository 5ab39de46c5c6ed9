---------------------------- MODULE DevnetConfig ----------------------------
(***************************************************************************)
(* DevnetConfig (tempo/devnet/config.py): the configuration that a YAML    *)
(* mapping is read as, and the mapping it is saved as.  A mapping is a     *)
(* record with None for a key that is not there, and Null for a key whose  *)
(* value is null where the code tells the two apart.                       *)
(*                                                                         *)
(* Left out are the scalars that are handed to the xtask and back to YAML  *)
(* as they are (chain id, accounts, gas limit, seed, hardforks, patches).  *)
(***************************************************************************)
EXTENDS Ports, Sequences

CONSTANTS
    NodeName,   \* NodeName[n]: the moniker "node<n>", up to the first of two digits
    None, Null

ASSUME NodeNames == DOMAIN NodeName = 0 .. 10

DEFAULT_BACKEND == "tempo"

\* An address is a number, as ipaddress computes with it.
IPv4(a, b, c, d) == ((a * 256 + b) * 256 + c) * 256 + d
Localhost == IPv4(127, 0, 0, 1)
AnyHost == IPv4(0, 0, 0, 0)

\* A subnet is its network address and how many addresses it has.
DEFAULT_DOCKER_SUBNET == [address |-> IPv4(10, 88, 0, 0), size |-> 256]
DEFAULT_DOCKER_PUBLIC_SUBNET == [address |-> IPv4(10, 89, 0, 0), size |-> 256]
DEFAULT_DOCKER_PUBLIC_NETWORK == "tempo-public-net"
DOCKER_IP_HOST_OCTET_BASE == 10
DOCKER_PUBLIC_IP_HOST_OCTET_BASE == 10

\* data.get(key, default)
Get(value, default) == IF value = None THEN default ELSE value

-----------------------------------------------------------------------------
(* Validators and services *)

DefaultMoniker(port) == NodeName[(port \div 10) % 10]

ValidatorFromDict(d) ==
    LET host == Get(d.host, Localhost)
        port == Get(d.port, Get(d.base_port, 8000))
    IN  [host |-> host, port |-> port,
         moniker |-> Get(d.moniker, DefaultMoniker(port)),
         base_port |-> Get(d.base_port, port),
         p2p_host |-> Get(d.p2p_host, host),
         rpc_host |-> Get(d.rpc_host, AnyHost)]

ValidatorToDict(v) ==
    [host |-> v.host, port |-> v.port, moniker |-> v.moniker,
     base_port |-> v.base_port,
     p2p_host |-> IF v.p2p_host # v.host THEN v.p2p_host ELSE None,
     rpc_host |-> IF v.rpc_host # AnyHost THEN v.rpc_host ELSE None]

ServiceFromDict(d, defaultPort) ==
    [moniker |-> d.moniker, port |-> Get(d.port, defaultPort)]

EachFromDict(ds, defaultPort) ==
    [i \in DOMAIN ds |-> ServiceFromDict(ds[i], defaultPort)]

-----------------------------------------------------------------------------
(* The docker section *)

\* A network the user configured, an empty mapping and null standing for none.
Configured(network, default) ==
    IF network \in {None, Null} THEN default ELSE network

\* Topology, networks and services; the services of a single network's section
\* are not read.
DockerTopology(d) ==
    LET network == Get(d.network, "tempo-devnet")
        subnet == Get(d.subnet, DEFAULT_DOCKER_SUBNET)
        validators == Configured(d.validator_network,
                                 [name |-> network, subnet |-> subnet])
        public == Configured(d.public_network,
                             [name |-> DEFAULT_DOCKER_PUBLIC_NETWORK,
                              subnet |-> DEFAULT_DOCKER_PUBLIC_SUBNET])
    IN  IF d.validator_network = None /\ d.public_network = None
        THEN [topology |-> "single",
              network |-> [name |-> network, subnet |-> subnet],
              public |-> None, follow_nodes |-> <<>>, p2p_proxies |-> <<>>,
              public_nodes |-> <<>>]
        ELSE [topology |-> "two-network",
              network |-> [name |-> Get(validators.name, "tempo-validator-net"),
                           subnet |-> Get(validators.subnet,
                                          DEFAULT_DOCKER_SUBNET)],
              public |-> [name |-> Get(public.name, DEFAULT_DOCKER_PUBLIC_NETWORK),
                          subnet |-> Get(public.subnet,
                                         DEFAULT_DOCKER_PUBLIC_SUBNET)],
              follow_nodes |-> EachFromDict(d.follow_nodes, 9000),
              p2p_proxies |-> EachFromDict(d.p2p_proxies, 7000),
              public_nodes |-> EachFromDict(d.public_nodes, 6000)]

IsTwoNetwork(cfg) == cfg.docker.topology = "two-network"

\* Mutant: the public nodes are not saved.
DockerToDict_NoPublicNodes(cfg) ==
    [network |-> None, subnet |-> None,
     validator_network |-> cfg.docker.network,
     public_network |-> cfg.docker.public,
     follow_nodes |-> cfg.docker.follow_nodes,
     p2p_proxies |-> cfg.docker.p2p_proxies, public_nodes |-> <<>>]

DockerToDict(cfg) ==
    IF IsTwoNetwork(cfg)
    THEN [network |-> None, subnet |-> None,
          validator_network |-> cfg.docker.network,
          public_network |-> cfg.docker.public,
          follow_nodes |-> cfg.docker.follow_nodes,
          p2p_proxies |-> cfg.docker.p2p_proxies,
          public_nodes |-> cfg.docker.public_nodes]
    ELSE [network |-> cfg.docker.network.name, subnet |-> cfg.docker.network.subnet,
          validator_network |-> None, public_network |-> None,
          follow_nodes |-> <<>>, p2p_proxies |-> <<>>, public_nodes |-> <<>>]

-----------------------------------------------------------------------------
(* The configuration *)

DefaultBin(backend) == [backend |-> backend, tool |-> "node"]
DefaultXtaskBin(backend) == [backend |-> backend, tool |-> "xtask"]

DefaultValidators ==
    [i \in 1 .. 4 |->
       [host |-> Localhost, port |-> 8000 + 10 * (i - 1),
        moniker |-> NodeName[i - 1], base_port |-> None, p2p_host |-> None,
        rpc_host |-> None]]

FromDict(data) ==
    LET backend == Get(data.backend, DEFAULT_BACKEND)
        validators == IF data.validators = <<>> THEN DefaultValidators
                      ELSE data.validators
    IN  [backend |-> backend,
         tempo_bin |-> Get(data.tempo_bin, DefaultBin(backend)),
         tempo_xtask_bin |-> Get(data.tempo_xtask_bin, DefaultXtaskBin(backend)),
         validators |-> [i \in DOMAIN validators |-> ValidatorFromDict(validators[i])],
         docker |-> DockerTopology(data.docker)]

\* The names of the binaries are not saved.
ToDict(cfg) ==
    [backend |-> IF cfg.backend # DEFAULT_BACKEND THEN cfg.backend ELSE None,
     tempo_bin |-> None, tempo_xtask_bin |-> None,
     validators |-> [i \in DOMAIN cfg.validators |->
                       ValidatorToDict(cfg.validators[i])],
     docker |-> DockerToDict(cfg)]

\* cli.py init: the overrides of the command line are attributes set afterwards.
\* Any attribute can be; --backend is the one that others were derived from.
Override(cfg, backend) ==
    IF backend = None THEN cfg ELSE [cfg EXCEPT !.backend = backend]

DockerIp(cfg, index) ==
    cfg.docker.network.subnet.address + DOCKER_IP_HOST_OCTET_BASE + index

DockerPublicIp(cfg, index) ==
    cfg.docker.public.subnet.address + DOCKER_PUBLIC_IP_HOST_OCTET_BASE + index

\* The address of each validator in genesis: of its container or of its host.
\* Mutant: containers are counted from 1.
GenesisAddresses_OneBased(cfg, docker) ==
    [i \in DOMAIN cfg.validators |->
       IF docker THEN [host |-> DockerIp(cfg, i),
                       port |-> DOCKER_CONSENSUS_P2P_PORT]
       ELSE [host |-> cfg.validators[i].host, port |-> cfg.validators[i].port]]

GenesisAddresses(cfg, docker) ==
    [i \in DOMAIN cfg.validators |->
       IF docker THEN [host |-> DockerIp(cfg, i - 1),
                       port |-> DOCKER_CONSENSUS_P2P_PORT]
       ELSE [host |-> cfg.validators[i].host, port |-> cfg.validators[i].port]]
=============================================================================
