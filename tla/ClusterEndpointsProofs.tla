----------------------- MODULE ClusterEndpointsProofs -----------------------
(***************************************************************************)
(* Theorems about ComposeTopology and the clusters that read what it       *)
(* leaves, for any topologies, node names, subnets and sequences of calls, *)
(* completed, refused or killed half way through a file.                   *)
(*                                                                         *)
(* The addresses need no invariant: a configuration numbers its nodes from *)
(* 0 in the order the generator lists them, and the address of a node is   *)
(* its number past a fixed base (SlotIs).  The files do: a script is fresh *)
(* from the operation that writes it on, because a step writes a key only  *)
(* where there is none and every other step leaves the keys alone          *)
(* (ScriptsFresh, KeysIdentify, NoGenesis).  That the saved configuration  *)
(* reads back is from_dict after to_dict, field by field (ConfigReloads),  *)
(* and that nothing rewrites the file (Saved).                             *)
(*                                                                         *)
(* What the scripts say rests on the names being different, so that a      *)
(* script stays as it was written (SInv), and that containers match        *)
(* genesis on keys that are all different and stay with the validators     *)
(* that genesis has them for (GInv).                                       *)
(***************************************************************************)
EXTENDS ClusterEndpoints, FiniteSetTheorems, SequenceTheorems, TLAPS

Validators ==
    [host: Nat, port: Nat, moniker: Monikers, base_port: Nat, p2p_host: Nat,
     rpc_host: Nat]
Peripherals == [moniker: Monikers, port: Nat]
ValidatorLists == Seq(Validators)
PeripheralLists == Seq(Peripherals)

-----------------------------------------------------------------------------
(* Configurations *)

\* None, null and a torn file are no values of the program.
LEMMA NoneIsNothing ==
    /\ \A nothing \in {None, Null, Torn} :
         /\ nothing \notin Nat /\ nothing \notin Monikers /\ nothing \notin Subnets
         /\ nothing \notin Configs /\ nothing \notin Genesis /\ nothing \notin Scripts
         /\ nothing \notin Dir /\ nothing \notin Layouts
    /\ None # Null /\ None # Torn
  BY NoneIsAbsence

\* dict.get with a default of the same type.
LEMMA GetType ==
    ASSUME NEW S, None \notin S, NEW value \in Optional(S), NEW default \in S
    PROVE  Get(value, default) \in S
  BY DEF Get, Optional

LEMMA MonikerType ==
    ASSUME NEW port \in Nat
    PROVE  DefaultMoniker(port) \in Monikers
  <1>1. (port \div 10) % 10 \in 0 .. 9
    OBVIOUS
  <1>2. QED
    BY <1>1, MappingTypes DEF DefaultMoniker

ValidatorDicts ==
    [host: Optional(Nat), port: Optional(Nat), moniker: Optional(Monikers),
     base_port: Optional(Nat), p2p_host: Optional(Nat), rpc_host: Optional(Nat)]

\* ValidatorConfig.from_dict gives every field a value.
LEMMA ValidatorType ==
    ASSUME NEW d \in ValidatorDicts
    PROVE  ValidatorFromDict(d) \in Validators
  <1> DEFINE host == Get(d.host, Localhost)
             port == Get(d.port, Get(d.base_port, 8000))
  <1>1. None \notin Nat /\ None \notin Monikers
    BY NoneIsNothing
  <1>2. Localhost \in Nat /\ AnyHost \in Nat
    BY DEF Localhost, AnyHost, IPv4
  <1>3. host \in Nat
    BY <1>1, <1>2, GetType DEF ValidatorDicts
  <1>4. port \in Nat
    BY <1>1, GetType DEF ValidatorDicts
  <1>5. Get(d.moniker, DefaultMoniker(port)) \in Monikers
    BY <1>1, <1>4, MonikerType, GetType DEF ValidatorDicts
  <1>6. Get(d.base_port, port) \in Nat
    BY <1>1, <1>4, GetType DEF ValidatorDicts
  <1>7. Get(d.p2p_host, host) \in Nat
    BY <1>1, <1>3, GetType DEF ValidatorDicts
  <1>8. Get(d.rpc_host, AnyHost) \in Nat
    BY <1>1, <1>2, GetType DEF ValidatorDicts
  <1>9. ValidatorFromDict(d) =
          [host |-> host, port |-> port,
           moniker |-> Get(d.moniker, DefaultMoniker(port)),
           base_port |-> Get(d.base_port, port),
           p2p_host |-> Get(d.p2p_host, host), rpc_host |-> Get(d.rpc_host, AnyHost)]
    BY DEF ValidatorFromDict
  <1> HIDE DEF host, port
  <1>10. QED
    BY <1>3, <1>4, <1>5, <1>6, <1>7, <1>8, <1>9 DEF Validators

ValidatorMappings == Seq(ValidatorDicts)
PeripheralDicts == [moniker: Monikers, port: Optional(Nat)]
Mappings == Seq(PeripheralDicts)

LEMMA SeqFacts ==
    ASSUME NEW S, NEW s \in Seq(S)
    PROVE  /\ Len(s) \in Nat /\ DOMAIN s = 1 .. Len(s)
           /\ \A i \in DOMAIN s : s[i] \in S
  OBVIOUS

LEMMA SeqFromFunction ==
    ASSUME NEW S, NEW n \in Nat, NEW f \in [1 .. n -> S]
    PROVE  f \in Seq(S) /\ Len(f) = n
  OBVIOUS

LEMMA ServicesType ==
    ASSUME NEW ds \in Mappings, NEW defaultPort \in Nat
    PROVE  EachFromDict(ds, defaultPort) \in PeripheralLists
  <1>1. DOMAIN ds = 1 .. Len(ds) /\ Len(ds) \in Nat
    BY SeqFacts DEF Mappings, ValidatorMappings
  <1>2. ASSUME NEW i \in DOMAIN ds
        PROVE  ServiceFromDict(ds[i], defaultPort) \in Peripherals
    <2>1. ds[i] \in PeripheralDicts
      BY <1>2, SeqFacts DEF Mappings, ValidatorMappings
    <2>2. Get(ds[i].port, defaultPort) \in Nat
      BY <2>1, NoneIsNothing, GetType DEF PeripheralDicts
    <2>3. QED
      BY <2>1, <2>2 DEF ServiceFromDict, Peripherals, PeripheralDicts
  <1> DEFINE r == EachFromDict(ds, defaultPort)
  <1>3. r \in [1 .. Len(ds) -> Peripherals]
    BY <1>1, <1>2 DEF EachFromDict
  <1> HIDE DEF r
  <1>4. r \in PeripheralLists
    BY <1>1, <1>3, SeqFromFunction DEF PeripheralLists, ValidatorLists, ValidatorMappings
  <1>5. QED
    BY <1>4 DEF r

LEMMA ValidatorsType ==
    ASSUME NEW ds \in ValidatorMappings
    PROVE  [i \in DOMAIN ds |-> ValidatorFromDict(ds[i])] \in ValidatorLists
  <1> DEFINE r == [i \in DOMAIN ds |-> ValidatorFromDict(ds[i])]
  <1>1. DOMAIN ds = 1 .. Len(ds) /\ Len(ds) \in Nat
    BY SeqFacts DEF Mappings, ValidatorMappings
  <1>2. ASSUME NEW i \in DOMAIN ds
        PROVE  ValidatorFromDict(ds[i]) \in Validators
    BY <1>2, SeqFacts, ValidatorType DEF Mappings, ValidatorMappings
  <1>3. r \in [1 .. Len(ds) -> Validators]
    BY <1>1, <1>2
  <1> HIDE DEF r
  <1>4. r \in ValidatorLists
    BY <1>1, <1>3, SeqFromFunction DEF PeripheralLists, ValidatorLists, ValidatorMappings
  <1>5. QED
    BY <1>4 DEF r

LEMMA DefaultValidatorsType ==
    DefaultValidators \in ValidatorMappings /\ DefaultValidators # <<>>
  <1>1. ASSUME NEW i \in 1 .. 4
        PROVE  DefaultValidators[i] \in ValidatorDicts
    <2>1. NodeName[i - 1] \in Monikers
      BY <1>1, MappingTypes
    <2>2. 8000 + 10 * (i - 1) \in Nat /\ Localhost \in Nat
      BY <1>1 DEF Localhost, IPv4
    <2>3. DefaultValidators[i] =
            [host |-> Localhost, port |-> 8000 + 10 * (i - 1),
             moniker |-> NodeName[i - 1], base_port |-> None, p2p_host |-> None,
             rpc_host |-> None]
      BY <1>1 DEF DefaultValidators
    <2>4. QED
      BY <2>1, <2>2, <2>3 DEF ValidatorDicts, Optional
  <1>2. DOMAIN DefaultValidators = 1 .. 4
    BY DEF DefaultValidators
  <1>3. DefaultValidators \in [1 .. 4 -> ValidatorDicts]
    BY <1>1, <1>2 DEF DefaultValidators
  <1>4. DefaultValidators \in ValidatorMappings /\ Len(DefaultValidators) = 4
    BY <1>3, SeqFromFunction DEF PeripheralLists, ValidatorLists, ValidatorMappings
  <1>5. \A s : Len(s) = 4 => s # <<>>
    OBVIOUS
  <1>6. DefaultValidators # <<>>
    BY <1>4, <1>5
  <1>7. QED
    BY <1>4, <1>6

\* The docker section of a configuration.
IsDocker(docker) ==
    /\ docker = [topology |-> docker.topology, network |-> docker.network,
                 public |-> docker.public, follow_nodes |-> docker.follow_nodes,
                 p2p_proxies |-> docker.p2p_proxies,
                 public_nodes |-> docker.public_nodes]
    /\ docker.network = [name |-> docker.network.name, subnet |-> docker.network.subnet]
    /\ docker.network.subnet \in Subnets
    /\ docker.follow_nodes \in PeripheralLists
    /\ docker.p2p_proxies \in PeripheralLists
    /\ docker.public_nodes \in PeripheralLists

IsSingle(docker) ==
    /\ docker.topology = "single"
    /\ docker.public = None
    /\ docker.follow_nodes = <<>>
    /\ docker.p2p_proxies = <<>>
    /\ docker.public_nodes = <<>>
    /\ Get(docker.network.name, "tempo-devnet") = docker.network.name

IsTwo(docker) ==
    /\ docker.topology = "two-network"
    /\ docker.public = [name |-> docker.public.name, subnet |-> docker.public.subnet]
    /\ docker.public.subnet \in Subnets
    /\ Get(docker.network.name, "tempo-validator-net") = docker.network.name
    /\ Get(docker.public.name, DEFAULT_DOCKER_PUBLIC_NETWORK) = docker.public.name

LEMMA GetAgain == \A value, default : Get(Get(value, default), default) = Get(value, default)
  BY DEF Get

\* The docker section a mapping asks for is one network or two.
LEMMA DockerType ==
    ASSUME NEW data \in Dicts
    PROVE  /\ IsDocker(DockerTopology(data.docker))
           /\ \/ IsSingle(DockerTopology(data.docker))
              \/ IsTwo(DockerTopology(data.docker))
  <1> DEFINE d == data.docker
             network == Get(d.network, "tempo-devnet")
             subnet == Get(d.subnet, DEFAULT_DOCKER_SUBNET)
             validators == Configured(d.validator_network,
                                      [name |-> network, subnet |-> subnet])
             public == Configured(d.public_network,
                                  [name |-> DEFAULT_DOCKER_PUBLIC_NETWORK,
                                   subnet |-> DEFAULT_DOCKER_PUBLIC_SUBNET])
             docker == DockerTopology(d)
  <1>1. DEFAULT_DOCKER_SUBNET \in Subnets /\ DEFAULT_DOCKER_PUBLIC_SUBNET \in Subnets
    BY DEF DEFAULT_DOCKER_SUBNET, DEFAULT_DOCKER_PUBLIC_SUBNET, Subnets, IPv4
  <1>2. None \notin Subnets
    BY NoneIsNothing
  <1>3. d.subnet \in Optional(Subnets)
    BY MappingTypes
  <1>4. subnet \in Subnets
    BY <1>1, <1>2, <1>3, GetType
  <1>5. ASSUME NEW net \in {d.validator_network, d.public_network}, net \notin {None, Null}
        PROVE  net.subnet \in Optional(Subnets)
    BY <1>5, MappingTypes
  <1>6. validators.subnet \in Optional(Subnets)
    BY <1>4, <1>5 DEF Configured, Optional
  <1>7. public.subnet \in Optional(Subnets)
    BY <1>1, <1>5 DEF Configured, Optional
  <1>8. /\ Get(validators.subnet, DEFAULT_DOCKER_SUBNET) \in Subnets
        /\ Get(public.subnet, DEFAULT_DOCKER_PUBLIC_SUBNET) \in Subnets
    BY <1>1, <1>2, <1>6, <1>7, GetType
  <1>9. /\ EachFromDict(d.follow_nodes, 9000) \in PeripheralLists
        /\ EachFromDict(d.p2p_proxies, 7000) \in PeripheralLists
        /\ EachFromDict(d.public_nodes, 6000) \in PeripheralLists
    <2> HIDE DEF d
    <2>1. \A ds \in {d.follow_nodes, d.p2p_proxies, d.public_nodes} :
            ds \in Mappings
      BY MappingTypes, Zenon DEF d, PeripheralDicts, Mappings
    <2>2. /\ d.follow_nodes \in Mappings
          /\ d.p2p_proxies \in Mappings
          /\ d.public_nodes \in Mappings
      BY <2>1, Zenon
    <2>3. 9000 \in Nat /\ 7000 \in Nat /\ 6000 \in Nat
      OBVIOUS
    <2>4. QED
      BY <2>2, <2>3, ServicesType
  <1>10. CASE d.validator_network = None /\ d.public_network = None
    <2> DEFINE nothing == <<>>
               net == [name |-> network, subnet |-> subnet]
    <2>1. docker =
            [topology |-> "single", network |-> net, public |-> None,
             follow_nodes |-> nothing, p2p_proxies |-> nothing,
             public_nodes |-> nothing]
      BY <1>10 DEF DockerTopology
    <2>2. nothing \in PeripheralLists
      BY DEF PeripheralLists
    <2>3. /\ net = [name |-> net.name, subnet |-> net.subnet] /\ net.subnet \in Subnets
          /\ Get(net.name, "tempo-devnet") = net.name
      <3> HIDE DEF network
      <3>1. Get(network, "tempo-devnet") = network
        BY GetAgain DEF network
      <3>2. QED
        BY <1>4, <3>1
    <2> HIDE DEF docker, net, nothing
    <2>4. /\ docker.network = net /\ docker.topology = "single" /\ docker.public = None
          /\ docker.follow_nodes = nothing /\ docker.p2p_proxies = nothing
          /\ docker.public_nodes = nothing
      BY <2>1
    <2>5. IsDocker(docker)
      BY <2>1, <2>2, <2>3, <2>4 DEF IsDocker
    <2>6. IsSingle(docker)
      BY <2>3, <2>4 DEF IsSingle, nothing
    <2>7. QED
      BY <2>5, <2>6 DEF docker
  <1>11. CASE ~(d.validator_network = None /\ d.public_network = None)
    <2> DEFINE v == [name |-> Get(validators.name, "tempo-validator-net"),
                     subnet |-> Get(validators.subnet, DEFAULT_DOCKER_SUBNET)]
               p == [name |-> Get(public.name, DEFAULT_DOCKER_PUBLIC_NETWORK),
                     subnet |-> Get(public.subnet, DEFAULT_DOCKER_PUBLIC_SUBNET)]
               f == EachFromDict(d.follow_nodes, 9000)
               x == EachFromDict(d.p2p_proxies, 7000)
               n == EachFromDict(d.public_nodes, 6000)
    <2>1. docker = [topology |-> "two-network", network |-> v, public |-> p,
                    follow_nodes |-> f, p2p_proxies |-> x, public_nodes |-> n]
      BY <1>11 DEF DockerTopology
    <2>2. /\ v = [name |-> v.name, subnet |-> v.subnet] /\ v.subnet \in Subnets
          /\ Get(v.name, "tempo-validator-net") = v.name
      <3> HIDE DEF validators
      <3>1. QED
        BY <1>8, GetAgain
    <2>3. /\ p = [name |-> p.name, subnet |-> p.subnet] /\ p.subnet \in Subnets
          /\ Get(p.name, DEFAULT_DOCKER_PUBLIC_NETWORK) = p.name
      <3> HIDE DEF public
      <3>1. QED
        BY <1>8, GetAgain
    <2> HIDE DEF docker, v, p, f, x, n
    <2>4. /\ docker.network = v /\ docker.topology = "two-network" /\ docker.public = p
          /\ docker.follow_nodes = f /\ docker.p2p_proxies = x /\ docker.public_nodes = n
      BY <2>1
    <2>5. IsDocker(docker)
      BY <1>9, <2>1, <2>2, <2>4 DEF IsDocker, f, x, n
    <2>6. IsTwo(docker)
      BY <2>3, <2>2, <2>4 DEF IsTwo
    <2>7. QED
      BY <2>5, <2>6 DEF docker
  <1>12. QED
    BY <1>10, <1>11

\* A configuration the generators run with.
IsConfig(cfg) ==
    /\ cfg = [backend |-> cfg.backend, tempo_bin |-> cfg.tempo_bin,
              tempo_xtask_bin |-> cfg.tempo_xtask_bin,
              validators |-> cfg.validators, docker |-> cfg.docker]
    /\ cfg.backend # None \/ cfg.backend = DEFAULT_BACKEND
    /\ cfg.validators \in ValidatorLists /\ cfg.validators # <<>>
    /\ IsDocker(cfg.docker)
    /\ IsSingle(cfg.docker) \/ IsTwo(cfg.docker)

LEMMA MappedNotEmpty ==
    \A ds : ds \in Seq(ValidatorDicts) /\ ds # <<>> =>
      \A f : DOMAIN f = DOMAIN ds => f # <<>>
  OBVIOUS

\* LocalnetConfig.from_dict, whatever the mapping leaves out.
LEMMA LoadedConfig ==
    ASSUME NEW data \in Dicts
    PROVE  IsConfig(FromDict(data))
  <1> DEFINE backend == Get(data.backend, DEFAULT_BACKEND)
             ds == IF data.validators = <<>> THEN DefaultValidators ELSE data.validators
             validators == [i \in DOMAIN ds |-> ValidatorFromDict(ds[i])]
             bin == Get(data.tempo_bin, DefaultBin(backend))
             xtask == Get(data.tempo_xtask_bin, DefaultXtaskBin(backend))
             docker == DockerTopology(data.docker)
             cfg == FromDict(data)
  <1>1. cfg = [backend |-> backend, tempo_bin |-> bin, tempo_xtask_bin |-> xtask,
               validators |-> validators, docker |-> docker]
    BY DEF FromDict
  <1>2. ds \in ValidatorMappings /\ ds # <<>>
    BY MappingTypes, DefaultValidatorsType DEF ValidatorMappings, ValidatorDicts
  <1>3. validators \in ValidatorLists /\ validators # <<>>
    <2> HIDE DEF ds
    <2>1. validators \in ValidatorLists
      BY <1>2, ValidatorsType
    <2>2. DOMAIN validators = DOMAIN ds
      OBVIOUS
    <2> HIDE DEF validators
    <2>3. QED
      BY <1>2, <2>1, <2>2, MappedNotEmpty DEF ValidatorMappings
  <1>4. backend # None \/ backend = DEFAULT_BACKEND
    BY DEF Get
  <1>5. IsDocker(docker) /\ (IsSingle(docker) \/ IsTwo(docker))
    BY DockerType
  <1> HIDE DEF backend, validators, bin, xtask, docker, cfg
  <1>6. /\ cfg.backend = backend /\ cfg.validators = validators /\ cfg.docker = docker
        /\ cfg.tempo_bin = bin /\ cfg.tempo_xtask_bin = xtask
    BY <1>1
  <1>7. IsConfig(cfg)
    BY <1>1, <1>3, <1>4, <1>5, <1>6 DEF IsConfig
  <1>8. QED
    BY <1>7 DEF cfg

LEMMA ConfigType == \A cfg \in Configs : IsConfig(cfg)
  <1>1. ASSUME NEW data \in Dicts, NEW backend
        PROVE  IsConfig(Override(FromDict(data), backend))
    <2> DEFINE cfg == FromDict(data)
               new == [cfg EXCEPT !.backend = backend]
    <2>1. IsConfig(cfg)
      BY LoadedConfig
    <2>2. CASE backend = None
      BY <2>1, <2>2 DEF Override
    <2>3. CASE backend # None
      <3> HIDE DEF cfg
      <3>1. /\ new = [backend |-> backend, tempo_bin |-> cfg.tempo_bin,
                      tempo_xtask_bin |-> cfg.tempo_xtask_bin,
                      validators |-> cfg.validators, docker |-> cfg.docker]
        BY <2>1 DEF IsConfig
      <3> HIDE DEF new
      <3>2. /\ new.backend = backend /\ new.tempo_bin = cfg.tempo_bin
            /\ new.tempo_xtask_bin = cfg.tempo_xtask_bin
            /\ new.validators = cfg.validators /\ new.docker = cfg.docker
        BY <3>1
      <3>3. IsConfig(new)
        BY <2>1, <2>3, <3>1, <3>2 DEF IsConfig
      <3>4. QED
        BY <2>3, <3>3 DEF Override, new, cfg
    <2>4. QED
      BY <2>2, <2>3
  <1>2. QED
    BY <1>1, LoadedConfig DEF Configs

-----------------------------------------------------------------------------
(* What is saved reads back *)

\* A validator is what its to_dict is read as.
LEMMA ValidatorReloads ==
    ASSUME NEW v \in Validators
    PROVE  ValidatorFromDict(ValidatorToDict(v)) = v
  <1> DEFINE d == ValidatorToDict(v)
  <1>1. None \notin Nat /\ None \notin Monikers
    BY NoneIsNothing
  <1>2. d = [host |-> v.host, port |-> v.port, moniker |-> v.moniker,
             base_port |-> v.base_port,
             p2p_host |-> IF v.p2p_host # v.host THEN v.p2p_host ELSE None,
             rpc_host |-> IF v.rpc_host # AnyHost THEN v.rpc_host ELSE None]
    BY DEF ValidatorToDict
  <1>3. v = [host |-> v.host, port |-> v.port, moniker |-> v.moniker,
             base_port |-> v.base_port, p2p_host |-> v.p2p_host,
             rpc_host |-> v.rpc_host]
    BY DEF Validators
  <1>4. /\ v.host \in Nat /\ v.port \in Nat /\ v.moniker \in Monikers
        /\ v.base_port \in Nat /\ v.p2p_host \in Nat /\ v.rpc_host \in Nat
    BY DEF Validators
  <1> HIDE DEF d
  <1>5. Get(d.host, Localhost) = v.host
    BY <1>1, <1>2, <1>4 DEF Get
  <1>6. Get(d.port, Get(d.base_port, 8000)) = v.port
    BY <1>1, <1>2, <1>4 DEF Get
  <1>7. Get(d.moniker, DefaultMoniker(v.port)) = v.moniker
    BY <1>1, <1>2, <1>4 DEF Get
  <1>8. Get(d.base_port, v.port) = v.base_port
    BY <1>1, <1>2, <1>4 DEF Get
  <1>9. Get(d.p2p_host, v.host) = v.p2p_host
    BY <1>1, <1>2, <1>4 DEF Get
  <1>10. Get(d.rpc_host, AnyHost) = v.rpc_host
    BY <1>1, <1>2, <1>4 DEF Get
  <1>11. ValidatorFromDict(d) =
           [host |-> v.host, port |-> v.port, moniker |-> v.moniker,
            base_port |-> v.base_port, p2p_host |-> v.p2p_host,
            rpc_host |-> v.rpc_host]
    BY <1>5, <1>6, <1>7, <1>8, <1>9, <1>10 DEF ValidatorFromDict
  <1>12. QED
    BY <1>3, <1>11 DEF d

\* Services keep their ports, so their defaults are not asked for again.
LEMMA ServicesReload ==
    ASSUME NEW ps \in PeripheralLists, NEW defaultPort
    PROVE  EachFromDict(ps, defaultPort) = ps
  <1>1. ASSUME NEW i \in DOMAIN ps
        PROVE  ServiceFromDict(ps[i], defaultPort) = ps[i]
    <2>1. ps[i] \in Peripherals
      BY SeqFacts DEF PeripheralLists
    <2>2. ps[i].port # None
      BY <2>1, NoneIsNothing DEF Peripherals
    <2>3. QED
      BY <2>1, <2>2 DEF ServiceFromDict, Get, Peripherals
  <1>2. ps = [i \in DOMAIN ps |-> ps[i]]
    BY SeqFacts DEF PeripheralLists
  <1>3. QED
    BY <1>1, <1>2 DEF EachFromDict

\* The docker section is what docker_to_dict is read as.
LEMMA DockerReloads ==
    ASSUME NEW cfg \in Configs
    PROVE  DockerTopology(DockerToDict(cfg)) = cfg.docker
  <1> DEFINE docker == cfg.docker
             d == DockerToDict(cfg)
  <1>1. IsDocker(docker) /\ (IsSingle(docker) \/ IsTwo(docker))
    BY ConfigType DEF IsConfig
  <1>2. docker = [topology |-> docker.topology, network |-> docker.network,
                  public |-> docker.public, follow_nodes |-> docker.follow_nodes,
                  p2p_proxies |-> docker.p2p_proxies,
                  public_nodes |-> docker.public_nodes]
    BY <1>1 DEF IsDocker
  <1>3. docker.network = [name |-> docker.network.name, subnet |-> docker.network.subnet]
    BY <1>1 DEF IsDocker
  <1>4. docker.network.subnet # None
    BY <1>1, NoneIsNothing DEF IsDocker
  <1>5. CASE IsSingle(docker)
    <2> DEFINE nothing == <<>>
    <2>1. ~IsTwoNetwork(cfg)
      BY <1>5 DEF IsSingle, IsTwoNetwork
    <2>2. d = [network |-> docker.network.name, subnet |-> docker.network.subnet,
               validator_network |-> None, public_network |-> None,
               follow_nodes |-> nothing, p2p_proxies |-> nothing,
               public_nodes |-> nothing]
      BY <2>1 DEF DockerToDict
    <2>3. /\ docker.topology = "single" /\ docker.public = None
          /\ docker.follow_nodes = nothing /\ docker.p2p_proxies = nothing
          /\ docker.public_nodes = nothing
          /\ Get(docker.network.name, "tempo-devnet") = docker.network.name
      BY <1>5 DEF IsSingle
    <2> HIDE DEF nothing, d, docker
    <2>4. /\ d.validator_network = None /\ d.public_network = None
          /\ d.network = docker.network.name /\ d.subnet = docker.network.subnet
      BY <2>2
    <2>5. Get(d.subnet, DEFAULT_DOCKER_SUBNET) = docker.network.subnet
      BY <1>4, <2>4 DEF Get
    <2>6. DockerTopology(d) =
            [topology |-> "single",
             network |-> [name |-> docker.network.name,
                          subnet |-> docker.network.subnet],
             public |-> None, follow_nodes |-> nothing, p2p_proxies |-> nothing,
             public_nodes |-> nothing]
      BY <2>3, <2>4, <2>5 DEF DockerTopology, nothing
    <2>7. QED
      BY <1>2, <1>3, <2>3, <2>6 DEF d, docker
  <1>6. CASE IsTwo(docker)
    <2>1. IsTwoNetwork(cfg)
      BY <1>6 DEF IsTwo, IsTwoNetwork
    <2>2. d = [network |-> None, subnet |-> None,
               validator_network |-> docker.network,
               public_network |-> docker.public,
               follow_nodes |-> docker.follow_nodes,
               p2p_proxies |-> docker.p2p_proxies,
               public_nodes |-> docker.public_nodes]
      BY <2>1 DEF DockerToDict
    <2>3. docker.network \notin {None, Null} /\ docker.public \notin {None, Null}
      BY <2>1, NoneIsAbsence
    <2>4. docker.public.subnet # None
      BY <1>6, NoneIsNothing DEF IsTwo
    <2> HIDE DEF d
    <2>5. /\ Configured(d.validator_network,
                        [name |-> Get(d.network, "tempo-devnet"),
                         subnet |-> Get(d.subnet, DEFAULT_DOCKER_SUBNET)])
               = docker.network
          /\ Configured(d.public_network,
                        [name |-> DEFAULT_DOCKER_PUBLIC_NETWORK,
                         subnet |-> DEFAULT_DOCKER_PUBLIC_SUBNET])
               = docker.public
          /\ ~(d.validator_network = None /\ d.public_network = None)
      BY <2>2, <2>3 DEF Configured
    <2>6. /\ d.follow_nodes = docker.follow_nodes /\ d.p2p_proxies = docker.p2p_proxies
          /\ d.public_nodes = docker.public_nodes
      BY <2>2
    <2>7. /\ EachFromDict(d.follow_nodes, 9000) = docker.follow_nodes
          /\ EachFromDict(d.p2p_proxies, 7000) = docker.p2p_proxies
          /\ EachFromDict(d.public_nodes, 6000) = docker.public_nodes
      BY <1>1, <2>6, ServicesReload DEF IsDocker
    <2>8. /\ Get(docker.network.name, "tempo-validator-net") = docker.network.name
          /\ Get(docker.network.subnet, DEFAULT_DOCKER_SUBNET) = docker.network.subnet
          /\ Get(docker.public.name, DEFAULT_DOCKER_PUBLIC_NETWORK) = docker.public.name
          /\ Get(docker.public.subnet, DEFAULT_DOCKER_PUBLIC_SUBNET) = docker.public.subnet
      <3>1. /\ Get(docker.network.subnet, DEFAULT_DOCKER_SUBNET) = docker.network.subnet
            /\ Get(docker.public.subnet, DEFAULT_DOCKER_PUBLIC_SUBNET) = docker.public.subnet
        BY <1>4, <2>4 DEF Get
      <3>2. QED
        BY <1>6, <3>1 DEF IsTwo
    <2>9. docker.public = [name |-> docker.public.name, subnet |-> docker.public.subnet]
          /\ docker.topology = "two-network"
      BY <1>6 DEF IsTwo
    <2> HIDE DEF docker
    <2>10. DockerTopology(d) =
             [topology |-> "two-network",
              network |-> [name |-> docker.network.name, subnet |-> docker.network.subnet],
              public |-> [name |-> docker.public.name, subnet |-> docker.public.subnet],
              follow_nodes |-> docker.follow_nodes,
              p2p_proxies |-> docker.p2p_proxies,
              public_nodes |-> docker.public_nodes]
      BY <2>5, <2>7, <2>8 DEF DockerTopology
    <2>11. QED
      BY <1>2, <1>3, <2>9, <2>10 DEF d, docker
  <1>7. QED
    BY <1>1, <1>5, <1>6

\* from_dict after to_dict: all but the two binaries, which are not saved.
LEMMA ConfigReloads ==
    ASSUME NEW cfg \in Configs
    PROVE  FromDict(ToDict(cfg)) =
             [cfg EXCEPT !.tempo_bin = DefaultBin(cfg.backend),
                         !.tempo_xtask_bin = DefaultXtaskBin(cfg.backend)]
  <1> DEFINE d == ToDict(cfg)
             saved == [i \in DOMAIN cfg.validators |-> ValidatorToDict(cfg.validators[i])]
             ds == IF d.validators = <<>> THEN DefaultValidators ELSE d.validators
             again == [i \in DOMAIN ds |-> ValidatorFromDict(ds[i])]
  <1>1. IsConfig(cfg)
    BY ConfigType
  <1>2. d = [backend |-> IF cfg.backend # DEFAULT_BACKEND THEN cfg.backend ELSE None,
             tempo_bin |-> None, tempo_xtask_bin |-> None, validators |-> saved,
             docker |-> DockerToDict(cfg)]
    BY DEF ToDict
  <1>3. Get(d.backend, DEFAULT_BACKEND) = cfg.backend
    <2> HIDE DEF saved, d
    <2>1. QED
      BY <1>1, <1>2 DEF Get, IsConfig
  <1>4. saved # <<>>
    <2>1. DOMAIN saved = DOMAIN cfg.validators
      OBVIOUS
    <2>2. \A vs \in ValidatorLists : vs # <<>> =>
            \A f : DOMAIN f = DOMAIN vs => f # <<>>
      BY DEF ValidatorLists
    <2> HIDE DEF saved
    <2>3. QED
      BY <1>1, <2>1, <2>2 DEF IsConfig
  <1>5. ds = saved
    <2> HIDE DEF saved, d
    <2>1. d.validators = saved
      BY <1>2
    <2>2. QED
      BY <1>4, <2>1
  <1>6. again = cfg.validators
    <2> HIDE DEF d, ds
    <2>1. cfg.validators = [i \in DOMAIN cfg.validators |-> cfg.validators[i]]
      BY <1>1, SeqFacts DEF IsConfig, ValidatorLists
    <2>2. ASSUME NEW i \in DOMAIN cfg.validators
          PROVE  ValidatorFromDict(ValidatorToDict(cfg.validators[i])) = cfg.validators[i]
      BY <1>1, SeqFacts, ValidatorReloads DEF IsConfig, ValidatorLists
    <2>3. again = [i \in DOMAIN cfg.validators |->
                     ValidatorFromDict(ValidatorToDict(cfg.validators[i]))]
      BY <1>5
    <2>4. QED
      BY <2>1, <2>2, <2>3
  <1>7. DockerTopology(d.docker) = cfg.docker
    <2> HIDE DEF saved, d
    <2>1. d.docker = DockerToDict(cfg)
      BY <1>2
    <2>2. QED
      BY <2>1, DockerReloads
  <1>8. d.tempo_bin = None /\ d.tempo_xtask_bin = None
    <2> HIDE DEF saved, d
    <2>1. QED
      BY <1>2
  <1>9. FromDict(d) =
          [backend |-> cfg.backend, tempo_bin |-> DefaultBin(cfg.backend),
           tempo_xtask_bin |-> DefaultXtaskBin(cfg.backend),
           validators |-> cfg.validators, docker |-> cfg.docker]
    <2>1. FromDict(d) =
            [backend |-> Get(d.backend, DEFAULT_BACKEND),
             tempo_bin |-> Get(d.tempo_bin, DefaultBin(Get(d.backend, DEFAULT_BACKEND))),
             tempo_xtask_bin |->
               Get(d.tempo_xtask_bin, DefaultXtaskBin(Get(d.backend, DEFAULT_BACKEND))),
             validators |-> again, docker |-> DockerTopology(d.docker)]
      BY DEF FromDict
    <2> HIDE DEF d, again
    <2>2. QED
      BY <1>3, <1>6, <1>7, <1>8, <2>1 DEF Get
  <1>10. cfg = [backend |-> cfg.backend, tempo_bin |-> cfg.tempo_bin,
                tempo_xtask_bin |-> cfg.tempo_xtask_bin,
                validators |-> cfg.validators, docker |-> cfg.docker]
    BY <1>1 DEF IsConfig
  <1>11. \A b, x : [cfg EXCEPT !.tempo_bin = b, !.tempo_xtask_bin = x] =
                     [backend |-> cfg.backend, tempo_bin |-> b, tempo_xtask_bin |-> x,
                      validators |-> cfg.validators, docker |-> cfg.docker]
    <2> DEFINE a == cfg.backend
               t == cfg.tempo_bin
               y == cfg.tempo_xtask_bin
               v == cfg.validators
               k == cfg.docker
    <2>1. cfg = [backend |-> a, tempo_bin |-> t, tempo_xtask_bin |-> y,
                 validators |-> v, docker |-> k]
      BY <1>10
    <2> HIDE DEF a, t, y, v, k
    <2>2. ASSUME NEW b, NEW x
          PROVE  [cfg EXCEPT !.tempo_bin = b, !.tempo_xtask_bin = x] =
                   [backend |-> a, tempo_bin |-> b, tempo_xtask_bin |-> x,
                    validators |-> v, docker |-> k]
      <3> DEFINE new == [cfg EXCEPT !.tempo_bin = b, !.tempo_xtask_bin = x]
      <3>1. cfg \in [backend: {a}, tempo_bin: {t}, tempo_xtask_bin: {y},
                     validators: {v}, docker: {k}]
        BY <2>1
      <3>2. new \in [backend: {a}, tempo_bin: {b}, tempo_xtask_bin: {x},
                     validators: {v}, docker: {k}]
        BY <3>1
      <3> HIDE DEF new
      <3>3. new = [backend |-> a, tempo_bin |-> b, tempo_xtask_bin |-> x,
                   validators |-> v, docker |-> k]
        BY <3>2
      <3>4. QED
        BY <3>3 DEF new
    <2>3. QED
      BY <2>2 DEF a, v, k
  <1> HIDE DEF saved, ds, again
  <1>12. QED
    BY <1>9, <1>11 DEF d

-----------------------------------------------------------------------------
(* The nodes of a configuration, and their addresses *)

Kinds == {"validator", "follow", "proxy", "public"}
NodeSet == [kind: Kinds, moniker: Monikers, port: Nat, index: Nat]
NodeLists == Seq(NodeSet)

LEMMA ValidatorNodesType ==
    ASSUME NEW cfg, IsConfig(cfg)
    PROVE  /\ ValidatorNodes(cfg) \in NodeLists
           /\ Len(ValidatorNodes(cfg)) = Len(cfg.validators)
           /\ Len(cfg.validators) \in Nat \ {0}
           /\ \A i \in 1 .. Len(cfg.validators) :
                /\ ValidatorNodes(cfg)[i].kind = "validator"
                /\ ValidatorNodes(cfg)[i].index = i - 1
                /\ ValidatorNodes(cfg)[i].moniker = cfg.validators[i].moniker
                /\ ValidatorNodes(cfg)[i].port = cfg.validators[i].base_port
  <1> DEFINE vs == cfg.validators
             r == ValidatorNodes(cfg)
  <1>1. vs \in Seq(Validators) /\ vs # <<>>
    BY DEF IsConfig, ValidatorLists
  <1>2. DOMAIN vs = 1 .. Len(vs) /\ Len(vs) \in Nat \ {0}
    <2> HIDE DEF vs
    <2>1. QED
      BY <1>1, SeqFacts
  <1>3. r = [i \in 1 .. Len(vs) |->
               Node("validator", vs[i].moniker, vs[i].base_port, i - 1)]
    BY <1>2 DEF ValidatorNodes
  <1>4. ASSUME NEW i \in 1 .. Len(vs)
        PROVE  /\ r[i] \in NodeSet /\ r[i].kind = "validator" /\ r[i].index = i - 1
               /\ r[i].moniker = vs[i].moniker /\ r[i].port = vs[i].base_port
    <2>1. vs[i] \in Validators
      <3> HIDE DEF vs
      <3>1. QED
        BY <1>1, <1>2, SeqFacts
    <2>2. vs[i].moniker \in Monikers /\ vs[i].base_port \in Nat /\ i - 1 \in Nat
      <3> HIDE DEF vs
      <3>1. QED
        BY <1>2, <2>1 DEF Validators
    <2>3. r[i] = [kind |-> "validator", moniker |-> vs[i].moniker,
                  port |-> vs[i].base_port, index |-> i - 1]
      BY <1>3 DEF Node
    <2> HIDE DEF r, vs
    <2>4. QED
      BY <2>2, <2>3 DEF NodeSet, Kinds
  <1>5. r \in [1 .. Len(vs) -> NodeSet]
    <2> HIDE DEF vs
    <2>1. DOMAIN r = 1 .. Len(vs) /\ r = [i \in DOMAIN r |-> r[i]]
      BY <1>3
    <2> HIDE DEF r
    <2>2. QED
      BY <1>4, <2>1
  <1> HIDE DEF r, vs
  <1>6. r \in NodeLists /\ Len(r) = Len(vs)
    BY <1>2, <1>5, SeqFromFunction DEF NodeLists
  <1>7. QED
    BY <1>2, <1>4, <1>6 DEF r, vs

LEMMA ServiceNodesType ==
    ASSUME NEW kind \in Kinds, NEW ps \in PeripheralLists
    PROVE  /\ ServiceNodes(kind, ps) \in NodeLists
           /\ Len(ServiceNodes(kind, ps)) = Len(ps)
           /\ Len(ps) \in Nat
           /\ \A i \in 1 .. Len(ps) :
                /\ ServiceNodes(kind, ps)[i].kind = kind
                /\ ServiceNodes(kind, ps)[i].index = i - 1
                /\ ServiceNodes(kind, ps)[i].moniker = ps[i].moniker
                /\ ServiceNodes(kind, ps)[i].port = ps[i].port
  <1> DEFINE r == ServiceNodes(kind, ps)
  <1>1. DOMAIN ps = 1 .. Len(ps) /\ Len(ps) \in Nat
    BY SeqFacts DEF PeripheralLists
  <1>2. r = [i \in 1 .. Len(ps) |-> Node(kind, ps[i].moniker, ps[i].port, i - 1)]
    BY <1>1 DEF ServiceNodes
  <1>3. ASSUME NEW i \in 1 .. Len(ps)
        PROVE  /\ r[i] \in NodeSet /\ r[i].kind = kind /\ r[i].index = i - 1
               /\ r[i].moniker = ps[i].moniker /\ r[i].port = ps[i].port
    <2>1. ps[i] \in Peripherals
      BY <1>1, SeqFacts DEF PeripheralLists
    <2>2. ps[i].moniker \in Monikers /\ ps[i].port \in Nat /\ i - 1 \in Nat
      BY <1>1, <2>1 DEF Peripherals
    <2>3. r[i] = [kind |-> kind, moniker |-> ps[i].moniker, port |-> ps[i].port,
                  index |-> i - 1]
      BY <1>2 DEF Node
    <2> HIDE DEF r
    <2>4. QED
      BY <2>2, <2>3 DEF NodeSet
  <1>4. r \in [1 .. Len(ps) -> NodeSet]
    <2>1. DOMAIN r = 1 .. Len(ps) /\ r = [i \in DOMAIN r |-> r[i]]
      BY <1>2
    <2> HIDE DEF r
    <2>2. QED
      BY <1>3, <2>1
  <1> HIDE DEF r
  <1>5. r \in NodeLists /\ Len(r) = Len(ps)
    BY <1>1, <1>4, SeqFromFunction DEF NodeLists
  <1>6. QED
    BY <1>1, <1>3, <1>5 DEF r

LEMMA Concatenation ==
    ASSUME NEW s \in NodeLists, NEW t \in NodeLists
    PROVE  /\ s \o t \in NodeLists
           /\ Len(s \o t) = Len(s) + Len(t)
           /\ \A i \in 1 .. Len(s) + Len(t) :
                (s \o t)[i] = IF i <= Len(s) THEN s[i] ELSE t[i - Len(s)]
  <1>1. \A S : \A x, y \in Seq(S) :
          /\ x \o y \in Seq(S)
          /\ Len(x \o y) = Len(x) + Len(y)
          /\ \A i \in 1 .. Len(x) + Len(y) :
               (x \o y)[i] = IF i <= Len(x) THEN x[i] ELSE y[i - Len(x)]
    OBVIOUS
  <1>2. QED
    BY <1>1 DEF NodeLists

\* The four kinds come one after the other.
LEMMA NodesAre ==
    ASSUME NEW cfg, IsConfig(cfg)
    PROVE  LET v == Len(cfg.validators)
               f == v + Len(cfg.docker.follow_nodes)
               p == f + Len(cfg.docker.p2p_proxies)
               n == p + Len(cfg.docker.public_nodes)
           IN  /\ {v, f, p, n} \subseteq Nat \ {0}
               /\ Nodes(cfg) \in NodeLists /\ Len(Nodes(cfg)) = n
               /\ \A i \in 1 .. n :
                    Nodes(cfg)[i] = IF i <= v THEN ValidatorNodes(cfg)[i]
                                    ELSE IF i <= f THEN FollowNodes(cfg)[i - v]
                                    ELSE IF i <= p THEN Proxies(cfg)[i - f]
                                    ELSE PublicNodes(cfg)[i - p]
  <1> DEFINE A == ValidatorNodes(cfg)
             B == FollowNodes(cfg)
             C == Proxies(cfg)
             D == PublicNodes(cfg)
             v == Len(cfg.validators)
             f == v + Len(cfg.docker.follow_nodes)
             p == f + Len(cfg.docker.p2p_proxies)
             n == p + Len(cfg.docker.public_nodes)
  <1>1. A \in NodeLists /\ Len(A) = v /\ v \in Nat \ {0}
    BY ValidatorNodesType
  <1>2. /\ cfg.docker.follow_nodes \in PeripheralLists
        /\ cfg.docker.p2p_proxies \in PeripheralLists
        /\ cfg.docker.public_nodes \in PeripheralLists
    BY DEF IsConfig, IsDocker
  <1>3. /\ B \in NodeLists /\ Len(B) = Len(cfg.docker.follow_nodes) /\ Len(B) \in Nat
        /\ C \in NodeLists /\ Len(C) = Len(cfg.docker.p2p_proxies) /\ Len(C) \in Nat
        /\ D \in NodeLists /\ Len(D) = Len(cfg.docker.public_nodes) /\ Len(D) \in Nat
    BY <1>2, ServiceNodesType DEF FollowNodes, Proxies, PublicNodes, Kinds
  <1>4. Nodes(cfg) = ((A \o B) \o C) \o D
    BY DEF Nodes
  <1> HIDE DEF A, B, C, D
  <1> DEFINE E == A \o B
             F == E \o C
  <1>5. /\ E \in NodeLists /\ Len(E) = Len(A) + Len(B)
        /\ \A i \in 1 .. Len(A) + Len(B) : E[i] = IF i <= Len(A) THEN A[i] ELSE B[i - Len(A)]
    BY <1>1, <1>3, Concatenation
  <1> HIDE DEF E
  <1>6. /\ F \in NodeLists /\ Len(F) = Len(E) + Len(C)
        /\ \A i \in 1 .. Len(E) + Len(C) : F[i] = IF i <= Len(E) THEN E[i] ELSE C[i - Len(E)]
    BY <1>3, <1>5, Concatenation
  <1> HIDE DEF F
  <1> DEFINE G == F \o D
  <1>7. /\ G \in NodeLists /\ Len(G) = Len(F) + Len(D)
        /\ \A i \in 1 .. Len(F) + Len(D) : G[i] = IF i <= Len(F) THEN F[i] ELSE D[i - Len(F)]
    BY <1>3, <1>6, Concatenation
  <1>8. Nodes(cfg) = G
    BY <1>4 DEF E, F
  <1> HIDE DEF G
  <1>9. /\ Len(A) = v /\ Len(E) = f /\ Len(F) = p /\ Len(G) = n
        /\ v \in Nat \ {0} /\ f \in Nat \ {0} /\ p \in Nat \ {0} /\ n \in Nat \ {0}
        /\ v <= f /\ f <= p /\ p <= n
    <2>1. Len(E) = f
      BY <1>1, <1>3, <1>5
    <2>2. Len(F) = p
      BY <1>3, <1>6, <2>1
    <2>3. Len(G) = n
      BY <1>3, <1>7, <2>2
    <2>4. /\ v \in Nat \ {0} /\ f \in Nat \ {0} /\ p \in Nat \ {0} /\ n \in Nat \ {0}
          /\ v <= f /\ f <= p /\ p <= n
      <3>1. /\ Len(cfg.docker.follow_nodes) \in Nat
            /\ Len(cfg.docker.p2p_proxies) \in Nat
            /\ Len(cfg.docker.public_nodes) \in Nat
        BY <1>3
      <3>2. \A a \in Nat \ {0} : \A b, c, d \in Nat :
              /\ a + b \in Nat \ {0} /\ a + b + c \in Nat \ {0}
              /\ a + b + c + d \in Nat \ {0}
              /\ a <= a + b /\ a + b <= a + b + c /\ a + b + c <= a + b + c + d
        OBVIOUS
      <3>3. QED
        BY <1>1, <3>1, <3>2
    <2>5. QED
      BY <1>1, <2>1, <2>2, <2>3, <2>4
  <1> HIDE DEF v, f, p, n
  <1>10. ASSUME NEW i \in 1 .. n
         PROVE  G[i] = IF i <= v THEN A[i] ELSE IF i <= f THEN B[i - v]
                       ELSE IF i <= p THEN C[i - f] ELSE D[i - p]
    <2>1. G[i] = IF i <= p THEN F[i] ELSE D[i - p]
      BY <1>7, <1>9
    <2>2. i <= p => F[i] = IF i <= f THEN E[i] ELSE C[i - f]
      BY <1>6, <1>9
    <2>3. i <= f => E[i] = IF i <= v THEN A[i] ELSE B[i - v]
      BY <1>5, <1>9
    <2>4. QED
      BY <1>9, <2>1, <2>2, <2>3
  <1>11. G \in NodeLists /\ {v, f, p, n} \subseteq Nat \ {0}
    BY <1>7, <1>9
  <1>12. QED
    BY <1>8, <1>9, <1>10, <1>11 DEF A, B, C, D, v, f, p, n

-----------------------------------------------------------------------------
(* The last node of a name *)

LEMMA SmallestSet ==
    ASSUME NEW U, NEW Bad \in SUBSET FiniteSubsetsOf(U), Bad # {}
    PROVE  \E T \in Bad : \A V \in Bad : V \subseteq T => V = T
  <1>1. PICK T \in Bad : \A V \in Bad : ~ (<<V, T>> \in StrictSubsetOrdering(U))
    BY FS_StrictSubsetOrderingWellFounded, WFMin, Zenon
  <1>2. ASSUME NEW V \in Bad, V \subseteq T
        PROVE  V = T
    <2> DEFINE p == <<V, T>>
    <2>1. V \in SUBSET U /\ T \in SUBSET U
      BY DEF FiniteSubsetsOf
    <2>2. p \in (SUBSET U) \X (SUBSET U) /\ p[1] = V /\ p[2] = T
      BY <2>1
    <2> HIDE DEF p
    <2>3. p \notin StrictSubsetOrdering(U)
      BY <1>1 DEF p
    <2>4. QED
      BY <1>2, <2>2, <2>3 DEF StrictSubsetOrdering
  <1>3. QED
    BY <1>2

LEMMA Greatest ==
    ASSUME NEW S \in SUBSET Int, IsFiniteSet(S), S # {}
    PROVE  \E m \in S : \A n \in S : n <= m
  <1> DEFINE HasGreatest(T) == \E m \in T : \A n \in T : n <= m
             Bad == {T \in FiniteSubsetsOf(Int) : T # {} /\ ~HasGreatest(T)}
  <1>1. SUFFICES ASSUME Bad # {}
                 PROVE  FALSE
    BY DEF FiniteSubsetsOf
  <1>2. PICK T \in Bad : \A V \in Bad : V \subseteq T => V = T
    <2> HIDE DEF HasGreatest
    <2>1. Bad \in SUBSET FiniteSubsetsOf(Int)
      OBVIOUS
    <2> HIDE DEF Bad
    <2>2. QED
      BY <1>1, <2>1, SmallestSet
  <1>3. T \subseteq Int /\ IsFiniteSet(T) /\ T # {} /\ ~HasGreatest(T)
    BY DEF FiniteSubsetsOf
  <1>4. PICK x \in T : TRUE
    BY <1>3
  <1> DEFINE V == T \ {x}
  <1>5. V \in FiniteSubsetsOf(Int) /\ V # T /\ V \subseteq T
    BY <1>3, <1>4, FS_RemoveElement DEF FiniteSubsetsOf
  <1>6. V = {} \/ HasGreatest(V)
    BY <1>2, <1>5
  <1>7. CASE V = {}
    BY <1>3, <1>4, <1>7
  <1>8. CASE HasGreatest(V)
    <2>1. PICK m \in V : \A n \in V : n <= m
      BY <1>8
    <2>2. CASE x <= m
      BY <1>3, <1>4, <2>1, <2>2
    <2>3. CASE m <= x
      BY <1>3, <1>4, <2>1, <2>3
    <2>4. QED
      BY <1>3, <1>4, <2>1, <2>2, <2>3
  <1>9. QED
    BY <1>6, <1>7, <1>8

\* A service of the compose file is the last node of its name.
LEMMA LastNode ==
    ASSUME NEW nodes \in NodeLists, NEW m \in NamesOf(nodes)
    PROVE  \E i \in DOMAIN nodes :
              /\ nodes[i].moniker = m
              /\ \A k \in DOMAIN nodes : nodes[k].moniker = m => k <= i
  <1> DEFINE S == {i \in DOMAIN nodes : nodes[i].moniker = m}
  <1>1. DOMAIN nodes = 1 .. Len(nodes) /\ Len(nodes) \in Nat
    BY SeqFacts DEF NodeLists
  <1>2. S \in SUBSET Int
    BY <1>1
  <1>3. S # {}
    BY DEF NamesOf
  <1>4. IsFiniteSet(S)
    <2>1. IsFiniteSet(1 .. Len(nodes))
      BY <1>1, FS_Interval
    <2>2. S \subseteq 1 .. Len(nodes)
      BY <1>1
    <2>3. QED
      BY <2>1, <2>2, FS_Subset
  <1>5. PICK i \in S : \A k \in S : k <= i
    <2> HIDE DEF S
    <2>1. QED
      BY <1>2, <1>3, <1>4, Greatest
  <1>6. QED
    BY <1>5

-----------------------------------------------------------------------------
(* Addresses *)

Slot(cfg, node) == AddressStart(cfg, node.kind) + node.index

\* Addresses are handed out in the order of the nodes.
LEMMA SlotIs ==
    ASSUME NEW cfg, IsConfig(cfg), NEW i \in DOMAIN Nodes(cfg)
    PROVE  /\ Slot(cfg, Nodes(cfg)[i]) = i - 1
           /\ Nodes(cfg)[i] \in NodeSet
  <1> DEFINE v == Len(cfg.validators)
             b == Len(cfg.docker.follow_nodes)
             c == Len(cfg.docker.p2p_proxies)
             d == Len(cfg.docker.public_nodes)
             f == v + b
             p == f + c
             n == p + d
             node == Nodes(cfg)[i]
  <1>1. /\ {v, f, p, n} \subseteq Nat \ {0}
        /\ Nodes(cfg) \in NodeLists /\ Len(Nodes(cfg)) = n
        /\ \A k \in 1 .. n :
             Nodes(cfg)[k] = IF k <= v THEN ValidatorNodes(cfg)[k]
                             ELSE IF k <= f THEN FollowNodes(cfg)[k - v]
                             ELSE IF k <= p THEN Proxies(cfg)[k - f]
                             ELSE PublicNodes(cfg)[k - p]
    BY NodesAre
  <1>2. DOMAIN Nodes(cfg) = 1 .. n /\ node \in NodeSet
    BY <1>1, SeqFacts DEF NodeLists
  <1>3. /\ cfg.docker.follow_nodes \in PeripheralLists
        /\ cfg.docker.p2p_proxies \in PeripheralLists
        /\ cfg.docker.public_nodes \in PeripheralLists
    BY DEF IsConfig, IsDocker
  <1>4. b \in Nat /\ c \in Nat /\ d \in Nat
    BY <1>3, SeqFacts DEF PeripheralLists
  <1>5. /\ \A k \in 1 .. v : /\ ValidatorNodes(cfg)[k].kind = "validator"
                             /\ ValidatorNodes(cfg)[k].index = k - 1
        /\ \A k \in 1 .. b : /\ FollowNodes(cfg)[k].kind = "follow"
                             /\ FollowNodes(cfg)[k].index = k - 1
        /\ \A k \in 1 .. c : /\ Proxies(cfg)[k].kind = "proxy"
                             /\ Proxies(cfg)[k].index = k - 1
        /\ \A k \in 1 .. d : /\ PublicNodes(cfg)[k].kind = "public"
                             /\ PublicNodes(cfg)[k].index = k - 1
    BY <1>3, ValidatorNodesType, ServiceNodesType
       DEF FollowNodes, Proxies, PublicNodes, Kinds
  <1>6. /\ AddressStart(cfg, "validator") = 0 /\ AddressStart(cfg, "follow") = v
        /\ AddressStart(cfg, "proxy") = f /\ AddressStart(cfg, "public") = p
    BY DEF AddressStart
  <1> HIDE DEF b, c, d, v
  <1>7. CASE i <= v
    <2>1. i \in 1 .. v /\ node = ValidatorNodes(cfg)[i]
      BY <1>1, <1>2, <1>4, <1>7
    <2>2. node.kind = "validator" /\ node.index = i - 1
      BY <1>5, <2>1
    <2>3. QED
      BY <1>1, <1>2, <1>6, <2>2 DEF Slot
  <1>8. CASE v < i /\ i <= f
    <2>1. i - v \in 1 .. b /\ node = FollowNodes(cfg)[i - v]
      BY <1>1, <1>2, <1>4, <1>8
    <2>2. node.kind = "follow" /\ node.index = (i - v) - 1
      BY <1>5, <2>1
    <2>3. QED
      BY <1>1, <1>2, <1>6, <2>2 DEF Slot
  <1>9. CASE f < i /\ i <= p
    <2>1. i - f \in 1 .. c /\ node = Proxies(cfg)[i - f]
      BY <1>1, <1>2, <1>4, <1>9
    <2>2. node.kind = "proxy" /\ node.index = (i - f) - 1
      BY <1>5, <2>1
    <2>3. QED
      BY <1>1, <1>2, <1>6, <2>2 DEF Slot
  <1>10. CASE p < i
    <2>1. i - p \in 1 .. d /\ node = PublicNodes(cfg)[i - p]
      BY <1>1, <1>2, <1>4, <1>10
    <2>2. node.kind = "public" /\ node.index = (i - p) - 1
      BY <1>5, <2>1
    <2>3. QED
      BY <1>1, <1>2, <1>6, <2>2 DEF Slot
  <1>11. i <= v \/ (v < i /\ i <= f) \/ (f < i /\ i <= p) \/ p < i
    <2>1. i \in Int /\ v \in Int /\ f \in Int /\ p \in Int
      BY <1>1, <1>2
    <2>2. QED
      BY <2>1
  <1>12. QED
    BY <1>7, <1>8, <1>9, <1>10, <1>11

\* A service is that of one of the nodes.
LEMMA ServiceIs ==
    ASSUME NEW cfg, IsConfig(cfg), NEW m \in DOMAIN Services(cfg)
    PROVE  \E i \in DOMAIN Nodes(cfg) :
              /\ Nodes(cfg)[i].moniker = m
              /\ Services(cfg)[m] = Entry(cfg, Nodes(cfg)[i])
              /\ \A k \in DOMAIN Nodes(cfg) : Nodes(cfg)[k].moniker = m => k <= i
  <1> DEFINE nodes == Nodes(cfg)
             IsLast(i) == /\ nodes[i].moniker = m
                          /\ \A k \in DOMAIN nodes : nodes[k].moniker = m => k <= i
             last == CHOOSE i \in DOMAIN nodes : IsLast(i)
  <1>1. m \in NamesOf(nodes) /\ nodes \in NodeLists
    BY NodesAre DEF Services
  <1>2. \E i \in DOMAIN nodes : IsLast(i)
    BY <1>1, LastNode
  <1>3. last \in DOMAIN nodes /\ IsLast(last)
    BY <1>2
  <1>4. Services(cfg)[m] = Entry(cfg, nodes[last])
    BY <1>1 DEF Services
  <1>5. QED
    BY <1>3, <1>4

\* A node has its number on the private network, and on the public one if any.
LEMMA NetworksOf ==
    ASSUME NEW cfg, IsConfig(cfg), NEW i \in DOMAIN Nodes(cfg)
    PROVE  \A a \in Entry(cfg, Nodes(cfg)[i]).networks :
              \/ a = Private(cfg, i - 1)
              \/ IsTwoNetwork(cfg) /\ a = Public(cfg, i - 1)
  <1> DEFINE node == Nodes(cfg)[i]
  <1>1. node \in NodeSet /\ Slot(cfg, node) = i - 1
    BY SlotIs
  <1>2. Entry(cfg, node).networks = Attachments(cfg, node)
    BY DEF Entry
  <1>3. ~IsTwoNetwork(cfg) => node.kind = "validator"
    <2> SUFFICES ASSUME ~IsTwoNetwork(cfg)
                 PROVE  node.kind = "validator"
      OBVIOUS
    <2>1. /\ cfg.docker.follow_nodes = <<>> /\ cfg.docker.p2p_proxies = <<>>
          /\ cfg.docker.public_nodes = <<>>
      BY DEF IsConfig, IsSingle, IsTwo, IsTwoNetwork
    <2>2. /\ Len(cfg.docker.follow_nodes) = 0 /\ Len(cfg.docker.p2p_proxies) = 0
          /\ Len(cfg.docker.public_nodes) = 0
      BY <2>1
    <2>3. Len(cfg.validators) \in Nat /\ \A k \in 1 .. Len(cfg.validators) :
                                            ValidatorNodes(cfg)[k].kind = "validator"
      BY ValidatorNodesType
    <2>4. DOMAIN Nodes(cfg) = 1 .. Len(cfg.validators)
          /\ \A k \in 1 .. Len(cfg.validators) : Nodes(cfg)[k] = ValidatorNodes(cfg)[k]
      <3> DEFINE v == Len(cfg.validators)
      <3>1. /\ Nodes(cfg) \in NodeLists /\ Len(Nodes(cfg)) = v + 0 + 0 + 0
            /\ \A k \in 1 .. v + 0 + 0 + 0 :
                 k <= v => Nodes(cfg)[k] = ValidatorNodes(cfg)[k]
        BY <2>2, NodesAre
      <3>2. v + 0 + 0 + 0 = v
        BY <2>3
      <3>3. DOMAIN Nodes(cfg) = 1 .. Len(Nodes(cfg))
        BY <3>1, SeqFacts DEF NodeLists
      <3>4. QED
        BY <2>3, <3>1, <3>2, <3>3
    <2>5. QED
      BY <2>3, <2>4
  <1> HIDE DEF node
  <1>4. ASSUME NEW a \in Attachments(cfg, node)
        PROVE  a = Private(cfg, i - 1) \/ (IsTwoNetwork(cfg) /\ a = Public(cfg, i - 1))
    BY <1>1, <1>3, <1>4 DEF Attachments, Slot, NodeSet, Kinds
  <1>5. QED
    BY <1>2, <1>4 DEF node

\* No two services share an address of a network.
LEMMA AddressesAreApart ==
    ASSUME NEW cfg, IsConfig(cfg), OneSubnetPerName(cfg),
           NEW m \in DOMAIN Services(cfg), NEW n \in DOMAIN Services(cfg), m # n
    PROVE  Services(cfg)[m].networks \cap Services(cfg)[n].networks = {}
  <1>1. PICK i \in DOMAIN Nodes(cfg) : /\ Nodes(cfg)[i].moniker = m
                                       /\ Services(cfg)[m] = Entry(cfg, Nodes(cfg)[i])
    BY ServiceIs
  <1>2. PICK k \in DOMAIN Nodes(cfg) : /\ Nodes(cfg)[k].moniker = n
                                       /\ Services(cfg)[n] = Entry(cfg, Nodes(cfg)[k])
    BY ServiceIs
  <1>3. i \in Nat /\ k \in Nat /\ i # k
    <2>1. DOMAIN Nodes(cfg) = 1 .. Len(Nodes(cfg))
      BY NodesAre, SeqFacts DEF NodeLists
    <2>2. QED
      BY <1>1, <1>2, <2>1
  <1>4. /\ cfg.docker.network.subnet.address \in Nat
        /\ IsTwoNetwork(cfg) => cfg.docker.public.subnet.address \in Nat
    BY DEF IsConfig, IsDocker, IsSingle, IsTwo, IsTwoNetwork, Subnets
  <1> DEFINE x == cfg.docker.network.subnet.address
             y == cfg.docker.public.subnet.address
  <1>5. \A j : /\ Private(cfg, j).net = cfg.docker.network.name
               /\ Private(cfg, j).ip = x + 10 + j
               /\ Public(cfg, j).net = cfg.docker.public.name
               /\ Public(cfg, j).ip = y + 10 + j
    BY DEF Private, Public, DockerIp, DockerPublicIp, DOCKER_IP_HOST_OCTET_BASE,
           DOCKER_PUBLIC_IP_HOST_OCTET_BASE
  <1>6. IsTwoNetwork(cfg) /\ cfg.docker.network.name = cfg.docker.public.name => x = y
    BY DEF OneSubnetPerName
  <1>7. ASSUME NEW a, a \in Services(cfg)[m].networks, a \in Services(cfg)[n].networks
        PROVE  FALSE
    <2>1. \/ a = Private(cfg, i - 1)
          \/ IsTwoNetwork(cfg) /\ a = Public(cfg, i - 1)
      BY <1>1, <1>7, NetworksOf
    <2>2. \/ a = Private(cfg, k - 1)
          \/ IsTwoNetwork(cfg) /\ a = Public(cfg, k - 1)
      BY <1>2, <1>7, NetworksOf
    <2> HIDE DEF x, y
    <2>3. \A z \in Nat : z + 10 + (i - 1) # z + 10 + (k - 1)
      BY <1>3
    <2>4. x \in Nat /\ (IsTwoNetwork(cfg) => y \in Nat)
      BY <1>4 DEF x, y
    <2>5. QED
      BY <1>5, <1>6, <2>1, <2>2, <2>3, <2>4
  <1>8. QED
    BY <1>7

\* Every address is inside the subnet of its network.
LEMMA AddressesAreInside ==
    ASSUME NEW cfg, IsConfig(cfg), OneSubnetPerName(cfg),
           NEW net, net = cfg.docker.network \/ (IsTwoNetwork(cfg) /\ net = cfg.docker.public),
           net.subnet.size > DOCKER_IP_HOST_OCTET_BASE + Len(Nodes(cfg)),
           NEW m \in DOMAIN Services(cfg), NEW a \in Services(cfg)[m].networks,
           a.net = net.name
    PROVE  Inside(a.ip, net.subnet)
  <1>1. PICK i \in DOMAIN Nodes(cfg) : Services(cfg)[m] = Entry(cfg, Nodes(cfg)[i])
    BY ServiceIs
  <1>2. i \in 1 .. Len(Nodes(cfg)) /\ Len(Nodes(cfg)) \in Nat
    BY NodesAre, SeqFacts DEF NodeLists
  <1>3. /\ cfg.docker.network.subnet \in Subnets
        /\ IsTwoNetwork(cfg) => cfg.docker.public.subnet \in Subnets
    BY DEF IsConfig, IsDocker, IsSingle, IsTwo, IsTwoNetwork
  <1>4. net.subnet \in Subnets
    BY <1>3
  <1>5. \A j : /\ Private(cfg, j).net = cfg.docker.network.name
               /\ Private(cfg, j).ip = cfg.docker.network.subnet.address + 10 + j
               /\ Public(cfg, j).net = cfg.docker.public.name
               /\ Public(cfg, j).ip = cfg.docker.public.subnet.address + 10 + j
    BY DEF Private, Public, DockerIp, DockerPublicIp, DOCKER_IP_HOST_OCTET_BASE,
           DOCKER_PUBLIC_IP_HOST_OCTET_BASE
  <1>6. \/ a = Private(cfg, i - 1)
        \/ IsTwoNetwork(cfg) /\ a = Public(cfg, i - 1)
    BY <1>1, NetworksOf
  <1>7. IsTwoNetwork(cfg) /\ cfg.docker.network.name = cfg.docker.public.name
          => cfg.docker.network.subnet = cfg.docker.public.subnet
    BY DEF OneSubnetPerName
  <1>8. a.ip = net.subnet.address + 10 + (i - 1)
    BY <1>5, <1>6, <1>7
  <1>9. \A x, s, ip, l \in Nat : \A j \in 1 .. l :
          (s > 10 + l /\ ip = x + 10 + (j - 1)) => x + 1 < ip /\ ip < x + s - 1
    OBVIOUS
  <1>10. a.ip \in Nat /\ net.subnet.address \in Nat /\ net.subnet.size \in Nat
    BY <1>2, <1>4, <1>8 DEF Subnets
  <1>11. net.subnet.size > 10 + Len(Nodes(cfg))
    BY DEF DOCKER_IP_HOST_OCTET_BASE
  <1>12. QED
    BY <1>2, <1>8, <1>9, <1>10, <1>11 DEF Inside

LEMMA AddressesFitType == TypeOK => AddressesFit
  <1> SUFFICES ASSUME TypeOK, IsGenerated(disk.compose), OneSubnetPerName(disk.compose)
               PROVE  AddressesFit
    BY DEF AddressesFit
  <1> DEFINE cfg == disk.compose
  <1>1. IsConfig(cfg)
    BY ConfigType DEF TypeOK, Disk, IsGenerated
  <1>2. QED
    BY <1>1, AddressesAreApart, AddressesAreInside DEF AddressesFit

-----------------------------------------------------------------------------
(* What the generator goes through for a node *)

NodeOps == [do: {"key", "identity", "script", "depend"}, node: NodeSet]
OpLists == Seq(NodeOps)
Programs == Seq(OpLists)

LEMMA OpType ==
    ASSUME NEW do \in {"key", "identity", "script", "depend"}, NEW node \in NodeSet
    PROVE  /\ Op(do, node) \in NodeOps
           /\ <<Op(do, node)>> \in OpLists
           /\ Op(do, node).do = do /\ Op(do, node).node = node
  <1>1. Op(do, node) \in NodeOps
    BY DEF Op, NodeOps
  <1>2. Op(do, node).do = do /\ Op(do, node).node = node
    BY DEF Op
  <1>3. \A S : \A x \in S : <<x>> \in Seq(S)
    OBVIOUS
  <1>4. QED
    BY <1>1, <1>2, <1>3 DEF OpLists

LEMMA OpsFollow ==
    ASSUME NEW s \in OpLists, NEW t \in OpLists
    PROVE  /\ s \o t \in OpLists
           /\ DOMAIN s = 1 .. Len(s) /\ Len(s) \in Nat
           /\ DOMAIN t = 1 .. Len(t) /\ Len(t) \in Nat
           /\ DOMAIN (s \o t) = 1 .. Len(s) + Len(t)
           /\ \A i \in 1 .. Len(s) : (s \o t)[i] = s[i]
           /\ \A i \in 1 .. Len(t) : (s \o t)[Len(s) + i] = t[i]
           /\ \A i \in 1 .. Len(s) + Len(t) :
                i \in 1 .. Len(s) \/ (i - Len(s) \in 1 .. Len(t) /\ (s \o t)[i] = t[i - Len(s)])
  <1>1. \A S : \A x, y \in Seq(S) :
          /\ x \o y \in Seq(S)
          /\ DOMAIN x = 1 .. Len(x) /\ Len(x) \in Nat
          /\ Len(x \o y) = Len(x) + Len(y)
          /\ \A i \in 1 .. Len(x) + Len(y) :
               (x \o y)[i] = IF i <= Len(x) THEN x[i] ELSE y[i - Len(x)]
    OBVIOUS
  <1>2. /\ s \o t \in OpLists
        /\ DOMAIN s = 1 .. Len(s) /\ Len(s) \in Nat
        /\ DOMAIN t = 1 .. Len(t) /\ Len(t) \in Nat
        /\ Len(s \o t) = Len(s) + Len(t)
        /\ DOMAIN (s \o t) = 1 .. Len(s \o t)
    BY <1>1 DEF OpLists
  <1>3. \A i \in 1 .. Len(s) + Len(t) :
          (s \o t)[i] = IF i <= Len(s) THEN s[i] ELSE t[i - Len(s)]
    BY <1>1 DEF OpLists
  <1>4. QED
    BY <1>2, <1>3

\* These operations make the key pairs of the nodes N.
Ensures(ops, N) ==
    /\ ops \in OpLists
    /\ \A k \in DOMAIN ops : ops[k].do \in {"key", "identity"} /\ ops[k].node \in N
    /\ \A n \in N : \E k \in DOMAIN ops : ops[k] = Op("identity", n)

\* They write the script of node, once, after the key pairs of the nodes N, and
\* make none but those of the nodes V.
Scripted(ops, node, N, V) ==
    /\ ops \in OpLists
    /\ \A k \in DOMAIN ops : ops[k].do \in {"key", "identity"} => ops[k].node \in V
    /\ \E s \in DOMAIN ops :
         /\ ops[s] = Op("script", node)
         /\ \A k \in DOMAIN ops : ops[k].do = "script" => k = s
         /\ \A n \in N : \E k \in 1 .. (s - 1) : ops[k] = Op("identity", n)

\* Ensuring the keypairs of some nodes and then of others ensures both.
LEMMA EnsuresBoth ==
    ASSUME NEW a, NEW b, NEW N, NEW M, Ensures(a, N), Ensures(b, M)
    PROVE  Ensures(a \o b, N \cup M)
  <1>1. a \in OpLists /\ b \in OpLists
    BY DEF Ensures
  <1> DEFINE c == a \o b
  <1>2. /\ c \in OpLists
        /\ DOMAIN a = 1 .. Len(a) /\ Len(a) \in Nat
        /\ DOMAIN b = 1 .. Len(b) /\ Len(b) \in Nat
        /\ DOMAIN c = 1 .. Len(a) + Len(b)
        /\ \A i \in 1 .. Len(a) : c[i] = a[i]
        /\ \A i \in 1 .. Len(b) : c[Len(a) + i] = b[i]
        /\ \A i \in 1 .. Len(a) + Len(b) :
             i \in 1 .. Len(a) \/ (i - Len(a) \in 1 .. Len(b) /\ c[i] = b[i - Len(a)])
    BY <1>1, OpsFollow
  <1> HIDE DEF c
  <1>3. \A k \in DOMAIN c : c[k].do \in {"key", "identity"} /\ c[k].node \in N \cup M
    BY <1>2 DEF Ensures
  <1>4. ASSUME NEW n \in N \cup M
        PROVE  \E k \in DOMAIN c : c[k] = Op("identity", n)
    <2>1. CASE n \in N
      <3>1. PICK k \in DOMAIN a : a[k] = Op("identity", n)
        BY <2>1 DEF Ensures
      <3>2. k \in DOMAIN c /\ c[k] = a[k]
        BY <1>2
      <3>3. QED
        BY <3>1, <3>2
    <2>2. CASE n \in M
      <3>1. PICK k \in DOMAIN b : b[k] = Op("identity", n)
        BY <2>2 DEF Ensures
      <3>2. Len(a) + k \in DOMAIN c /\ c[Len(a) + k] = b[k]
        BY <1>2
      <3>3. QED
        BY <3>1, <3>2
    <2>3. QED
      BY <2>1, <2>2
  <1>5. QED
    BY <1>2, <1>3, <1>4 DEF Ensures, c

LEMMA EnsuresOne ==
    ASSUME NEW node \in NodeSet
    PROVE  Ensures(EnsureKeypair(node), {node})
  <1> DEFINE x == Op("key", node)
             y == Op("identity", node)
             e == <<x, y>>
  <1>1. x \in NodeOps /\ y \in NodeOps
    BY OpType
  <1>2. x.do = "key" /\ x.node = node /\ y.do = "identity" /\ y.node = node
    BY OpType
  <1> HIDE DEF x, y
  <1>3. e \in OpLists /\ DOMAIN e = 1 .. 2 /\ e[1] = x /\ e[2] = y
    <2>1. \A S : \A p, q \in S : <<p, q>> \in Seq(S)
      OBVIOUS
    <2>2. QED
      BY <1>1, <2>1 DEF OpLists
  <1>4. EnsureKeypair(node) = e
    BY DEF EnsureKeypair, x, y
  <1> HIDE DEF e
  <1>5. Ensures(e, {node})
    BY <1>2, <1>3 DEF Ensures, y
  <1>6. QED
    BY <1>4, <1>5

\* _ensure_keypairs writes each key before its identity, and all of both.
LEMMA EnsuresAll ==
    ASSUME NEW nodes \in NodeLists
    PROVE  Ensures(EnsureKeypairs(nodes), {nodes[i] : i \in DOMAIN nodes})
  <1> DEFINE e == EnsureKeypairs(nodes)
             l == Len(nodes)
             N == {nodes[i] : i \in DOMAIN nodes}
  <1>1. DOMAIN nodes = 1 .. l /\ l \in Nat /\ \A i \in 1 .. l : nodes[i] \in NodeSet
    BY SeqFacts DEF NodeLists
  <1>2. DOMAIN e = 1 .. 2 * l
        /\ \A k \in 1 .. 2 * l : e[k] = EnsureKeypair(nodes[(k + 1) \div 2])[2 - (k % 2)]
    BY DEF EnsureKeypairs
  <1> HIDE DEF l
  <1>3. ASSUME NEW k \in 1 .. 2 * l
        PROVE  /\ (k + 1) \div 2 \in 1 .. l
               /\ 2 - (k % 2) \in {1, 2}
    BY <1>1
  <1>4. \A node : EnsureKeypair(node)[1] = Op("key", node)
                  /\ EnsureKeypair(node)[2] = Op("identity", node)
    BY DEF EnsureKeypair
  <1>5. e = [k \in 1 .. 2 * l |-> e[k]]
    BY <1>2 DEF EnsureKeypairs
  <1> HIDE DEF e
  <1>6. ASSUME NEW k \in 1 .. 2 * l
        PROVE  /\ e[k] \in NodeOps /\ e[k].do \in {"key", "identity"} /\ e[k].node \in N
    <2>1. PICK i \in 1 .. l : i = (k + 1) \div 2
      BY <1>3
    <2>2. e[k] = Op("key", nodes[i]) \/ e[k] = Op("identity", nodes[i])
      BY <1>2, <1>3, <1>4, <2>1
    <2>3. nodes[i] \in NodeSet /\ nodes[i] \in N
      BY <1>1
    <2> DEFINE node == nodes[i]
    <2> HIDE DEF node, N
    <2>4. node \in NodeSet
      BY <2>3 DEF node
    <2>5. ASSUME NEW do \in {"key", "identity"}
          PROVE  /\ Op(do, node) \in NodeOps /\ Op(do, node).do = do
                 /\ Op(do, node).node = node
      BY <2>4 DEF Op, NodeOps
    <2>6. QED
      BY <2>2, <2>3, <2>5 DEF node
  <1>7. e \in OpLists
    <2>1. e \in [1 .. 2 * l -> NodeOps] /\ 2 * l \in Nat
      BY <1>1, <1>5, <1>6
    <2>2. QED
      BY <2>1, SeqFromFunction DEF OpLists
  <1>8. ASSUME NEW n \in N
        PROVE  \E k \in DOMAIN e : e[k] = Op("identity", n)
    <2>1. PICK i \in 1 .. l : n = nodes[i]
      BY <1>1
    <2>2. 2 * i \in 1 .. 2 * l /\ (2 * i + 1) \div 2 = i /\ 2 - ((2 * i) % 2) = 2
      BY <1>1
    <2>3. e[2 * i] = Op("identity", n)
      BY <1>2, <1>4, <2>1, <2>2
    <2>4. QED
      BY <1>2, <2>2, <2>3
  <1>9. QED
    BY <1>2, <1>6, <1>7, <1>8 DEF Ensures, e

LEMMA ScriptedFirst ==
    ASSUME NEW node \in NodeSet, NEW V
    PROVE  Scripted(<<Op("script", node)>>, node, {}, V)
  <1> DEFINE x == Op("script", node)
             w == <<x>>
  <1>1. x.do = "script" /\ w \in OpLists
    BY OpType
  <1> HIDE DEF x
  <1>2. DOMAIN w = {1} /\ w[1] = x
    OBVIOUS
  <1> HIDE DEF w
  <1>3. Scripted(w, node, {}, V)
    BY <1>1, <1>2 DEF Scripted, x
  <1>4. QED
    BY <1>3 DEF w, x

\* A script follows the identities that it was waiting for.
LEMMA ScriptedAfter ==
    ASSUME NEW node \in NodeSet, NEW V, NEW N \in SUBSET V, NEW a, Ensures(a, N)
    PROVE  Scripted(a \o <<Op("script", node)>>, node, N, V)
  <1> DEFINE x == Op("script", node)
             b == <<x>>
             c == a \o b
  <1>1. x.do = "script" /\ b \in OpLists /\ a \in OpLists
    BY OpType DEF Ensures
  <1> HIDE DEF x
  <1>2. Len(b) = 1 /\ b[1] = x
    OBVIOUS
  <1> HIDE DEF b
  <1>3. /\ c \in OpLists
        /\ DOMAIN a = 1 .. Len(a) /\ Len(a) \in Nat
        /\ DOMAIN c = 1 .. Len(a) + Len(b)
        /\ \A i \in 1 .. Len(a) : c[i] = a[i]
        /\ \A i \in 1 .. Len(b) : c[Len(a) + i] = b[i]
        /\ \A i \in 1 .. Len(a) + Len(b) :
             i \in 1 .. Len(a) \/ (i - Len(a) \in 1 .. Len(b) /\ c[i] = b[i - Len(a)])
    BY <1>1, OpsFollow
  <1> DEFINE s == Len(a) + 1
  <1>4. s \in DOMAIN c /\ c[s] = x
    BY <1>2, <1>3
  <1> HIDE DEF c
  <1>5. ASSUME NEW k \in DOMAIN c
        PROVE  k = s \/ (k \in DOMAIN a /\ c[k] = a[k])
    BY <1>2, <1>3
  <1>6. ASSUME NEW n \in N
        PROVE  \E k \in 1 .. (s - 1) : c[k] = Op("identity", n)
    <2>1. PICK k \in DOMAIN a : a[k] = Op("identity", n)
      BY DEF Ensures
    <2>2. k \in 1 .. (s - 1) /\ c[k] = a[k]
      BY <1>3
    <2>3. QED
      BY <2>1, <2>2
  <1>7. ASSUME NEW k \in DOMAIN c, c[k].do \in {"key", "identity"}
        PROVE  c[k].node \in V
    BY <1>1, <1>4, <1>5, <1>7 DEF Ensures
  <1>8. ASSUME NEW k \in DOMAIN c, c[k].do = "script"
        PROVE  k = s
    BY <1>5, <1>8 DEF Ensures
  <1>9. Scripted(c, node, N, V)
    <2> HIDE DEF s
    <2>1. QED
      BY <1>3, <1>4, <1>6, <1>7, <1>8 DEF Scripted, x
  <1>10. QED
    BY <1>9 DEF c, b, x

LEMMA ScriptedThen ==
    ASSUME NEW node, NEW N, NEW V, NEW a, Scripted(a, node, N, V), NEW b \in OpLists,
           \A k \in DOMAIN b : /\ b[k].do # "script"
                               /\ b[k].do \in {"key", "identity"} => b[k].node \in V
    PROVE  Scripted(a \o b, node, N, V)
  <1> DEFINE c == a \o b
  <1>1. a \in OpLists
    BY DEF Scripted
  <1>2. /\ c \in OpLists
        /\ DOMAIN a = 1 .. Len(a) /\ Len(a) \in Nat
        /\ DOMAIN b = 1 .. Len(b) /\ Len(b) \in Nat
        /\ DOMAIN c = 1 .. Len(a) + Len(b)
        /\ \A i \in 1 .. Len(a) : c[i] = a[i]
        /\ \A i \in 1 .. Len(a) + Len(b) :
             i \in 1 .. Len(a) \/ (i - Len(a) \in 1 .. Len(b) /\ c[i] = b[i - Len(a)])
    BY <1>1, OpsFollow
  <1> HIDE DEF c
  <1>3. PICK s \in DOMAIN a :
               /\ a[s] = Op("script", node)
               /\ \A k \in DOMAIN a : a[k].do = "script" => k = s
               /\ \A n \in N : \E k \in 1 .. (s - 1) : a[k] = Op("identity", n)
    BY DEF Scripted
  <1>4. s \in DOMAIN c /\ c[s] = a[s]
    BY <1>2
  <1>5. ASSUME NEW k \in DOMAIN c
        PROVE  (k \in DOMAIN a /\ c[k] = a[k]) \/ \E i \in DOMAIN b : c[k] = b[i]
    BY <1>2
  <1>6. ASSUME NEW n \in N
        PROVE  \E k \in 1 .. (s - 1) : c[k] = Op("identity", n)
    <2>1. PICK k \in 1 .. (s - 1) : a[k] = Op("identity", n)
      BY <1>3
    <2>2. k \in 1 .. Len(a)
      BY <1>2
    <2>3. QED
      BY <1>2, <2>1, <2>2
  <1>7. ASSUME NEW k \in DOMAIN c, c[k].do \in {"key", "identity"}
        PROVE  c[k].node \in V
    BY <1>5, <1>7 DEF Scripted
  <1>8. ASSUME NEW k \in DOMAIN c, c[k].do = "script"
        PROVE  k = s
    BY <1>3, <1>5, <1>8
  <1>9. Scripted(c, node, N, V)
    BY <1>2, <1>3, <1>4, <1>6, <1>7, <1>8 DEF Scripted
  <1>10. QED
    BY <1>9 DEF c

Each(nodes) == {nodes[i] : i \in DOMAIN nodes}
ServicesOf(cfg) == {n \in Each(Nodes(cfg)) : n.kind # "validator"}

\* The nodes of one kind are those of its list.
LEMMA KindsAre ==
    ASSUME NEW cfg, IsConfig(cfg)
    PROVE  /\ Each(Nodes(cfg)) \subseteq NodeSet
           /\ ValidatorNodes(cfg) \in NodeLists /\ FollowNodes(cfg) \in NodeLists
           /\ Proxies(cfg) \in NodeLists /\ PublicNodes(cfg) \in NodeLists
           /\ Each(ValidatorNodes(cfg)) = {n \in Each(Nodes(cfg)) : n.kind = "validator"}
           /\ Each(FollowNodes(cfg)) = {n \in Each(Nodes(cfg)) : n.kind = "follow"}
           /\ Each(Proxies(cfg)) = {n \in Each(Nodes(cfg)) : n.kind = "proxy"}
           /\ Each(PublicNodes(cfg)) = {n \in Each(Nodes(cfg)) : n.kind = "public"}
  <1> DEFINE A == ValidatorNodes(cfg)
             B == FollowNodes(cfg)
             C == Proxies(cfg)
             D == PublicNodes(cfg)
             N == Nodes(cfg)
             v == Len(cfg.validators)
             b == Len(cfg.docker.follow_nodes)
             c == Len(cfg.docker.p2p_proxies)
             d == Len(cfg.docker.public_nodes)
             f == v + b
             p == f + c
             n == p + d
  <1>1. /\ {v, f, p, n} \subseteq Nat \ {0}
        /\ N \in NodeLists /\ Len(N) = n
        /\ \A k \in 1 .. n :
             N[k] = IF k <= v THEN A[k] ELSE IF k <= f THEN B[k - v]
                    ELSE IF k <= p THEN C[k - f] ELSE D[k - p]
    BY NodesAre
  <1>2. DOMAIN N = 1 .. n /\ \A k \in DOMAIN N : N[k] \in NodeSet
    BY <1>1, SeqFacts DEF NodeLists
  <1>3. /\ cfg.docker.follow_nodes \in PeripheralLists
        /\ cfg.docker.p2p_proxies \in PeripheralLists
        /\ cfg.docker.public_nodes \in PeripheralLists
    BY DEF IsConfig, IsDocker
  <1>4. v \in Nat /\ b \in Nat /\ c \in Nat /\ d \in Nat
    BY <1>3, SeqFacts, ValidatorNodesType DEF PeripheralLists
  <1>5. /\ A \in NodeLists /\ Len(A) = v /\ \A k \in 1 .. v : A[k].kind = "validator"
        /\ B \in NodeLists /\ Len(B) = b /\ \A k \in 1 .. b : B[k].kind = "follow"
        /\ C \in NodeLists /\ Len(C) = c /\ \A k \in 1 .. c : C[k].kind = "proxy"
        /\ D \in NodeLists /\ Len(D) = d /\ \A k \in 1 .. d : D[k].kind = "public"
    BY <1>3, ValidatorNodesType, ServiceNodesType
       DEF FollowNodes, Proxies, PublicNodes, Kinds
  <1>6. DOMAIN A = 1 .. v /\ DOMAIN B = 1 .. b /\ DOMAIN C = 1 .. c /\ DOMAIN D = 1 .. d
    BY <1>5, SeqFacts DEF NodeLists
  <1> HIDE DEF A, B, C, D, N, v, b, c, d
  <1>7. /\ \A k \in 1 .. v : k \in 1 .. n /\ N[k] = A[k]
        /\ \A k \in 1 .. b : v + k \in 1 .. n /\ N[v + k] = B[k]
        /\ \A k \in 1 .. c : f + k \in 1 .. n /\ N[f + k] = C[k]
        /\ \A k \in 1 .. d : p + k \in 1 .. n /\ N[p + k] = D[k]
    <2>1. \A k \in 1 .. v : k \in 1 .. n /\ N[k] = A[k]
      BY <1>1, <1>4
    <2>2. \A k \in 1 .. b : v + k \in 1 .. n /\ N[v + k] = B[k]
      BY <1>1, <1>4
    <2>3. \A k \in 1 .. c : f + k \in 1 .. n /\ N[f + k] = C[k]
      BY <1>1, <1>4
    <2>4. \A k \in 1 .. d : p + k \in 1 .. n /\ N[p + k] = D[k]
      BY <1>1, <1>4
    <2>5. QED
      BY <2>1, <2>2, <2>3, <2>4
  <1>8. ASSUME NEW k \in 1 .. n
        PROVE  \/ k \in 1 .. v /\ N[k] = A[k]
               \/ k - v \in 1 .. b /\ N[k] = B[k - v]
               \/ k - f \in 1 .. c /\ N[k] = C[k - f]
               \/ k - p \in 1 .. d /\ N[k] = D[k - p]
    BY <1>1, <1>4
  <1> HIDE DEF f, p, n
  <1>9. Each(A) \subseteq Each(N) /\ Each(B) \subseteq Each(N)
        /\ Each(C) \subseteq Each(N) /\ Each(D) \subseteq Each(N)
    BY <1>2, <1>6, <1>7 DEF Each
  <1>10. /\ \A x \in Each(A) : x.kind = "validator"
         /\ \A x \in Each(B) : x.kind = "follow"
         /\ \A x \in Each(C) : x.kind = "proxy"
         /\ \A x \in Each(D) : x.kind = "public"
    BY <1>5, <1>6 DEF Each
  <1>11. Each(N) \subseteq Each(A) \cup Each(B) \cup Each(C) \cup Each(D)
    BY <1>2, <1>6, <1>8 DEF Each
  <1>12. Each(N) \subseteq NodeSet
    BY <1>2 DEF Each
  <1>13. QED
    BY <1>5, <1>9, <1>10, <1>11, <1>12 DEF A, B, C, D, N

\* The services whose key pairs the script of a node needs.
Needed(cfg, node) ==
    CASE node.kind = "follow" -> Each(Proxies(cfg))
      [] node.kind = "public" -> Each(FollowNodes(cfg)) \cup Each(Proxies(cfg))
      [] OTHER                -> {}

\* Each node has one script, after the identities of its peers.
LEMMA PrepareIs ==
    ASSUME NEW cfg, IsConfig(cfg), NEW node \in Each(Nodes(cfg))
    PROVE  Scripted(Prepare(cfg, node), node, Needed(cfg, node), ServicesOf(cfg))
  <1> DEFINE V == ServicesOf(cfg)
             B == FollowNodes(cfg)
             C == Proxies(cfg)
             own == EnsureKeypair(node)
             script == <<Op("script", node)>>
  <1>1. /\ node \in NodeSet /\ B \in NodeLists /\ C \in NodeLists
        /\ Each(B) \subseteq V /\ Each(C) \subseteq V
    BY KindsAre DEF ServicesOf
  <1>2. Ensures(EnsureKeypairs(B), Each(B)) /\ Ensures(EnsureKeypairs(C), Each(C))
    BY <1>1, EnsuresAll DEF Each
  <1>3. Ensures(own, {node}) /\ Scripted(script, node, {}, V)
    BY <1>1, EnsuresOne, ScriptedFirst
  <1>4. ASSUME NEW a, NEW N, Scripted(a, node, N, V), node \in V
        PROVE  Scripted(a \o own, node, N, V)
    <2> HIDE DEF V, own
    <2>1. own \in OpLists /\ \A k \in DOMAIN own : /\ own[k].do # "script"
                                                   /\ own[k].node \in V
      BY <1>3, <1>4 DEF Ensures
    <2>2. QED
      BY <1>4, <2>1, ScriptedThen
  <1>5. CASE node.kind = "validator"
    BY <1>3, <1>5 DEF Prepare, Needed
  <1>6. CASE node.kind = "follow"
    <2>1. Scripted(EnsureKeypairs(C) \o script, node, Each(C), V)
      BY <1>1, <1>2, ScriptedAfter
    <2>2. node \in V
      BY <1>6 DEF ServicesOf
    <2>3. Scripted((EnsureKeypairs(C) \o script) \o own, node, Each(C), V)
      <3> HIDE DEF V, own, script
      <3>1. QED
        BY <1>4, <2>1, <2>2
    <2>4. QED
      BY <1>6, <2>3 DEF Prepare, PrepareFollow, Needed
  <1>7. CASE node.kind = "proxy"
    <2>1. node \in V
      BY <1>7 DEF ServicesOf
    <2>2. Scripted(script \o own, node, {}, V)
      <3> HIDE DEF V, own, script
      <3>1. QED
        BY <1>3, <1>4, <2>1
    <2>3. QED
      BY <1>7, <2>2 DEF Prepare, PrepareProxy, Needed
  <1>8. CASE node.kind = "public"
    <2> DEFINE both == EnsureKeypairs(B) \o EnsureKeypairs(C)
               depend == <<Op("depend", node)>>
    <2>1. Ensures(both, Each(B) \cup Each(C))
      BY <1>2, EnsuresBoth
    <2>2. Scripted(both \o script, node, Each(B) \cup Each(C), V)
      <3> HIDE DEF both, V
      <3>1. QED
        BY <1>1, <2>1, ScriptedAfter
    <2>3. node \in V
      BY <1>8 DEF ServicesOf
    <2>4. Scripted((both \o script) \o own, node, Each(B) \cup Each(C), V)
      <3> HIDE DEF V, own, script, both
      <3>1. QED
        BY <1>4, <2>2, <2>3
    <2>5. depend \in OpLists /\ DOMAIN depend = {1} /\ depend[1].do = "depend"
      BY <1>1, OpType
    <2>6. Scripted(((both \o script) \o own) \o depend, node, Each(B) \cup Each(C), V)
      <3> HIDE DEF V, own, script, both, depend
      <3>1. \A k \in DOMAIN depend : depend[k].do = "depend"
        BY <2>5
      <3>2. QED
        BY <2>4, <2>5, <3>1, ScriptedThen
    <2>7. QED
      BY <1>8, <2>6 DEF Prepare, PreparePublic, Needed
  <1>9. QED
    BY <1>1, <1>5, <1>6, <1>7, <1>8 DEF NodeSet, Kinds

\* The generator goes through the nodes, then writes the compose file.
LEMMA ProgramIs ==
    ASSUME NEW cfg, IsConfig(cfg)
    PROVE  LET n == Len(Nodes(cfg)) IN
           /\ n \in Nat \ {0} /\ DOMAIN Nodes(cfg) = 1 .. n
           /\ DOMAIN Program(cfg) = 1 .. n + 1 /\ Len(Program(cfg)) = n + 1
           /\ \A i \in 1 .. n : Program(cfg)[i] = Prepare(cfg, Nodes(cfg)[i])
           /\ Program(cfg)[n + 1] = <<Op("compose", None)>>
  <1> DEFINE n == Len(Nodes(cfg))
             parts == [i \in DOMAIN Nodes(cfg) |-> Prepare(cfg, Nodes(cfg)[i])]
             last == <<Op("compose", None)>>
  <1>1. n \in Nat \ {0} /\ DOMAIN Nodes(cfg) = 1 .. n
    BY NodesAre, SeqFacts DEF NodeLists
  <1>2. parts \in [1 .. n -> OpLists]
    <2>1. \A i \in 1 .. n : Prepare(cfg, Nodes(cfg)[i]) \in OpLists
      BY <1>1, PrepareIs DEF Scripted, Each
    <2>2. QED
      BY <1>1, <2>1
  <1>3. \A i \in 1 .. n : parts[i] = Prepare(cfg, Nodes(cfg)[i])
    BY <1>1
  <1> HIDE DEF n, parts, last
  <1>4. parts \in Programs /\ Len(parts) = n
    BY <1>1, <1>2, SeqFromFunction DEF Programs
  <1>5. \A S : \A x \in Seq(S) : \A y :
          /\ Len(Append(x, y)) = Len(x) + 1
          /\ DOMAIN Append(x, y) = 1 .. Len(x) + 1
          /\ \A i \in 1 .. Len(x) : Append(x, y)[i] = x[i]
          /\ Append(x, y)[Len(x) + 1] = y
    OBVIOUS
  <1>6. /\ Len(Append(parts, last)) = n + 1
        /\ DOMAIN Append(parts, last) = 1 .. n + 1
        /\ \A i \in 1 .. n : Append(parts, last)[i] = parts[i]
        /\ Append(parts, last)[n + 1] = last
    BY <1>4, <1>5 DEF Programs
  <1>7. Program(cfg) = Append(parts, last)
    BY DEF Program, parts, last
  <1>8. QED
    BY <1>1, <1>3, <1>6, <1>7 DEF n, last

\* A part of the program is that of a node, or the last.
LEMMA PartIs ==
    ASSUME NEW cfg, IsConfig(cfg), NEW i \in DOMAIN Program(cfg)
    PROVE  /\ i \in Nat \ {0}
           /\ \/ /\ i \in DOMAIN Nodes(cfg) /\ Nodes(cfg)[i] \in NodeSet
                 /\ Program(cfg)[i] = Prepare(cfg, Nodes(cfg)[i])
                 /\ Program(cfg)[i] \in OpLists
                 /\ Scripted(Program(cfg)[i], Nodes(cfg)[i],
                             Needed(cfg, Nodes(cfg)[i]), ServicesOf(cfg))
              \/ i = Len(Program(cfg)) /\ Program(cfg)[i] = <<Op("compose", None)>>
           /\ Len(Program(cfg)[i]) \in Nat \ {0}
           /\ DOMAIN Program(cfg)[i] = 1 .. Len(Program(cfg)[i])
  <1> DEFINE n == Len(Nodes(cfg))
  <1>1. /\ n \in Nat \ {0} /\ DOMAIN Nodes(cfg) = 1 .. n
        /\ DOMAIN Program(cfg) = 1 .. n + 1 /\ Len(Program(cfg)) = n + 1
        /\ \A k \in 1 .. n : Program(cfg)[k] = Prepare(cfg, Nodes(cfg)[k])
        /\ Program(cfg)[n + 1] = <<Op("compose", None)>>
    BY ProgramIs
  <1> HIDE DEF n
  <1>2. CASE i \in 1 .. n
    <2>1. Nodes(cfg)[i] \in Each(Nodes(cfg)) /\ Nodes(cfg)[i] \in NodeSet
      BY <1>1, <1>2, KindsAre DEF Each
    <2>2. Scripted(Program(cfg)[i], Nodes(cfg)[i], Needed(cfg, Nodes(cfg)[i]),
                   ServicesOf(cfg))
      BY <1>1, <1>2, <2>1, PrepareIs
    <2> DEFINE w == Program(cfg)[i]
    <2>3. w \in OpLists /\ \E s \in DOMAIN w : TRUE
      BY <2>2 DEF Scripted
    <2> HIDE DEF w
    <2>4. Len(w) \in Nat \ {0} /\ DOMAIN w = 1 .. Len(w)
      BY <2>3, SeqFacts DEF OpLists
    <2>5. QED
      BY <1>1, <1>2, <2>1, <2>2, <2>3, <2>4 DEF w
  <1>3. CASE i = n + 1
    <2>1. \A x : Len(<<x>>) = 1 /\ DOMAIN <<x>> = 1 .. 1
      OBVIOUS
    <2>2. QED
      BY <1>1, <1>3, <2>1
  <1>4. QED
    BY <1>1, <1>2, <1>3

-----------------------------------------------------------------------------
(* The running job *)

Jobs ==
    [cfg: Configs \cup {None}, part: Nat, pc: Nat, calls: 0 .. MaxCalls,
     failed: SUBSET Monikers, result: Results]

Placed(j) ==
    /\ j.result = "ok" => j.cfg # None
    /\ j.part > 0 => /\ j.cfg # None
                     /\ j.part \in DOMAIN Program(j.cfg)
                     /\ j.pc \in DOMAIN Program(j.cfg)[j.part]

\* The operation k of part i is behind the job.
PassedBy(j, i, k) ==
    IF j.part = 0 THEN j.result = "ok"
    ELSE i < j.part \/ (i = j.part /\ k < j.pc)

\* What the operation the generator is at can be.
LEMMA CurrentIs ==
    ASSUME TypeOK, job.part > 0
    PROVE  /\ job.cfg \in Configs /\ IsConfig(job.cfg)
           /\ job.part \in Nat \ {0} /\ job.pc \in Nat \ {0}
           /\ Current.do \in {"key", "identity", "script", "depend", "compose"}
           /\ Current.do = "compose" => /\ job.part = Len(Program(job.cfg))
                                        /\ Current = Op("compose", None)
           /\ Current.do # "compose" => /\ Current.node \in NodeSet
                                        /\ job.part \in DOMAIN Nodes(job.cfg)
           /\ Current.do = "script" => Current.node = Nodes(job.cfg)[job.part]
           /\ Current.do \in {"key", "identity"} => Current.node \in ServicesOf(job.cfg)
  <1> DEFINE cfg == job.cfg
             i == job.part
             k == job.pc
             w == Program(cfg)[i]
  <1>1. cfg \in Configs /\ i \in DOMAIN Program(cfg) /\ k \in DOMAIN w
    BY DEF TypeOK
  <1>2. IsConfig(cfg)
    BY <1>1, ConfigType
  <1>3. /\ i \in Nat \ {0}
        /\ \/ /\ i \in DOMAIN Nodes(cfg) /\ Nodes(cfg)[i] \in NodeSet
              /\ w \in OpLists
              /\ Scripted(w, Nodes(cfg)[i], Needed(cfg, Nodes(cfg)[i]), ServicesOf(cfg))
           \/ i = Len(Program(cfg)) /\ w = <<Op("compose", None)>>
        /\ DOMAIN w = 1 .. Len(w) /\ Len(w) \in Nat
    BY <1>1, <1>2, PartIs
  <1>4. Current = w[k]
    BY DEF Current
  <1>5. k \in Nat \ {0}
    BY <1>1, <1>3
  <1>6. CASE w \in OpLists /\ i \in DOMAIN Nodes(cfg) /\ Nodes(cfg)[i] \in NodeSet
             /\ Scripted(w, Nodes(cfg)[i], Needed(cfg, Nodes(cfg)[i]), ServicesOf(cfg))
    <2> HIDE DEF w, cfg, i, k
    <2>1. w[k] \in NodeOps
      BY <1>1, <1>6, SeqFacts DEF OpLists
    <2>2. w[k].do \in {"key", "identity"} => w[k].node \in ServicesOf(cfg)
      BY <1>1, <1>6 DEF Scripted
    <2>3. w[k].do = "script" => w[k] = Op("script", Nodes(cfg)[i])
      BY <1>1, <1>6 DEF Scripted
    <2>4. w[k].do = "script" => w[k].node = Nodes(cfg)[i]
      BY <2>3 DEF Op
    <2>5. w[k].do \in {"key", "identity", "script", "depend"} /\ w[k].node \in NodeSet
      BY <2>1 DEF NodeOps
    <2>6. QED
      BY <1>1, <1>2, <1>3, <1>4, <1>5, <1>6, <2>2, <2>4, <2>5 DEF cfg, i, k
  <1>7. CASE i = Len(Program(cfg)) /\ w = <<Op("compose", None)>>
    <2>1. w[k] = Op("compose", None)
      <3> DEFINE x == Op("compose", None)
      <3> HIDE DEF x
      <3>1. \A j \in DOMAIN <<x>> : <<x>>[j] = x
        OBVIOUS
      <3>2. w = <<x>>
        BY <1>7 DEF x
      <3>3. QED
        BY <1>1, <3>1, <3>2 DEF x
    <2>2. w[k].do = "compose"
      BY <2>1 DEF Op
    <2> HIDE DEF w, cfg, i, k
    <2>3. QED
      BY <1>1, <1>2, <1>3, <1>4, <1>5, <1>7, <2>1, <2>2 DEF cfg, i, k
  <1>8. QED
    BY <1>3, <1>6, <1>7

\* The fields of a job that goes on.
LEMMA NextOp ==
    ASSUME NEW j \in Jobs, NEW pc, NEW failed
    PROVE  [j EXCEPT !.pc = pc, !.failed = failed]
             = [cfg |-> j.cfg, part |-> j.part, pc |-> pc, calls |-> j.calls,
                failed |-> failed, result |-> j.result]
  <1> DEFINE a == j.cfg
             b == j.part
             c == j.pc
             d == j.calls
             e == j.failed
             f == j.result
             new == [j EXCEPT !.pc = pc, !.failed = failed]
  <1>1. j \in [cfg: {a}, part: {b}, pc: {c}, calls: {d}, failed: {e}, result: {f}]
    BY DEF Jobs
  <1> HIDE DEF a, b, c, d, e, f
  <1>2. new \in [cfg: {a}, part: {b}, pc: {pc}, calls: {d}, failed: {failed},
                result: {f}]
    BY <1>1
  <1> HIDE DEF new
  <1>3. new = [cfg |-> a, part |-> b, pc |-> pc, calls |-> d, failed |-> failed,
               result |-> f]
    BY <1>2
  <1>4. QED
    BY <1>3 DEF new, a, b, c, d, e, f

LEMMA NextPart ==
    ASSUME NEW j \in Jobs, NEW part, NEW pc, NEW failed
    PROVE  [j EXCEPT !.part = part, !.pc = pc, !.failed = failed]
             = [cfg |-> j.cfg, part |-> part, pc |-> pc, calls |-> j.calls,
                failed |-> failed, result |-> j.result]
  <1> DEFINE a == j.cfg
             b == j.part
             c == j.pc
             d == j.calls
             e == j.failed
             f == j.result
             new == [j EXCEPT !.part = part, !.pc = pc, !.failed = failed]
  <1>1. j \in [cfg: {a}, part: {b}, pc: {c}, calls: {d}, failed: {e}, result: {f}]
    BY DEF Jobs
  <1> HIDE DEF a, b, c, d, e, f
  <1>2. new \in [cfg: {a}, part: {part}, pc: {pc}, calls: {d}, failed: {failed},
                result: {f}]
    BY <1>1
  <1> HIDE DEF new
  <1>3. new = [cfg |-> a, part |-> part, pc |-> pc, calls |-> d, failed |-> failed,
               result |-> f]
    BY <1>2
  <1>4. QED
    BY <1>3 DEF new, a, b, c, d, e, f

Ended(j, part, pc, result, failed) ==
    [j EXCEPT !.part = part, !.pc = pc, !.result = result, !.failed = failed]
Halted(j, part, pc, result) ==
    [j EXCEPT !.part = part, !.pc = pc, !.result = result]

LEMMA LastOp ==
    ASSUME NEW j \in Jobs, NEW part, NEW pc, NEW failed, NEW result
    PROVE  Ended(j, part, pc, result, failed)
             = [cfg |-> j.cfg, part |-> part, pc |-> pc, calls |-> j.calls,
                failed |-> failed, result |-> result]
  <1> DEFINE a == j.cfg
             b == j.part
             c == j.pc
             d == j.calls
             e == j.failed
             f == j.result
             new == Ended(j, part, pc, result, failed)
  <1>1. j \in [cfg: {a}, part: {b}, pc: {c}, calls: {d}, failed: {e}, result: {f}]
    BY DEF Jobs
  <1> HIDE DEF a, b, c, d, e, f
  <1>2. new \in [cfg: {a}, part: {part}, pc: {pc}, calls: {d}, failed: {failed},
                result: {result}]
    BY <1>1 DEF Ended
  <1> HIDE DEF new
  <1>3. new = [cfg |-> a, part |-> part, pc |-> pc, calls |-> d, failed |-> failed,
               result |-> result]
    BY <1>2
  <1>4. QED
    BY <1>3 DEF new, a, b, c, d, e, f

LEMMA Stopped ==
    ASSUME NEW j \in Jobs, NEW part, NEW pc, NEW result
    PROVE  Halted(j, part, pc, result)
             = [cfg |-> j.cfg, part |-> part, pc |-> pc, calls |-> j.calls,
                failed |-> j.failed, result |-> result]
  <1> DEFINE a == j.cfg
             b == j.part
             c == j.pc
             d == j.calls
             e == j.failed
             f == j.result
             new == Halted(j, part, pc, result)
  <1>1. j \in [cfg: {a}, part: {b}, pc: {c}, calls: {d}, failed: {e}, result: {f}]
    BY DEF Jobs
  <1> HIDE DEF a, b, c, d, e, f
  <1>2. new \in [cfg: {a}, part: {part}, pc: {pc}, calls: {d}, failed: {e},
                result: {result}]
    BY <1>1 DEF Halted
  <1> HIDE DEF new
  <1>3. new = [cfg |-> a, part |-> part, pc |-> pc, calls |-> d, failed |-> e,
               result |-> result]
    BY <1>2
  <1>4. QED
    BY <1>3 DEF new, a, b, c, d, e, f

\* An operation that is done is the only one more that is passed.
LEMMA DoneIs ==
    ASSUME TypeOK, job.part > 0, NEW failed \in SUBSET Monikers, Done(failed)
    PROVE  /\ job' \in Jobs /\ Placed(job')
           /\ job'.cfg = job.cfg /\ job'.failed = failed
           /\ \A i \in DOMAIN Program(job.cfg) :
                \A k \in DOMAIN Program(job.cfg)[i] :
                  PassedBy(job', i, k) =>
                    PassedBy(job, i, k) \/ (i = job.part /\ k = job.pc)
  <1> DEFINE P == Program(job.cfg)
             part == job.part
             pc == job.pc
             same(a, b, r) == [cfg |-> job.cfg, part |-> a, pc |-> b,
                               calls |-> job.calls, failed |-> failed, result |-> r]
  <1>1. job \in Jobs
    BY DEF TypeOK, Jobs
  <1>2. /\ job.cfg \in Configs /\ IsConfig(job.cfg)
        /\ part \in Nat \ {0} /\ pc \in Nat \ {0}
    BY CurrentIs
  <1>3. part \in DOMAIN P /\ pc \in DOMAIN P[part]
    BY DEF TypeOK
  <1>4. /\ \A i \in DOMAIN P : /\ i \in Nat \ {0} /\ Len(P[i]) \in Nat \ {0}
                               /\ DOMAIN P[i] = 1 .. Len(P[i])
    BY <1>2, PartIs
  <1>5. DOMAIN P = 1 .. Len(P) /\ Len(P) \in Nat
    BY <1>2, ProgramIs
  <1>6. /\ job' = IF pc < Len(P[part]) THEN same(part, pc + 1, job.result)
                  ELSE IF part < Len(P) THEN same(part + 1, 1, job.result)
                  ELSE same(0, 0, "ok")
    <2>1. job' = IF pc < Len(P[part])
                 THEN [job EXCEPT !.pc = pc + 1, !.failed = failed]
                 ELSE IF part < Len(P)
                 THEN [job EXCEPT !.part = part + 1, !.pc = 1, !.failed = failed]
                 ELSE [job EXCEPT !.part = 0, !.pc = 0, !.result = "ok",
                                  !.failed = failed]
      BY DEF Done
    <2>2. [job EXCEPT !.pc = pc + 1, !.failed = failed] = same(part, pc + 1, job.result)
      BY <1>1, NextOp
    <2>3. [job EXCEPT !.part = part + 1, !.pc = 1, !.failed = failed]
            = same(part + 1, 1, job.result)
      BY <1>1, NextPart
    <2>4. [job EXCEPT !.part = 0, !.pc = 0, !.result = "ok", !.failed = failed]
            = same(0, 0, "ok")
      <3>1. Ended(job, 0, 0, "ok", failed) = same(0, 0, "ok")
        BY <1>1, LastOp
      <3>2. QED
        BY <3>1 DEF Ended
    <2> HIDE DEF same, part, pc, P
    <2>5. QED
      BY <2>1, <2>2, <2>3, <2>4
  <1>7. \A a, b \in Nat : \A r \in Results : same(a, b, r) \in Jobs
    BY <1>1, <1>2 DEF Jobs
  <1>8. \A a, b, r : /\ same(a, b, r).cfg = job.cfg /\ same(a, b, r).failed = failed
                     /\ same(a, b, r).part = a /\ same(a, b, r).pc = b
                     /\ same(a, b, r).result = r
    OBVIOUS
  <1>9. job.result \in Results /\ "ok" \in Results
    BY <1>1 DEF Jobs, Results
  <1>10. job.cfg # None
    BY DEF TypeOK
  <1> HIDE DEF same
  <1>11. CASE pc < Len(P[part])
    <2>1. job' = same(part, pc + 1, job.result)
      BY <1>6, <1>11
    <2>2. pc + 1 \in DOMAIN P[part]
      BY <1>2, <1>3, <1>4, <1>11
    <2>3. ASSUME NEW i \in DOMAIN P, NEW k \in DOMAIN P[i], PassedBy(job', i, k)
          PROVE  PassedBy(job, i, k) \/ (i = part /\ k = pc)
      <3>1. i < part \/ (i = part /\ k < pc + 1)
        BY <1>2, <1>8, <2>1, <2>3 DEF PassedBy
      <3>2. k \in Nat
        BY <1>4
      <3>3. i < part \/ (i = part /\ k < pc) \/ (i = part /\ k = pc)
        BY <1>2, <3>1, <3>2
      <3>4. QED
        BY <1>2, <3>3 DEF PassedBy
    <2> HIDE DEF part, pc, P
    <2>4. job' \in Jobs /\ Placed(job')
      BY <1>2, <1>3, <1>7, <1>8, <1>9, <1>10, <2>1, <2>2 DEF Placed, P, part, pc
    <2>5. QED
      BY <1>8, <2>1, <2>3, <2>4 DEF P, part, pc
  <1>12. CASE ~(pc < Len(P[part])) /\ part < Len(P)
    <2>1. job' = same(part + 1, 1, job.result)
      BY <1>6, <1>12
    <2>2. part + 1 \in DOMAIN P /\ 1 \in DOMAIN P[part + 1]
      BY <1>2, <1>3, <1>4, <1>5, <1>12
    <2>3. ASSUME NEW i \in DOMAIN P, NEW k \in DOMAIN P[i], PassedBy(job', i, k)
          PROVE  PassedBy(job, i, k) \/ (i = part /\ k = pc)
      <3>1. i < part + 1 \/ (i = part + 1 /\ k < 1)
        BY <1>2, <1>8, <2>1, <2>3 DEF PassedBy
      <3>2. k \in Nat \ {0} /\ i \in Nat /\ Len(P[i]) \in Nat /\ k <= Len(P[i])
        BY <1>4
      <3>3. i < part \/ i = part
        BY <1>2, <3>1, <3>2
      <3>4. i = part => k <= pc
        BY <1>2, <1>3, <1>4, <1>12, <3>2
      <3>5. i < part \/ (i = part /\ k < pc) \/ (i = part /\ k = pc)
        BY <1>2, <3>2, <3>3, <3>4
      <3>6. QED
        BY <1>2, <3>5 DEF PassedBy
    <2> HIDE DEF part, pc, P
    <2>4. job' \in Jobs /\ Placed(job')
      BY <1>2, <1>3, <1>7, <1>8, <1>9, <1>10, <2>1, <2>2 DEF Placed, P, part, pc
    <2>5. QED
      BY <1>8, <2>1, <2>3, <2>4 DEF P, part, pc
  <1>13. CASE ~(pc < Len(P[part])) /\ ~(part < Len(P))
    <2>1. job' = same(0, 0, "ok")
      BY <1>6, <1>13
    <2>3. ASSUME NEW i \in DOMAIN P, NEW k \in DOMAIN P[i], PassedBy(job', i, k)
          PROVE  PassedBy(job, i, k) \/ (i = part /\ k = pc)
      <3>1. k \in Nat \ {0} /\ i \in Nat /\ Len(P[i]) \in Nat /\ k <= Len(P[i])
        BY <1>4
      <3>2. i <= part
        BY <1>2, <1>3, <1>5, <1>13
      <3>3. i = part => k <= pc
        BY <1>2, <1>3, <1>4, <1>13, <3>1
      <3>4. i < part \/ (i = part /\ k < pc) \/ (i = part /\ k = pc)
        BY <1>2, <3>1, <3>2, <3>3
      <3>5. QED
        BY <1>2, <3>4 DEF PassedBy
    <2> HIDE DEF part, pc, P
    <2>4. job' \in Jobs /\ Placed(job')
      BY <1>7, <1>8, <1>9, <1>10, <2>1 DEF Placed
    <2>5. QED
      BY <1>8, <2>1, <2>3, <2>4 DEF P, part, pc
  <1>14. QED
    BY <1>11, <1>12, <1>13

\* A generator that raises or is killed has passed nothing.
LEMMA StopIs ==
    ASSUME TypeOK, NEW result \in {"raised", "killed"}, Stop(result)
    PROVE  /\ job' \in Jobs /\ Placed(job') /\ job'.cfg = job.cfg
           /\ job'.part = 0 /\ job'.result = result
           /\ \A i, k : ~PassedBy(job', i, k)
  <1>1. job \in Jobs
    BY DEF TypeOK, Jobs
  <1> DEFINE same == [cfg |-> job.cfg, part |-> 0, pc |-> 0, calls |-> job.calls,
                      failed |-> job.failed, result |-> result]
  <1>2. [job EXCEPT !.part = 0, !.pc = 0, !.result = result] = same
    <2>1. Halted(job, 0, 0, result) = same
      BY <1>1, Stopped
    <2>2. QED
      BY <2>1 DEF Halted
  <1>3. job' = same
    BY <1>2 DEF Stop
  <1>4. same \in Jobs
    BY <1>1 DEF Jobs, Results
  <1>5. job'.cfg = job.cfg /\ job'.part = 0 /\ job'.result = result
    BY <1>3
  <1>6. QED
    BY <1>3, <1>4, <1>5 DEF Placed, PassedBy

\* A generator that starts has passed nothing.
LEMMA StartIs ==
    ASSUME TypeOK, NEW cfg \in Configs, Call(cfg), NEW at \in {0, 1},
           NEW result \in {"none", "kept", "raised"}, Start(cfg, at, result)
    PROVE  /\ job' \in Jobs /\ Placed(job') /\ job'.cfg = cfg
           /\ \A i \in DOMAIN Program(cfg) : \A k \in DOMAIN Program(cfg)[i] :
                ~PassedBy(job', i, k)
  <1>1. job \in Jobs
    BY DEF TypeOK, Jobs
  <1>2. job.calls + 1 \in 0 .. MaxCalls
    BY <1>1, Bounds DEF Call, Jobs
  <1>3. job' = [cfg |-> cfg, part |-> at, pc |-> at, calls |-> job.calls + 1,
                failed |-> {}, result |-> result]
    BY DEF Start
  <1>4. job' \in Jobs
    BY <1>2, <1>3 DEF Jobs, Results
  <1>5. job'.cfg = cfg /\ job'.part = at /\ job'.pc = at /\ job'.result = result
    BY <1>3
  <1>6. IsConfig(cfg) /\ cfg # None
    BY ConfigType, NoneIsNothing
  <1>7. 1 \in DOMAIN Program(cfg)
    BY <1>6, ProgramIs
  <1>8. \A i \in DOMAIN Program(cfg) : /\ i \in Nat \ {0}
                                       /\ Len(Program(cfg)[i]) \in Nat \ {0}
                                       /\ DOMAIN Program(cfg)[i] = 1 .. Len(Program(cfg)[i])
    BY <1>6, PartIs
  <1>9. 1 \in DOMAIN Program(cfg)[1]
    BY <1>7, <1>8
  <1>10. Placed(job')
    BY <1>5, <1>6, <1>7, <1>9 DEF Placed
  <1>11. ASSUME NEW i \in DOMAIN Program(cfg), NEW k \in DOMAIN Program(cfg)[i]
         PROVE  ~PassedBy(job', i, k)
    <2>1. i >= 1 /\ k >= 1 /\ i \in Nat /\ k \in Nat
      BY <1>8
    <2>2. QED
      BY <1>5, <2>1 DEF PassedBy
  <1>12. QED
    BY <1>4, <1>5, <1>10, <1>11

-----------------------------------------------------------------------------
(* The invariant *)

\* A script that was written lists the keys that are in the peers' directories,
\* and its service has the genesis of the layout.
Fresh(d, m) ==
    /\ d.dirs[m] # None /\ d.dirs[m].script \in Scripts
    /\ \A p \in d.dirs[m].script.peers :
         d.dirs[p.at] # None /\ p.id \in {d.dirs[p.at].key, Torn}
    /\ d.dirs[m].script.kind # "validator" => d.dirs[m].genesis = d.genesis

\* The identity files are those of the keys.
KeysIdentify ==
    \A m \in Monikers :
      disk.dirs[m] # None =>
        disk.dirs[m].identity \in {None, Torn, disk.dirs[m].key}

\* Without a layout no service has a genesis.
NoGenesis ==
    disk.genesis = None =>
      \A m \in Monikers : disk.dirs[m] # None => disk.dirs[m].genesis = None

\* The scripts that the running generator is past are fresh.
ScriptsFresh ==
    job.cfg # None =>
      \A i \in DOMAIN Program(job.cfg) : \A k \in DOMAIN Program(job.cfg)[i] :
        (Program(job.cfg)[i][k].do = "script" /\ PassedBy(job, i, k)) =>
          Fresh(disk, Program(job.cfg)[i][k].node.moniker)

Saved == (laid # None /\ laid.saved) => disk.yaml = ToDict(laid.cfg)

IInv == TypeOK /\ KeysIdentify /\ NoGenesis /\ ScriptsFresh /\ Saved

-----------------------------------------------------------------------------
(* Directories and scripts *)

LEMMA DirOfType ==
    ASSUME TypeOK, NEW m \in Monikers
    PROVE  /\ DirOf(m) \in Dir
           /\ disk.dirs[m] # None => DirOf(m) = disk.dirs[m]
           /\ disk.dirs[m] = None => DirOf(m) = EmptyDir
           /\ disk.dirs[m] \in Dir \cup {None}
  <1>1. disk.dirs[m] \in Dir \cup {None}
    BY DEF TypeOK, Disk
  <1>2. EmptyDir \in Dir
    BY DEF EmptyDir, Dir, KeyFile
  <1>3. QED
    BY <1>1, <1>2 DEF DirOf

LEMMA WriteIs ==
    ASSUME TypeOK, NEW m \in Monikers, NEW dir \in Dir, Write(m, dir)
    PROVE  /\ disk' \in Disk
           /\ disk'.genesis = disk.genesis /\ disk'.yaml = disk.yaml
           /\ disk'.compose = disk.compose
           /\ disk'.dirs[m] = dir /\ dir # None
           /\ \A n \in Monikers \ {m} : disk'.dirs[n] = disk.dirs[n]
  <1>1. disk \in Disk
    BY DEF TypeOK
  <1>2. disk' = [disk EXCEPT !.dirs = [disk.dirs EXCEPT ![m] = dir]]
    BY DEF Write
  <1> DEFINE dirs == [disk.dirs EXCEPT ![m] = dir]
  <1>3. /\ dirs \in [Monikers -> Dir \cup {None}] /\ dirs[m] = dir
        /\ \A n \in Monikers \ {m} : dirs[n] = disk.dirs[n]
    BY <1>1 DEF Disk
  <1> HIDE DEF dirs
  <1>4. /\ disk' \in Disk
        /\ disk'.genesis = disk.genesis /\ disk'.yaml = disk.yaml
        /\ disk'.compose = disk.compose /\ disk'.dirs = dirs
    BY <1>1, <1>2, <1>3 DEF Disk, dirs
  <1>5. dir # None
    BY NoneIsNothing
  <1>6. QED
    BY <1>3, <1>4, <1>5

\* The peers of a node are read from the identity files that are there.
LEMMA PeersType ==
    ASSUME TypeOK, KeysIdentify, NEW nodes \in NodeLists, NEW p \in Peers(nodes)
    PROVE  /\ p \in [id: KeyFile \ {None}, at: Monikers]
           /\ p.at \in NamesOf(nodes)
           /\ disk.dirs[p.at] # None /\ p.id \in {disk.dirs[p.at].key, Torn}
  <1>1. PICK m \in NamesOf(nodes) :
               /\ disk.dirs[m] # None /\ disk.dirs[m].identity # None
               /\ p = [id |-> disk.dirs[m].identity, at |-> m]
    BY DEF Peers
  <1>2. m \in Monikers
    <2>1. PICK i \in DOMAIN nodes : m = nodes[i].moniker
      BY DEF NamesOf
    <2>2. nodes[i] \in NodeSet
      BY SeqFacts DEF NodeLists
    <2>3. QED
      BY <2>1, <2>2 DEF NodeSet
  <1>3. disk.dirs[m] \in Dir
    BY <1>1, <1>2, DirOfType
  <1>4. disk.dirs[m].identity \in KeyFile
    BY <1>3 DEF Dir
  <1>5. QED
    BY <1>1, <1>2, <1>4 DEF KeysIdentify

LEMMA PeersOfType ==
    ASSUME TypeOK, KeysIdentify, NEW cfg, IsConfig(cfg), NEW node \in NodeSet
    PROVE  \A p \in PeersOf(cfg, node) :
             /\ p \in [id: KeyFile \ {None}, at: Monikers]
             /\ disk.dirs[p.at] # None /\ p.id \in {disk.dirs[p.at].key, Torn}
  <1>1. /\ ValidatorNodes(cfg) \in NodeLists /\ FollowNodes(cfg) \in NodeLists
        /\ Proxies(cfg) \in NodeLists
    BY KindsAre
  <1>2. ASSUME NEW p \in PeersOf(cfg, node)
        PROVE  p \in Peers(ValidatorNodes(cfg)) \cup Peers(FollowNodes(cfg))
                       \cup Peers(Proxies(cfg))
    BY <1>2 DEF PeersOf, NodeSet, Kinds
  <1>3. QED
    BY <1>1, <1>2, PeersType

\* A script is a list of such peers, or names an upstream.
LEMMA ScriptType ==
    ASSUME TypeOK, KeysIdentify, NEW cfg, IsConfig(cfg), NEW node \in NodeSet
    PROVE  Script(cfg, node) \in Scripts
  <1> DEFINE peers == PeersOf(cfg, node)
             upstream == Upstream(cfg, node)
             listen == ListenAddr(cfg, node)
  <1>1. peers \in SUBSET [id: KeyFile \ {None}, at: Monikers]
    BY PeersOfType
  <1>2. \A i \in Nat : DockerIp(cfg, i) \in Nat
    BY DEF IsConfig, IsDocker, Subnets, DockerIp, DOCKER_IP_HOST_OCTET_BASE
  <1>3. listen \in Nat
    BY <1>2 DEF ListenAddr, AnyHost, IPv4, NodeSet
  <1>4. upstream \in [ip: Nat \cup {None}, service: Monikers \cup {None, "follower0"}]
    <2>1. CASE node.kind = "validator"
      BY <2>1 DEF Upstream
    <2>2. CASE node.kind = "public"
      <3>1. cfg.docker.follow_nodes \in PeripheralLists
        BY DEF IsConfig, IsDocker
      <3>2. cfg.docker.follow_nodes # <<>> => cfg.docker.follow_nodes[1] \in Peripherals
        <4>1. \A S : \A s \in Seq(S) : s # <<>> => s[1] \in S
          OBVIOUS
        <4>2. QED
          BY <3>1, <4>1 DEF PeripheralLists
      <3>3. QED
        BY <2>2, <3>2 DEF Upstream, Peripherals
    <2>3. CASE node.kind \notin {"validator", "public"}
      BY <1>2, <2>3 DEF Upstream
    <2>4. QED
      BY <2>1, <2>2, <2>3
  <1>5. node.kind \in {"validator", "follow", "proxy", "public"}
    BY DEF NodeSet, Kinds
  <1>6. Script(cfg, node) = [kind |-> node.kind, peers |-> peers,
                             upstream |-> upstream, listen |-> listen]
    BY DEF Script
  <1> HIDE DEF peers, upstream, listen
  <1>7. QED
    BY <1>1, <1>3, <1>4, <1>5, <1>6 DEF Scripts

-----------------------------------------------------------------------------
(* The layout *)

KeysOf(cfg) == [i \in DOMAIN cfg.validators |-> KeyOf(cfg, i)]

LEMMA KeyOfType ==
    ASSUME TypeOK, NEW cfg, IsConfig(cfg), made + KeyCount(cfg) <= MaxKeys,
           NEW i \in DOMAIN cfg.validators
    PROVE  KeyOf(cfg, i) \in KeyFile \ {Torn}
  <1>1. DOMAIN cfg.validators = 1 .. Len(cfg.validators) /\ Len(cfg.validators) \in Nat
    BY SeqFacts DEF IsConfig, ValidatorLists
  <1>2. made \in Nat /\ MaxKeys \in Nat
    BY Bounds DEF TypeOK
  <1>3. KeyCount(cfg) \in Nat
    BY <1>1 DEF KeyCount
  <1>4. None # Torn /\ Torn \notin Nat
    BY NoneIsNothing
  <1>5. i \in Nat \ {0}
    BY <1>1
  <1> HIDE DEF KeyCount
  <1>6. i <= KeyCount(cfg) => made + i \in 1 .. MaxKeys
    BY <1>2, <1>3, <1>5
  <1>7. QED
    BY <1>2, <1>4, <1>5, <1>6 DEF KeyOf, KeyFile

LEMMA GenesisType ==
    ASSUME TypeOK, NEW cfg, IsConfig(cfg), NEW docker \in BOOLEAN,
           made + KeyCount(cfg) <= MaxKeys
    PROVE  [keys |-> KeysOf(cfg), addresses |-> GenesisAddresses(cfg, docker)]
             \in Genesis
  <1> DEFINE l == Len(cfg.validators)
             as == GenesisAddresses(cfg, docker)
  <1>1. /\ DOMAIN cfg.validators = 1 .. l /\ l \in Nat
        /\ \A i \in 1 .. l : cfg.validators[i] \in Validators
    BY SeqFacts DEF IsConfig, ValidatorLists
  <1>2. KeysOf(cfg) \in [1 .. l -> KeyFile]
    BY <1>1, KeyOfType DEF KeysOf
  <1>3. as \in [1 .. l -> [host: Nat, port: Nat]]
    <2>1. DOCKER_CONSENSUS_P2P_PORT \in Nat
      BY DEF DOCKER_CONSENSUS_P2P_PORT
    <2>2. \A i \in 1 .. l : DockerIp(cfg, i - 1) \in Nat
      BY <1>1 DEF IsConfig, IsDocker, Subnets, DockerIp, DOCKER_IP_HOST_OCTET_BASE
    <2>3. \A i \in 1 .. l : cfg.validators[i].host \in Nat /\ cfg.validators[i].port \in Nat
      BY <1>1 DEF Validators
    <2>4. as = [i \in 1 .. l |->
                  IF docker THEN [host |-> DockerIp(cfg, i - 1),
                                  port |-> DOCKER_CONSENSUS_P2P_PORT]
                  ELSE [host |-> cfg.validators[i].host,
                        port |-> cfg.validators[i].port]]
      BY <1>1 DEF GenesisAddresses
    <2>5. QED
      BY <2>1, <2>2, <2>3, <2>4
  <1>4. \A S : \A n \in Nat : \A f \in [1 .. n -> S] : f \in Seq(S)
    OBVIOUS
  <1> HIDE DEF l, as
  <1>5. KeysOf(cfg) \in Seq(KeyFile) /\ as \in Seq([host: Nat, port: Nat])
    BY <1>1, <1>2, <1>3, <1>4
  <1>6. QED
    BY <1>5 DEF Genesis, as

LEMMA EmptyDiskType ==
    /\ EmptyDisk \in Disk
    /\ \A m \in Monikers : EmptyDisk.dirs[m] = None
    /\ \A cfg \in Configs :
         /\ [EmptyDisk EXCEPT !.yaml = ToDict(cfg)] \in Disk
         /\ [EmptyDisk EXCEPT !.yaml = ToDict(cfg)].yaml = ToDict(cfg)
         /\ [EmptyDisk EXCEPT !.yaml = ToDict(cfg)].dirs = EmptyDisk.dirs
  <1>1. EmptyDisk \in Disk /\ \A m \in Monikers : EmptyDisk.dirs[m] = None
    BY DEF EmptyDisk, Disk
  <1>2. ASSUME NEW cfg \in Configs
        PROVE  /\ [EmptyDisk EXCEPT !.yaml = ToDict(cfg)] \in Disk
               /\ [EmptyDisk EXCEPT !.yaml = ToDict(cfg)].yaml = ToDict(cfg)
               /\ [EmptyDisk EXCEPT !.yaml = ToDict(cfg)].dirs = EmptyDisk.dirs
    <2> HIDE DEF ToDict, Configs
    <2>1. ToDict(cfg) \in {ToDict(c) : c \in Configs}
      OBVIOUS
    <2> DEFINE y == ToDict(cfg)
               Ys == {ToDict(c) : c \in Configs}
    <2> HIDE DEF y, Ys
    <2>2. [EmptyDisk EXCEPT !.yaml = y] \in
            [genesis: Genesis \cup {None}, dirs: [Monikers -> Dir \cup {None}],
             yaml: Ys \cup {None}, compose: Configs \cup {None, Torn}]
      BY <1>1, <2>1 DEF Disk, y, Ys
    <2>3. /\ [EmptyDisk EXCEPT !.yaml = y].yaml = y
          /\ [EmptyDisk EXCEPT !.yaml = y].dirs = EmptyDisk.dirs
      BY <1>1 DEF Disk
    <2>4. QED
      BY <2>2, <2>3 DEF Disk, y, Ys
  <1>3. QED
    BY <1>1, <1>2

\* The directory that the layout makes for a validator.
LaidDir(key) == [EmptyDir EXCEPT !.key = key, !.identity = key]

LEMMA LaidDirIs ==
    ASSUME NEW key \in KeyFile
    PROVE  /\ LaidDir(key) \in Dir
           /\ LaidDir(key).key = key /\ LaidDir(key).identity = key
           /\ LaidDir(key).genesis = None /\ LaidDir(key).script = None
  <1>1. LaidDir(key) \in [key: {key}, identity: {key}, genesis: {None}, script: {None}]
    BY DEF LaidDir, EmptyDir
  <1> HIDE DEF LaidDir
  <1>2. QED
    BY <1>1 DEF Dir

\* The place of the validator called m.
Place(cfg, m) == CHOOSE k \in DOMAIN cfg.validators : cfg.validators[k].moniker = m

\* What a layout writes.
LEMMA LaidDisk ==
    ASSUME TypeOK, NEW cfg \in Configs, NEW docker \in BOOLEAN, NEW saved \in BOOLEAN,
           NEW old \in Disk, Lay(old, cfg, docker, saved)
    PROVE  LET names == NamesOf(ValidatorNodes(cfg))
           IN  /\ disk' \in Disk
               /\ disk'.yaml = old.yaml
               /\ disk'.genesis \in Genesis
               /\ disk'.genesis.keys = KeysOf(cfg)
               /\ disk'.genesis.addresses = GenesisAddresses(cfg, docker)
               /\ \A m \in Monikers :
                    /\ m \in names => /\ Place(cfg, m) \in DOMAIN cfg.validators
                                      /\ cfg.validators[Place(cfg, m)].moniker = m
                                      /\ KeyOf(cfg, Place(cfg, m)) \in KeyFile
                                      /\ disk'.dirs[m] = LaidDir(KeyOf(cfg, Place(cfg, m)))
                    /\ m \notin names => disk'.dirs[m] = old.dirs[m]
  <1> DEFINE names == NamesOf(ValidatorNodes(cfg))
             genesis == [keys |-> KeysOf(cfg), addresses |-> GenesisAddresses(cfg, docker)]
             dirs == [m \in Monikers |->
                        IF m \in names THEN LaidDir(KeyOf(cfg, Place(cfg, m)))
                        ELSE old.dirs[m]]
  <1>1. IsConfig(cfg)
    BY ConfigType
  <1>2. made' = made + KeyCount(cfg) /\ made' <= MaxKeys
    BY DEF Lay
  <1>3. genesis \in Genesis
    BY <1>1, <1>2, GenesisType
  <1>4. ASSUME NEW m \in names
        PROVE  /\ Place(cfg, m) \in DOMAIN cfg.validators
               /\ cfg.validators[Place(cfg, m)].moniker = m
               /\ KeyOf(cfg, Place(cfg, m)) \in KeyFile
    <2>1. \E k \in DOMAIN cfg.validators : cfg.validators[k].moniker = m
      <3>1. PICK i \in DOMAIN ValidatorNodes(cfg) : m = ValidatorNodes(cfg)[i].moniker
        BY DEF NamesOf
      <3>2. DOMAIN ValidatorNodes(cfg) = DOMAIN cfg.validators
        BY DEF ValidatorNodes
      <3>3. ValidatorNodes(cfg)[i].moniker = cfg.validators[i].moniker
        BY <3>1, <3>2 DEF ValidatorNodes, Node
      <3>4. QED
        BY <3>1, <3>2, <3>3
    <2>2. /\ Place(cfg, m) \in DOMAIN cfg.validators
          /\ cfg.validators[Place(cfg, m)].moniker = m
      BY <2>1 DEF Place
    <2>3. QED
      BY <1>1, <1>2, <2>2, KeyOfType
  <1>5. dirs \in [Monikers -> Dir \cup {None}]
    <2>1. \A m \in Monikers : old.dirs[m] \in Dir \cup {None}
      BY DEF Disk
    <2> HIDE DEF names, LaidDir
    <2>2. \A m \in names : LaidDir(KeyOf(cfg, Place(cfg, m))) \in Dir
      BY <1>4, LaidDirIs
    <2>3. QED
      BY <2>1, <2>2
  <1>6. disk' = [old EXCEPT !.genesis = genesis, !.dirs = dirs]
    BY DEF Lay, LayOver, LaidDir, KeysOf, Place
  <1>7. ASSUME NEW m \in Monikers
        PROVE  /\ m \in names => dirs[m] = LaidDir(KeyOf(cfg, Place(cfg, m)))
               /\ m \notin names => dirs[m] = old.dirs[m]
    <2> HIDE DEF names, LaidDir
    <2>1. QED
      OBVIOUS
  <1>8. genesis.keys = KeysOf(cfg) /\ genesis.addresses = GenesisAddresses(cfg, docker)
    OBVIOUS
  <1> HIDE DEF genesis, dirs, names
  <1>9. /\ disk' \in Disk /\ disk'.dirs = dirs /\ disk'.genesis = genesis
         /\ disk'.yaml = old.yaml
    BY <1>3, <1>5, <1>6 DEF Disk
  <1>10. QED
    BY <1>3, <1>4, <1>7, <1>8, <1>9 DEF  names

\* A layout renews the keys of its validators and clears their genesis files.
LEMMA LayIs ==
    ASSUME TypeOK, NEW cfg \in Configs, NEW docker \in BOOLEAN, NEW saved \in BOOLEAN,
           NEW old \in Disk, Lay(old, cfg, docker, saved),
           \A m \in Monikers : old.dirs[m] # None =>
             old.dirs[m].identity \in {None, Torn, old.dirs[m].key}
    PROVE  /\ disk' \in Disk /\ made' \in 0 .. MaxKeys
           /\ laid' \in Layouts
           /\ laid'.cfg = cfg /\ laid'.saved = saved
           /\ disk'.yaml = old.yaml
           /\ KeysIdentify' /\ NoGenesis'
  <1> DEFINE names == NamesOf(ValidatorNodes(cfg))
  <1>1. made' \in 0 .. MaxKeys
    <2>1. made' = made + KeyCount(cfg) /\ made' <= MaxKeys
      BY DEF Lay
    <2>2. KeyCount(cfg) \in Nat
      BY ConfigType, SeqFacts DEF KeyCount, IsConfig, ValidatorLists
    <2>3. QED
      BY <2>1, <2>2, Bounds DEF TypeOK
  <1>2. /\ disk' \in Disk /\ disk'.yaml = old.yaml /\ disk'.genesis \in Genesis
        /\ \A m \in Monikers :
             /\ m \in names => /\ KeyOf(cfg, Place(cfg, m)) \in KeyFile
                               /\ disk'.dirs[m] = LaidDir(KeyOf(cfg, Place(cfg, m)))
             /\ m \notin names => disk'.dirs[m] = old.dirs[m]
    BY LaidDisk
  <1> HIDE DEF names
  <1>3. KeysIdentify'
    <2>1. ASSUME NEW m \in Monikers, disk'.dirs[m] # None
          PROVE  disk'.dirs[m].identity \in {None, Torn, disk'.dirs[m].key}
      <3>1. CASE m \in names
        BY <1>2, <3>1, LaidDirIs
      <3>2. CASE m \notin names
        BY <1>2, <2>1, <3>2
      <3>3. QED
        BY <3>1, <3>2
    <2>2. QED
      BY <2>1 DEF KeysIdentify
  <1>4. NoGenesis'
    BY <1>2, NoneIsNothing DEF NoGenesis
  <1>5. laid' \in Layouts /\ laid'.cfg = cfg /\ laid'.saved = saved
    <2>1. laid' = [cfg |-> cfg, docker |-> docker, saved |-> saved]
      BY DEF Lay
    <2>2. QED
      BY <2>1 DEF Layouts
  <1>6. QED
    BY <1>1, <1>2, <1>3, <1>4, <1>5

-----------------------------------------------------------------------------
(* Every step keeps the invariant: the calls *)

LEMMA TypeParts ==
    ASSUME disk' \in Disk, job' \in Jobs, Placed(job'), made' \in 0 .. MaxKeys,
           laid' \in Layouts \cup {None}
    PROVE  TypeOK'
  <1>1. /\ job' \in [cfg: Configs \cup {None}, part: Nat, pc: Nat,
                     calls: 0 .. MaxCalls, failed: SUBSET Monikers, result: Results]
        /\ job'.result = "ok" => job'.cfg # None
        /\ job'.part > 0 => /\ job'.cfg # None
                            /\ job'.part \in DOMAIN Program(job'.cfg)
                            /\ job'.pc \in DOMAIN Program(job'.cfg)[job'.part]
    BY DEF Jobs, Placed
  <1>2. QED
    BY <1>1 DEF TypeOK

\* ScriptsFresh says nothing of a generator that has not written a script.
LEMMA NothingPassed ==
    ASSUME \A i \in DOMAIN Program(job'.cfg) : \A k \in DOMAIN Program(job'.cfg)[i] :
             ~PassedBy(job', i, k)
    PROVE  ScriptsFresh'
  BY DEF ScriptsFresh

LEMMA LoadedIn ==
    ASSUME NEW data \in Dicts
    PROVE  /\ FromDict(data) \in Configs
           /\ \A backend \in Overrides : Override(FromDict(data), backend) \in Configs
  BY DEF Configs

LEMMA CallInitInv ==
    ASSUME IInv, NEW data \in Dicts, NEW backend \in Overrides, NEW docker \in BOOLEAN,
           CallInit(data, backend, docker)
    PROVE  IInv'
  <1> DEFINE cfg == Override(FromDict(data), backend)
             old == [EmptyDisk EXCEPT !.yaml = ToDict(cfg)]
  <1>1. TypeOK /\ cfg \in Configs
    BY LoadedIn DEF IInv
  <1>2. /\ Call(cfg) /\ Lay(old, cfg, docker, TRUE)
        /\ Start(cfg, IF docker THEN 1 ELSE 0, IF docker THEN "none" ELSE "kept")
    BY DEF CallInit
  <1> HIDE DEF cfg
  <1>3. old \in Disk /\ old.yaml = ToDict(cfg) /\ \A m \in Monikers : old.dirs[m] = None
    BY <1>1, EmptyDiskType
  <1> HIDE DEF old
  <1>4. /\ disk' \in Disk /\ made' \in 0 .. MaxKeys
        /\ laid' \in Layouts
        /\ laid'.cfg = cfg /\ disk'.yaml = ToDict(cfg)
        /\ KeysIdentify' /\ NoGenesis'
    <2> DEFINE saved == TRUE
    <2>1. saved \in BOOLEAN /\ Lay(old, cfg, docker, saved)
      BY <1>2
    <2> HIDE DEF saved
    <2>2. QED
      BY <1>1, <1>3, <2>1, LayIs
  <1>5. /\ job' \in Jobs /\ Placed(job') /\ job'.cfg = cfg
        /\ \A i \in DOMAIN Program(cfg) : \A k \in DOMAIN Program(cfg)[i] :
             ~PassedBy(job', i, k)
    BY <1>1, <1>2, StartIs
  <1>6. TypeOK'
    BY <1>4, <1>5, TypeParts
  <1>7. ScriptsFresh'
    BY <1>5, NothingPassed
  <1>8. Saved'
    BY <1>4 DEF Saved
  <1>9. QED
    BY <1>4, <1>6, <1>7, <1>8 DEF IInv

LEMMA CallLocalnetInv ==
    ASSUME IInv, NEW data \in Dicts, NEW docker \in BOOLEAN, CallLocalnet(data, docker)
    PROVE  IInv'
  <1> DEFINE cfg == FromDict(data)
  <1>1. TypeOK /\ cfg \in Configs
    BY LoadedIn DEF IInv
  <1>2. PICK old \in {disk, EmptyDisk} : Lay(old, cfg, docker, FALSE)
    BY DEF CallLocalnet
  <1>3. Call(cfg) /\ Start(cfg, 0, "kept")
    BY DEF CallLocalnet
  <1> HIDE DEF cfg
  <1>4. old \in Disk /\ \A m \in Monikers : old.dirs[m] # None =>
                          old.dirs[m].identity \in {None, Torn, old.dirs[m].key}
    <2>1. CASE old = disk
      BY <2>1 DEF IInv, TypeOK, KeysIdentify
    <2>2. CASE old = EmptyDisk
      BY <2>2, EmptyDiskType
    <2>3. QED
      BY <2>1, <2>2
  <1>5. /\ disk' \in Disk /\ made' \in 0 .. MaxKeys
        /\ laid' \in Layouts
        /\ laid'.saved = FALSE
        /\ KeysIdentify' /\ NoGenesis'
    <2> DEFINE saved == FALSE
    <2>1. saved \in BOOLEAN /\ Lay(old, cfg, docker, saved)
      BY <1>2
    <2> HIDE DEF saved
    <2>2. laid'.saved = saved
      BY <1>1, <1>4, <2>1, LayIs
    <2>3. /\ disk' \in Disk /\ made' \in 0 .. MaxKeys
          /\ laid' \in Layouts
          /\ KeysIdentify' /\ NoGenesis'
      BY <1>1, <1>4, <2>1, LayIs
    <2>4. QED
      BY <2>2, <2>3 DEF saved
  <1>6. /\ job' \in Jobs /\ Placed(job') /\ job'.cfg = cfg
        /\ \A i \in DOMAIN Program(cfg) : \A k \in DOMAIN Program(cfg)[i] :
             ~PassedBy(job', i, k)
    BY <1>1, <1>3, StartIs
  <1>7. TypeOK'
    BY <1>5, <1>6, TypeParts
  <1>8. ScriptsFresh'
    BY <1>6, NothingPassed
  <1>9. Saved'
    BY <1>5 DEF Saved
  <1>10. QED
    BY <1>5, <1>7, <1>8, <1>9 DEF IInv

\* The calls that leave the directory as it is.
LEMMA StartsInv ==
    ASSUME IInv, NEW cfg \in Configs, Call(cfg), NEW at \in {0, 1},
           NEW result \in {"none", "kept", "raised"}, Start(cfg, at, result),
           UNCHANGED <<disk, made, laid>>
    PROVE  IInv'
  <1>1. /\ job' \in Jobs /\ Placed(job') /\ job'.cfg = cfg
        /\ \A i \in DOMAIN Program(cfg) : \A k \in DOMAIN Program(cfg)[i] :
             ~PassedBy(job', i, k)
    BY StartIs DEF IInv
  <1>2. TypeOK'
    BY <1>1, TypeParts DEF IInv, TypeOK
  <1>3. ScriptsFresh'
    BY <1>1, NothingPassed
  <1>4. KeysIdentify' /\ NoGenesis' /\ Saved'
    BY DEF IInv, KeysIdentify, NoGenesis, Saved
  <1>5. QED
    BY <1>2, <1>3, <1>4 DEF IInv

LEMMA CallComposeInv ==
    ASSUME IInv, NEW data \in Dicts, NEW force \in BOOLEAN, CallCompose(data, force)
    PROVE  IInv'
  BY StartsInv, LoadedIn DEF CallCompose

LEMMA ComposeKeptInv ==
    ASSUME IInv, NEW data \in Dicts, ComposeKept(data)
    PROVE  IInv'
  BY StartsInv, LoadedIn DEF ComposeKept

LEMMA ComposeRefusedInv ==
    ASSUME IInv, NEW data \in Dicts, ComposeRefused(data)
    PROVE  IInv'
  BY StartsInv, LoadedIn DEF ComposeRefused

-----------------------------------------------------------------------------
(* Every step keeps the invariant: the generator *)

LEMMA ScriptOps ==
    ASSUME NEW cfg, IsConfig(cfg), NEW i \in DOMAIN Program(cfg),
           NEW k \in DOMAIN Program(cfg)[i], Program(cfg)[i][k].do = "script"
    PROVE  /\ i \in DOMAIN Nodes(cfg)
           /\ Program(cfg)[i][k].node = Nodes(cfg)[i] /\ Nodes(cfg)[i] \in NodeSet
  <1> DEFINE w == Program(cfg)[i]
  <1>1. CASE i \in DOMAIN Nodes(cfg) /\ Nodes(cfg)[i] \in NodeSet
             /\ Scripted(w, Nodes(cfg)[i], Needed(cfg, Nodes(cfg)[i]), ServicesOf(cfg))
    <2> HIDE DEF w
    <2>1. PICK s \in DOMAIN w : /\ w[s] = Op("script", Nodes(cfg)[i])
                                /\ \A j \in DOMAIN w : w[j].do = "script" => j = s
      BY <1>1 DEF Scripted
    <2>2. w[k] = Op("script", Nodes(cfg)[i])
      BY <2>1 DEF w
    <2>3. w[k].node = Nodes(cfg)[i]
      BY <2>2 DEF Op
    <2>4. QED
      BY <1>1, <2>3 DEF w
  <1>2. CASE w = <<Op("compose", None)>>
    <2> DEFINE x == Op("compose", None)
    <2>1. x.do = "compose"
      BY DEF Op
    <2> HIDE DEF x
    <2>2. \A j \in DOMAIN <<x>> : <<x>>[j] = x
      OBVIOUS
    <2>3. w = <<x>>
      BY <1>2 DEF x
    <2> HIDE DEF w
    <2>4. w[k] = x /\ w[k].do = "script"
      BY <2>2, <2>3 DEF w
    <2>5. QED
      BY <2>1, <2>4
  <1>3. QED
    BY <1>1, <1>2, PartIs

\* Directories appear and keys are added; scripts stay as they are.
Grows(d, e) ==
    /\ e.genesis = d.genesis
    /\ \A m \in Monikers :
         d.dirs[m] # None =>
           /\ e.dirs[m] # None
           /\ e.dirs[m].script = d.dirs[m].script
           /\ e.dirs[m].genesis = d.dirs[m].genesis
           /\ d.dirs[m].key # None => e.dirs[m].key = d.dirs[m].key

\* A script stays fresh while keys and genesis files are only added.
LEMMA GrowsFresh ==
    ASSUME Grows(disk, disk'), NEW m \in Monikers, Fresh(disk, m)
    PROVE  Fresh(disk', m)
  <1>1. /\ disk.dirs[m] # None /\ disk'.dirs[m] # None
        /\ disk'.dirs[m].script = disk.dirs[m].script
        /\ disk'.dirs[m].genesis = disk.dirs[m].genesis
        /\ disk'.genesis = disk.genesis
    BY DEF Fresh, Grows
  <1>2. disk.dirs[m].script \in Scripts
    BY DEF Fresh
  <1>3. ASSUME NEW p \in disk.dirs[m].script.peers
        PROVE  disk'.dirs[p.at] # None /\ p.id \in {disk'.dirs[p.at].key, Torn}
    <2>1. p.id # None /\ p.at \in Monikers
      BY <1>2 DEF Scripts
    <2>2. disk.dirs[p.at] # None /\ p.id \in {disk.dirs[p.at].key, Torn}
      BY DEF Fresh
    <2>3. QED
      BY <2>1, <2>2 DEF Grows
  <1>4. QED
    BY <1>1, <1>2, <1>3 DEF Fresh

\* So ScriptsFresh is kept by a step that adds files.
LEMMA PassedFresh ==
    ASSUME IInv, job.part > 0, job'.cfg = job.cfg,
           \A i \in DOMAIN Program(job.cfg) : \A k \in DOMAIN Program(job.cfg)[i] :
             PassedBy(job', i, k) => PassedBy(job, i, k) \/ (i = job.part /\ k = job.pc),
           \A m \in Monikers : Fresh(disk, m) => Fresh(disk', m),
           Current.do = "script" => Fresh(disk', Current.node.moniker)
    PROVE  ScriptsFresh'
  <1>1. IsConfig(job.cfg)
    BY CurrentIs DEF IInv
  <1>2. ASSUME job.cfg # None,
               NEW i \in DOMAIN Program(job.cfg),
               NEW k \in DOMAIN Program(job.cfg)[i],
               Program(job.cfg)[i][k].do = "script", PassedBy(job', i, k)
        PROVE  Fresh(disk', Program(job.cfg)[i][k].node.moniker)
    <2>1. Program(job.cfg)[i][k].node.moniker \in Monikers
      BY <1>1, <1>2, ScriptOps DEF NodeSet
    <2>2. CASE PassedBy(job, i, k)
      BY <1>2, <2>1, <2>2 DEF IInv, ScriptsFresh
    <2>3. CASE i = job.part /\ k = job.pc
      BY <1>2, <2>3 DEF Current
    <2>4. QED
      BY <1>2, <2>2, <2>3
  <1>3. QED
    BY <1>2 DEF ScriptsFresh

\* A directory is written whose identity is that of its key, and whose genesis,
\* if it has one, is not the only one.
LEMMA WriteInv ==
    ASSUME IInv, NEW m \in Monikers, NEW dir \in Dir, Write(m, dir), laid' = laid,
           dir.identity \in {None, Torn, dir.key},
           disk.genesis = None => dir.genesis = None
    PROVE  disk' \in Disk /\ KeysIdentify' /\ NoGenesis' /\ Saved'
  <1>1. /\ disk' \in Disk
        /\ disk'.genesis = disk.genesis /\ disk'.yaml = disk.yaml
        /\ disk'.dirs[m] = dir /\ dir # None
        /\ \A n \in Monikers \ {m} : disk'.dirs[n] = disk.dirs[n]
    BY WriteIs DEF IInv
  <1>2. KeysIdentify'
    BY <1>1 DEF IInv, KeysIdentify
  <1>3. NoGenesis'
    BY <1>1 DEF IInv, NoGenesis
  <1>4. Saved'
    BY <1>1 DEF IInv, Saved
  <1>5. QED
    BY <1>1, <1>2, <1>3, <1>4

\* The directory an operation works on.
LEMMA DirOfInv ==
    ASSUME IInv, NEW m \in Monikers
    PROVE  /\ DirOf(m) \in Dir
           /\ DirOf(m).identity \in {None, Torn, DirOf(m).key}
           /\ disk.genesis = None => DirOf(m).genesis = None
           /\ disk.dirs[m] # None => DirOf(m) = disk.dirs[m]
           /\ disk.dirs[m] = None => DirOf(m) = EmptyDir
  <1>1. /\ DirOf(m) \in Dir
        /\ disk.dirs[m] # None => DirOf(m) = disk.dirs[m]
        /\ disk.dirs[m] = None => DirOf(m) = EmptyDir
    BY DirOfType DEF IInv
  <1>2. EmptyDir.identity = None /\ EmptyDir.genesis = None
    BY DEF EmptyDir
  <1>3. QED
    BY <1>1, <1>2 DEF IInv, KeysIdentify, NoGenesis

LEMMA AtService ==
    ASSUME IInv, job.part > 0, Current.do \in {"key", "identity"}
    PROVE  Current.node.moniker \in Monikers
  <1>1. Current.node \in NodeSet
    BY CurrentIs DEF IInv
  <1>2. QED
    BY <1>1 DEF NodeSet

LEMMA WriteKeyInv ==
    ASSUME IInv, WriteKey
    PROVE  IInv'
  <1> DEFINE m == Current.node.moniker
             dir == [DirOf(m) EXCEPT !.key = made + 1]
  <1>1. TypeOK /\ job.part > 0 /\ Current.do = "key" /\ m \in Monikers /\ laid' = laid
        /\ Done(job.failed)
    BY AtService DEF IInv, WriteKey, At
  <1>2. /\ job' \in Jobs /\ Placed(job') /\ job'.cfg = job.cfg
        /\ \A i \in DOMAIN Program(job.cfg) : \A k \in DOMAIN Program(job.cfg)[i] :
             PassedBy(job', i, k) => PassedBy(job, i, k) \/ (i = job.part /\ k = job.pc)
    <2>1. job.failed \in SUBSET Monikers
      BY <1>1 DEF TypeOK
    <2>2. QED
      BY <1>1, <2>1, DoneIs
  <1>3. CASE DirOf(m).key = None
    <2>1. made < MaxKeys /\ made' = made + 1 /\ Write(m, dir)
      BY <1>3 DEF WriteKey
    <2> HIDE DEF m
    <2>2. /\ DirOf(m) \in Dir /\ DirOf(m).identity \in {None, Torn}
          /\ disk.genesis = None => DirOf(m).genesis = None
          /\ disk.dirs[m] # None => DirOf(m) = disk.dirs[m]
      BY <1>1, <1>3, DirOfInv
    <2>3. made + 1 \in 1 .. MaxKeys /\ made' \in 0 .. MaxKeys
      BY <1>1, <2>1, Bounds DEF TypeOK
    <2>4. /\ dir \in Dir /\ dir.key = made + 1 /\ dir.identity = DirOf(m).identity
          /\ dir.genesis = DirOf(m).genesis /\ dir.script = DirOf(m).script
      BY <2>2, <2>3 DEF Dir, KeyFile
    <2> HIDE DEF dir
    <2>5. disk' \in Disk /\ KeysIdentify' /\ NoGenesis' /\ Saved'
      BY <1>1, <2>1, <2>2, <2>4, WriteInv
    <2>6. Grows(disk, disk')
      <3>1. /\ disk'.genesis = disk.genesis
            /\ disk'.dirs[m] = dir /\ dir # None
            /\ \A n \in Monikers \ {m} : disk'.dirs[n] = disk.dirs[n]
        BY <1>1, <2>1, <2>4, WriteIs
      <3>2. QED
        BY <1>1, <1>3, <2>2, <2>4, <3>1 DEF Grows
    <2>7. ScriptsFresh'
      BY <1>1, <1>2, <2>6, GrowsFresh, PassedFresh
    <2>8. laid' \in Layouts \cup {None}
      BY <1>1 DEF TypeOK
    <2>9. TypeOK'
      BY <1>2, <2>3, <2>5, <2>8, TypeParts
    <2>10. QED
      BY <2>5, <2>7, <2>9 DEF IInv
  <1>4. CASE DirOf(m).key # None
    <2>1. disk' = disk /\ made' = made
      BY <1>4 DEF WriteKey
    <2>2. ScriptsFresh'
      <3>1. \A n \in Monikers : Fresh(disk, n) => Fresh(disk', n)
        BY <2>1
      <3>2. QED
        BY <1>1, <1>2, <3>1, PassedFresh
    <2>3. TypeOK'
      BY <1>1, <1>2, <2>1, TypeParts DEF TypeOK
    <2>4. KeysIdentify' /\ NoGenesis' /\ Saved'
      BY <1>1, <2>1 DEF IInv, KeysIdentify, NoGenesis, Saved
    <2>5. QED
      BY <2>2, <2>3, <2>4 DEF IInv
  <1>5. QED
    BY <1>3, <1>4

LEMMA WriteIdentityInv ==
    ASSUME IInv, WriteIdentity
    PROVE  IInv'
  <1> DEFINE m == Current.node.moniker
             key == IF DirOf(m).identity = None THEN DirOf(m).key ELSE DirOf(m).identity
             dir == [DirOf(m) EXCEPT !.identity = key]
  <1>1. TypeOK /\ job.part > 0 /\ Current.do = "identity" /\ m \in Monikers /\ laid' = laid
        /\ made' = made /\ Done(job.failed)
    BY AtService DEF IInv, WriteIdentity, At
  <1>2. /\ job' \in Jobs /\ Placed(job') /\ job'.cfg = job.cfg
        /\ \A i \in DOMAIN Program(job.cfg) : \A k \in DOMAIN Program(job.cfg)[i] :
             PassedBy(job', i, k) => PassedBy(job, i, k) \/ (i = job.part /\ k = job.pc)
    <2>1. job.failed \in SUBSET Monikers
      BY <1>1 DEF TypeOK
    <2>2. QED
      BY <1>1, <2>1, DoneIs
  <1>3. Write(m, dir)
    BY DEF WriteIdentity
  <1> HIDE DEF m
  <1>4. /\ DirOf(m) \in Dir /\ DirOf(m).identity \in {None, Torn, DirOf(m).key}
        /\ disk.genesis = None => DirOf(m).genesis = None
        /\ disk.dirs[m] # None => DirOf(m) = disk.dirs[m]
    BY <1>1, DirOfInv
  <1>5. key \in KeyFile /\ key \in {Torn, DirOf(m).key}
    BY <1>4 DEF Dir
  <1> HIDE DEF key
  <1>6. /\ dir \in Dir /\ dir.key = DirOf(m).key /\ dir.identity = key
        /\ dir.genesis = DirOf(m).genesis /\ dir.script = DirOf(m).script
    BY <1>4, <1>5 DEF Dir
  <1> HIDE DEF dir
  <1>7. disk' \in Disk /\ KeysIdentify' /\ NoGenesis' /\ Saved'
    BY <1>1, <1>3, <1>4, <1>5, <1>6, WriteInv
  <1>8. Grows(disk, disk')
    <2>1. /\ disk'.genesis = disk.genesis
          /\ disk'.dirs[m] = dir /\ dir # None
          /\ \A n \in Monikers \ {m} : disk'.dirs[n] = disk.dirs[n]
      BY <1>1, <1>3, <1>6, WriteIs
    <2>2. QED
      BY <1>1, <1>4, <1>6, <2>1 DEF Grows
  <1>9. ScriptsFresh'
    BY <1>1, <1>2, <1>8, GrowsFresh, PassedFresh
  <1>10. TypeOK'
    BY <1>1, <1>2, <1>7, TypeParts DEF TypeOK
  <1>11. QED
    BY <1>7, <1>9, <1>10 DEF IInv

\* A step that writes nothing and is past an operation, which is no script.
LEMMA OnwardInv ==
    ASSUME IInv, job.part > 0, Current.do # "script", NEW failed \in SUBSET Monikers,
           Done(failed), UNCHANGED <<disk, made, laid>>
    PROVE  IInv'
  <1>1. /\ job' \in Jobs /\ Placed(job') /\ job'.cfg = job.cfg
        /\ \A i \in DOMAIN Program(job.cfg) : \A k \in DOMAIN Program(job.cfg)[i] :
             PassedBy(job', i, k) => PassedBy(job, i, k) \/ (i = job.part /\ k = job.pc)
    BY DoneIs DEF IInv
  <1>2. ScriptsFresh'
    <2>1. \A n \in Monikers : Fresh(disk, n) => Fresh(disk', n)
      OBVIOUS
    <2>2. QED
      BY <1>1, <2>1, PassedFresh
  <1>3. TypeOK'
    BY <1>1, TypeParts DEF IInv, TypeOK
  <1>4. KeysIdentify' /\ NoGenesis' /\ Saved'
    BY DEF IInv, KeysIdentify, NoGenesis, Saved
  <1>5. QED
    BY <1>2, <1>3, <1>4 DEF IInv

LEMMA IdentityFailsInv ==
    ASSUME IInv, IdentityFails
    PROVE  IInv'
  <1>1. /\ job.part > 0 /\ Current.do = "identity"
        /\ Done(job.failed \cup {Current.node.moniker})
        /\ UNCHANGED <<disk, made, laid>>
    BY DEF IdentityFails, At
  <1>2. job.failed \cup {Current.node.moniker} \in SUBSET Monikers
    BY <1>1, AtService DEF IInv, TypeOK
  <1>3. QED
    BY <1>1, <1>2, OnwardInv

\* A generator that stops leaves a disk of which no script is promised.
LEMMA StoppedInv ==
    ASSUME IInv, NEW result \in {"raised", "killed"}, Stop(result),
           UNCHANGED <<made, laid>>,
           disk' \in Disk /\ KeysIdentify' /\ NoGenesis' /\ Saved'
    PROVE  IInv'
  <1>1. /\ job' \in Jobs /\ Placed(job')
        /\ \A i, k : ~PassedBy(job', i, k)
    BY StopIs DEF IInv
  <1>2. ScriptsFresh'
    BY <1>1, NothingPassed
  <1>3. TypeOK'
    BY <1>1, TypeParts DEF IInv, TypeOK
  <1>4. QED
    BY <1>2, <1>3 DEF IInv

LEMMA SameDisk ==
    ASSUME IInv, UNCHANGED <<disk, laid>>
    PROVE  disk' \in Disk /\ KeysIdentify' /\ NoGenesis' /\ Saved'
  BY DEF IInv, TypeOK, KeysIdentify, NoGenesis, Saved

LEMMA ScriptRaisesInv ==
    ASSUME IInv, ScriptRaises
    PROVE  IInv'
  BY SameDisk, StoppedInv DEF ScriptRaises

LEMMA TakeFollowNodeInv ==
    ASSUME IInv, TakeFollowNode
    PROVE  IInv'
  <1>1. job.part > 0 /\ Current.do = "depend" /\ UNCHANGED <<disk, made, laid>>
    BY DEF TakeFollowNode, At
  <1>2. Stop("raised") \/ Done(job.failed)
    BY DEF TakeFollowNode
  <1>3. job.failed \in SUBSET Monikers
    BY DEF IInv, TypeOK
  <1>4. CASE Stop("raised")
    BY <1>1, <1>4, SameDisk, StoppedInv
  <1>5. CASE Done(job.failed)
    BY <1>1, <1>3, <1>5, OnwardInv
  <1>6. QED
    BY <1>2, <1>4, <1>5

LEMMA WriteScriptInv ==
    ASSUME IInv, WriteScript
    PROVE  IInv'
  <1> DEFINE node == Current.node
             m == node.moniker
             cfg == job.cfg
             script == Script(cfg, node)
             genesis == IF node.kind = "validator" \/ disk.genesis = None
                        THEN DirOf(m).genesis ELSE disk.genesis
             dir == [DirOf(m) EXCEPT !.script = script, !.genesis = genesis]
  <1>1. TypeOK /\ KeysIdentify /\ job.part > 0 /\ Current.do = "script"
        /\ laid' = laid /\ made' = made /\ Done(job.failed)
    BY DEF IInv, WriteScript, At
  <1>2. /\ job' \in Jobs /\ Placed(job') /\ job'.cfg = job.cfg
        /\ \A i \in DOMAIN Program(job.cfg) : \A k \in DOMAIN Program(job.cfg)[i] :
             PassedBy(job', i, k) => PassedBy(job, i, k) \/ (i = job.part /\ k = job.pc)
    <2>1. job.failed \in SUBSET Monikers
      BY <1>1 DEF TypeOK
    <2>2. QED
      BY <1>1, <2>1, DoneIs
  <1>3. IsConfig(cfg) /\ node \in NodeSet /\ m \in Monikers
    BY <1>1, CurrentIs DEF NodeSet
  <1>4. Write(m, dir)
    <2>1. Write(m, [DirOf(m) EXCEPT !.script = script,
                                    !.genesis = IF \/ node.kind = "validator"
                                                   \/ disk.genesis = None
                                                THEN @ ELSE disk.genesis])
      BY DEF WriteScript
    <2>2. QED
      BY <2>1
  <1>5. /\ script \in Scripts /\ script.kind = node.kind
        /\ script.peers = PeersOf(cfg, node)
    <2>1. script \in Scripts
      BY <1>1, <1>3, ScriptType
    <2>2. QED
      BY <2>1 DEF Script
  <1>6. \A p \in PeersOf(cfg, node) :
          /\ p.at \in Monikers
          /\ disk.dirs[p.at] # None /\ p.id \in {disk.dirs[p.at].key, Torn}
    BY <1>1, <1>3, PeersOfType
  <1> HIDE DEF script, node, m, cfg
  <1>7. /\ DirOf(m) \in Dir /\ DirOf(m).identity \in {None, Torn, DirOf(m).key}
        /\ disk.genesis = None => DirOf(m).genesis = None
        /\ disk.dirs[m] # None => DirOf(m) = disk.dirs[m]
    BY <1>3, DirOfInv
  <1>8. /\ genesis \in Genesis \cup {None}
        /\ disk.genesis = None => genesis = None
        /\ node.kind # "validator" => genesis = disk.genesis
    BY <1>1, <1>7 DEF Dir, TypeOK, Disk
  <1> HIDE DEF genesis
  <1>9. /\ dir \in Dir /\ dir.key = DirOf(m).key /\ dir.identity = DirOf(m).identity
        /\ dir.genesis = genesis /\ dir.script = script
    BY <1>5, <1>7, <1>8 DEF Dir
  <1> HIDE DEF dir
  <1>10. disk' \in Disk /\ KeysIdentify' /\ NoGenesis' /\ Saved'
    BY <1>1, <1>3, <1>4, <1>7, <1>8, <1>9, WriteInv
  <1>11. /\ disk'.genesis = disk.genesis
         /\ disk'.dirs[m] = dir /\ dir # None
         /\ \A n \in Monikers \ {m} : disk'.dirs[n] = disk.dirs[n]
    BY <1>1, <1>3, <1>4, <1>9, WriteIs
  <1>12. \A n \in Monikers : disk.dirs[n] # None =>
           disk'.dirs[n] # None /\ disk'.dirs[n].key = disk.dirs[n].key
    BY <1>7, <1>9, <1>11
  <1>13. Fresh(disk', m)
    <2>1. \A p \in script.peers :
            disk'.dirs[p.at] # None /\ p.id \in {disk'.dirs[p.at].key, Torn}
      BY <1>5, <1>6, <1>12
    <2>2. script.kind # "validator" => genesis = disk'.genesis
      BY <1>5, <1>8, <1>11
    <2>3. QED
      BY <1>5, <1>9, <1>11, <2>1, <2>2 DEF Fresh
  <1>14. ASSUME NEW n \in Monikers, Fresh(disk, n)
         PROVE  Fresh(disk', n)
    <2>1. CASE n = m
      BY <1>13, <2>1
    <2>2. CASE n # m
      <3>1. disk'.dirs[n] = disk.dirs[n]
        BY <1>11, <2>2
      <3>2. \A p \in disk.dirs[n].script.peers :
              /\ disk.dirs[p.at] # None /\ p.id \in {disk.dirs[p.at].key, Torn}
              /\ p.at \in Monikers
        BY <1>14 DEF Fresh, Scripts
      <3>3. \A p \in disk.dirs[n].script.peers :
              disk'.dirs[p.at] # None /\ p.id \in {disk'.dirs[p.at].key, Torn}
        BY <1>12, <3>2
      <3>4. QED
        BY <1>11, <1>14, <3>1, <3>3 DEF Fresh
    <2>3. QED
      BY <2>1, <2>2
  <1>15. ScriptsFresh'
    BY <1>1, <1>2, <1>13, <1>14, PassedFresh DEF m, node
  <1>16. TypeOK'
    BY <1>1, <1>2, <1>10, TypeParts DEF TypeOK
  <1>17. QED
    BY <1>10, <1>15, <1>16 DEF IInv

\* Writing docker-compose.yaml touches no directory.
LEMMA ComposeWritten ==
    ASSUME IInv, NEW what \in Configs \cup {Torn}, laid' = laid,
           disk' = [disk EXCEPT !.compose = what]
    PROVE  /\ disk' \in Disk /\ KeysIdentify' /\ NoGenesis' /\ Saved'
           /\ disk'.dirs = disk.dirs /\ disk'.genesis = disk.genesis
  <1>1. disk \in Disk
    BY DEF IInv, TypeOK
  <1>2. /\ disk' \in Disk /\ disk'.dirs = disk.dirs /\ disk'.genesis = disk.genesis
        /\ disk'.yaml = disk.yaml
    BY <1>1 DEF Disk
  <1>3. QED
    BY <1>2 DEF IInv, KeysIdentify, NoGenesis, Saved

LEMMA WriteComposeInv ==
    ASSUME IInv, WriteCompose
    PROVE  IInv'
  <1>1. TypeOK /\ job.part > 0 /\ Current.do = "compose" /\ Done(job.failed)
        /\ disk' = [disk EXCEPT !.compose = job.cfg]
        /\ laid' = laid /\ made' = made
    BY DEF IInv, WriteCompose, At
  <1>2. job.cfg \in Configs
    BY <1>1, CurrentIs
  <1>3. /\ disk' \in Disk /\ KeysIdentify' /\ NoGenesis' /\ Saved'
        /\ disk'.dirs = disk.dirs /\ disk'.genesis = disk.genesis
    BY <1>1, <1>2, ComposeWritten
  <1>4. /\ job' \in Jobs /\ Placed(job') /\ job'.cfg = job.cfg
        /\ \A i \in DOMAIN Program(job.cfg) : \A k \in DOMAIN Program(job.cfg)[i] :
             PassedBy(job', i, k) => PassedBy(job, i, k) \/ (i = job.part /\ k = job.pc)
    <2>1. job.failed \in SUBSET Monikers
      BY <1>1 DEF TypeOK
    <2>2. QED
      BY <1>1, <2>1, DoneIs
  <1>5. \A n \in Monikers : Fresh(disk, n) => Fresh(disk', n)
    BY <1>3 DEF Fresh
  <1>6. ScriptsFresh'
    BY <1>1, <1>4, <1>5, PassedFresh
  <1>7. TypeOK'
    BY <1>1, <1>3, <1>4, TypeParts DEF TypeOK
  <1>8. QED
    BY <1>3, <1>6, <1>7 DEF IInv

LEMMA KillInv ==
    ASSUME IInv, Kill
    PROVE  IInv'
  <1>1. /\ job.part > 0 /\ Stop("killed") /\ made' = made /\ laid' = laid
        /\ TypeOK
    BY DEF Kill, IInv
  <1> SUFFICES disk' \in Disk /\ KeysIdentify' /\ NoGenesis' /\ Saved'
    BY <1>1, StoppedInv
  <1> DEFINE m == Current.node.moniker
  <1>2. CASE UNCHANGED disk
    BY <1>1, <1>2, SameDisk
  <1>3. ASSUME NEW dir \in Dir, m \in Monikers, Write(m, dir),
               dir.identity \in {None, Torn, dir.key},
               disk.genesis = None => dir.genesis = None
        PROVE  disk' \in Disk /\ KeysIdentify' /\ NoGenesis' /\ Saved'
    BY <1>1, <1>3, WriteInv
  <1>4. Current.do \in {"key", "identity", "script"} => m \in Monikers
    BY <1>1, CurrentIs DEF NodeSet
  <1>5. m \in Monikers => /\ DirOf(m) \in Dir
                          /\ DirOf(m).identity \in {None, Torn, DirOf(m).key}
                          /\ disk.genesis = None => DirOf(m).genesis = None
    BY DirOfInv
  <1>6. CASE Current.do = "key" /\ DirOf(m).key = None
             /\ Write(m, [DirOf(m) EXCEPT !.key = Torn])
    <2> DEFINE dir == [DirOf(m) EXCEPT !.key = Torn]
    <2> HIDE DEF m
    <2>1. /\ dir \in Dir /\ dir.identity = DirOf(m).identity
          /\ dir.genesis = DirOf(m).genesis
      BY <1>4, <1>5, <1>6 DEF Dir, KeyFile
    <2> HIDE DEF dir
    <2>2. QED
      BY <1>3, <1>4, <1>5, <1>6, <2>1 DEF dir
  <1>7. CASE Current.do = "identity" /\ Write(m, [DirOf(m) EXCEPT !.identity = Torn])
    <2> DEFINE dir == [DirOf(m) EXCEPT !.identity = Torn]
    <2> HIDE DEF m
    <2>1. dir \in Dir /\ dir.identity = Torn /\ dir.genesis = DirOf(m).genesis
      BY <1>4, <1>5, <1>7 DEF Dir, KeyFile
    <2> HIDE DEF dir
    <2>2. QED
      BY <1>3, <1>4, <1>5, <1>7, <2>1 DEF dir
  <1>8. CASE Current.do = "script" /\ Write(m, [DirOf(m) EXCEPT !.script = Torn])
    <2> DEFINE dir == [DirOf(m) EXCEPT !.script = Torn]
    <2> HIDE DEF m
    <2>1. /\ dir \in Dir /\ dir.identity = DirOf(m).identity /\ dir.key = DirOf(m).key
          /\ dir.genesis = DirOf(m).genesis
      BY <1>4, <1>5, <1>8 DEF Dir
    <2> HIDE DEF dir
    <2>2. QED
      BY <1>3, <1>4, <1>5, <1>8, <2>1 DEF dir
  <1>9. CASE disk' = [disk EXCEPT !.compose = Torn]
    BY <1>1, <1>9, ComposeWritten
  <1>10. QED
    BY <1>2, <1>6, <1>7, <1>8, <1>9 DEF Kill, At

-----------------------------------------------------------------------------
(* The theorems *)

\* The invariant holds before the first call.
LEMMA InitInv == Init => IInv
  <1> SUFFICES ASSUME Init PROVE IInv
    OBVIOUS
  <1>1. disk \in Disk /\ \A m \in Monikers : disk.dirs[m] = None
    BY EmptyDiskType DEF Init
  <1>2. /\ job \in Jobs /\ job.part = 0 /\ job.cfg = None /\ job.result = "none"
        /\ made = 0 /\ laid = None
    BY Bounds DEF Init, Jobs, Results
  <1>3. TypeOK
    BY <1>1, <1>2, Bounds DEF TypeOK, Jobs
  <1>4. KeysIdentify /\ NoGenesis /\ ScriptsFresh /\ Saved
    BY <1>1, <1>2 DEF KeysIdentify, NoGenesis, ScriptsFresh, Saved
  <1>5. QED
    BY <1>3, <1>4 DEF IInv

\* Every step keeps it; the steps of the clusters write no file.
LEMMA NextInv == IInv /\ [ClusterNext]_<<vars, cluster>> => IInv'
  <1> SUFFICES ASSUME IInv, [ClusterNext]_<<vars, cluster>> PROVE IInv'
    OBVIOUS
  <1>1. ASSUME UNCHANGED vars PROVE IInv'
    BY <1>1 DEF vars, IInv, TypeOK, KeysIdentify, NoGenesis, ScriptsFresh, Saved,
                Current, PassedBy, Fresh
  <1>2. ASSUME Step PROVE IInv'
    BY <1>2, WriteKeyInv, WriteIdentityInv, IdentityFailsInv, WriteScriptInv,
       ScriptRaisesInv, TakeFollowNodeInv, WriteComposeInv, KillInv DEF Step
  <1>3. ASSUME Next PROVE IInv'
    BY <1>2, <1>3, CallInitInv, CallLocalnetInv, CallComposeInv, ComposeKeptInv,
       ComposeRefusedInv DEF Next
  <1>4. QED
    BY <1>1, <1>3 DEF ClusterNext, ReadConfig, NewCluster

\* The invariant.
LEMMA InvHolds == ClusterSpec => []IInv
  <1>1. ClusterInit => IInv
    BY InitInv DEF ClusterInit
  <1>2. QED
    BY <1>1, NextInv, PTL DEF ClusterSpec

\* Every file holds a value of its kind, a key, a script or what a kill left of
\* it, and a running generator is at an operation of its configuration.
THEOREM TypeCorrect == ClusterSpec => []TypeOK
  <1>1. IInv => TypeOK
    BY DEF IInv
  <1>2. QED
    BY <1>1, InvHolds, PTL

\* No two services of a generated topology are given one address, and each is
\* inside its network's subnet when the subnet has room for all of them
\* (devnet/cluster.py, _service_ip and the *_ip_start offsets), for any number of
\* nodes of each kind, as long as networks of one name have one subnet.
THEOREM AddressesDistinct == ClusterSpec => []AddressesFit
  <1>1. IInv => AddressesFit
    BY AddressesFitType DEF IInv
  <1>2. QED
    BY <1>1, InvHolds, PTL

\* Once the generator is through, every operation is passed.
LEMMA GeneratedConfig ==
    ASSUME IInv, Generated
    PROVE  /\ job.cfg \in Configs /\ IsConfig(job.cfg)
           /\ \A i, k : PassedBy(job, i, k)
  <1>1. job.cfg \in Configs
    BY DEF IInv, TypeOK, Generated
  <1>2. QED
    BY <1>1, ConfigType DEF Generated, PassedBy

\* The program has the script of each node.
LEMMA ScriptOf ==
    ASSUME NEW cfg, IsConfig(cfg), NEW i \in DOMAIN Nodes(cfg)
    PROVE  /\ i \in DOMAIN Program(cfg)
           /\ \E s \in DOMAIN Program(cfg)[i] :
                /\ Program(cfg)[i][s] = Op("script", Nodes(cfg)[i])
                /\ Program(cfg)[i][s].do = "script"
                /\ Program(cfg)[i][s].node = Nodes(cfg)[i]
                /\ \A n \in Needed(cfg, Nodes(cfg)[i]) :
                     \E k \in 1 .. (s - 1) : Program(cfg)[i][k] = Op("identity", n)
  <1> DEFINE w == Program(cfg)[i]
             node == Nodes(cfg)[i]
  <1>1. i \in DOMAIN Program(cfg) /\ w = Prepare(cfg, node)
    BY ProgramIs
  <1>2. Scripted(w, node, Needed(cfg, node), ServicesOf(cfg))
    <2>1. node \in Each(Nodes(cfg))
      BY DEF Each
    <2>2. QED
      BY <1>1, <2>1, PrepareIs
  <1> HIDE DEF w, node
  <1>3. PICK s \in DOMAIN w :
               /\ w[s] = Op("script", node)
               /\ \A n \in Needed(cfg, node) :
                    \E k \in 1 .. (s - 1) : w[k] = Op("identity", n)
    BY <1>2 DEF Scripted
  <1>4. w[s].do = "script" /\ w[s].node = node
    BY <1>3 DEF Op
  <1>5. QED
    BY <1>1, <1>3, <1>4 DEF w, node

\* Once the compose generator is through, each script it wrote lists the keys
\* that are in the peers' directories (or the empty identity a kill left), and its
\* service has the genesis file of the layout, however many earlier calls were
\* killed between the key and the identity of a node, and whatever was laid out
\* before.
THEOREM PeersStayCurrent == ClusterSpec => []PeersAreCurrent
  <1>1. ASSUME IInv, Generated, NEW m \in NamesOf(Nodes(job.cfg))
        PROVE  Fresh(disk, m)
    <2> DEFINE cfg == job.cfg
    <2>1. cfg \in Configs /\ IsConfig(cfg) /\ \A i, k : PassedBy(job, i, k)
      BY <1>1, GeneratedConfig
    <2>2. PICK i \in DOMAIN Nodes(cfg) : Nodes(cfg)[i].moniker = m
      BY DEF NamesOf
    <2>3. PICK s \in DOMAIN Program(cfg)[i] :
                 /\ Program(cfg)[i][s].do = "script"
                 /\ Program(cfg)[i][s].node = Nodes(cfg)[i]
      BY <2>1, ScriptOf
    <2>4. i \in DOMAIN Program(cfg) /\ cfg # None
      BY <2>1, ScriptOf, NoneIsNothing
    <2>5. QED
      BY <1>1, <2>1, <2>2, <2>3, <2>4 DEF IInv, ScriptsFresh
  <1>2. IInv => PeersAreCurrent
    BY <1>1 DEF PeersAreCurrent, Fresh
  <1>3. QED
    BY <1>2, InvHolds, PTL

LEMMA SavedReloads == IInv => SavedConfigReloads
  <1>1. ASSUME IInv, laid # None, laid.saved
        PROVE  laid.cfg \in Configs /\ disk.yaml = ToDict(laid.cfg)
    <2>1. laid \in Layouts
      BY <1>1 DEF IInv, TypeOK
    <2>2. QED
      BY <1>1, <2>1 DEF IInv, Saved, Layouts
  <1>2. QED
    BY <1>1, ConfigReloads, ConfigType DEF SavedConfigReloads

\* The configuration a layout has saved beside itself is what reading it back
\* gives, the binaries at their defaults (LocalnetConfig.to_dict, from_dict).
THEOREM SavedConfigIsRead == ClusterSpec => []SavedConfigReloads
  BY SavedReloads, InvHolds, PTL

-----------------------------------------------------------------------------
(* What the scripts say *)

\* The nodes that a script of this kind should list.
ExpectedPeers(cfg, kind) ==
    CASE kind = "validator" -> NamesOf(ValidatorNodes(cfg))
      [] kind = "follow" -> NamesOf(ValidatorNodes(cfg) \o Proxies(cfg))
      [] kind = "proxy"  -> {}
      [] kind = "public" -> NamesOf(FollowNodes(cfg) \o Proxies(cfg))

Identity(d, m) == d.dirs[m] # None /\ d.dirs[m].identity # None

Unidentified(d, cfg) == {n \in NamesOf(ValidatorNodes(cfg)) : ~Identity(d, n)}

Listed(script) == {p.at : p \in script.peers}

\* The script of node is the one the generator writes for it, and lists all it
\* should but what is excused.
Right(d, cfg, node, excused) ==
    LET m == node.moniker
        script == d.dirs[m].script
        expected == ExpectedPeers(cfg, node.kind)
    IN  /\ d.dirs[m] # None
        /\ script.kind = node.kind
        /\ script.upstream = Upstream(cfg, node)
        /\ script.listen = ListenAddr(cfg, node)
        /\ Listed(script) \subseteq expected \ {m}
        /\ expected \ (Listed(script) \cup {m}) \subseteq excused

\* A service whose identity the generator is past has one, or was warned of.
Identified ==
    job.cfg # None =>
      \A i \in DOMAIN Program(job.cfg) : \A k \in DOMAIN Program(job.cfg)[i] :
        (Program(job.cfg)[i][k].do = "identity" /\ PassedBy(job, i, k)) =>
          LET m == Program(job.cfg)[i][k].node.moniker
          IN  m \in job.failed \/ Identity(disk, m)

\* The scripts the generator is past are right, if no two nodes share one.
ScriptsRight ==
    (job.cfg # None /\ DistinctNodes(job.cfg)) =>
      \A i \in DOMAIN Program(job.cfg) : \A k \in DOMAIN Program(job.cfg)[i] :
        (Program(job.cfg)[i][k].do = "script" /\ PassedBy(job, i, k)) =>
          Right(disk, job.cfg, Program(job.cfg)[i][k].node,
                job.failed \cup Unidentified(disk, job.cfg))

\* It does not get past a public node that has nothing to follow.
Followed ==
    job.cfg # None =>
      \A i \in DOMAIN Program(job.cfg) : \A k \in DOMAIN Program(job.cfg)[i] :
        (Program(job.cfg)[i][k].do = "depend" /\ PassedBy(job, i, k)) =>
          job.cfg.docker.follow_nodes # <<>>

SInv == Identified /\ ScriptsRight /\ Followed

LEMMA NothingSaid ==
    ASSUME \A i \in DOMAIN Program(job'.cfg) : \A k \in DOMAIN Program(job'.cfg)[i] :
             ~PassedBy(job', i, k)
    PROVE  SInv'
  BY DEF SInv, Identified, ScriptsRight, Followed

\* Nodes of different names.
LEMMA NamesDiffer ==
    ASSUME NEW cfg, IsConfig(cfg), DistinctNodes(cfg),
           NEW i \in DOMAIN Nodes(cfg), NEW k \in DOMAIN Nodes(cfg),
           Nodes(cfg)[i].moniker = Nodes(cfg)[k].moniker
    PROVE  i = k
  BY DEF DistinctNodes, IsInjective

LEMMA EachDiffers ==
    ASSUME NEW cfg, IsConfig(cfg), DistinctNodes(cfg),
           NEW a \in Each(Nodes(cfg)), NEW b \in Each(Nodes(cfg)),
           a.moniker = b.moniker
    PROVE  a = b
  BY NamesDiffer DEF Each

LEMMA NamesOfEach == \A nodes : NamesOf(nodes) = {n.moniker : n \in Each(nodes)}
  BY DEF NamesOf, Each

LEMMA NamesOfBoth ==
    ASSUME NEW s \in NodeLists, NEW t \in NodeLists
    PROVE  NamesOf(s \o t) = NamesOf(s) \cup NamesOf(t)
  <1> DEFINE c == s \o t
  <1>1. /\ c \in NodeLists /\ Len(c) = Len(s) + Len(t)
        /\ \A i \in 1 .. Len(s) + Len(t) :
             c[i] = IF i <= Len(s) THEN s[i] ELSE t[i - Len(s)]
    BY Concatenation
  <1> HIDE DEF c
  <1>2. /\ Len(s) \in Nat /\ DOMAIN s = 1 .. Len(s)
        /\ Len(t) \in Nat /\ DOMAIN t = 1 .. Len(t)
        /\ DOMAIN c = 1 .. Len(s) + Len(t)
    BY <1>1, SeqFacts DEF NodeLists
  <1>3. ASSUME NEW i \in DOMAIN c PROVE c[i].moniker \in NamesOf(s) \cup NamesOf(t)
    <2>1. CASE i <= Len(s)
      <3>1. i \in DOMAIN s /\ c[i] = s[i]
        BY <1>1, <1>2, <2>1
      <3>2. QED
        BY <3>1 DEF NamesOf
    <2>2. CASE ~(i <= Len(s))
      <3>1. i - Len(s) \in DOMAIN t /\ c[i] = t[i - Len(s)]
        BY <1>1, <1>2, <2>2
      <3>2. QED
        BY <3>1 DEF NamesOf
    <2>3. QED
      BY <2>1, <2>2
  <1>4. ASSUME NEW i \in DOMAIN s PROVE s[i].moniker \in NamesOf(c)
    <2>1. i \in DOMAIN c /\ c[i] = s[i]
      BY <1>1, <1>2
    <2>2. QED
      BY <2>1 DEF NamesOf
  <1>5. ASSUME NEW i \in DOMAIN t PROVE t[i].moniker \in NamesOf(c)
    <2>1. i + Len(s) \in DOMAIN c /\ c[i + Len(s)] = t[i]
      BY <1>1, <1>2
    <2>2. QED
      BY <2>1 DEF NamesOf
  <1>6. NamesOf(c) = NamesOf(s) \cup NamesOf(t)
    BY <1>3, <1>4, <1>5 DEF NamesOf
  <1>7. QED
    BY <1>6 DEF c

\* Identities are those of services.
LEMMA IdentityOps ==
    ASSUME NEW cfg, IsConfig(cfg), NEW i \in DOMAIN Program(cfg),
           NEW k \in DOMAIN Program(cfg)[i], Program(cfg)[i][k].do = "identity"
    PROVE  /\ Program(cfg)[i][k].node \in ServicesOf(cfg)
           /\ Program(cfg)[i][k].node.moniker \in Monikers
  <1> DEFINE w == Program(cfg)[i]
  <1>1. CASE Scripted(w, Nodes(cfg)[i], Needed(cfg, Nodes(cfg)[i]), ServicesOf(cfg))
    <2> HIDE DEF w
    <2>1. w[k].node \in ServicesOf(cfg)
      BY <1>1 DEF Scripted, w
    <2>2. w[k].node \in NodeSet
      BY <2>1, KindsAre DEF ServicesOf
    <2>3. QED
      BY <2>1, <2>2 DEF w, NodeSet
  <1>2. CASE w = <<Op("compose", None)>>
    <2> DEFINE x == Op("compose", None)
    <2>1. x.do = "compose"
      BY DEF Op
    <2> HIDE DEF x
    <2>2. \A j \in DOMAIN <<x>> : <<x>>[j] = x
      OBVIOUS
    <2>3. w = <<x>>
      BY <1>2 DEF x
    <2> HIDE DEF w
    <2>4. w[k] = x /\ w[k].do = "identity"
      BY <2>2, <2>3 DEF w
    <2>5. QED
      BY <2>1, <2>4
  <1>3. QED
    BY <1>1, <1>2, PartIs

\* What a step of the generator must do to the directories for SInv to be kept.
Keeps(m) ==
    /\ disk.dirs[m] # None => disk'.dirs[m] # None
    /\ Identity(disk, m) => Identity(disk', m)
    /\ (disk.dirs[m] # None /\ (Current.do = "script" => m # Current.node.moniker)) =>
         disk'.dirs[m].script = disk.dirs[m].script

LEMMA StepSays ==
    ASSUME IInv, SInv, job.part > 0, job'.cfg = job.cfg, job.failed \subseteq job'.failed,
           \A i \in DOMAIN Program(job.cfg) : \A k \in DOMAIN Program(job.cfg)[i] :
             PassedBy(job', i, k) => PassedBy(job, i, k) \/ (i = job.part /\ k = job.pc),
           \A m \in Monikers : Keeps(m),
           DistinctNodes(job.cfg) =>
             Unidentified(disk, job.cfg) \subseteq Unidentified(disk', job.cfg),
           Current.do = "identity" =>
             Current.node.moniker \in job'.failed \/ Identity(disk', Current.node.moniker),
           (Current.do = "script" /\ DistinctNodes(job.cfg)) =>
             Right(disk', job.cfg, Current.node,
                   job'.failed \cup Unidentified(disk', job.cfg)),
           Current.do = "depend" => job.cfg.docker.follow_nodes # <<>>
    PROVE  SInv'
  <1> DEFINE cfg == job.cfg
             op(i, k) == Program(job.cfg)[i][k]
  <1>1. IsConfig(cfg) /\ TypeOK
    BY CurrentIs DEF IInv
  <1>2. Identified'
    <2>1. ASSUME cfg # None, NEW i \in DOMAIN Program(cfg), NEW k \in DOMAIN Program(cfg)[i],
                 op(i, k).do = "identity", PassedBy(job', i, k)
          PROVE  op(i, k).node.moniker \in job'.failed
                   \/ Identity(disk', op(i, k).node.moniker)
      <3>1. CASE i = job.part /\ k = job.pc
        BY <2>1, <3>1 DEF Current
      <3>2. CASE PassedBy(job, i, k)
        <4>1. op(i, k).node.moniker \in job.failed \/ Identity(disk, op(i, k).node.moniker)
          BY <2>1, <3>2 DEF SInv, Identified
        <4>2. op(i, k).node.moniker \in Monikers
          BY <1>1, <2>1, IdentityOps
        <4>3. QED
          BY <4>1, <4>2 DEF Keeps
      <3>3. QED
        BY <2>1, <3>1, <3>2
    <2>2. QED
      BY <2>1 DEF Identified
  <1>3. ScriptsRight'
    <2>1. ASSUME cfg # None, DistinctNodes(cfg),
                 NEW i \in DOMAIN Program(cfg), NEW k \in DOMAIN Program(cfg)[i],
                 op(i, k).do = "script", PassedBy(job', i, k)
          PROVE  Right(disk', cfg, op(i, k).node, job'.failed \cup Unidentified(disk', cfg))
      <3> DEFINE n == op(i, k).node
                 m == n.moniker
      <3>1. CASE Current.do = "script" /\ Current.node = n
        BY <2>1, <3>1
      <3>2. CASE ~(Current.do = "script" /\ Current.node = n) /\ PassedBy(job, i, k)
        <4>1. Right(disk, cfg, n, job.failed \cup Unidentified(disk, cfg))
          BY <2>1, <3>2 DEF SInv, ScriptsRight
        <4>2. n \in Each(Nodes(cfg)) /\ m \in Monikers
          <5>1. i \in DOMAIN Nodes(cfg) /\ n = Nodes(cfg)[i] /\ n \in NodeSet
            BY <1>1, <2>1, ScriptOps
          <5>2. QED
            BY <5>1 DEF Each, NodeSet
        <4>3. Current.do = "script" => Current.node.moniker # m
          <5>1. Current.do = "script" => Current.node \in Each(Nodes(cfg))
            BY <1>1, CurrentIs DEF Each
          <5>2. QED
            BY <1>1, <2>1, <3>2, <4>2, <5>1, EachDiffers
        <4>4. disk.dirs[m] # None
          BY <4>1 DEF Right
        <4>5. disk'.dirs[m] # None /\ disk'.dirs[m].script = disk.dirs[m].script
          BY <4>2, <4>3, <4>4 DEF Keeps
        <4>6. job.failed \cup Unidentified(disk, cfg)
                \subseteq job'.failed \cup Unidentified(disk', cfg)
          BY <2>1
        <4> HIDE DEF n
        <4>7. Right(disk', cfg, n, job'.failed \cup Unidentified(disk', cfg))
          BY <4>1, <4>5, <4>6 DEF Right
        <4>8. QED
          BY <4>7 DEF n
      <3>3. CASE i = job.part /\ k = job.pc
        BY <2>1, <3>1, <3>3 DEF Current
      <3>4. QED
        BY <2>1, <3>1, <3>2, <3>3
    <2>2. QED
      BY <2>1 DEF ScriptsRight
  <1>4. Followed'
    <2>1. ASSUME cfg # None, NEW i \in DOMAIN Program(cfg), NEW k \in DOMAIN Program(cfg)[i],
                 op(i, k).do = "depend", PassedBy(job', i, k)
          PROVE  cfg.docker.follow_nodes # <<>>
      BY <2>1 DEF SInv, Followed, Current
    <2>2. QED
      BY <2>1 DEF Followed
  <1>5. QED
    BY <1>2, <1>3, <1>4 DEF SInv

\* _docker_service_trusted_peers lists the nodes that have an identity.
LEMMA PeersListed ==
    \A nodes : {p.at : p \in Peers(nodes)} = {n \in NamesOf(nodes) : Identity(disk, n)}
  <1> TAKE nodes
  <1> DEFINE found == {n \in NamesOf(nodes) : Identity(disk, n)}
             peer(m) == [id |-> disk.dirs[m].identity, at |-> m]
  <1>1. Peers(nodes) = {peer(m) : m \in found}
    BY DEF Peers, Identity
  <1>2. \A m : peer(m).at = m
    OBVIOUS
  <1> HIDE DEF found, peer
  <1>3. {p.at : p \in Peers(nodes)} = found
    BY <1>1, <1>2
  <1>4. QED
    BY <1>3 DEF found

\* When a script is written, the services it lists have been gone through.
LEMMA NeededIsThere ==
    ASSUME IInv, SInv, job.part > 0, Current.do = "script",
           NEW n \in Needed(job.cfg, Current.node)
    PROVE  n.moniker \in job.failed \/ Identity(disk, n.moniker)
  <1> DEFINE cfg == job.cfg
             i == job.part
             w == Program(cfg)[i]
             node == Nodes(cfg)[i]
  <1>1. /\ TypeOK /\ IsConfig(cfg) /\ cfg # None
        /\ i \in DOMAIN Program(cfg) /\ job.pc \in DOMAIN w /\ job.pc \in Nat
        /\ i \in DOMAIN Nodes(cfg) /\ Current.node = node /\ i \in Nat
    BY CurrentIs DEF IInv, TypeOK
  <1>2. Scripted(w, node, Needed(cfg, node), ServicesOf(cfg)) /\ DOMAIN w = 1 .. Len(w)
    <2>1. node \in Each(Nodes(cfg)) /\ w = Prepare(cfg, node)
      BY <1>1, ProgramIs DEF Each
    <2>2. DOMAIN w = 1 .. Len(w)
      BY <1>1, PartIs
    <2>3. QED
      BY <1>1, <2>1, <2>2, PrepareIs
  <1> HIDE DEF w
  <1>3. PICK s \in DOMAIN w :
          /\ \A k \in DOMAIN w : w[k].do = "script" => k = s
          /\ \A x \in Needed(cfg, node) : \E k \in 1 .. (s - 1) : w[k] = Op("identity", x)
    BY <1>2 DEF Scripted
  <1>4. s = job.pc
    BY <1>1, <1>3 DEF Current, w
  <1>5. PICK k \in 1 .. (job.pc - 1) : w[k] = Op("identity", n)
    BY <1>1, <1>3, <1>4
  <1>6. k \in DOMAIN w /\ w[k].do = "identity" /\ w[k].node = n /\ k < job.pc
    <2>1. Op("identity", n).do = "identity" /\ Op("identity", n).node = n
      BY DEF Op
    <2>2. k \in DOMAIN w /\ k < job.pc
      BY <1>1, <1>2
    <2>3. QED
      BY <1>5, <2>1, <2>2
  <1>7. PassedBy(job, i, k)
    BY <1>6 DEF PassedBy
  <1>8. QED
    BY <1>1, <1>6, <1>7 DEF SInv, Identified, w

\* So the script that is written lists what it should.
LEMMA ScriptSays ==
    ASSUME IInv, SInv, job.part > 0, Current.do = "script", DistinctNodes(job.cfg)
    PROVE  LET node == Current.node
               script == Script(job.cfg, node)
               expected == ExpectedPeers(job.cfg, node.kind)
           IN  /\ Listed(script) \subseteq expected \ {node.moniker}
               /\ expected \ (Listed(script) \cup {node.moniker})
                    \subseteq job.failed \cup Unidentified(disk, job.cfg)
  <1> DEFINE cfg == job.cfg
             node == Current.node
             m == node.moniker
             script == Script(cfg, node)
             V == ValidatorNodes(cfg)
             F == FollowNodes(cfg)
             P == Proxies(cfg)
             WithId(nodes) == {n \in NamesOf(nodes) : Identity(disk, n)}
  <1>1. IsConfig(cfg) /\ node \in Each(Nodes(cfg)) /\ node \in NodeSet
    BY CurrentIs DEF IInv, Each
  <1>2. /\ V \in NodeLists /\ F \in NodeLists /\ P \in NodeLists
        /\ Each(V) = {n \in Each(Nodes(cfg)) : n.kind = "validator"}
        /\ Each(F) = {n \in Each(Nodes(cfg)) : n.kind = "follow"}
        /\ Each(P) = {n \in Each(Nodes(cfg)) : n.kind = "proxy"}
    BY <1>1, KindsAre
  <1>3. /\ node.kind # "validator" => m \notin NamesOf(V)
        /\ node.kind # "follow" => m \notin NamesOf(F)
        /\ node.kind # "proxy" => m \notin NamesOf(P)
    BY <1>1, <1>2, EachDiffers, NamesOfEach
  <1>4. script.peers = PeersOf(cfg, node)
    BY DEF Script
  <1>5. \A n \in NamesOf(V) : Identity(disk, n) \/ n \in Unidentified(disk, cfg)
    BY DEF Unidentified
  <1>6. ASSUME NEW x \in Needed(cfg, node)
        PROVE  Identity(disk, x.moniker) \/ x.moniker \in job.failed
    BY <1>6, NeededIsThere
  <1>7. CASE node.kind = "validator"
    <2>1. Listed(script) = WithId(V) \ {m} /\ ExpectedPeers(cfg, node.kind) = NamesOf(V)
      <3>1. PeersOf(cfg, node) = {p \in Peers(V) : p.at # m}
        BY <1>7 DEF PeersOf
      <3>2. {p.at : p \in Peers(V)} = WithId(V)
        BY PeersListed
      <3>3. {p.at : p \in PeersOf(cfg, node)} = WithId(V) \ {m}
        BY <3>1, <3>2
      <3>4. QED
        BY <1>4, <1>7, <3>3 DEF Listed, ExpectedPeers
    <2>2. QED
      BY <1>5, <2>1
  <1>8. CASE node.kind = "follow"
    <2>1. /\ Listed(script) = WithId(V) \cup WithId(P)
          /\ ExpectedPeers(cfg, node.kind) = NamesOf(V) \cup NamesOf(P)
      <3>1. PeersOf(cfg, node) = Peers(V) \cup Peers(P)
        BY <1>8 DEF PeersOf
      <3>2. {p.at : p \in Peers(V)} = WithId(V) /\ {p.at : p \in Peers(P)} = WithId(P)
        BY PeersListed
      <3>3. {p.at : p \in PeersOf(cfg, node)} = WithId(V) \cup WithId(P)
        BY <3>1, <3>2
      <3>4. NamesOf(V \o P) = NamesOf(V) \cup NamesOf(P)
        BY <1>2, NamesOfBoth
      <3>5. QED
        BY <1>4, <1>8, <3>3, <3>4 DEF Listed, ExpectedPeers
    <2>2. \A n \in NamesOf(P) : Identity(disk, n) \/ n \in job.failed
      <3>1. Needed(cfg, node) = Each(P)
        BY <1>8 DEF Needed
      <3>2. QED
        BY <1>6, <3>1, NamesOfEach
    <2>3. m \notin NamesOf(V) /\ m \notin NamesOf(P)
      BY <1>3, <1>8
    <2>4. QED
      BY <1>5, <2>1, <2>2, <2>3
  <1>9. CASE node.kind = "proxy"
    <2>1. Listed(script) = {} /\ ExpectedPeers(cfg, node.kind) = {}
      <3>1. PeersOf(cfg, node) = {}
        BY <1>9 DEF PeersOf
      <3>2. QED
        BY <1>4, <1>9, <3>1 DEF Listed, ExpectedPeers
    <2>2. QED
      BY <2>1
  <1>10. CASE node.kind = "public"
    <2>1. /\ Listed(script) = WithId(F) \cup WithId(P)
          /\ ExpectedPeers(cfg, node.kind) = NamesOf(F) \cup NamesOf(P)
      <3>1. PeersOf(cfg, node) = Peers(F) \cup Peers(P)
        BY <1>10 DEF PeersOf
      <3>2. {p.at : p \in Peers(F)} = WithId(F) /\ {p.at : p \in Peers(P)} = WithId(P)
        BY PeersListed
      <3>3. {p.at : p \in PeersOf(cfg, node)} = WithId(F) \cup WithId(P)
        BY <3>1, <3>2
      <3>4. NamesOf(F \o P) = NamesOf(F) \cup NamesOf(P)
        BY <1>2, NamesOfBoth
      <3>5. QED
        BY <1>4, <1>10, <3>3, <3>4 DEF Listed, ExpectedPeers
    <2>2. \A n \in NamesOf(F) \cup NamesOf(P) : Identity(disk, n) \/ n \in job.failed
      <3>1. Needed(cfg, node) = Each(F) \cup Each(P)
        BY <1>10 DEF Needed
      <3>2. QED
        BY <1>6, <3>1, NamesOfEach
    <2>3. m \notin NamesOf(F) /\ m \notin NamesOf(P)
      BY <1>3, <1>10
    <2>4. QED
      BY <2>1, <2>2, <2>3
  <1>11. QED
    BY <1>1, <1>7, <1>8, <1>9, <1>10 DEF NodeSet, Kinds

\* A step of the generator that goes on and writes one directory.
LEMMA WrittenSays ==
    ASSUME IInv, SInv, job.part > 0,
           NEW failed \in SUBSET Monikers, job.failed \subseteq failed, Done(failed),
           NEW m \in Monikers, NEW dir \in Dir, Write(m, dir),
           DirOf(m).identity # None => dir.identity # None,
           (dir.identity # None /\ DirOf(m).identity = None) =>
             Current.do = "identity" /\ Current.node.moniker = m,
           Current.do # "script" => dir.script = DirOf(m).script,
           Current.do = "identity" =>
             Current.node.moniker = m /\ dir.identity # None,
           Current.do = "script" =>
             m = Current.node.moniker /\ dir.script = Script(job.cfg, Current.node),
           Current.do # "depend"
    PROVE  SInv'
  <1> DEFINE cfg == job.cfg
             node == Current.node
  <1>1. TypeOK /\ IsConfig(cfg) /\ job'.failed = failed /\ job'.cfg = cfg
        /\ \A i \in DOMAIN Program(cfg) : \A k \in DOMAIN Program(cfg)[i] :
             PassedBy(job', i, k) => PassedBy(job, i, k) \/ (i = job.part /\ k = job.pc)
    BY CurrentIs, DoneIs DEF IInv
  <1>2. /\ disk'.dirs[m] = dir /\ dir # None
        /\ \A n \in Monikers \ {m} : disk'.dirs[n] = disk.dirs[n]
    BY <1>1, WriteIs
  <1>3. /\ disk.dirs[m] # None => DirOf(m) = disk.dirs[m]
        /\ disk.dirs[m] = None => DirOf(m).identity = None
    BY DirOfInv DEF EmptyDir
  <1>4. ASSUME NEW n \in Monikers PROVE Keeps(n)
    <2>1. CASE n = m
      BY <1>2, <1>3, <2>1 DEF Keeps, Identity
    <2>2. CASE n # m
      BY <1>2, <2>2 DEF Keeps, Identity
    <2>3. QED
      BY <2>1, <2>2
  <1>5. ASSUME DistinctNodes(cfg), NEW n \in Unidentified(disk, cfg)
        PROVE  n \in Unidentified(disk', cfg)
    <2>1. n \in NamesOf(ValidatorNodes(cfg)) /\ ~Identity(disk, n)
      BY <1>5 DEF Unidentified
    <2>2. PICK v \in Each(Nodes(cfg)) : v.kind = "validator" /\ v.moniker = n
      BY <1>1, <2>1, KindsAre, NamesOfEach
    <2>3. n \in Monikers
      BY <1>1, <2>2, KindsAre DEF NodeSet
    <2>4. Current.do = "identity" => node.moniker # n
      <3>1. Current.do = "identity" => node \in ServicesOf(cfg)
        BY <1>1, CurrentIs
      <3>2. QED
        BY <1>1, <1>5, <2>2, <3>1, EachDiffers DEF ServicesOf
    <2>5. ~Identity(disk', n)
      <3>1. CASE n = m
        BY <1>2, <1>3, <2>1, <2>4, <3>1 DEF Identity
      <3>2. CASE n # m
        BY <1>2, <2>1, <2>3, <3>2 DEF Identity
      <3>3. QED
        BY <3>1, <3>2
    <2>6. QED
      BY <2>1, <2>5 DEF Unidentified
  <1>6. ASSUME Current.do = "script", DistinctNodes(cfg)
        PROVE  Right(disk', cfg, node, failed \cup Unidentified(disk', cfg))
    <2> DEFINE script == Script(cfg, node)
               expected == ExpectedPeers(cfg, node.kind)
    <2>1. /\ Listed(script) \subseteq expected \ {m}
          /\ expected \ (Listed(script) \cup {m})
               \subseteq job.failed \cup Unidentified(disk, cfg)
      BY <1>6, ScriptSays
    <2>2. /\ script.kind = node.kind /\ script.upstream = Upstream(cfg, node)
          /\ script.listen = ListenAddr(cfg, node)
      BY DEF Script
    <2>3. disk'.dirs[m].script = script /\ disk'.dirs[m] # None /\ node.moniker = m
      BY <1>2, <1>6
    <2> HIDE DEF script, expected
    <2>4. expected \ (Listed(script) \cup {m})
            \subseteq failed \cup Unidentified(disk', cfg)
      BY <1>5, <1>6, <2>1
    <2>5. expected = ExpectedPeers(cfg, node.kind)
      BY DEF expected
    <2>6. QED
      BY <2>1, <2>2, <2>3, <2>4, <2>5 DEF Right
  <1>7. Current.do = "identity" => Identity(disk', node.moniker)
    BY <1>2 DEF Identity
  <1>8. DistinctNodes(cfg) => Unidentified(disk, cfg) \subseteq Unidentified(disk', cfg)
    BY <1>5
  <1>9. QED
    BY <1>1, <1>4, <1>6, <1>7, <1>8, StepSays

\* A step that goes on and leaves the directories as they are.
LEMMA OnwardSays ==
    ASSUME IInv, SInv, job.part > 0,
           NEW failed \in SUBSET Monikers, job.failed \subseteq failed, Done(failed),
           disk'.dirs = disk.dirs, Current.do # "script",
           Current.do = "identity" => Current.node.moniker \in failed,
           Current.do = "depend" => job.cfg.docker.follow_nodes # <<>>
    PROVE  SInv'
  <1>1. TypeOK /\ job'.failed = failed /\ job'.cfg = job.cfg
        /\ \A i \in DOMAIN Program(job.cfg) : \A k \in DOMAIN Program(job.cfg)[i] :
             PassedBy(job', i, k) => PassedBy(job, i, k) \/ (i = job.part /\ k = job.pc)
    BY DoneIs DEF IInv
  <1>2. \A m \in Monikers : Keeps(m)
    BY DEF Keeps, Identity
  <1>3. Unidentified(disk, job.cfg) \subseteq Unidentified(disk', job.cfg)
    BY DEF Unidentified, Identity
  <1>4. QED
    BY <1>1, <1>2, <1>3, StepSays

\* One that stops promises nothing.
LEMMA StopSays ==
    ASSUME IInv, NEW result \in {"raised", "killed"}, Stop(result)
    PROVE  SInv'
  BY StopIs, NothingSaid DEF IInv

LEMMA WriteKeySays ==
    ASSUME IInv, SInv, WriteKey
    PROVE  SInv'
  <1> DEFINE m == Current.node.moniker
             dir == [DirOf(m) EXCEPT !.key = made + 1]
  <1>1. /\ job.part > 0 /\ Current.do = "key" /\ m \in Monikers /\ Done(job.failed)
        /\ job.failed \in SUBSET Monikers
    BY AtService DEF IInv, TypeOK, WriteKey, At
  <1>2. CASE DirOf(m).key = None
    <2>1. made < MaxKeys /\ made \in 0 .. MaxKeys /\ Write(m, dir)
      BY <1>2 DEF WriteKey, IInv, TypeOK
    <2> HIDE DEF m
    <2>2. DirOf(m) \in Dir
      BY <1>1, DirOfInv
    <2>3. made + 1 \in 1 .. MaxKeys
      BY <2>1, Bounds
    <2>4. /\ dir \in Dir /\ dir.identity = DirOf(m).identity
          /\ dir.script = DirOf(m).script
      BY <2>2, <2>3 DEF Dir, KeyFile
    <2> HIDE DEF dir
    <2>5. QED
      BY <1>1, <2>1, <2>4, WrittenSays
  <1>3. CASE DirOf(m).key # None
    <2>1. disk' = disk
      BY <1>3 DEF WriteKey
    <2>2. QED
      BY <1>1, <2>1, OnwardSays
  <1>4. QED
    BY <1>2, <1>3

LEMMA WriteIdentitySays ==
    ASSUME IInv, SInv, WriteIdentity
    PROVE  SInv'
  <1> DEFINE m == Current.node.moniker
             key == IF DirOf(m).identity = None THEN DirOf(m).key ELSE DirOf(m).identity
             dir == [DirOf(m) EXCEPT !.identity = key]
  <1>1. /\ job.part > 0 /\ Current.do = "identity" /\ m \in Monikers /\ Done(job.failed)
        /\ job.failed \in SUBSET Monikers
        /\ DirOf(m).identity # None \/ DirOf(m).key # None
    BY AtService DEF IInv, TypeOK, WriteIdentity, At
  <1>2. Write(m, dir)
    BY DEF WriteIdentity
  <1>3. DirOf(m) \in Dir
    BY <1>1, DirOfInv
  <1>4. key \in KeyFile /\ key # None
    BY <1>1, <1>3 DEF Dir
  <1> HIDE DEF key
  <1>5. dir \in Dir /\ dir.identity = key /\ dir.script = DirOf(m).script
    BY <1>3, <1>4 DEF Dir
  <1> HIDE DEF dir
  <1>6. QED
    BY <1>1, <1>2, <1>4, <1>5, WrittenSays

LEMMA WriteScriptSays ==
    ASSUME IInv, SInv, WriteScript
    PROVE  SInv'
  <1> DEFINE node == Current.node
             m == node.moniker
             script == Script(job.cfg, node)
             genesis == IF node.kind = "validator" \/ disk.genesis = None
                        THEN DirOf(m).genesis ELSE disk.genesis
             dir == [DirOf(m) EXCEPT !.script = script, !.genesis = genesis]
  <1>1. /\ TypeOK /\ KeysIdentify /\ job.part > 0 /\ Current.do = "script"
        /\ Done(job.failed) /\ job.failed \in SUBSET Monikers
    BY DEF IInv, TypeOK, WriteScript, At
  <1>2. IsConfig(job.cfg) /\ node \in NodeSet /\ m \in Monikers
    BY <1>1, CurrentIs DEF NodeSet
  <1>3. Write(m, dir)
    <2>1. Write(m, [DirOf(m) EXCEPT !.script = script,
                                    !.genesis = IF \/ node.kind = "validator"
                                                   \/ disk.genesis = None
                                                THEN @ ELSE disk.genesis])
      BY DEF WriteScript
    <2>2. QED
      BY <2>1
  <1>4. script \in Scripts
    BY <1>1, <1>2, ScriptType
  <1>5. DirOf(m) \in Dir
    BY <1>2, DirOfInv
  <1>6. genesis \in Genesis \cup {None}
    BY <1>1, <1>5 DEF Dir, TypeOK, Disk
  <1>7. script = Script(job.cfg, node)
    OBVIOUS
  <1> HIDE DEF script, genesis
  <1>8. dir \in Dir /\ dir.identity = DirOf(m).identity /\ dir.script = script
    BY <1>4, <1>5, <1>6 DEF Dir
  <1> HIDE DEF dir
  <1>9. QED
    BY <1>1, <1>2, <1>3, <1>7, <1>8, WrittenSays

LEMMA StepsSay ==
    ASSUME IInv, SInv, Step
    PROVE  SInv'
  <1>1. job.failed \in SUBSET Monikers
    BY DEF IInv, TypeOK
  <1>2. CASE IdentityFails
    <2>1. /\ job.part > 0 /\ Current.do = "identity" /\ disk' = disk
          /\ Done(job.failed \cup {Current.node.moniker})
      BY <1>2 DEF IdentityFails, At
    <2>2. job.failed \cup {Current.node.moniker} \in SUBSET Monikers
      BY <1>1, <2>1, AtService
    <2>3. QED
      BY <2>1, <2>2, OnwardSays
  <1>3. CASE TakeFollowNode
    <2>1. /\ job.part > 0 /\ Current.do = "depend" /\ disk' = disk
          /\ \/ Stop("raised")
             \/ job.cfg.docker.follow_nodes # <<>> /\ Done(job.failed)
      BY <1>3 DEF TakeFollowNode, At
    <2>2. QED
      BY <1>1, <2>1, OnwardSays, StopSays
  <1>4. CASE WriteCompose
    <2>1. /\ job.part > 0 /\ Current.do = "compose" /\ Done(job.failed)
          /\ disk' = [disk EXCEPT !.compose = job.cfg]
      BY <1>4 DEF WriteCompose, At
    <2>2. disk'.dirs = disk.dirs
      BY <2>1 DEF IInv, TypeOK, Disk
    <2>3. QED
      BY <1>1, <2>1, <2>2, OnwardSays
  <1>5. CASE ScriptRaises \/ Kill
    BY <1>5, StopSays DEF ScriptRaises, Kill
  <1>6. QED
    BY <1>2, <1>3, <1>4, <1>5, WriteKeySays, WriteIdentitySays, WriteScriptSays DEF Step

LEMMA StartsSay ==
    ASSUME IInv, NEW cfg \in Configs, Call(cfg), NEW at \in {0, 1},
           NEW result \in {"none", "kept", "raised"}, Start(cfg, at, result)
    PROVE  SInv'
  BY StartIs, NothingSaid DEF IInv

\* SInv holds along with IInv.
LEMMA SaidHolds == ClusterSpec => [](IInv /\ SInv)
  <1>1. Init => SInv
    BY DEF Init, SInv, Identified, ScriptsRight, Followed
  <1>2. ASSUME IInv, SInv, [ClusterNext]_<<vars, cluster>> PROVE SInv'
    <2>1. CASE UNCHANGED vars
      <3>1. disk' = disk /\ job' = job
        BY <2>1 DEF vars
      <3>2. Identified'
        BY <1>2, <3>1 DEF SInv, Identified
      <3>3. ScriptsRight'
        BY <1>2, <3>1 DEF SInv, ScriptsRight
      <3>4. Followed'
        BY <1>2, <3>1 DEF SInv, Followed
      <3>5. QED
        BY <3>2, <3>3, <3>4 DEF SInv
    <2>2. ASSUME NEW data \in Dicts, NEW backend \in Overrides, NEW docker \in BOOLEAN,
                 CallInit(data, backend, docker)
          PROVE  SInv'
      <3> DEFINE cfg == Override(FromDict(data), backend)
                 at == IF docker THEN 1 ELSE 0
                 result == IF docker THEN "none" ELSE "kept"
      <3>1. cfg \in Configs /\ Call(cfg) /\ Start(cfg, at, result)
        BY <2>2, LoadedIn DEF CallInit
      <3>2. at \in {0, 1} /\ result \in {"none", "kept", "raised"}
        OBVIOUS
      <3> HIDE DEF cfg, at, result
      <3>3. QED
        BY <1>2, <3>1, <3>2, StartsSay
    <2>3. ASSUME NEW data \in Dicts,
                 \/ \E docker \in BOOLEAN : CallLocalnet(data, docker)
                 \/ \E force \in BOOLEAN : CallCompose(data, force)
                 \/ ComposeKept(data) \/ ComposeRefused(data)
          PROVE  SInv'
      <3>1. PICK at \in {0, 1}, result \in {"none", "kept", "raised"} :
              Call(FromDict(data)) /\ Start(FromDict(data), at, result)
        BY <2>3 DEF CallLocalnet, CallCompose, ComposeKept, ComposeRefused
      <3>2. FromDict(data) \in Configs
        BY LoadedIn
      <3>3. QED
        BY <1>2, <3>1, <3>2, StartsSay
    <2>4. CASE Step
      BY <1>2, <2>4, StepsSay
    <2>5. CASE Next
      BY <2>2, <2>3, <2>4, <2>5 DEF Next
    <2>6. QED
      BY <1>2, <2>1, <2>5 DEF ClusterNext, ReadConfig, NewCluster
  <1>3. ClusterInit => IInv /\ SInv
    BY <1>1, InitInv DEF ClusterInit
  <1>4. IInv /\ SInv /\ [ClusterNext]_<<vars, cluster>> => (IInv /\ SInv)'
    BY <1>2, NextInv
  <1>5. QED
    BY <1>3, <1>4, PTL DEF ClusterSpec

\* Once the generator is through, every node has the script it writes for it.
LEMMA GeneratedRight ==
    ASSUME IInv, SInv, Generated, DistinctNodes(job.cfg), NEW i \in DOMAIN Nodes(job.cfg)
    PROVE  Right(disk, job.cfg, Nodes(job.cfg)[i],
                 job.failed \cup Unidentified(disk, job.cfg))
  <1>1. job.cfg # None /\ IsConfig(job.cfg) /\ \A a, k : PassedBy(job, a, k)
    BY GeneratedConfig DEF Generated, IInv, TypeOK
  <1>2. QED
    BY <1>1, ScriptOf DEF SInv, ScriptsRight

\* A script lists every node it should gossip with, but for one whose identity
\* the run failed to derive, and a validator that was laid out without one
\* (_docker_trusted_peers, _docker_service_trusted_peers): in particular every
\* service that comes later in the file.
THEOREM PeersAreComplete == ClusterSpec => []PeersComplete
  <1>1. ASSUME IInv, SInv, Generated, DistinctNodes(job.cfg),
               NEW m \in NamesOf(Nodes(job.cfg))
        PROVE  LET cfg == job.cfg
                   script == disk.dirs[m].script
                   expected == ExpectedPeers(cfg, script.kind)
               IN  /\ Listed(script) \subseteq expected \ {m}
                   /\ expected \ (Listed(script) \cup {m}) \subseteq
                        job.failed \cup
                          {n \in NamesOf(ValidatorNodes(cfg)) : DirOf(n).identity = None}
    <2> DEFINE cfg == job.cfg
    <2>1. PICK i \in DOMAIN Nodes(cfg) : Nodes(cfg)[i].moniker = m
      BY DEF NamesOf
    <2>2. Right(disk, cfg, Nodes(cfg)[i], job.failed \cup Unidentified(disk, cfg))
      BY <1>1, GeneratedRight
    <2>3. Unidentified(disk, cfg) \subseteq
            {n \in NamesOf(ValidatorNodes(cfg)) : DirOf(n).identity = None}
      BY DEF Unidentified, Identity, DirOf, EmptyDir
    <2>4. QED
      BY <2>1, <2>2, <2>3 DEF Right
  <1>2. IInv /\ SInv => PeersComplete
    BY <1>1 DEF PeersComplete, ExpectedPeers, Listed
  <1>3. QED
    BY <1>2, SaidHolds, PTL

\* A public node's preparation ends with the look at the first follow node.
LEMMA PublicDepends ==
    ASSUME NEW cfg, IsConfig(cfg), NEW i \in DOMAIN Nodes(cfg),
           Nodes(cfg)[i].kind = "public"
    PROVE  \E k \in DOMAIN Program(cfg)[i] : Program(cfg)[i][k].do = "depend"
  <1> DEFINE node == Nodes(cfg)[i]
             a == EnsureKeypairs(FollowNodes(cfg))
             b == EnsureKeypairs(Proxies(cfg))
             c == <<Op("script", node)>>
             d == EnsureKeypair(node)
             e == <<Op("depend", node)>>
  <1>1. node \in NodeSet /\ FollowNodes(cfg) \in NodeLists /\ Proxies(cfg) \in NodeLists
        /\ Program(cfg)[i] = Prepare(cfg, node)
    BY KindsAre, ProgramIs DEF Each
  <1>2. Prepare(cfg, node) = a \o b \o c \o d \o e
    BY DEF Prepare, PreparePublic
  <1>3. a \in OpLists /\ b \in OpLists /\ c \in OpLists /\ d \in OpLists
    BY <1>1, EnsuresAll, EnsuresOne, OpType DEF Ensures
  <1>4. e \in OpLists /\ Op("depend", node).do = "depend"
    BY <1>1, OpType
  <1>5. Len(e) = 1 /\ e[1] = Op("depend", node)
    OBVIOUS
  <1> HIDE DEF a, b, c, d, e, node
  <1>6. a \o b \o c \o d \in OpLists
    BY <1>3, OpsFollow
  <1> DEFINE w == a \o b \o c \o d
  <1> HIDE DEF w
  <1>7. /\ Len(w) + 1 \in DOMAIN (w \o e)
        /\ (w \o e)[Len(w) + 1] = e[1]
    <2>1. w \in OpLists
      BY <1>6 DEF w
    <2>2. /\ Len(w) \in Nat /\ DOMAIN (w \o e) = 1 .. Len(w) + Len(e)
          /\ \A k \in 1 .. Len(e) : (w \o e)[Len(w) + k] = e[k]
      BY <1>4, <2>1, OpsFollow
    <2>3. QED
      BY <1>5, <2>2
  <1>8. Program(cfg)[i] = w \o e
    BY <1>1, <1>2 DEF w
  <1>9. QED
    BY <1>4, <1>5, <1>7, <1>8

\* Of nodes of different names each has its service.
LEMMA ServiceOf ==
    ASSUME NEW cfg, IsConfig(cfg), DistinctNodes(cfg), NEW i \in DOMAIN Nodes(cfg)
    PROVE  /\ Nodes(cfg)[i].moniker \in DOMAIN Services(cfg)
           /\ Services(cfg)[Nodes(cfg)[i].moniker] = Entry(cfg, Nodes(cfg)[i])
  <1>1. Nodes(cfg)[i].moniker \in DOMAIN Services(cfg)
    BY DEF Services, NamesOf
  <1>2. QED
    BY <1>1, ServiceIs, NamesDiffer

\* The first validator and the first follow node.
LEMMA FirstNodes ==
    ASSUME NEW cfg, IsConfig(cfg)
    PROVE  /\ 1 \in DOMAIN Nodes(cfg) /\ Nodes(cfg)[1] = ValidatorNodes(cfg)[1]
           /\ Nodes(cfg)[1].kind = "validator" /\ Nodes(cfg)[1].index = 0
           /\ cfg.docker.follow_nodes # <<>> =>
                \E i \in DOMAIN Nodes(cfg) :
                  /\ Nodes(cfg)[i].kind = "follow"
                  /\ Nodes(cfg)[i].moniker = cfg.docker.follow_nodes[1].moniker
  <1>1. 1 \in DOMAIN Nodes(cfg) /\ Nodes(cfg)[1] = ValidatorNodes(cfg)[1]
    <2> DEFINE v == Len(cfg.validators)
               n == Len(Nodes(cfg))
    <2>1. v \in Nat \ {0} /\ n \in Nat \ {0} /\ DOMAIN Nodes(cfg) = 1 .. n
          /\ \A i \in 1 .. n : i <= v => Nodes(cfg)[i] = ValidatorNodes(cfg)[i]
      BY NodesAre, ProgramIs
    <2> HIDE DEF v, n
    <2>2. 1 \in 1 .. n /\ 1 <= v
      BY <2>1
    <2>3. QED
      BY <2>1, <2>2
  <1>2. Nodes(cfg)[1].kind = "validator" /\ Nodes(cfg)[1].index = 0
    <2>1. 1 \in 1 .. Len(cfg.validators)
      BY ValidatorNodesType
    <2>2. QED
      BY <1>1, <2>1, ValidatorNodesType
  <1>3. ASSUME cfg.docker.follow_nodes # <<>>
        PROVE  \E i \in DOMAIN Nodes(cfg) :
                 /\ Nodes(cfg)[i].kind = "follow"
                 /\ Nodes(cfg)[i].moniker = cfg.docker.follow_nodes[1].moniker
    <2> DEFINE ps == cfg.docker.follow_nodes
               f == FollowNodes(cfg)
    <2>1. ps \in PeripheralLists
      BY DEF IsConfig, IsDocker
    <2>2. 1 \in 1 .. Len(ps)
      <3>1. \A S : \A x \in Seq(S) : x # <<>> => 1 \in 1 .. Len(x)
        OBVIOUS
      <3>2. QED
        BY <1>3, <2>1, <3>1 DEF PeripheralLists
    <2>3. f[1].moniker = ps[1].moniker /\ f \in NodeLists /\ Len(f) = Len(ps)
      BY <2>1, <2>2, ServiceNodesType DEF FollowNodes, Kinds
    <2>4. f[1] \in Each(f)
      BY <2>2, <2>3, SeqFacts DEF Each, NodeLists
    <2>5. f[1] \in Each(Nodes(cfg)) /\ f[1].kind = "follow"
      BY <2>4, KindsAre
    <2>6. QED
      BY <2>3, <2>5 DEF Each
  <1>4. QED
    BY <1>1, <1>2, <1>3

\* Every container syncs from one it shares a network with, at an address that
\* one listens on, and waits for one that is there, but for follow nodes when
\* nothing is called "node0" (_docker_follow_node_command and the other commands,
\* depends_on in _generate_two_network_compose).
THEOREM UpstreamsAreThere == ClusterSpec => []UpstreamsResolve
  <1>1. ASSUME IInv, SInv, Generated, DistinctNodes(job.cfg),
               NEW m \in DOMAIN Services(job.cfg)
        PROVE  LET services == Services(job.cfg)
                   validator == ValidatorNodes(job.cfg)[1].moniker
                   script(n) == disk.dirs[n].script
                   nets(n) == {a.net : a \in services[n].networks}
               IN  /\ script(m).kind = services[m].kind
                   /\ script(m).upstream.ip # None =>
                        \E a \in services[validator].networks :
                           /\ a.ip = script(m).upstream.ip /\ a.net \in nets(m)
                           /\ script(validator).listen \in {AnyHost, a.ip}
                   /\ script(m).upstream.service # None =>
                        /\ script(m).upstream.service \in DOMAIN services
                        /\ nets(script(m).upstream.service) \cap nets(m) # {}
                   /\ services[m].dependsOn \notin DOMAIN services \cup {None} <=>
                        services[m].kind = "follow" /\ NodeName[0] \notin DOMAIN services
    <2> DEFINE cfg == job.cfg
               services == Services(cfg)
               v == ValidatorNodes(cfg)[1].moniker
               script(n) == disk.dirs[n].script
               nets(n) == {a.net : a \in services[n].networks}
    <2>1. IsConfig(cfg) /\ cfg # None /\ \A a, k : PassedBy(job, a, k)
      BY <1>1, GeneratedConfig DEF Generated, IInv, TypeOK
    <2>2. PICK i \in DOMAIN Nodes(cfg) : Nodes(cfg)[i].moniker = m
      BY <1>1 DEF Services, NamesOf
    <2> DEFINE node == Nodes(cfg)[i]
               x == AddressStart(cfg, node.kind) + node.index
    <2>3. services[m] = Entry(cfg, node) /\ node \in NodeSet
      BY <1>1, <2>1, <2>2, ServiceOf, KindsAre DEF Each
    <2>4. /\ script(m).kind = node.kind /\ script(m).upstream = Upstream(cfg, node)
      BY <1>1, <2>2, GeneratedRight DEF Right
    <2>5. /\ services[m].kind = node.kind
          /\ services[m].networks = Attachments(cfg, node)
          /\ services[m].dependsOn = DependsOn(cfg, node)
      BY <2>3 DEF Entry
    <2>6. /\ v \in DOMAIN services
          /\ services[v].networks = {Private(cfg, 0)}
          /\ script(v).listen \in {AnyHost, DockerIp(cfg, 0)}
      <3> DEFINE first == Nodes(cfg)[1]
      <3>1. /\ 1 \in DOMAIN Nodes(cfg) /\ first.moniker = v
            /\ first.kind = "validator" /\ first.index = 0
        BY <2>1, FirstNodes
      <3>2. v \in DOMAIN services /\ services[v] = Entry(cfg, first)
        BY <1>1, <2>1, <3>1, ServiceOf
      <3>3. script(v).listen = ListenAddr(cfg, first)
        BY <1>1, <3>1, GeneratedRight DEF Right
      <3>4. services[v].networks = Attachments(cfg, first)
        BY <3>2 DEF Entry
      <3>5. Attachments(cfg, first) = {Private(cfg, 0)}
        BY <3>1 DEF Attachments, AddressStart
      <3>6. ListenAddr(cfg, first) \in {AnyHost, DockerIp(cfg, 0)}
        BY <3>1 DEF ListenAddr
      <3>7. QED
        BY <3>2, <3>3, <3>4, <3>5, <3>6
    <2>7. /\ Private(cfg, 0).ip = DockerIp(cfg, 0)
          /\ \A k : Private(cfg, k).net = cfg.docker.network.name
          /\ \A k : Public(cfg, k).net = cfg.docker.public.name
      BY DEF Private, Public
    <2>8. None \notin Monikers /\ NodeName[0] \in Monikers
          /\ \A n \in DOMAIN services : n \in Monikers
      BY <2>1, NoneIsNothing, MappingTypes, NamesOfEach, KindsAre DEF Services, NodeSet
    <2>9. ASSUME node.kind \in {"follow", "proxy"}
          PROVE  cfg.docker.network.name \in nets(m) /\ cfg.docker.public.name \in nets(m)
      <3>1. services[m].networks =
              {a \in {Private(cfg, x)} : a.net # cfg.docker.public.name}
                \cup {Public(cfg, x)}
        BY <2>5, <2>9 DEF Attachments
      <3>2. Public(cfg, x) \in services[m].networks
        BY <3>1
      <3>3. cfg.docker.network.name # cfg.docker.public.name =>
              Private(cfg, x) \in services[m].networks
        BY <2>7, <3>1
      <3>4. QED
        BY <2>7, <3>2, <3>3
    <2>10. CASE node.kind = "validator"
      <3>1. /\ script(m).upstream.ip = None /\ script(m).upstream.service = None
            /\ services[m].dependsOn = None
        BY <2>4, <2>5, <2>10 DEF Upstream, DependsOn
      <3>2. QED
        BY <2>4, <2>5, <2>10, <3>1
    <2>11. CASE node.kind = "proxy"
      <3>1. /\ script(m).upstream.ip = DockerIp(cfg, 0)
            /\ script(m).upstream.service = None
            /\ services[m].dependsOn = None
        BY <2>4, <2>5, <2>11 DEF Upstream, DependsOn
      <3>2. QED
        BY <2>4, <2>5, <2>6, <2>7, <2>9, <2>11, <3>1
    <2>12. CASE node.kind = "follow"
      <3>1. /\ script(m).upstream.ip = DockerIp(cfg, 0)
            /\ script(m).upstream.service = None
            /\ services[m].dependsOn = NodeName[0]
        BY <2>4, <2>5, <2>12 DEF Upstream, DependsOn
      <3>2. QED
        BY <2>4, <2>5, <2>6, <2>7, <2>8, <2>9, <2>12, <3>1
    <2>13. CASE node.kind = "public"
      <3> DEFINE f == cfg.docker.follow_nodes[1].moniker
      <3>1. cfg.docker.follow_nodes # <<>>
        <4>1. PICK k \in DOMAIN Program(cfg)[i] : Program(cfg)[i][k].do = "depend"
          BY <2>1, <2>13, PublicDepends
        <4>2. i \in DOMAIN Program(cfg)
          BY <2>1, ScriptOf
        <4>3. QED
          BY <1>1, <2>1, <4>1, <4>2 DEF SInv, Followed
      <3>2. /\ script(m).upstream.ip = None /\ script(m).upstream.service = f
            /\ services[m].dependsOn = f
        BY <2>4, <2>5, <2>13, <3>1 DEF Upstream, DependsOn
      <3>3. PICK k \in DOMAIN Nodes(cfg) :
              Nodes(cfg)[k].kind = "follow" /\ Nodes(cfg)[k].moniker = f
        BY <2>1, <3>1, FirstNodes
      <3>4. f \in DOMAIN services /\ services[f] = Entry(cfg, Nodes(cfg)[k])
        BY <1>1, <2>1, <3>3, ServiceOf
      <3>5. \E y : Public(cfg, y) \in services[f].networks
        BY <3>3, <3>4 DEF Entry, Attachments
      <3>6. services[m].networks = {Public(cfg, x)}
        BY <2>5, <2>13 DEF Attachments
      <3>7. cfg.docker.public.name \in nets(f) /\ cfg.docker.public.name \in nets(m)
        BY <2>7, <3>5, <3>6
      <3>8. QED
        BY <2>4, <2>5, <2>13, <3>2, <3>4, <3>7
    <2>14. QED
      BY <2>3, <2>10, <2>11, <2>12, <2>13 DEF NodeSet, Kinds
  <1>2. IInv /\ SInv => UpstreamsResolve
    BY <1>1 DEF UpstreamsResolve
  <1>3. QED
    BY <1>2, SaidHolds, PTL

-----------------------------------------------------------------------------
(* Containers and genesis *)

\* Genesis is that of the layout, with the keys that its validators have.
InPlace(d, cfg, docker) ==
    /\ DistinctValidators(cfg)
    /\ docker => cfg.backend = DEFAULT_BACKEND
    /\ DOMAIN d.genesis.keys = DOMAIN cfg.validators
    /\ d.genesis.addresses = GenesisAddresses(cfg, docker)
    /\ cfg.backend = DEFAULT_BACKEND =>
         \A k \in DOMAIN cfg.validators :
           LET m == cfg.validators[k].moniker
           IN  /\ d.dirs[m] # None /\ d.dirs[m].key \in Nat
               /\ d.dirs[m].key = d.genesis.keys[k]

\* Without a layout there is nothing, and no generator gets past the first script.
LaidOut ==
    IF laid = None
    THEN (\A m \in Monikers : disk.dirs[m] = None) /\ job.part \in {0, 1}
    ELSE InPlace(disk, laid.cfg, laid.docker)

\* The keys of different directories are different, and were made.
KeysDiffer(d, n) ==
    \A m \in Monikers : (d.dirs[m] # None /\ d.dirs[m].key \in Nat) =>
      /\ d.dirs[m].key <= n
      /\ \A o \in Monikers :
           (d.dirs[o] # None /\ d.dirs[o].key = d.dirs[m].key) => o = m

GInv == LaidOut /\ KeysDiffer(disk, made)

\* Its keys are new, and each validator has the one that genesis has for it.
LEMMA LayPlaces ==
    ASSUME TypeOK, NEW cfg \in Configs, NEW docker \in BOOLEAN, NEW saved \in BOOLEAN,
           NEW old \in Disk, Lay(old, cfg, docker, saved), KeysDiffer(old, made)
    PROVE  GInv'
  <1> DEFINE names == NamesOf(ValidatorNodes(cfg))
             count == KeyCount(cfg)
             l == Len(cfg.validators)
  <1>1. /\ disk' \in Disk
        /\ disk'.genesis.keys = KeysOf(cfg)
        /\ disk'.genesis.addresses = GenesisAddresses(cfg, docker)
        /\ \A m \in Monikers :
             /\ m \in names => /\ Place(cfg, m) \in DOMAIN cfg.validators
                               /\ cfg.validators[Place(cfg, m)].moniker = m
                               /\ KeyOf(cfg, Place(cfg, m)) \in KeyFile
                               /\ disk'.dirs[m] = LaidDir(KeyOf(cfg, Place(cfg, m)))
             /\ m \notin names => disk'.dirs[m] = old.dirs[m]
    BY LaidDisk
  <1>2. /\ made' = made + count /\ DistinctValidators(cfg)
        /\ docker => cfg.backend = DEFAULT_BACKEND
        /\ laid' = [cfg |-> cfg, docker |-> docker, saved |-> saved]
    BY DEF Lay
  <1>3. /\ IsConfig(cfg) /\ l \in Nat \ {0} /\ DOMAIN cfg.validators = 1 .. l
        /\ \A k \in 1 .. l : cfg.validators[k].moniker \in names \cap Monikers
    <2>1. IsConfig(cfg)
      BY ConfigType
    <2>2. /\ DOMAIN cfg.validators = 1 .. l
          /\ \A k \in 1 .. l : cfg.validators[k].moniker \in Monikers
      <3> DEFINE vs == cfg.validators
      <3>1. vs \in Seq(Validators)
        BY <2>1 DEF IsConfig, ValidatorLists
      <3> HIDE DEF vs
      <3>2. DOMAIN vs = 1 .. Len(vs) /\ \A k \in 1 .. Len(vs) : vs[k] \in Validators
        BY <3>1, SeqFacts
      <3>3. \A k \in 1 .. Len(vs) : vs[k].moniker \in Monikers
        BY <3>2 DEF Validators
      <3>4. QED
        BY <3>2, <3>3 DEF vs
    <2>3. /\ l \in Nat \ {0} /\ DOMAIN ValidatorNodes(cfg) = 1 .. l
          /\ \A k \in 1 .. l : ValidatorNodes(cfg)[k].moniker = cfg.validators[k].moniker
      BY <2>1, ValidatorNodesType, SeqFacts DEF NodeLists
    <2>4. \A k \in 1 .. l : cfg.validators[k].moniker \in names
      BY <2>3 DEF NamesOf
    <2>5. QED
      BY <2>1, <2>2, <2>3, <2>4
  <1>4. /\ made \in Nat /\ made' \in Nat /\ count \in Nat /\ made <= made'
        /\ cfg.backend = DEFAULT_BACKEND => count = l
    <2>1. made \in Nat
      BY DEF TypeOK
    <2>2. count \in Nat /\ (cfg.backend = DEFAULT_BACKEND => count = l)
      BY <1>3 DEF KeyCount
    <2> HIDE DEF count
    <2>3. QED
      BY <1>2, <2>1, <2>2
  <1>5. None \notin Nat /\ Torn \notin Nat
    BY NoneIsNothing
  <1>6. \A m \in names \cap Monikers :
          /\ disk'.dirs[m] # None
          /\ disk'.dirs[m].key = KeyOf(cfg, Place(cfg, m))
    BY <1>1, LaidDirIs, NoneIsNothing
  <1>7. \A k \in 1 .. l : Place(cfg, cfg.validators[k].moniker) = k
    <2>1. \A i, k \in 1 .. l :
            cfg.validators[i].moniker = cfg.validators[k].moniker => i = k
      BY <1>2, <1>3 DEF DistinctValidators, IsInjective
    <2> HIDE DEF  names
    <2>2. QED
      BY <1>1, <1>3, <2>1
  <1>8. \A k \in 1 .. l : KeyOf(cfg, k) \in Nat =>
          k <= count /\ KeyOf(cfg, k) = made + k
    BY <1>5 DEF KeyOf
  <1>9. cfg.backend = DEFAULT_BACKEND =>
          \A k \in 1 .. l : KeyOf(cfg, k) = made + k
    <2> HIDE DEF count
    <2>1. QED
      BY <1>3, <1>4 DEF KeyOf, count
  <1>10. InPlace(disk', cfg, docker)
    <2>1. \A k \in DOMAIN cfg.validators : disk'.genesis.keys[k] = KeyOf(cfg, k)
      BY <1>1 DEF KeysOf
    <2>2. DOMAIN disk'.genesis.keys = DOMAIN cfg.validators
      BY <1>1 DEF KeysOf
    <2>3. ASSUME cfg.backend = DEFAULT_BACKEND, NEW k \in DOMAIN cfg.validators
          PROVE  LET m == cfg.validators[k].moniker
                 IN  /\ disk'.dirs[m] # None /\ disk'.dirs[m].key \in Nat
                     /\ disk'.dirs[m].key = disk'.genesis.keys[k]
      <3>1. KeyOf(cfg, k) \in Nat
        BY <1>3, <1>4, <1>9, <2>3
      <3> HIDE DEF  names
      <3>2. QED
        BY <1>3, <1>6, <1>7, <2>1, <3>1
    <2>4. QED
      BY <1>1, <1>2, <2>2, <2>3 DEF InPlace
  <1>11. LaidOut'
    <2>1. laid'.cfg = cfg /\ laid'.docker = docker
      BY <1>2
    <2>2. laid' # None
      <3>1. laid' \in Layouts
        BY <1>2 DEF Layouts
      <3>2. QED
        BY <3>1, NoneIsNothing
    <2>3. QED
      BY <1>10, <2>1, <2>2 DEF LaidOut
  <1>12. KeysDiffer(disk', made')
    <2> HIDE DEF  count
    <2>1. ASSUME NEW m \in names \cap Monikers, disk'.dirs[m].key \in Nat
          PROVE  /\ Place(cfg, m) \in 1 .. l /\ Place(cfg, m) <= count
                 /\ disk'.dirs[m].key = made + Place(cfg, m)
                 /\ cfg.validators[Place(cfg, m)].moniker = m
      BY <1>1, <1>3, <1>6, <1>8, <2>1
    <2>2. ASSUME NEW m \in Monikers, m \notin names, disk'.dirs[m] # None,
                 disk'.dirs[m].key \in Nat
          PROVE  /\ disk'.dirs[m].key <= made
                 /\ \A o \in Monikers \ names :
                     (disk'.dirs[o] # None /\ disk'.dirs[o].key = disk'.dirs[m].key) =>
                       o = m
      BY <1>1, <2>2 DEF KeysDiffer
    <2>3. ASSUME NEW m \in Monikers, disk'.dirs[m] # None, disk'.dirs[m].key \in Nat,
                 NEW o \in Monikers, disk'.dirs[o] # None,
                 disk'.dirs[o].key = disk'.dirs[m].key
          PROVE  o = m
      <3>1. CASE m \in names /\ o \in names
        <4>1. /\ Place(cfg, m) \in 1 .. l /\ disk'.dirs[m].key = made + Place(cfg, m)
              /\ cfg.validators[Place(cfg, m)].moniker = m
          BY <2>1, <2>3, <3>1
        <4>2. /\ Place(cfg, o) \in 1 .. l /\ disk'.dirs[o].key = made + Place(cfg, o)
              /\ cfg.validators[Place(cfg, o)].moniker = o
          BY <2>1, <2>3, <3>1
        <4>3. Place(cfg, o) = Place(cfg, m)
          BY <1>4, <2>3, <4>1, <4>2
        <4>4. QED
          BY <4>1, <4>2, <4>3
      <3>2. CASE m \in names /\ o \notin names
        <4>1. Place(cfg, m) \in 1 .. l /\ disk'.dirs[m].key = made + Place(cfg, m)
          BY <2>1, <2>3, <3>2
        <4>2. disk'.dirs[o].key <= made
          BY <2>2, <2>3, <3>2
        <4>3. QED
          BY <1>4, <2>3, <4>1, <4>2
      <3>3. CASE m \notin names /\ o \in names
        <4>1. Place(cfg, o) \in 1 .. l /\ disk'.dirs[o].key = made + Place(cfg, o)
          BY <2>1, <2>3, <3>3
        <4>2. disk'.dirs[m].key <= made
          BY <2>2, <2>3, <3>3
        <4>3. QED
          BY <1>4, <2>3, <4>1, <4>2
      <3>4. CASE m \notin names /\ o \notin names
        BY <2>2, <2>3, <3>4
      <3>5. QED
        BY <3>1, <3>2, <3>3, <3>4
    <2>4. ASSUME NEW m \in Monikers, disk'.dirs[m] # None, disk'.dirs[m].key \in Nat
          PROVE  disk'.dirs[m].key <= made'
      <3>1. CASE m \in names
        <4>1. Place(cfg, m) \in 1 .. l /\ Place(cfg, m) <= count
              /\ disk'.dirs[m].key = made + Place(cfg, m)
          BY <2>1, <2>4, <3>1
        <4>2. QED
          BY <1>2, <1>4, <4>1 DEF count
      <3>2. CASE m \notin names
        <4>1. disk'.dirs[m].key <= made
          BY <2>2, <2>4, <3>2
        <4>2. QED
          BY <1>4, <2>4, <4>1
      <3>3. QED
        BY <3>1, <3>2
    <2>5. QED
      BY <2>3, <2>4 DEF KeysDiffer
  <1>13. QED
    BY <1>11, <1>12 DEF GInv

\* Calls that lay nothing leave the directories alone.
LEMMA SameGenesis ==
    ASSUME GInv, disk'.dirs = disk.dirs, disk'.genesis = disk.genesis, made' = made,
           laid' = laid, laid = None => job'.part \in {0, 1}
    PROVE  GInv'
  <1>1. LaidOut'
    BY DEF GInv, LaidOut, InPlace
  <1>2. KeysDiffer(disk', made')
    BY DEF GInv, KeysDiffer
  <1>3. QED
    BY <1>1, <1>2 DEF GInv

\* A directory is written that has the key it had, or a new one or a torn one where
\* it had none.
LEMMA WrittenPlaced ==
    ASSUME IInv, GInv, laid # None, laid' = laid,
           NEW m \in Monikers, NEW dir \in Dir, Write(m, dir),
           \/ dir.key = DirOf(m).key /\ made' = made
           \/ DirOf(m).key = None /\ dir.key = Torn /\ made' = made
           \/ DirOf(m).key = None /\ dir.key = made + 1 /\ made' = made + 1
    PROVE  GInv'
  <1>1. /\ disk'.genesis = disk.genesis
        /\ disk'.dirs[m] = dir /\ dir # None
        /\ \A n \in Monikers \ {m} : disk'.dirs[n] = disk.dirs[n]
    BY WriteIs DEF IInv
  <1>2. made \in Nat /\ made' \in Nat /\ made <= made'
    BY DEF IInv, TypeOK
  <1>3. None \notin Nat /\ Torn \notin Nat
    BY NoneIsNothing
  <1>4. /\ disk.dirs[m] # None => DirOf(m) = disk.dirs[m]
        /\ disk.dirs[m] = None => DirOf(m).key = None
    BY DirOfInv DEF EmptyDir
  <1>5. dir.key \in Nat =>
          \/ disk.dirs[m] # None /\ dir.key = disk.dirs[m].key
          \/ dir.key = made + 1 /\ made' = made + 1
    BY <1>3, <1>4
  <1>6. (disk.dirs[m] # None /\ disk.dirs[m].key \in Nat) => dir.key = disk.dirs[m].key
    BY <1>3, <1>4
  <1>7. LaidOut'
    <2> DEFINE cfg == laid.cfg
    <2>1. IsConfig(cfg)
      BY ConfigType DEF IInv, TypeOK, Layouts
    <2>2. \A k \in DOMAIN cfg.validators : cfg.validators[k].moniker \in Monikers
      <3> DEFINE vs == cfg.validators
      <3>1. vs \in Seq(Validators)
        BY <2>1 DEF IsConfig, ValidatorLists
      <3> HIDE DEF vs
      <3>2. \A k \in DOMAIN vs : vs[k] \in Validators
        BY <3>1
      <3>3. \A k \in DOMAIN vs : vs[k].moniker \in Monikers
        BY <3>2 DEF Validators
      <3>4. QED
        BY <3>3 DEF vs
    <2>3. InPlace(disk, cfg, laid.docker)
      BY DEF GInv, LaidOut
    <2> HIDE DEF cfg
    <2>4. InPlace(disk', cfg, laid.docker)
      BY <1>1, <1>6, <2>2, <2>3 DEF InPlace
    <2>5. QED
      BY <2>4 DEF LaidOut, cfg
  <1>8. KeysDiffer(disk', made')
    <2>1. \A n \in Monikers : (disk.dirs[n] # None /\ disk.dirs[n].key \in Nat) =>
            /\ disk.dirs[n].key <= made
            /\ \A o \in Monikers :
                 (disk.dirs[o] # None /\ disk.dirs[o].key = disk.dirs[n].key) => o = n
      BY DEF GInv, KeysDiffer
    <2>2. ASSUME NEW n \in Monikers, disk'.dirs[n] # None, disk'.dirs[n].key \in Nat
          PROVE  disk'.dirs[n].key <= made'
      <3>1. \/ disk.dirs[n] # None /\ disk'.dirs[n].key = disk.dirs[n].key
            \/ disk'.dirs[n].key = made + 1 /\ made' = made + 1
        BY <1>1, <1>5, <2>2
      <3>2. QED
        BY <1>2, <2>1, <2>2, <3>1
    <2>3. ASSUME NEW n \in Monikers, disk'.dirs[n] # None, disk'.dirs[n].key \in Nat,
                 NEW o \in Monikers, disk'.dirs[o] # None,
                 disk'.dirs[o].key = disk'.dirs[n].key
          PROVE  o = n
      <3>1. CASE n # m /\ o # m
        BY <1>1, <2>1, <2>3, <3>1
      <3>2. CASE (n = m \/ o = m) /\ disk.dirs[m] # None /\ dir.key = disk.dirs[m].key
        BY <1>1, <2>1, <2>3, <3>2
      <3>3. CASE (n = m \/ o = m) /\ dir.key = made + 1
        <4>1. \A x \in Monikers \ {m} :
                (disk'.dirs[x] # None /\ disk'.dirs[x].key \in Nat) =>
                  disk'.dirs[x].key # made + 1
          BY <1>1, <1>2, <2>1
        <4>2. QED
          BY <1>1, <2>3, <3>3, <4>1
      <3>4. dir.key \in Nat \/ (n # m /\ o # m)
        BY <1>1, <2>3
      <3>5. QED
        BY <1>5, <3>1, <3>2, <3>3, <3>4
    <2>4. QED
      BY <2>2, <2>3 DEF KeysDiffer
  <1>9. QED
    BY <1>7, <1>8 DEF GInv

\* Over nothing the generator raises at its first script, or is killed there.
LEMMA NothingGenerated ==
    ASSUME IInv, GInv, laid = None, Step
    PROVE  GInv'
  <1>1. job.part = 1 /\ \A m \in Monikers : disk.dirs[m] = None
    <2>1. job.part > 0
      BY DEF Step, At, WriteKey, WriteIdentity, IdentityFails, WriteScript,
             ScriptRaises, TakeFollowNode, WriteCompose, Kill
    <2>2. QED
      BY <2>1 DEF GInv, LaidOut
  <1>2. /\ Current = Op("script", Nodes(job.cfg)[1])
        /\ Nodes(job.cfg)[1].kind = "validator" /\ Nodes(job.cfg)[1].moniker \in Monikers
    <2> DEFINE cfg == job.cfg
               node == Nodes(cfg)[1]
    <2>1. /\ IsConfig(cfg) /\ job.pc \in DOMAIN Program(cfg)[1]
      BY <1>1, CurrentIs DEF IInv, TypeOK
    <2>2. 1 \in DOMAIN Nodes(cfg) /\ node.kind = "validator"
      BY <2>1, FirstNodes
    <2>3. Program(cfg)[1] = Prepare(cfg, node)
      BY <2>1, <2>2, ProgramIs
    <2>4. Prepare(cfg, node) = <<Op("script", node)>>
      BY <2>2 DEF Prepare
    <2> HIDE DEF node, cfg
    <2>5. \A x : DOMAIN <<x>> = {1} /\ <<x>>[1] = x
      OBVIOUS
    <2>6. Program(cfg)[1][job.pc] = Op("script", node)
      BY <2>1, <2>3, <2>4, <2>5
    <2>7. Nodes(cfg)[1] \in NodeSet
      BY <2>1, <2>2, KindsAre DEF Each
    <2>8. QED
      BY <1>1, <2>2, <2>6, <2>7 DEF Current, node, cfg, NodeSet
  <1>3. /\ Current.do = "script" /\ Current.node.kind = "validator"
        /\ disk.dirs[Current.node.moniker] = None
    BY <1>1, <1>2 DEF Op
  <1>4. ScriptRaises \/ (Kill /\ UNCHANGED disk)
    BY <1>3 DEF Step, At, WriteKey, WriteIdentity, IdentityFails, WriteScript,
                TakeFollowNode, WriteCompose, Kill
  <1>5. /\ disk' = disk /\ made' = made /\ laid' = laid
        /\ \E result \in {"raised", "killed"} : Stop(result)
    BY <1>4 DEF ScriptRaises, Kill
  <1>6. job'.part = 0
    BY <1>5, StopIs DEF IInv
  <1>7. QED
    BY <1>5, <1>6, SameGenesis

LEMMA StepsPlaced ==
    ASSUME IInv, GInv, laid # None, Step
    PROVE  GInv'
  <1> DEFINE m == Current.node.moniker
  <1>1. /\ job.part > 0 /\ laid' = laid
    BY DEF Step, At, WriteKey, WriteIdentity, IdentityFails, WriteScript,
           ScriptRaises, TakeFollowNode, WriteCompose, Kill
  <1>2. Current.do \in {"key", "identity", "script"} => m \in Monikers
    BY <1>1, CurrentIs DEF IInv, NodeSet
  <1>3. m \in Monikers => DirOf(m) \in Dir
    BY DirOfInv
  <1>4. ASSUME disk'.dirs = disk.dirs, disk'.genesis = disk.genesis, made' = made
        PROVE  GInv'
    BY <1>1, <1>4, SameGenesis
  <1>5. ASSUME NEW compose, disk' = [disk EXCEPT !.compose = compose], made' = made
        PROVE  GInv'
    <2>1. disk'.dirs = disk.dirs /\ disk'.genesis = disk.genesis
      BY <1>5 DEF IInv, TypeOK, Disk
    <2>2. QED
      BY <1>4, <1>5, <2>1
  <1>6. ASSUME Current.do = "key", NEW key \in KeyFile, DirOf(m).key = None,
               Write(m, [DirOf(m) EXCEPT !.key = key]),
               \/ key = Torn /\ made' = made
               \/ key = made + 1 /\ made' = made + 1
        PROVE  GInv'
    <2> DEFINE dir == [DirOf(m) EXCEPT !.key = key]
    <2> HIDE DEF m
    <2>1. dir \in Dir /\ dir.key = key
      BY <1>2, <1>3, <1>6 DEF Dir
    <2> HIDE DEF dir
    <2>2. Write(m, dir)
      BY <1>6 DEF dir
    <2>3. QED
      BY <1>1, <1>2, <1>6, <2>1, <2>2, WrittenPlaced
  <1>7. ASSUME Current.do = "identity", NEW identity \in KeyFile,
               Write(m, [DirOf(m) EXCEPT !.identity = identity]), made' = made
        PROVE  GInv'
    <2> DEFINE dir == [DirOf(m) EXCEPT !.identity = identity]
    <2> HIDE DEF m
    <2>1. dir \in Dir /\ dir.key = DirOf(m).key
      BY <1>2, <1>3, <1>7 DEF Dir
    <2> HIDE DEF dir
    <2>2. Write(m, dir)
      BY <1>7 DEF dir
    <2>3. QED
      BY <1>1, <1>2, <1>7, <2>1, <2>2, WrittenPlaced
  <1>8. ASSUME Current.do = "script", NEW script \in Scripts \cup {Torn},
               NEW genesis \in Genesis \cup {None},
               Write(m, [DirOf(m) EXCEPT !.script = script, !.genesis = genesis]),
               made' = made
        PROVE  GInv'
    <2> DEFINE dir == [DirOf(m) EXCEPT !.script = script, !.genesis = genesis]
    <2> HIDE DEF m
    <2>1. dir \in Dir /\ dir.key = DirOf(m).key
      BY <1>2, <1>3, <1>8 DEF Dir
    <2> HIDE DEF dir
    <2>2. Write(m, dir)
      BY <1>8 DEF dir
    <2>3. QED
      BY <1>1, <1>2, <1>8, <2>1, <2>2, WrittenPlaced
  <1>9. CASE WriteKey
    <2>1. CASE DirOf(m).key = None
      <3>1. /\ Current.do = "key" /\ made < MaxKeys /\ made' = made + 1
            /\ Write(m, [DirOf(m) EXCEPT !.key = made + 1])
        BY <1>9, <2>1 DEF WriteKey, At
      <3> DEFINE key == made + 1
      <3>2. key \in KeyFile
        BY <3>1, Bounds DEF IInv, TypeOK, KeyFile
      <3>3. Write(m, [DirOf(m) EXCEPT !.key = key]) /\ made' = key
        BY <3>1
      <3>4. key = made + 1
        OBVIOUS
      <3> HIDE DEF key, m
      <3>5. QED
        BY <1>6, <2>1, <3>1, <3>2, <3>3, <3>4
    <2>2. CASE DirOf(m).key # None
      BY <1>4, <1>9, <2>2 DEF WriteKey
    <2>3. QED
      BY <2>1, <2>2
  <1>10. CASE WriteIdentity
    <2> DEFINE identity == IF DirOf(m).identity = None THEN DirOf(m).key
                           ELSE DirOf(m).identity
    <2>1. /\ Current.do = "identity" /\ made' = made
          /\ Write(m, [DirOf(m) EXCEPT !.identity = identity])
      BY <1>10 DEF WriteIdentity, At
    <2> HIDE DEF m
    <2>2. identity \in KeyFile
      BY <1>2, <1>3, <2>1 DEF Dir
    <2> HIDE DEF identity
    <2>3. QED
      BY <1>7, <2>1, <2>2
  <1>11. CASE WriteScript
    <2> DEFINE node == Current.node
               script == Script(job.cfg, node)
               genesis == IF node.kind = "validator" \/ disk.genesis = None
                          THEN DirOf(m).genesis ELSE disk.genesis
    <2>1. Current.do = "script" /\ made' = made
      BY <1>11 DEF WriteScript, At
    <2>2. Write(m, [DirOf(m) EXCEPT !.script = script, !.genesis = genesis])
      <3>1. Write(m, [DirOf(m) EXCEPT !.script = script,
                                      !.genesis = IF \/ node.kind = "validator"
                                                     \/ disk.genesis = None
                                                  THEN @ ELSE disk.genesis])
        BY <1>11 DEF WriteScript
      <3>2. QED
        BY <3>1
    <2>3. script \in Scripts
      <3>1. IsConfig(job.cfg) /\ node \in NodeSet
        BY <1>1, <2>1, CurrentIs DEF IInv
      <3>2. QED
        BY <3>1, ScriptType DEF IInv
    <2>4. genesis \in Genesis \cup {None}
      BY <1>2, <1>3, <2>1 DEF IInv, Dir, TypeOK, Disk
    <2> HIDE DEF script, genesis, m
    <2>5. QED
      BY <1>8, <2>1, <2>2, <2>3, <2>4
  <1>12. CASE WriteCompose
    BY <1>5, <1>12 DEF WriteCompose
  <1>13. CASE IdentityFails \/ ScriptRaises \/ TakeFollowNode
    BY <1>4, <1>13 DEF IdentityFails, ScriptRaises, TakeFollowNode
  <1>14. CASE Kill
    <2>1. made' = made
      BY <1>14 DEF Kill
    <2>2. Torn \in KeyFile
      BY DEF KeyFile
    <2>3. CASE UNCHANGED disk
      BY <1>4, <2>1, <2>3
    <2>4. CASE /\ Current.do = "key" /\ DirOf(m).key = None
               /\ Write(m, [DirOf(m) EXCEPT !.key = Torn])
      BY <1>6, <2>1, <2>2, <2>4
    <2>5. CASE /\ Current.do = "identity"
               /\ Write(m, [DirOf(m) EXCEPT !.identity = Torn])
      BY <1>7, <2>1, <2>2, <2>5
    <2>6. CASE /\ Current.do = "script"
               /\ Write(m, [DirOf(m) EXCEPT !.script = Torn])
      <3> DEFINE dir == [DirOf(m) EXCEPT !.script = Torn]
      <3> HIDE DEF m
      <3>1. dir \in Dir /\ dir.key = DirOf(m).key
        BY <1>2, <1>3, <2>6 DEF Dir
      <3> HIDE DEF dir
      <3>2. Write(m, dir)
        BY <2>6 DEF dir
      <3>3. QED
        BY <1>1, <1>2, <2>1, <2>6, <3>1, <3>2, WrittenPlaced
    <2>7. CASE disk' = [disk EXCEPT !.compose = Torn]
      BY <1>5, <2>1, <2>7
    <2>8. QED
      BY <1>14, <2>3, <2>4, <2>5, <2>6, <2>7 DEF Kill, At
  <1>15. QED
    BY <1>9, <1>10, <1>11, <1>12, <1>13, <1>14 DEF Step

LEMMA CallsPlaced ==
    ASSUME IInv, GInv, NEW data \in Dicts,
           \/ \E backend \in Overrides, docker \in BOOLEAN :
                CallInit(data, backend, docker)
           \/ \E docker \in BOOLEAN : CallLocalnet(data, docker)
           \/ \E force \in BOOLEAN : CallCompose(data, force)
           \/ ComposeKept(data) \/ ComposeRefused(data)
    PROVE  GInv'
  <1>1. ASSUME NEW old \in Disk, \A m \in Monikers : old.dirs[m] = None
        PROVE  KeysDiffer(old, made)
    BY <1>1 DEF KeysDiffer
  <1>2. ASSUME NEW backend \in Overrides, NEW docker \in BOOLEAN,
               CallInit(data, backend, docker)
        PROVE  GInv'
    <2> DEFINE cfg == Override(FromDict(data), backend)
               old == [EmptyDisk EXCEPT !.yaml = ToDict(cfg)]
               saved == TRUE
    <2>1. cfg \in Configs
      BY LoadedIn
    <2>2. saved \in BOOLEAN /\ Lay(old, cfg, docker, saved)
      BY <1>2 DEF CallInit
    <2> HIDE DEF cfg, saved
    <2>3. old \in Disk /\ \A m \in Monikers : old.dirs[m] = None
      BY <2>1, EmptyDiskType
    <2> HIDE DEF old
    <2>4. QED
      BY <1>1, <2>1, <2>2, <2>3, LayPlaces DEF IInv
  <1>3. ASSUME NEW docker \in BOOLEAN, CallLocalnet(data, docker)
        PROVE  GInv'
    <2> DEFINE cfg == FromDict(data)
               saved == FALSE
    <2>1. cfg \in Configs
      BY LoadedIn
    <2>2. PICK old \in {disk, EmptyDisk} : Lay(old, cfg, docker, saved)
      BY <1>3 DEF CallLocalnet
    <2>3. saved \in BOOLEAN
      OBVIOUS
    <2> HIDE DEF cfg, saved
    <2>4. old \in Disk /\ KeysDiffer(old, made)
      <3>1. CASE old = disk
        BY <3>1 DEF IInv, TypeOK, GInv
      <3>2. CASE old = EmptyDisk
        BY <1>1, <3>2, EmptyDiskType
      <3>3. QED
        BY <3>1, <3>2
    <2>5. QED
      BY <2>1, <2>2, <2>3, <2>4, LayPlaces DEF IInv
  <1>4. CASE \/ \E force \in BOOLEAN : CallCompose(data, force)
             \/ ComposeKept(data) \/ ComposeRefused(data)
    <2>1. /\ UNCHANGED <<disk, made, laid>>
          /\ \E at \in {0, 1}, result \in Results : Start(FromDict(data), at, result)
      BY <1>4 DEF CallCompose, ComposeKept, ComposeRefused, Results
    <2>2. job'.part \in {0, 1}
      BY <2>1 DEF Start
    <2>3. QED
      BY <2>1, <2>2, SameGenesis
  <1>5. QED
    BY <1>2, <1>3, <1>4

LEMMA PlacedHolds == ClusterSpec => [](IInv /\ SInv /\ GInv)
  <1>1. Init => GInv
    <2>1. ASSUME Init PROVE LaidOut
      BY <2>1, EmptyDiskType DEF Init, LaidOut
    <2>2. ASSUME Init PROVE KeysDiffer(disk, made)
      BY <2>2, EmptyDiskType DEF Init, KeysDiffer
    <2>3. QED
      BY <2>1, <2>2 DEF GInv
  <1>2. ASSUME IInv, GInv, [ClusterNext]_<<vars, cluster>> PROVE GInv'
    <2>1. CASE UNCHANGED vars
      <3>1. disk' = disk /\ job' = job /\ made' = made /\ laid' = laid
        BY <2>1 DEF vars
      <3>2. laid = None => job'.part \in {0, 1}
        BY <1>2, <3>1 DEF GInv, LaidOut
      <3>3. QED
        BY <1>2, <3>1, <3>2, SameGenesis
    <2>2. CASE Step
      BY <1>2, <2>2, NothingGenerated, StepsPlaced
    <2>3. CASE Next
      BY <1>2, <2>2, <2>3, CallsPlaced DEF Next
    <2>4. QED
      BY <1>2, <2>1, <2>3 DEF ClusterNext, ReadConfig, NewCluster
  <1>3. ClusterInit => GInv
    BY <1>1 DEF ClusterInit
  <1>4. QED
    BY <1>2, <1>3, SaidHolds, PTL DEF ClusterSpec

\* A prefix, place by place.
LEMMA PrefixIs ==
    ASSUME NEW S, NEW s \in Seq(S), NEW t \in Seq(S)
    PROVE  IsPrefix(s, t) <=>
             Len(s) <= Len(t) /\ \A i \in 1 .. Len(s) : s[i] = t[i]
  <1> DEFINE n == Len(s)
             u == SubSeq(t, 1, n)
  <1>1. /\ n \in Nat /\ Len(t) \in Nat
        /\ \A i \in 1 .. n : s[i] \in S
        /\ \A i \in 1 .. Len(t) : t[i] \in S
    BY SeqFacts
  <1>2. SubSeq(s, 1, n) = s
    BY SubSeqFull
  <1>3. ASSUME n <= Len(t)
        PROVE  u \in Seq(S) /\ Len(u) = n /\ \A i \in 1 .. n : u[i] = t[i]
    <2>1. 1 \in Int /\ n \in Int /\ \A i \in 1 .. n : t[i] \in S
      BY <1>1, <1>3
    <2>2. /\ u \in Seq(S) /\ Len(u) = IF 1 <= n THEN n - 1 + 1 ELSE 0
          /\ \A i \in 1 .. n - 1 + 1 : u[i] = t[1 + i - 1]
      <3> HIDE DEF n
      <3>1. QED
        BY <2>1, SubSeqProperties
    <2> HIDE DEF n, u
    <2>3. QED
      BY <1>1, <2>2
  <1>4. (n <= Len(t)) => (s = u <=> \A i \in 1 .. n : s[i] = t[i])
    <2> HIDE DEF u
    <2>1. QED
      BY <1>3, SeqFacts
  <1>5. QED
    BY <1>2, <1>4 DEF IsPrefix

\* The validators of a configuration and their containers.
LEMMA ContainerOf ==
    ASSUME NEW cfg, IsConfig(cfg), DistinctNodes(cfg), NEW i \in DOMAIN ValidatorNodes(cfg)
    PROVE  LET m == ValidatorNodes(cfg)[i].moniker
           IN  /\ i \in Nat \ {0}
               /\ i \in DOMAIN Nodes(cfg) /\ Nodes(cfg)[i].moniker = m
               /\ m = cfg.validators[i].moniker /\ m \in Monikers
               /\ Services(cfg)[m].networks = {Private(cfg, i - 1)}
               /\ Private(cfg, i - 1).ip = DockerIp(cfg, i - 1)
  <1> DEFINE v == Len(cfg.validators)
             n == Len(Nodes(cfg))
             node == Nodes(cfg)[i]
  <1>1. /\ v \in Nat \ {0} /\ i \in 1 .. v
        /\ ValidatorNodes(cfg)[i].kind = "validator"
        /\ ValidatorNodes(cfg)[i].index = i - 1
        /\ ValidatorNodes(cfg)[i].moniker = cfg.validators[i].moniker
    BY ValidatorNodesType, SeqFacts DEF NodeLists
  <1>2. i \in DOMAIN Nodes(cfg) /\ node = ValidatorNodes(cfg)[i]
    <2>1. n \in Nat \ {0} /\ DOMAIN Nodes(cfg) = 1 .. n /\ v <= n
          /\ \A k \in 1 .. n : k <= v => Nodes(cfg)[k] = ValidatorNodes(cfg)[k]
      <3> DEFINE f == Len(cfg.docker.follow_nodes)
                 p == Len(cfg.docker.p2p_proxies)
                 q == Len(cfg.docker.public_nodes)
      <3>1. f \in Nat /\ p \in Nat /\ q \in Nat
        BY SeqFacts DEF IsConfig, IsDocker, PeripheralLists
      <3>2. n = v + f + p + q
            /\ \A k \in 1 .. n : k <= v => Nodes(cfg)[k] = ValidatorNodes(cfg)[k]
        BY NodesAre
      <3>3. n \in Nat \ {0} /\ DOMAIN Nodes(cfg) = 1 .. n
        BY ProgramIs
      <3> HIDE DEF f, p, q, v, n
      <3>4. v <= n
        BY <1>1, <3>1, <3>2
      <3>5. QED
        BY <3>2, <3>3, <3>4
    <2> HIDE DEF v, n, node
    <2>2. i \in 1 .. n /\ i <= v
      BY <1>1, <2>1
    <2>3. QED
      BY <2>1, <2>2 DEF node
  <1>3. node \in NodeSet
    BY <1>2, KindsAre DEF Each
  <1>4. Services(cfg)[node.moniker] = Entry(cfg, node)
    BY <1>2, ServiceOf
  <1>5. AddressStart(cfg, node.kind) + node.index = i - 1
    <2>1. AddressStart(cfg, node.kind) = 0
      BY <1>1, <1>2 DEF AddressStart
    <2>2. node.index = i - 1
      BY <1>1, <1>2
    <2> HIDE DEF node, v
    <2>3. QED
      BY <1>1, <2>1, <2>2
  <1>6. Entry(cfg, node).networks = {Private(cfg, i - 1)}
    BY <1>1, <1>2, <1>5 DEF Entry, Attachments
  <1>7. Private(cfg, i - 1).ip = DockerIp(cfg, i - 1)
    BY DEF Private
  <1>8. QED
    BY <1>1, <1>2, <1>3, <1>4, <1>6, <1>7 DEF NodeSet

\* Containers run on the addresses of genesis with the keys genesis has for them
\* exactly when generate_docker_compose works over a layout that was made for
\* Docker, on its subnet and with its validators in this order, but for
\* coincidences (docker_ip in generate_localnet and in the compose services).
THEOREM ContainersAreInGenesis == ClusterSpec => []ContainersMatchGenesis
  <1>1. ASSUME IInv, SInv, GInv, Generated, DistinctNodes(job.cfg),
               SameSubnet(job.cfg) \/ AddressesApart(job.cfg)
        PROVE  LET services == Services(job.cfg)
                   validators == ValidatorNodes(job.cfg)
                   matches == \A i \in DOMAIN validators :
                                LET m == validators[i].moniker
                                IN  \E k \in DOMAIN disk.genesis.keys :
                                      /\ disk.dirs[m].key = disk.genesis.keys[k]
                                      /\ \E a \in services[m].networks :
                                           a.ip = disk.genesis.addresses[k].host
                   names(cfg) == [i \in DOMAIN cfg.validators |->
                                    cfg.validators[i].moniker]
               IN  matches <=> /\ SameSubnet(job.cfg)
                               /\ IsPrefix(names(job.cfg), names(laid.cfg))
    <2> DEFINE cfg == job.cfg
               under == laid.cfg
               j == Len(cfg.validators)
               l == Len(under.validators)
               names(c) == [i \in DOMAIN c.validators |-> c.validators[i].moniker]
               vs == ValidatorNodes(cfg)
               matches == \A i \in DOMAIN vs :
                            LET m == vs[i].moniker
                            IN  \E k \in DOMAIN disk.genesis.keys :
                                  /\ disk.dirs[m].key = disk.genesis.keys[k]
                                  /\ \E a \in Services(cfg)[m].networks :
                                       a.ip = disk.genesis.addresses[k].host
               placed(i, k) == /\ disk.dirs[cfg.validators[i].moniker].key
                                    = disk.genesis.keys[k]
                               /\ DockerIp(cfg, i - 1) = disk.genesis.addresses[k].host
    <2>1. IsConfig(cfg)
      BY <1>1, GeneratedConfig
    <2>2. /\ DOMAIN vs = 1 .. j /\ j \in Nat \ {0} /\ DOMAIN cfg.validators = 1 .. j
          /\ \A i \in 1 .. j :
               /\ disk.dirs[cfg.validators[i].moniker] # None
               /\ cfg.validators[i].moniker \in Monikers
      <3>1. DOMAIN vs = 1 .. j /\ j \in Nat \ {0}
        BY <2>1, ValidatorNodesType, SeqFacts DEF NodeLists
      <3>2. DOMAIN cfg.validators = 1 .. j
        BY <2>1, SeqFacts DEF IsConfig, ValidatorLists
      <3>3. ASSUME NEW i \in 1 .. j
            PROVE  /\ disk.dirs[cfg.validators[i].moniker] # None
                   /\ cfg.validators[i].moniker \in Monikers
        <4>1. /\ i \in DOMAIN Nodes(cfg)
              /\ Nodes(cfg)[i].moniker = cfg.validators[i].moniker
              /\ cfg.validators[i].moniker \in Monikers
          BY <1>1, <2>1, <3>1, ContainerOf
        <4>2. QED
          BY <1>1, <4>1, GeneratedRight DEF Right
      <3>4. QED
        BY <3>1, <3>2, <3>3
    <2>3. laid # None /\ IsConfig(under) /\ InPlace(disk, under, laid.docker)
      <3>1. laid # None
        <4>1. 1 \in 1 .. j
          BY <2>2
        <4>2. QED
          BY <1>1, <2>2, <4>1 DEF GInv, LaidOut
      <3>2. under \in Configs
        BY <1>1, <3>1 DEF IInv, TypeOK, Layouts
      <3>3. QED
        BY <1>1, <3>1, <3>2, ConfigType DEF GInv, LaidOut
    <2>4. /\ l \in Nat \ {0} /\ DOMAIN under.validators = 1 .. l
          /\ \A k \in 1 .. l : under.validators[k].moniker \in Monikers
      <3>1. l \in Nat \ {0}
        BY <2>3, ValidatorNodesType
      <3> DEFINE us == under.validators
      <3>2. us \in Seq(Validators)
        BY <2>3 DEF IsConfig, ValidatorLists
      <3> HIDE DEF us
      <3>3. DOMAIN us = 1 .. Len(us) /\ \A k \in 1 .. Len(us) : us[k] \in Validators
        BY <3>2, SeqFacts
      <3>4. \A k \in 1 .. Len(us) : us[k].moniker \in Monikers
        BY <3>3 DEF Validators
      <3>5. QED
        BY <3>1, <3>3, <3>4 DEF us
    <2>5. DOMAIN disk.genesis.keys = 1 .. l /\ DOMAIN disk.genesis.addresses = 1 .. l
      BY <2>3, <2>4 DEF InPlace, GenesisAddresses
    <2>6. matches <=> \A i \in 1 .. j : \E k \in 1 .. l : placed(i, k)
      <3>1. ASSUME NEW i \in 1 .. j, NEW k
            PROVE  LET m == vs[i].moniker
                   IN  (/\ disk.dirs[m].key = disk.genesis.keys[k]
                        /\ \E a \in Services(cfg)[m].networks :
                             a.ip = disk.genesis.addresses[k].host) <=> placed(i, k)
        <4>1. /\ vs[i].moniker = cfg.validators[i].moniker
              /\ Services(cfg)[vs[i].moniker].networks = {Private(cfg, i - 1)}
              /\ Private(cfg, i - 1).ip = DockerIp(cfg, i - 1)
          BY <1>1, <2>1, <2>2, ContainerOf
        <4>2. QED
          BY <4>1
      <3> HIDE DEF placed, vs
      <3>2. QED
        BY <2>2, <2>5, <3>1
    <2>7. IsPrefix(names(cfg), names(under)) <=>
            /\ j <= l
            /\ \A i \in 1 .. j : cfg.validators[i].moniker = under.validators[i].moniker
      <3> DEFINE s == names(cfg)
                 t == names(under)
      <3>1. s \in [1 .. j -> Monikers] /\ t \in [1 .. l -> Monikers]
        BY <2>2, <2>4
      <3>2. /\ \A i \in 1 .. j : s[i] = cfg.validators[i].moniker
            /\ \A i \in 1 .. l : t[i] = under.validators[i].moniker
        BY <2>2, <2>4
      <3> HIDE DEF s, t, j, l
      <3>3. s \in Seq(Monikers) /\ t \in Seq(Monikers) /\ Len(s) = j /\ Len(t) = l
        BY <2>2, <2>4, <3>1, SeqFromFunction
      <3>4. IsPrefix(s, t) <=> j <= l /\ \A i \in 1 .. j : s[i] = t[i]
        BY <3>3, PrefixIs
      <3>5. j <= l => \A i \in 1 .. j : t[i] = under.validators[i].moniker
        BY <2>2, <2>4, <3>2
      <3>6. QED
        BY <3>2, <3>4, <3>5 DEF s, t
    <2>8. SameSubnet(cfg) =>
            /\ \A k \in 1 .. l : disk.genesis.addresses[k].host = DockerIp(cfg, k - 1)
            /\ \A k \in 1 .. l : LET m == under.validators[k].moniker
                                 IN  /\ disk.dirs[m] # None /\ disk.dirs[m].key \in Nat
                                     /\ disk.dirs[m].key = disk.genesis.keys[k]
      <3>1. ASSUME SameSubnet(cfg), NEW k \in 1 .. l
            PROVE  disk.genesis.addresses[k].host = DockerIp(cfg, k - 1)
        <4>1. disk.genesis.addresses[k].host = DockerIp(under, k - 1)
          BY <2>3, <2>4, <3>1 DEF InPlace, GenesisAddresses, SameSubnet
        <4>2. QED
          BY <3>1, <4>1 DEF SameSubnet, DockerIp
      <3>2. SameSubnet(cfg) => under.backend = DEFAULT_BACKEND
        BY <2>3 DEF SameSubnet, InPlace
      <3>3. QED
        BY <2>3, <2>4, <3>1, <3>2 DEF InPlace
    <2> HIDE DEF cfg, under, names, vs, matches, j, l
    <2>9. ASSUME matches
          PROVE  SameSubnet(cfg) /\ IsPrefix(names(cfg), names(under))
      <3>1. SameSubnet(cfg)
        <4>1. 1 \in 1 .. j
          BY <2>2
        <4>2. PICK k \in 1 .. l : placed(1, k)
          BY <2>6, <2>9, <4>1
        <4>3. ~AddressesApart(cfg)
          BY <2>2, <2>5, <4>1, <4>2 DEF AddressesApart
        <4>4. QED
          BY <1>1, <4>3 DEF cfg
      <3>2. ASSUME NEW i \in 1 .. j
            PROVE  i \in 1 .. l /\ cfg.validators[i].moniker = under.validators[i].moniker
        <4>1. PICK k \in 1 .. l : placed(i, k)
          BY <2>6, <2>9
        <4>2. DockerIp(cfg, i - 1) = DockerIp(cfg, k - 1)
          BY <2>8, <3>1, <4>1
        <4>3. i = k
          <5>1. cfg.docker.network.subnet.address \in Nat
            BY <2>1 DEF IsConfig, IsDocker, Subnets
          <5>2. QED
            BY <2>2, <2>4, <4>2, <5>1 DEF DockerIp, DOCKER_IP_HOST_OCTET_BASE
        <4>4. cfg.validators[i].moniker = under.validators[k].moniker
          <5> DEFINE m == cfg.validators[i].moniker
                     o == under.validators[k].moniker
          <5>1. m \in Monikers /\ o \in Monikers
            BY <2>2, <2>4
          <5>2. disk.dirs[o] # None /\ disk.dirs[o].key \in Nat
            BY <2>8, <3>1
          <5>3. disk.dirs[m] # None /\ disk.dirs[m].key = disk.dirs[o].key
            BY <2>2, <2>8, <3>1, <4>1
          <5> HIDE DEF m, o
          <5>4. m = o
            BY <1>1, <5>1, <5>2, <5>3 DEF GInv, KeysDiffer
          <5>5. QED
            BY <5>4 DEF m, o
        <4>5. QED
          BY <4>1, <4>3, <4>4
      <3>3. j <= l
        BY <2>2, <2>4, <3>2
      <3>4. QED
        BY <2>7, <3>1, <3>2, <3>3
    <2>10. ASSUME SameSubnet(cfg), IsPrefix(names(cfg), names(under))
           PROVE  matches
      <3>1. ASSUME NEW i \in 1 .. j PROVE i \in 1 .. l /\ placed(i, i)
        <4>1. i \in 1 .. l /\ cfg.validators[i].moniker = under.validators[i].moniker
          BY <2>2, <2>4, <2>7, <2>10
        <4>2. QED
          BY <2>8, <2>10, <4>1
      <3>2. QED
        BY <2>6, <3>1
    <2>11. QED
      BY <2>9, <2>10 DEF matches, names, cfg, under, vs
  <1>2. IInv /\ SInv /\ GInv => ContainersMatchGenesis
    BY <1>1 DEF ContainersMatchGenesis
  <1>3. QED
    BY <1>2, PlacedHolds, PTL
-----------------------------------------------------------------------------
(* Endpoints *)

LEMMA OnlyNamed ==
    ASSUME NEW nodes, NEW m, NEW i \in DOMAIN nodes, i \in Nat, nodes[i].moniker = m,
           \A k \in DOMAIN nodes : nodes[k].moniker = m => k = i
    PROVE  Named(nodes, m) # {} /\ FirstNamed(nodes, m) = nodes[i]
  <1>1. Named(nodes, m) = {i}
    BY DEF Named
  <1>2. Min({i}) = i
    BY DEF Min
  <1>3. QED
    BY <1>1, <1>2 DEF FirstNamed

\* A node that the endpoints are asked for among all nodes: follow nodes come
\* after the validators, public nodes after the proxies too.
AskedAt(cfg, k) ==
    IF k <= Len(cfg.docker.follow_nodes) THEN Len(cfg.validators) + k
    ELSE Len(cfg.validators) + Len(cfg.docker.p2p_proxies) + k

LEMMA AskedAre ==
    ASSUME NEW cfg, IsConfig(cfg)
    PROVE  LET services == cfg.docker.follow_nodes \o cfg.docker.public_nodes
           IN  /\ \A k \in DOMAIN services :
                    /\ k \in Nat /\ AskedAt(cfg, k) \in DOMAIN Nodes(cfg)
                    /\ AskedAt(cfg, k) > Len(cfg.validators)
                    /\ Nodes(cfg)[AskedAt(cfg, k)].kind \in {"follow", "public"}
                    /\ services[k].moniker = Nodes(cfg)[AskedAt(cfg, k)].moniker
                    /\ services[k].port = Nodes(cfg)[AskedAt(cfg, k)].port
                    /\ \A l \in DOMAIN services :
                         AskedAt(cfg, k) = AskedAt(cfg, l) => k = l
               /\ \A i \in DOMAIN Nodes(cfg) :
                    Nodes(cfg)[i].kind \in {"follow", "public"} =>
                      \E k \in DOMAIN services : AskedAt(cfg, k) = i
  <1> DEFINE fs == cfg.docker.follow_nodes
             ps == cfg.docker.public_nodes
             xs == cfg.docker.p2p_proxies
             services == fs \o ps
             v == Len(cfg.validators)
             f == Len(fs)
             x == Len(xs)
             p == Len(ps)
             n == Len(Nodes(cfg))
  <1>1. /\ fs \in PeripheralLists /\ ps \in PeripheralLists /\ xs \in PeripheralLists
    BY DEF IsConfig, IsDocker
  <1>2. f \in Nat /\ p \in Nat /\ x \in Nat /\ v \in Nat
    BY <1>1, SeqFacts, ValidatorNodesType DEF PeripheralLists
  <1>3. DOMAIN services = 1 .. f + p
        /\ \A k \in 1 .. f + p : services[k] = IF k <= f THEN fs[k] ELSE ps[k - f]
    <2> HIDE DEF fs, ps
    <2>1. \A S : \A s, t \in Seq(S) :
            /\ DOMAIN (s \o t) = 1 .. Len(s) + Len(t)
            /\ \A k \in 1 .. Len(s) + Len(t) :
                 (s \o t)[k] = IF k <= Len(s) THEN s[k] ELSE t[k - Len(s)]
      OBVIOUS
    <2>2. QED
      BY <1>1, <2>1 DEF PeripheralLists
  <1>4. /\ n = v + f + x + p /\ DOMAIN Nodes(cfg) = 1 .. n
        /\ \A i \in 1 .. n :
             Nodes(cfg)[i] = IF i <= v THEN ValidatorNodes(cfg)[i]
                             ELSE IF i <= v + f THEN FollowNodes(cfg)[i - v]
                             ELSE IF i <= v + f + x THEN Proxies(cfg)[i - (v + f)]
                             ELSE PublicNodes(cfg)[i - (v + f + x)]
    BY NodesAre, SeqFacts DEF NodeLists
  <1>5. /\ \A k \in 1 .. v : ValidatorNodes(cfg)[k].kind = "validator"
        /\ \A k \in 1 .. x : Proxies(cfg)[k].kind = "proxy"
        /\ \A k \in 1 .. f : /\ FollowNodes(cfg)[k].kind = "follow"
                             /\ FollowNodes(cfg)[k].moniker = fs[k].moniker
                             /\ FollowNodes(cfg)[k].port = fs[k].port
        /\ \A k \in 1 .. p : /\ PublicNodes(cfg)[k].kind = "public"
                             /\ PublicNodes(cfg)[k].moniker = ps[k].moniker
                             /\ PublicNodes(cfg)[k].port = ps[k].port
    <2>1. {"follow", "proxy", "public"} \subseteq Kinds
      BY DEF Kinds
    <2>2. \A k \in 1 .. v : ValidatorNodes(cfg)[k].kind = "validator"
      BY ValidatorNodesType
    <2>3. \A k \in 1 .. x : Proxies(cfg)[k].kind = "proxy"
      BY <1>1, <2>1, ServiceNodesType DEF Proxies
    <2>4. \A k \in 1 .. f : /\ FollowNodes(cfg)[k].kind = "follow"
                            /\ FollowNodes(cfg)[k].moniker = fs[k].moniker
                            /\ FollowNodes(cfg)[k].port = fs[k].port
      BY <1>1, <2>1, ServiceNodesType DEF FollowNodes
    <2>5. \A k \in 1 .. p : /\ PublicNodes(cfg)[k].kind = "public"
                            /\ PublicNodes(cfg)[k].moniker = ps[k].moniker
                            /\ PublicNodes(cfg)[k].port = ps[k].port
      BY <1>1, <2>1, ServiceNodesType DEF PublicNodes
    <2>6. QED
      BY <2>2, <2>3, <2>4, <2>5
  <1> DEFINE at(k) == IF k <= f THEN v + k ELSE v + x + k
  <1>6. \A k : AskedAt(cfg, k) = at(k)
    BY DEF AskedAt
  <1> HIDE DEF fs, ps, xs, services, v, f, x, p, n
  <1>7. ASSUME NEW k \in 1 .. f + p
        PROVE  /\ at(k) \in 1 .. n /\ at(k) > v
               /\ Nodes(cfg)[at(k)].kind \in {"follow", "public"}
               /\ services[k].moniker = Nodes(cfg)[at(k)].moniker
               /\ services[k].port = Nodes(cfg)[at(k)].port
    <2>1. CASE k <= f
      <3>1. k \in 1 .. f /\ at(k) = v + k /\ at(k) \in 1 .. n
            /\ ~(v + k <= v) /\ v + k <= v + f /\ v + k - v = k
        BY <1>2, <1>4, <2>1
      <3>2. ASSUME NEW i, i = at(k)
            PROVE  Nodes(cfg)[i] = FollowNodes(cfg)[k]
        <4> HIDE DEF at
        <4>1. i \in 1 .. n /\ i = v + k
          BY <3>1, <3>2
        <4>2. /\ ~(i <= v) /\ i <= v + f
              /\ i - v = k
          BY <1>2, <3>1, <4>1
        <4>3. Nodes(cfg)[i] = FollowNodes(cfg)[i - v]
          BY <1>4, <4>1, <4>2
        <4>4. QED
          BY <4>2, <4>3
      <3>3. services[k] = fs[k]
        BY <1>3, <2>1
      <3>4. Nodes(cfg)[at(k)] = FollowNodes(cfg)[k]
        BY <3>2
      <3>5. at(k) > v
        BY <1>2, <3>1
      <3> HIDE DEF at
      <3>6. QED
        BY <1>5, <3>1, <3>3, <3>4, <3>5
    <2>2. CASE ~(k <= f)
      <3>1. k - f \in 1 .. p /\ at(k) = v + x + k /\ at(k) \in 1 .. n
            /\ ~(v + x + k <= v) /\ ~(v + x + k <= v + f) /\ ~(v + x + k <= v + f + x)
            /\ v + x + k - (v + f + x) = k - f
        BY <1>2, <1>4, <2>2
      <3>2. ASSUME NEW i, i = at(k)
            PROVE  Nodes(cfg)[i] = PublicNodes(cfg)[k - f]
        <4> HIDE DEF at
        <4>1. i \in 1 .. n /\ i = v + x + k
          BY <3>1, <3>2
        <4>2. /\ ~(i <= v) /\ ~(i <= v + f) /\ ~(i <= v + f + x)
              /\ i - (v + f + x) = k - f
          BY <1>2, <3>1, <4>1
        <4>3. Nodes(cfg)[i] = PublicNodes(cfg)[i - (v + f + x)]
          BY <1>4, <4>1, <4>2
        <4>4. QED
          BY <4>2, <4>3
      <3>3. services[k] = ps[k - f]
        BY <1>3, <2>2
      <3>4. Nodes(cfg)[at(k)] = PublicNodes(cfg)[k - f]
        BY <3>2
      <3>5. at(k) > v
        BY <1>2, <3>1
      <3> HIDE DEF at
      <3>6. QED
        BY <1>5, <3>1, <3>3, <3>4, <3>5
    <2>3. QED
      BY <2>1, <2>2
  <1>8. \A k, l \in 1 .. f + p : at(k) = at(l) => k = l
    BY <1>2
  <1>9. ASSUME NEW i \in 1 .. n, Nodes(cfg)[i].kind \in {"follow", "public"}
        PROVE  \E k \in 1 .. f + p : at(k) = i
    <2>1. ~(i <= v)
      BY <1>2, <1>4, <1>5, <1>9
    <2>2. ~(v + f < i /\ i <= v + f + x)
      <3>1. ASSUME v + f < i, i <= v + f + x PROVE FALSE
        <4>1. i - (v + f) \in 1 .. x /\ ~(i <= v + f)
          BY <1>2, <3>1
        <4>2. Nodes(cfg)[i].kind = "proxy"
          BY <1>4, <1>5, <2>1, <3>1, <4>1
        <4>3. QED
          BY <1>9, <4>2
      <3>2. QED
        BY <3>1
    <2>3. CASE i <= v + f
      <3>1. i - v \in 1 .. f + p /\ at(i - v) = i
        BY <1>2, <2>1, <2>3
      <3>2. QED
        BY <3>1
    <2>4. CASE i > v + f + x
      <3>1. i - (v + x) \in 1 .. f + p /\ at(i - (v + x)) = i
        BY <1>2, <1>4, <2>4
      <3>2. QED
        BY <3>1
    <2>5. QED
      BY <1>2, <1>4, <2>2, <2>3, <2>4
  <1> HIDE DEF at
  <1>10. \A k \in 1 .. f + p : k \in Nat
    BY <1>2
  <1>11. \A k \in DOMAIN services :
           /\ k \in Nat /\ AskedAt(cfg, k) \in DOMAIN Nodes(cfg)
           /\ AskedAt(cfg, k) > v
           /\ Nodes(cfg)[AskedAt(cfg, k)].kind \in {"follow", "public"}
           /\ services[k].moniker = Nodes(cfg)[AskedAt(cfg, k)].moniker
           /\ services[k].port = Nodes(cfg)[AskedAt(cfg, k)].port
    BY <1>3, <1>4, <1>6, <1>7, <1>10
  <1>12. \A k, l \in DOMAIN services : AskedAt(cfg, k) = AskedAt(cfg, l) => k = l
    BY <1>3, <1>6, <1>8
  <1>13. \A i \in DOMAIN Nodes(cfg) :
           Nodes(cfg)[i].kind \in {"follow", "public"} =>
             \E k \in DOMAIN services : AskedAt(cfg, k) = i
    BY <1>3, <1>4, <1>6, <1>9
  <1>14. QED
    BY <1>11, <1>12, <1>13 DEF services, fs, ps, v

\* Validators come first.
LEMMA ValidatorAt ==
    ASSUME NEW cfg, IsConfig(cfg), NEW i \in DOMAIN ValidatorNodes(cfg)
    PROVE  /\ i \in Nat \ {0} /\ i <= Len(cfg.validators)
           /\ i \in DOMAIN Nodes(cfg) /\ Nodes(cfg)[i] = ValidatorNodes(cfg)[i]
           /\ Nodes(cfg)[i].kind = "validator" /\ Nodes(cfg)[i].index = i - 1
           /\ Nodes(cfg)[i].moniker = cfg.validators[i].moniker
           /\ Nodes(cfg)[i].port = cfg.validators[i].base_port
  <1> DEFINE v == Len(cfg.validators)
             f == Len(cfg.docker.follow_nodes)
             p == Len(cfg.docker.p2p_proxies)
             q == Len(cfg.docker.public_nodes)
             n == Len(Nodes(cfg))
  <1>1. /\ v \in Nat \ {0} /\ i \in 1 .. v
        /\ ValidatorNodes(cfg)[i].kind = "validator"
        /\ ValidatorNodes(cfg)[i].index = i - 1
        /\ ValidatorNodes(cfg)[i].moniker = cfg.validators[i].moniker
        /\ ValidatorNodes(cfg)[i].port = cfg.validators[i].base_port
    BY ValidatorNodesType, SeqFacts DEF NodeLists
  <1>2. f \in Nat /\ p \in Nat /\ q \in Nat
    BY SeqFacts DEF IsConfig, IsDocker, PeripheralLists
  <1>3. n = v + f + p + q /\ DOMAIN Nodes(cfg) = 1 .. n
        /\ \A k \in 1 .. n : k <= v => Nodes(cfg)[k] = ValidatorNodes(cfg)[k]
    BY NodesAre, SeqFacts DEF NodeLists
  <1> HIDE DEF f, p, q, v, n
  <1>4. i \in 1 .. n /\ i <= v
    BY <1>1, <1>2, <1>3
  <1>5. QED
    BY <1>1, <1>3, <1>4 DEF v

\* The endpoint of a node whose name no other has.
LEMMA EndpointIs ==
    ASSUME NEW cfg, IsConfig(cfg), DistinctNodes(cfg), NEW i \in DOMAIN Nodes(cfg)
    PROVE  LET node == Nodes(cfg)[i]
               endpoint == FindRpcEndpoint(cfg, node.moniker)
           IN  /\ node.kind = "validator" =>
                    endpoint = [host |-> cfg.validators[i].host, base |-> node.port]
               /\ node.kind \in {"follow", "public"} =>
                    endpoint = [host |-> Localhost, base |-> node.port]
               /\ node.kind = "proxy" => endpoint = None
  <1> DEFINE node == Nodes(cfg)[i]
             m == node.moniker
             us == cfg.validators
             v == Len(us)
             services == cfg.docker.follow_nodes \o cfg.docker.public_nodes
  <1>1. /\ DOMAIN us = 1 .. v /\ DOMAIN ValidatorNodes(cfg) = 1 .. v
        /\ \A k \in 1 .. v : /\ k \in Nat /\ k \in DOMAIN Nodes(cfg)
                             /\ us[k].moniker = Nodes(cfg)[k].moniker
                             /\ us[k].base_port = Nodes(cfg)[k].port
                             /\ Nodes(cfg)[k].kind = "validator"
                             /\ ValidatorNodes(cfg)[k] = Nodes(cfg)[k]
    <2>1. DOMAIN us = 1 .. v
      BY SeqFacts DEF IsConfig, ValidatorLists
    <2>2. DOMAIN ValidatorNodes(cfg) = 1 .. v
      BY ValidatorNodesType, SeqFacts DEF NodeLists
    <2>3. QED
      BY <2>1, <2>2, ValidatorAt
  <1>2. \A k \in 1 .. v : us[k].moniker = m => k = i
    BY <1>1, NamesDiffer
  <1>3. /\ \A k \in DOMAIN services :
             /\ k \in Nat /\ AskedAt(cfg, k) \in DOMAIN Nodes(cfg)
             /\ AskedAt(cfg, k) > v
             /\ Nodes(cfg)[AskedAt(cfg, k)].kind \in {"follow", "public"}
             /\ services[k].moniker = Nodes(cfg)[AskedAt(cfg, k)].moniker
             /\ services[k].port = Nodes(cfg)[AskedAt(cfg, k)].port
             /\ \A l \in DOMAIN services : AskedAt(cfg, k) = AskedAt(cfg, l) => k = l
        /\ node.kind \in {"follow", "public"} =>
             \E k \in DOMAIN services : AskedAt(cfg, k) = i
    BY AskedAre
  <1>4. \A k \in DOMAIN services : services[k].moniker = m => AskedAt(cfg, k) = i
    <2> HIDE DEF services
    <2>1. QED
      BY <1>3, NamesDiffer
  <1> DEFINE endpoint == FindRpcEndpoint(cfg, m)
  <1>5. endpoint = IF Named(us, m) # {}
                   THEN [host |-> FirstNamed(us, m).host,
                         base |-> FirstNamed(us, m).base_port]
                   ELSE IF Named(services, m) # {}
                   THEN [host |-> Localhost, base |-> FirstNamed(services, m).port]
                   ELSE None
    BY DEF FindRpcEndpoint
  <1> HIDE DEF services, us, v, endpoint
  <1>6. CASE node.kind = "validator"
    <2>1. i \in 1 .. v
      <3>1. node \in Each(ValidatorNodes(cfg))
        BY <1>6, KindsAre DEF Each
      <3>2. PICK k \in DOMAIN ValidatorNodes(cfg) : ValidatorNodes(cfg)[k] = node
        BY <3>1 DEF Each
      <3>3. k \in 1 .. v /\ us[k].moniker = m
        BY <1>1, <3>2
      <3>4. QED
        BY <1>2, <3>3
    <2>2. Named(us, m) # {} /\ FirstNamed(us, m) = us[i]
      <3>1. i \in DOMAIN us /\ i \in Nat /\ us[i].moniker = m
        BY <1>1, <2>1
      <3>2. \A k \in DOMAIN us : us[k].moniker = m => k = i
        BY <1>1, <1>2
      <3>3. QED
        BY <3>1, <3>2, OnlyNamed
    <2>3. endpoint = [host |-> us[i].host, base |-> us[i].base_port]
      BY <1>5, <2>2
    <2>4. QED
      BY <1>1, <1>6, <2>1, <2>3 DEF endpoint, us
  <1>7. CASE node.kind # "validator"
    <2>1. Named(us, m) = {}
      <3>1. \A k \in 1 .. v : us[k].moniker # m
        BY <1>1, <1>2, <1>7
      <3>2. QED
        BY <1>1, <3>1 DEF Named
    <2>2. CASE node.kind \in {"follow", "public"}
      <3>1. PICK k \in DOMAIN services : AskedAt(cfg, k) = i
        BY <1>3, <2>2
      <3>2. services[k].moniker = m /\ services[k].port = node.port /\ k \in Nat
        BY <1>3, <3>1
      <3>3. \A l \in DOMAIN services : services[l].moniker = m => l = k
        BY <1>3, <1>4, <3>1
      <3>4. Named(services, m) # {} /\ FirstNamed(services, m) = services[k]
        BY <3>2, <3>3, OnlyNamed
      <3>5. endpoint = [host |-> Localhost, base |-> node.port]
        BY <1>5, <2>1, <3>2, <3>4
      <3>6. QED
        BY <1>7, <2>2, <3>5 DEF endpoint
    <2>3. CASE node.kind = "proxy"
      <3>1. \A k \in DOMAIN services : services[k].moniker # m
        BY <1>3, <1>4, <2>3
      <3>2. Named(services, m) = {}
        BY <3>1 DEF Named
      <3>3. endpoint = None
        BY <1>5, <2>1, <3>2
      <3>4. QED
        BY <2>3, <3>3 DEF endpoint
    <2>4. QED
      <3>1. node.kind \in Kinds
        BY KindsAre DEF Each, NodeSet
      <3>2. QED
        BY <1>7, <2>2, <2>3, <3>1 DEF Kinds
  <1>8. QED
    BY <1>6, <1>7

\* The ports that a node's container publishes lie in its block.
LEMMA PublishedIn ==
    ASSUME NEW node \in NodeSet
    PROVE  /\ \A p \in Published(node) : /\ p.host \in Nat /\ node.port <= p.host
                                         /\ p.host < node.port + PORTS_PER_NODE
           /\ node.kind # "proxy" =>
                /\ \E p \in Published(node) : p.host = HttpRpcPort(node.port)
                /\ \E p \in Published(node) : p.host = WsRpcPort(node.port)
  <1>1. node.port \in Nat
    BY DEF NodeSet
  <1>2. \A a, b : Publish(a, b).host = a
    BY DEF Publish
  <1>3. /\ HttpRpcPort(node.port) = node.port + 4 /\ WsRpcPort(node.port) = node.port + 5
        /\ PORTS_PER_NODE = 6
    BY DEF HttpRpcPort, WsRpcPort, PORTS_PER_NODE
  <1>4. \A p \in Published(node) :
          p.host \in {node.port, HttpRpcPort(node.port), WsRpcPort(node.port)}
    BY <1>2 DEF Published
  <1>5. node.kind # "proxy" =>
          /\ \E p \in Published(node) : p.host = HttpRpcPort(node.port)
          /\ \E p \in Published(node) : p.host = WsRpcPort(node.port)
    BY <1>2 DEF Published
  <1>6. QED
    BY <1>1, <1>3, <1>4, <1>5

\* A port that one service publishes no other does, if no blocks overlap.
LEMMA ServedBy ==
    ASSUME NEW cfg, IsConfig(cfg), DistinctNodes(cfg), BlocksApart(Nodes(cfg)),
           NEW i \in DOMAIN Nodes(cfg), NEW port,
           \E p \in Published(Nodes(cfg)[i]) : p.host = port
    PROVE  Serving(Services(cfg), port) = {Nodes(cfg)[i].moniker}
  <1> DEFINE m == Nodes(cfg)[i].moniker
  <1>1. \A k \in DOMAIN Nodes(cfg) :
          /\ Nodes(cfg)[k] \in NodeSet
          /\ Nodes(cfg)[k].moniker \in DOMAIN Services(cfg)
          /\ Services(cfg)[Nodes(cfg)[k].moniker].ports = Published(Nodes(cfg)[k])
    <2>1. TAKE k \in DOMAIN Nodes(cfg)
    <2>2. Nodes(cfg)[k] \in NodeSet
      BY KindsAre DEF Each
    <2>3. Nodes(cfg)[k].moniker \in DOMAIN Services(cfg)
      BY DEF Services, NamesOf
    <2>4. Services(cfg)[Nodes(cfg)[k].moniker] = Entry(cfg, Nodes(cfg)[k])
      BY ServiceOf
    <2>5. Entry(cfg, Nodes(cfg)[k]).ports = Published(Nodes(cfg)[k])
      BY DEF Entry
    <2>6. QED
      BY <2>2, <2>3, <2>4, <2>5
  <1>2. m \in Serving(Services(cfg), port)
    BY <1>1 DEF Serving
  <1>3. ASSUME NEW n \in Serving(Services(cfg), port)
        PROVE  n = m
    <2>1. PICK k \in DOMAIN Nodes(cfg) : Nodes(cfg)[k].moniker = n
      BY DEF Serving, Services, NamesOf
    <2>2. \E p \in Published(Nodes(cfg)[k]) : p.host = port
      BY <1>1, <2>1 DEF Serving
    <2> DEFINE a == Nodes(cfg)[i].port
               b == Nodes(cfg)[k].port
    <2>3. /\ a \in Nat /\ b \in Nat /\ port \in Nat
          /\ a <= port /\ port < a + PORTS_PER_NODE
          /\ b <= port /\ port < b + PORTS_PER_NODE
      BY <1>1, <2>2, PublishedIn DEF NodeSet
    <2>4. /\ i < k => a + PORTS_PER_NODE <= b \/ b + PORTS_PER_NODE <= a
          /\ k < i => a + PORTS_PER_NODE <= b \/ b + PORTS_PER_NODE <= a
      BY DEF BlocksApart
    <2>5. i \in Nat /\ k \in Nat
      BY ProgramIs
    <2> HIDE DEF a, b
    <2>6. i = k
      BY <2>3, <2>4, <2>5 DEF PORTS_PER_NODE
    <2>7. QED
      BY <2>1, <2>6
  <1>4. QED
    BY <1>2, <1>3

\* The sockets of a validator on the host lie in its block, one at each port.
LEMMA SocketsAre ==
    ASSUME NEW cfg, NEW v, v.base_port \in Nat
    PROVE  /\ \A t \in HostSockets(cfg, v) :
                /\ t.port \in Nat /\ v.base_port <= t.port
                /\ t.port < v.base_port + PORTS_PER_NODE
                /\ t.port = HttpRpcPort(v.base_port) =>
                     t.service = "http" /\ t.address = v.rpc_host
                /\ t.port = WsRpcPort(v.base_port) =>
                     t.service = "ws" /\ t.address = v.rpc_host
           /\ \E t \in HostSockets(cfg, v) :
                /\ t.service = "http" /\ t.address = v.rpc_host
                /\ t.port = HttpRpcPort(v.base_port)
           /\ \E t \in HostSockets(cfg, v) :
                /\ t.service = "ws" /\ t.address = v.rpc_host
                /\ t.port = WsRpcPort(v.base_port)
  <1> DEFINE base == v.base_port
             Socket(service, address, port) ==
               [service |-> service, address |-> address, port |-> port]
             http == Socket("http", v.rpc_host, HttpRpcPort(base))
             ws == Socket("ws", v.rpc_host, WsRpcPort(base))
             others == {Socket("consensus", v.p2p_host, ConsensusP2pPort(base)),
                        Socket("execution", AnyHost, ExecutionP2pPort(base)),
                        Socket("authrpc", Localhost, AuthrpcPort(base)),
                        Socket("metrics", v.host, ConsensusMetricsPort(base))}
  <1>1. /\ HostSockets(cfg, v) \subseteq others \cup {http, ws}
        /\ http \in HostSockets(cfg, v) /\ ws \in HostSockets(cfg, v)
    BY DEF HostSockets
  <1>2. \A a, b, c : /\ Socket(a, b, c).service = a /\ Socket(a, b, c).address = b
                    /\ Socket(a, b, c).port = c
    OBVIOUS
  <1>3. /\ http.service = "http" /\ http.address = v.rpc_host
        /\ http.port = HttpRpcPort(base)
        /\ ws.service = "ws" /\ ws.address = v.rpc_host /\ ws.port = WsRpcPort(base)
    BY <1>2
  <1>4. \A t \in others :
          t.port \in {ConsensusP2pPort(base), ExecutionP2pPort(base),
                     AuthrpcPort(base), ConsensusMetricsPort(base)}
    BY <1>2
  <1> HIDE DEF Socket, http, ws, others
  <1>5. /\ HttpRpcPort(base) = base + 4 /\ WsRpcPort(base) = base + 5
        /\ ConsensusP2pPort(base) = base /\ ExecutionP2pPort(base) = base + 1
        /\ AuthrpcPort(base) = base + 3 /\ ConsensusMetricsPort(base) = base + 2
        /\ PORTS_PER_NODE = 6
    BY DEF HttpRpcPort, WsRpcPort, ConsensusP2pPort, ExecutionP2pPort, AuthrpcPort,
           ConsensusMetricsPort, PORTS_PER_NODE
  <1>6. ASSUME NEW t \in HostSockets(cfg, v)
        PROVE  /\ t.port \in Nat /\ base <= t.port /\ t.port < base + PORTS_PER_NODE
               /\ t.port = HttpRpcPort(base) =>
                    t.service = "http" /\ t.address = v.rpc_host
               /\ t.port = WsRpcPort(base) =>
                    t.service = "ws" /\ t.address = v.rpc_host
    <2>1. CASE t = http
      BY <1>3, <1>5, <2>1
    <2>2. CASE t = ws
      BY <1>3, <1>5, <2>2
    <2>3. CASE t \in others
      BY <1>4, <1>5, <2>3
    <2>4. QED
      BY <1>1, <2>1, <2>2, <2>3
  <1>7. QED
    BY <1>1, <1>3, <1>6

\* A connection to the RPC port of a validator comes to its RPC server or, if this is
\* bound to another address, to none.
LEMMA AnsweredBy ==
    ASSUME NEW cfg, IsConfig(cfg), BlocksApart(ValidatorNodes(cfg)),
           NEW i \in DOMAIN cfg.validators, NEW service \in {"http", "ws"}, NEW url,
           url.port = IF service = "http" THEN HttpRpcPort(cfg.validators[i].base_port)
                      ELSE WsRpcPort(cfg.validators[i].base_port)
    PROVE  Answering(cfg, url) =
             IF Reaches(url.host, cfg.validators[i].rpc_host) THEN {<<i, service>>}
             ELSE {}
  <1> DEFINE vs == cfg.validators
             services == {"consensus", "execution", "metrics", "authrpc", "http", "ws"}
             Answers(k, name) ==
               \E t \in HostSockets(cfg, vs[k]) :
                 t.service = name /\ t.port = url.port /\ Reaches(url.host, t.address)
  <1>1. /\ \A k \in DOMAIN vs : k \in Nat /\ vs[k].base_port \in Nat
        /\ \A k, l \in DOMAIN vs :
             k < l => \/ vs[k].base_port + PORTS_PER_NODE <= vs[l].base_port
                      \/ vs[l].base_port + PORTS_PER_NODE <= vs[k].base_port
    <2>1. \A k \in DOMAIN vs : k \in Nat /\ vs[k] \in Validators
      BY SeqFacts DEF IsConfig, ValidatorLists
    <2>2. \A k \in DOMAIN vs : vs[k].base_port \in Nat
      BY <2>1 DEF Validators
    <2>3. /\ DOMAIN ValidatorNodes(cfg) = DOMAIN vs
          /\ \A k \in DOMAIN vs : ValidatorNodes(cfg)[k].port = vs[k].base_port
      BY DEF ValidatorNodes, Node
    <2>4. QED
      BY <2>1, <2>2, <2>3 DEF BlocksApart
  <1>2. ASSUME NEW k \in DOMAIN vs, NEW name, Answers(k, name)
        PROVE  k = i /\ name = service /\ Reaches(url.host, vs[i].rpc_host)
    <2>1. PICK t \in HostSockets(cfg, vs[k]) :
            t.service = name /\ t.port = url.port /\ Reaches(url.host, t.address)
      BY <1>2
    <2> HIDE DEF vs
    <2> DEFINE a == vs[i].base_port
               b == vs[k].base_port
    <2>2. /\ t.port \in Nat /\ b <= t.port /\ t.port < b + PORTS_PER_NODE
          /\ t.port = HttpRpcPort(b) => t.service = "http" /\ t.address = vs[k].rpc_host
          /\ t.port = WsRpcPort(b) => t.service = "ws" /\ t.address = vs[k].rpc_host
      BY <1>1, SocketsAre
    <2>3. t.port = IF service = "http" THEN HttpRpcPort(a) ELSE WsRpcPort(a)
      BY <2>1 DEF vs
    <2>4. /\ a \in Nat /\ b \in Nat /\ i \in Nat /\ k \in Nat
          /\ i < k => a + PORTS_PER_NODE <= b \/ b + PORTS_PER_NODE <= a
          /\ k < i => a + PORTS_PER_NODE <= b \/ b + PORTS_PER_NODE <= a
      BY <1>1 DEF vs
    <2> HIDE DEF a, b
    <2>5. a <= t.port /\ t.port < a + PORTS_PER_NODE
      BY <2>3, <2>4 DEF HttpRpcPort, WsRpcPort, PORTS_PER_NODE
    <2>6. k = i
      BY <2>2, <2>4, <2>5 DEF PORTS_PER_NODE
    <2>7. t.service = service /\ t.address = vs[i].rpc_host
      BY <2>2, <2>3, <2>6 DEF a, b
    <2>8. QED
      BY <2>1, <2>6, <2>7
  <1>3. ASSUME Reaches(url.host, vs[i].rpc_host)
        PROVE  Answers(i, service)
    <2>1. vs[i].base_port \in Nat
      BY <1>1
    <2> HIDE DEF vs
    <2>2. PICK t \in HostSockets(cfg, vs[i]) :
            /\ t.service = service /\ t.address = vs[i].rpc_host
            /\ t.port = IF service = "http" THEN HttpRpcPort(vs[i].base_port)
                        ELSE WsRpcPort(vs[i].base_port)
      BY <2>1, SocketsAre
    <2>3. t.port = url.port
      BY <2>2 DEF vs
    <2>4. QED
      BY <1>3, <2>2, <2>3
  <1>4. Answering(cfg, url) = {a \in (DOMAIN vs) \X services : Answers(a[1], a[2])}
    BY DEF Answering
  <1> HIDE DEF Answers
  <1>5. \A a \in Answering(cfg, url) :
          a = <<i, service>> /\ Reaches(url.host, vs[i].rpc_host)
    BY <1>2, <1>4
  <1>6. Reaches(url.host, vs[i].rpc_host) => <<i, service>> \in Answering(cfg, url)
    BY <1>3, <1>4
  <1>7. QED
    BY <1>5, <1>6

\* While a ClusterCLI has the configuration that init saved and no port blocks
\* overlap, the URLs of a node lead to this node and no other: in Docker to ports that
\* only its service publishes, on the host to the HTTP and the WebSocket server of its
\* run.sh if these are bound to the URL's host, and to none if not
\* (_find_rpc_endpoint, node_rpc_url, node_ws_url, _build_common_node_args).
THEOREM UrlsLeadHome == ClusterSpec => []EndpointsLeadHome
  <1>1. ASSUME IInv, cluster # None, laid # None, laid.saved,
               cluster = FromDict(disk.yaml), DistinctNodes(cluster)
        PROVE  /\ (disk.compose = laid.cfg /\ BlocksApart(Nodes(laid.cfg))) =>
                    \A m \in NamesOf(Nodes(laid.cfg)) :
                      LET services == Services(laid.cfg)
                      IN  IF services[m].kind = "proxy"
                          THEN FindRpcEndpoint(cluster, m) = None
                          ELSE /\ Serving(services, NodeRpcUrl(cluster, m).port) = {m}
                               /\ Serving(services, NodeWsUrl(cluster, m).port) = {m}
               /\ (~laid.docker /\ BlocksApart(ValidatorNodes(laid.cfg))) =>
                    \A i \in DOMAIN laid.cfg.validators :
                      LET v == laid.cfg.validators[i]
                          Served(service) ==
                            IF Reaches(v.host, v.rpc_host) THEN {<<i, service>>} ELSE {}
                      IN  /\ Answering(laid.cfg, NodeRpcUrl(cluster, v.moniker)) =
                               Served("http")
                          /\ Answering(laid.cfg, NodeWsUrl(cluster, v.moniker)) =
                               Served("ws")
    <2> DEFINE cfg == laid.cfg
    <2>1. IsConfig(cfg)
      BY <1>1, ConfigType DEF IInv, TypeOK, Layouts
    <2>2. cluster.validators = cfg.validators /\ cluster.docker = cfg.docker
      <3>1. cluster = [cfg EXCEPT !.tempo_bin = DefaultBin(cfg.backend),
                                  !.tempo_xtask_bin = DefaultXtaskBin(cfg.backend)]
        BY <1>1, SavedReloads DEF SavedConfigReloads
      <3>2. QED
        BY <2>1, <3>1 DEF IsConfig
    <2> HIDE DEF cfg
    <2>3. /\ DistinctNodes(cfg)
          /\ \A m : FindRpcEndpoint(cluster, m) = FindRpcEndpoint(cfg, m)
      <3>1. Nodes(cluster) = Nodes(cfg)
        BY <2>2 DEF Nodes, ValidatorNodes, FollowNodes, Proxies, PublicNodes
      <3>2. \A m : FindRpcEndpoint(cluster, m) = FindRpcEndpoint(cfg, m)
        BY <2>2 DEF FindRpcEndpoint
      <3>3. QED
        BY <1>1, <3>1, <3>2 DEF DistinctNodes
    <2>4. ASSUME NEW i \in DOMAIN Nodes(cfg), Nodes(cfg)[i].kind # "proxy"
          PROVE  LET node == Nodes(cfg)[i]
                 IN  /\ NodeRpcUrl(cluster, node.moniker).port = HttpRpcPort(node.port)
                     /\ NodeWsUrl(cluster, node.moniker).port = WsRpcPort(node.port)
                     /\ node.kind = "validator" =>
                          /\ NodeRpcUrl(cluster, node.moniker).host = cfg.validators[i].host
                          /\ NodeWsUrl(cluster, node.moniker).host = cfg.validators[i].host
      <3> DEFINE node == Nodes(cfg)[i]
                 e == FindRpcEndpoint(cluster, node.moniker)
      <3>1. node.kind \in Kinds
        BY <2>1, KindsAre DEF Each, NodeSet
      <3>2. /\ e.base = node.port
            /\ node.kind = "validator" => e.host = cfg.validators[i].host
        <4>1. /\ node.kind = "validator" =>
                   e = [host |-> cfg.validators[i].host, base |-> node.port]
              /\ node.kind \in {"follow", "public"} =>
                   e = [host |-> Localhost, base |-> node.port]
          BY <2>1, <2>3, EndpointIs
        <4>2. node.kind = "validator" \/ node.kind \in {"follow", "public"}
          BY <2>4, <3>1 DEF Kinds
        <4> HIDE DEF node, e
        <4>3. QED
          BY <4>1, <4>2
      <3> HIDE DEF node, e
      <3>3. /\ NodeRpcUrl(cluster, node.moniker).port = HttpRpcPort(node.port)
            /\ NodeRpcUrl(cluster, node.moniker).host = e.host
            /\ NodeWsUrl(cluster, node.moniker).host = e.host
            /\ NodeWsUrl(cluster, node.moniker).port = WsRpcPort(node.port)
        BY <3>2 DEF NodeRpcUrl, NodeWsUrl, e
      <3>4. QED
        BY <3>2, <3>3 DEF node
    <2>5. ASSUME BlocksApart(Nodes(cfg)), NEW m \in NamesOf(Nodes(cfg))
          PROVE  LET services == Services(cfg)
                 IN  IF services[m].kind = "proxy"
                     THEN FindRpcEndpoint(cluster, m) = None
                     ELSE /\ Serving(services, NodeRpcUrl(cluster, m).port) = {m}
                          /\ Serving(services, NodeWsUrl(cluster, m).port) = {m}
      <3>1. PICK i \in DOMAIN Nodes(cfg) : Nodes(cfg)[i].moniker = m
        BY DEF NamesOf
      <3>2. Services(cfg)[m].kind = Nodes(cfg)[i].kind /\ Nodes(cfg)[i] \in NodeSet
        <4>1. Nodes(cfg)[i] \in NodeSet
          BY <2>1, KindsAre DEF Each
        <4>2. Services(cfg)[m] = Entry(cfg, Nodes(cfg)[i])
          BY <2>1, <2>3, <3>1, ServiceOf
        <4>3. QED
          BY <4>1, <4>2 DEF Entry
      <3>3. CASE Nodes(cfg)[i].kind = "proxy"
        BY <2>1, <2>3, <3>1, <3>2, <3>3, EndpointIs
      <3>4. CASE Nodes(cfg)[i].kind # "proxy"
        <4>1. /\ \E p \in Published(Nodes(cfg)[i]) :
                   p.host = NodeRpcUrl(cluster, m).port
              /\ \E p \in Published(Nodes(cfg)[i]) :
                   p.host = NodeWsUrl(cluster, m).port
          BY <2>4, <3>1, <3>2, <3>4, PublishedIn
        <4>2. QED
          BY <2>1, <2>3, <2>5, <3>1, <3>2, <3>4, <4>1, ServedBy
      <3>5. QED
        BY <3>3, <3>4
    <2>6. ASSUME BlocksApart(ValidatorNodes(cfg)), NEW i \in DOMAIN cfg.validators
          PROVE  LET v == cfg.validators[i]
                     Served(service) ==
                       IF Reaches(v.host, v.rpc_host) THEN {<<i, service>>} ELSE {}
                 IN  /\ Answering(cfg, NodeRpcUrl(cluster, v.moniker)) = Served("http")
                     /\ Answering(cfg, NodeWsUrl(cluster, v.moniker)) = Served("ws")
      <3> DEFINE v == cfg.validators[i]
                 http == NodeRpcUrl(cluster, v.moniker)
                 ws == NodeWsUrl(cluster, v.moniker)
      <3>1. i \in DOMAIN ValidatorNodes(cfg)
        BY DEF ValidatorNodes
      <3>2. /\ i \in DOMAIN Nodes(cfg) /\ Nodes(cfg)[i].kind = "validator"
            /\ Nodes(cfg)[i].moniker = v.moniker /\ Nodes(cfg)[i].port = v.base_port
        BY <2>1, <3>1, ValidatorAt
      <3>3. /\ http.port = HttpRpcPort(v.base_port) /\ http.host = v.host
            /\ ws.port = WsRpcPort(v.base_port) /\ ws.host = v.host
        BY <2>4, <3>2
      <3> HIDE DEF http, ws
      <3>4. Answering(cfg, http) =
              IF Reaches(http.host, v.rpc_host) THEN {<<i, "http">>} ELSE {}
        BY <2>1, <2>6, <3>3, AnsweredBy
      <3>5. Answering(cfg, ws) =
              IF Reaches(ws.host, v.rpc_host) THEN {<<i, "ws">>} ELSE {}
        BY <2>1, <2>6, <3>3, AnsweredBy
      <3>6. QED
        BY <3>3, <3>4, <3>5 DEF http, ws
    <2>7. QED
      BY <2>5, <2>6 DEF cfg
  <1>2. IInv => EndpointsLeadHome
    BY <1>1 DEF EndpointsLeadHome
  <1>3. QED
    BY <1>2, InvHolds, PTL

-----------------------------------------------------------------------------
(* The guess *)

LEMMA RanksAre ==
    /\ \A m \in DOMAIN NameRank : NameRank[m] \in Nat /\ m \in Monikers
    /\ \A m, o \in DOMAIN NameRank : NameRank[m] = NameRank[o] => m = o
  BY NamesSort DEF IsInjective

\* Positions among some names grow with the names.
LEMMA PositionIs ==
    ASSUME NEW names \in SUBSET DOMAIN NameRank, IsFiniteSet(names), NEW m \in names
    PROVE  /\ Cardinality(names) \in Nat
           /\ Position(names, m) \in 0 .. Cardinality(names) - 1
           /\ \A o \in names :
                NameRank[o] < NameRank[m] => Position(names, o) < Position(names, m)
  <1> DEFINE Before(o) == {q \in names : NameRank[q] < NameRank[o]}
  <1>1. \A o \in names : /\ NameRank[o] \in Nat
                         /\ Before(o) \in SUBSET names /\ o \notin Before(o)
    BY RanksAre
  <1>2. \A o \in names : IsFiniteSet(Before(o)) /\ Cardinality(Before(o)) \in Nat
    BY <1>1, FS_Subset, FS_CardinalityType
  <1>3. \A S, T : (IsFiniteSet(T) /\ S \in SUBSET T /\ S # T) =>
                    Cardinality(S) < Cardinality(T)
    <2>1. ASSUME NEW S, NEW T, IsFiniteSet(T), S \in SUBSET T, S # T
          PROVE  Cardinality(S) < Cardinality(T)
      <3>1. /\ IsFiniteSet(S) /\ Cardinality(S) <= Cardinality(T)
            /\ Cardinality(S) # Cardinality(T)
        BY <2>1, FS_Subset
      <3>2. Cardinality(S) \in Nat /\ Cardinality(T) \in Nat
        BY <2>1, <3>1, FS_CardinalityType
      <3>3. QED
        BY <3>1, <3>2
    <2>2. QED
      BY <2>1
  <1>4. \A o \in names : Position(names, o) = Cardinality(Before(o))
    BY DEF Position
  <1>5. ASSUME NEW o \in names, NameRank[o] < NameRank[m]
        PROVE  Before(o) \in SUBSET Before(m) /\ Before(o) # Before(m)
    BY <1>1, <1>5
  <1> HIDE DEF Before
  <1>6. Cardinality(names) \in Nat
    BY FS_CardinalityType
  <1>7. Cardinality(Before(m)) < Cardinality(names)
    BY <1>1, <1>3
  <1>8. Position(names, m) \in 0 .. Cardinality(names) - 1
    BY <1>2, <1>4, <1>6, <1>7
  <1>9. ASSUME NEW o \in names, NameRank[o] < NameRank[m]
        PROVE  Position(names, o) < Position(names, m)
    BY <1>2, <1>3, <1>4, <1>5, <1>9
  <1>10. QED
    BY <1>6, <1>8, <1>9

LEMMA PositionsDiffer ==
    ASSUME NEW names \in SUBSET DOMAIN NameRank, IsFiniteSet(names),
           NEW m \in names, NEW o \in names, Position(names, m) = Position(names, o)
    PROVE  m = o
  <1>1. /\ Position(names, m) \in Nat /\ Position(names, o) \in Nat
        /\ NameRank[o] < NameRank[m] => Position(names, o) < Position(names, m)
        /\ NameRank[m] < NameRank[o] => Position(names, m) < Position(names, o)
    BY PositionIs
  <1>2. NameRank[m] \in Nat /\ NameRank[o] \in Nat
    BY RanksAre
  <1>3. NameRank[m] = NameRank[o]
    BY <1>1, <1>2
  <1>4. QED
    BY <1>3, RanksAre

\* Sorting puts each name at its position.
LEMMA SortedIs ==
    ASSUME NEW names \in SUBSET DOMAIN NameRank, IsFiniteSet(names)
    PROVE  LET c == Cardinality(names)
           IN  /\ c \in Nat /\ DOMAIN Sorted(names) = 1 .. c
               /\ \A i \in 1 .. c : /\ Sorted(names)[i] \in names
                                    /\ Position(names, Sorted(names)[i]) = i - 1
  <1> DEFINE c == Cardinality(names)
             f == [m \in names |-> Position(names, m)]
  <1>1. c \in Nat
    BY FS_CardinalityType
  <1>2. f \in Injection(names, 0 .. c - 1)
    <2>1. f \in [names -> 0 .. c - 1]
      BY PositionIs
    <2>2. \A m, o \in names : f[m] = f[o] => m = o
      BY PositionsDiffer
    <2>3. QED
      BY <2>1, <2>2 DEF Injection, IsInjective
  <1>3. IsFiniteSet(0 .. c - 1) /\ Cardinality(0 .. c - 1) = c
    <2>1. c - 1 \in Int /\ 0 \in Int
      BY <1>1
    <2> HIDE DEF c
    <2>2. /\ IsFiniteSet(0 .. c - 1)
          /\ Cardinality(0 .. c - 1) = IF 0 > c - 1 THEN 0 ELSE c - 1 - 0 + 1
      BY <2>1, FS_Interval
    <2>3. QED
      BY <1>1, <2>2
  <1>4. f \in Surjection(names, 0 .. c - 1)
    BY <1>2, <1>3, FS_Injection
  <1>5. ASSUME NEW i \in 1 .. c
        PROVE  \E m \in names : Position(names, m) = i - 1
    <2>1. i - 1 \in 0 .. c - 1
      BY <1>1
    <2>2. PICK m \in names : f[m] = i - 1
      BY <1>4, <2>1 DEF Surjection
    <2>3. QED
      BY <2>2
  <1>6. QED
    BY <1>1, <1>5 DEF Sorted

\* What the directories are taken for.
LEMMA GuessIs ==
    ASSUME IsFiniteSet(Found), Found # {}
    PROVE  LET us == FromDict(Guessed).validators
           IN  /\ Cardinality(Found) \in Nat
               /\ DOMAIN us = 1 .. Cardinality(Found)
               /\ \A i \in DOMAIN us : /\ us[i].host = Localhost
                                       /\ us[i].moniker = Sorted(Found)[i]
                                       /\ us[i].base_port = 8000 + 10 * (i - 1)
  <1> DEFINE names == Sorted(Found)
             c == Cardinality(Found)
             dict(i) == [host |-> Localhost, port |-> 8000 + (i - 1) * 10,
                         moniker |-> names[i], base_port |-> None, p2p_host |-> None,
                         rpc_host |-> None]
             raw == [i \in DOMAIN names |-> dict(i)]
             us == FromDict(Guessed).validators
  <1>1. Found \in SUBSET DOMAIN NameRank
    BY DEF Found
  <1>2. /\ c \in Nat /\ DOMAIN names = 1 .. c
        /\ \A i \in 1 .. c : names[i] \in Found
    BY <1>1, SortedIs
  <1>3. c # 0
    BY FS_EmptySet
  <1>4. 1 \in DOMAIN raw /\ raw # <<>>
    <2>1. 1 \in DOMAIN names
      BY <1>2, <1>3
    <2> HIDE DEF names
    <2>2. 1 \in DOMAIN raw
      BY <2>1
    <2> HIDE DEF raw
    <2>3. QED
      BY <2>2
  <1>5. us = [i \in DOMAIN raw |-> ValidatorFromDict(raw[i])]
    <2>1. Guessed.validators = raw
      BY DEF Guessed
    <2> HIDE DEF raw
    <2>2. QED
      BY <1>4, <2>1 DEF FromDict
  <1>6. ASSUME NEW i \in 1 .. c
        PROVE  LET u == ValidatorFromDict(dict(i))
               IN  /\ u.host = Localhost /\ u.moniker = names[i]
                   /\ u.base_port = 8000 + 10 * (i - 1)
    <2> DEFINE p == 8000 + (i - 1) * 10
    <2>1. p = 8000 + 10 * (i - 1) /\ p \in Nat
      BY <1>2
    <2>2. Localhost \in Nat
      BY DEF Localhost, IPv4
    <2>3. names[i] \in Monikers
      BY <1>1, <1>2, RanksAre
    <2>4. None # Localhost /\ None # p /\ None # names[i]
      BY <2>1, <2>2, <2>3, NoneIsNothing
    <2> HIDE DEF p, names
    <2>5. QED
      BY <2>1, <2>4 DEF ValidatorFromDict, Get, p
  <1>7. \A i \in 1 .. c : us[i] = ValidatorFromDict(dict(i))
    <2>1. \A i \in 1 .. c : raw[i] = dict(i) /\ i \in DOMAIN raw
      BY <1>2
    <2> HIDE DEF raw, us, dict
    <2>2. QED
      BY <1>5, <2>1
  <1>8. DOMAIN us = 1 .. c
    <2>1. DOMAIN raw = 1 .. c
      BY <1>2
    <2> HIDE DEF raw, us
    <2>2. QED
      BY <1>5, <2>1
  <1> HIDE DEF us, dict, c
  <1>9. QED
    BY <1>2, <1>6, <1>7, <1>8 DEF us, c

\* What the guess says of a name that it has.
LEMMA GuessFinds ==
    ASSUME IsFiniteSet(Found), NEW m \in Found
    PROVE  /\ Position(Found, m) \in Nat
           /\ FindRpcEndpoint(FromDict(Guessed), m) =
                [host |-> Localhost, base |-> 8000 + 10 * Position(Found, m)]
  <1> DEFINE guess == FromDict(Guessed)
             us == guess.validators
             c == Cardinality(Found)
             i == Position(Found, m) + 1
  <1>1. Found \in SUBSET DOMAIN NameRank
    BY DEF Found
  <1>2. c \in Nat /\ Position(Found, m) \in 0 .. c - 1
    BY <1>1, PositionIs
  <1>3. i \in 1 .. c /\ i \in Nat /\ i - 1 = Position(Found, m)
    BY <1>2
  <1>4. /\ DOMAIN us = 1 .. c
        /\ \A k \in 1 .. c : /\ us[k].host = Localhost
                             /\ us[k].moniker = Sorted(Found)[k]
                             /\ us[k].base_port = 8000 + 10 * (k - 1)
    BY GuessIs
  <1>5. \A k \in 1 .. c : /\ Sorted(Found)[k] \in Found
                          /\ Position(Found, Sorted(Found)[k]) = k - 1
    BY <1>1, SortedIs
  <1> HIDE DEF us, c, i
  <1>6. us[i].moniker = m
    BY <1>1, <1>3, <1>4, <1>5, PositionsDiffer
  <1>7. \A k \in DOMAIN us : us[k].moniker = m => k = i
    BY <1>2, <1>3, <1>4, <1>5
  <1>8. Named(us, m) # {} /\ FirstNamed(us, m) = us[i]
    <2>1. i \in DOMAIN us /\ i \in Nat
      BY <1>3, <1>4
    <2>2. QED
      BY <1>6, <1>7, <2>1, OnlyNamed
  <1>9. FindRpcEndpoint(guess, m) = [host |-> us[i].host, base |-> us[i].base_port]
    BY <1>8 DEF FindRpcEndpoint, us
  <1>10. us[i].host = Localhost /\ us[i].base_port = 8000 + 10 * Position(Found, m)
    BY <1>3, <1>4
  <1>11. QED
    BY <1>2, <1>9, <1>10

\* Validators are in the order of their names exactly if each is at its position.
LEMMA OrderIs ==
    ASSUME NEW cfg, IsConfig(cfg), DistinctValidators(cfg),
           NamesOf(ValidatorNodes(cfg)) \subseteq DOMAIN NameRank
    PROVE  LET vs == cfg.validators
               names == NamesOf(ValidatorNodes(cfg))
           IN  /\ IsFiniteSet(names)
               /\ \A i \in DOMAIN vs : vs[i].moniker \in names
               /\ InOrder(cfg) <=>
                    \A i \in DOMAIN vs : Position(names, vs[i].moniker) = i - 1
  <1> DEFINE vs == cfg.validators
             n == Len(vs)
             names == NamesOf(ValidatorNodes(cfg))
             name(i) == vs[i].moniker
  <1>1. n \in Nat /\ DOMAIN vs = 1 .. n
    BY SeqFacts DEF IsConfig, ValidatorLists
  <1>2. names = {name(i) : i \in 1 .. n}
    <2>1. DOMAIN ValidatorNodes(cfg) = 1 .. n
      BY <1>1 DEF ValidatorNodes
    <2>2. \A i \in 1 .. n : ValidatorNodes(cfg)[i].moniker = name(i)
      BY <1>1 DEF ValidatorNodes, Node
    <2>3. QED
      BY <2>1, <2>2 DEF NamesOf
  <1>3. \A i, k \in 1 .. n : name(i) = name(k) => i = k
    BY <1>1 DEF DistinctValidators, IsInjective
  <1> HIDE DEF name, names, vs, n
  <1>4. \A k \in 0 .. n : LET S == {name(i) : i \in 1 .. k}
                         IN  IsFiniteSet(S) /\ Cardinality(S) = k
    <2> TAKE k \in 0 .. n
    <2> DEFINE S == {name(i) : i \in 1 .. k}
               f == [i \in 1 .. k |-> name(i)]
    <2>1. k \in Nat /\ \A i \in 1 .. k : i \in 1 .. n
      BY <1>1
    <2>2. f \in Bijection(1 .. k, S)
      BY <1>3, <2>1 DEF Bijection, Injection, Surjection, IsInjective
    <2> HIDE DEF f, S
    <2>3. ExistsBijection(1 .. k, S)
      BY <2>2 DEF ExistsBijection
    <2>4. IsFiniteSet(S) /\ Cardinality(S) = k
      BY <2>1, <2>3, FS_NatBijection, FS_CountingElements
    <2>5. QED
      BY <2>4 DEF S
  <1>5. IsFiniteSet(names)
    BY <1>1, <1>2, <1>4
  <1>6. \A i \in 1 .. n : name(i) \in names /\ NameRank[name(i)] \in Nat
    <2>1. names \subseteq DOMAIN NameRank
      BY DEF names
    <2>2. QED
      BY <1>2, <2>1, RanksAre
  <1> DEFINE ordered == \A i, k \in 1 .. n : i < k => NameRank[name(i)] < NameRank[name(k)]
  <1>7. ASSUME ordered, NEW i \in 1 .. n
        PROVE  Position(names, name(i)) = i - 1
    <2> DEFINE S == {name(k) : k \in 1 .. i - 1}
    <2>1. \A k \in 1 .. n : NameRank[name(k)] < NameRank[name(i)] <=> k \in 1 .. i - 1
      <3>1. TAKE k \in 1 .. n
      <3>2. k < i => NameRank[name(k)] < NameRank[name(i)]
        BY <1>7
      <3>3. i < k => NameRank[name(i)] < NameRank[name(k)]
        BY <1>7
      <3>4. NameRank[name(k)] \in Nat /\ NameRank[name(i)] \in Nat
        BY <1>6
      <3>5. k = i => ~(NameRank[name(k)] < NameRank[name(i)])
        BY <3>4
      <3>6. QED
        BY <1>1, <3>2, <3>3, <3>4, <3>5
    <2>2. \A k \in 1 .. i - 1 : k \in 1 .. n
      BY <1>1
    <2>3. {o \in names : NameRank[o] < NameRank[name(i)]} = S
      BY <1>2, <2>1, <2>2
    <2>4. i - 1 \in 0 .. n
      BY <1>1
    <2>5. Cardinality(S) = i - 1
      BY <1>4, <2>4
    <2>6. QED
      BY <2>3, <2>5 DEF Position
  <1>8. ASSUME \A i \in 1 .. n : Position(names, name(i)) = i - 1 PROVE ordered
    <2> SUFFICES ASSUME NEW i \in 1 .. n, NEW k \in 1 .. n, i < k
                 PROVE  NameRank[name(i)] < NameRank[name(k)]
      OBVIOUS
    <2>1. names \in SUBSET DOMAIN NameRank
      BY DEF names
    <2>2. /\ Position(names, name(i)) = i - 1 /\ Position(names, name(k)) = k - 1
          /\ name(i) \in names /\ name(k) \in names
          /\ NameRank[name(i)] \in Nat /\ NameRank[name(k)] \in Nat
      BY <1>6, <1>8
    <2>3. NameRank[name(k)] < NameRank[name(i)] =>
            Position(names, name(k)) < Position(names, name(i))
      BY <1>5, <2>1, <2>2, PositionIs
    <2>4. name(i) # name(k)
      BY <1>1, <1>3
    <2>5. NameRank[name(i)] # NameRank[name(k)]
      BY <2>1, <2>2, <2>4, RanksAre
    <2>6. QED
      BY <1>1, <2>2, <2>3, <2>5
  <1>9. InOrder(cfg) <=> ordered
    BY <1>1 DEF InOrder, name, vs
  <1>10. ordered <=> \A i \in 1 .. n : Position(names, name(i)) = i - 1
    BY <1>7, <1>8
  <1> HIDE DEF ordered
  <1>11. InOrder(cfg) <=> \A i \in DOMAIN vs : Position(names, vs[i].moniker) = i - 1
    BY <1>1, <1>9, <1>10 DEF name
  <1>12. \A i \in DOMAIN vs : vs[i].moniker \in names
    BY <1>1, <1>6 DEF name
  <1>13. QED
    BY <1>5, <1>11, <1>12 DEF vs, names

\* Numbers sort as names do up to nine; "node10" comes before "node2".
LEMMA TenAreInOrder ==
    ASSUME NEW cfg, IsConfig(cfg), Numbered(cfg)
    PROVE  InOrder(cfg) <=> Len(cfg.validators) <= 10
  <1> DEFINE vs == cfg.validators
             n == Len(vs)
  <1>1. n \in Nat /\ DOMAIN vs = 1 .. n
    BY SeqFacts DEF IsConfig, ValidatorLists
  <1>2. \A i \in 1 .. n : i <= 11 => vs[i].moniker = NodeName[i - 1]
    BY <1>1 DEF Numbered
  <1> HIDE DEF vs, n
  <1>3. ASSUME n <= 10, NEW i \in 1 .. n, NEW k \in 1 .. n, i < k
        PROVE  NameRank[vs[i].moniker] < NameRank[vs[k].moniker]
    <2>1. i - 1 \in 0 .. 9 /\ k - 1 \in 0 .. 9 /\ i - 1 < k - 1 /\ i <= 11 /\ k <= 11
      BY <1>1, <1>3
    <2>2. NameRank[NodeName[i - 1]] < NameRank[NodeName[k - 1]]
      BY <2>1, NamesSort
    <2>3. QED
      BY <1>2, <2>1, <2>2
  <1>4. ASSUME n > 10
        PROVE  \E i, k \in 1 .. n : i < k /\ ~(NameRank[vs[i].moniker] < NameRank[vs[k].moniker])
    <2>1. 3 \in 1 .. n /\ 11 \in 1 .. n /\ 3 < 11
      BY <1>1, <1>4
    <2>2. vs[3].moniker = NodeName[3 - 1] /\ vs[11].moniker = NodeName[11 - 1]
      BY <1>2, <2>1
    <2>3. vs[3].moniker = NodeName[2] /\ vs[11].moniker = NodeName[10]
      BY <2>2
    <2>4. NodeName[2] \in DOMAIN NameRank /\ NodeName[10] \in DOMAIN NameRank
      BY NamesSort
    <2>5. /\ NameRank[NodeName[10]] < NameRank[NodeName[2]]
          /\ NameRank[NodeName[2]] \in Nat /\ NameRank[NodeName[10]] \in Nat
      BY <2>4, NamesSort, RanksAre
    <2>6. ~(NameRank[vs[3].moniker] < NameRank[vs[11].moniker])
      BY <2>3, <2>5
    <2>7. QED
      BY <2>1, <2>6
  <1>5. InOrder(cfg) <=> \A i, k \in 1 .. n :
                            i < k => NameRank[vs[i].moniker] < NameRank[vs[k].moniker]
    BY <1>1 DEF InOrder, vs
  <1>6. n <= 10 <=> InOrder(cfg)
    BY <1>1, <1>3, <1>4, <1>5
  <1>7. QED
    BY <1>6 DEF n, vs

\* Without a devnet.yaml the directories are taken for a devnet with bases 8000,
\* 8010, ... in the order of their names (ClusterCLI.config): over a standard layout
\* this is right exactly if its validators are in that order, as node0, node1, ...
\* are up to the tenth.
THEOREM GuessIsRight == ClusterSpec => []GuessServes
  <1>1. ASSUME IInv, GInv, cluster # None, laid # None, disk.yaml = None,
               cluster = FromDict(Guessed), Standard(laid.cfg),
               Found = NamesOf(ValidatorNodes(laid.cfg))
        PROVE  /\ Serves(laid.cfg) <=> InOrder(laid.cfg)
               /\ Numbered(laid.cfg) =>
                    (Serves(laid.cfg) <=> Len(laid.cfg.validators) <= 10)
    <2> DEFINE cfg == laid.cfg
               vs == cfg.validators
    <2>1. IsConfig(cfg)
      BY <1>1, ConfigType DEF IInv, TypeOK, Layouts
    <2>2. DistinctValidators(cfg)
      BY <1>1 DEF GInv, LaidOut, InPlace
    <2>3. Found \subseteq DOMAIN NameRank
      BY DEF Found
    <2>4. /\ IsFiniteSet(Found)
          /\ \A i \in DOMAIN vs : vs[i].moniker \in Found
          /\ InOrder(cfg) <=> \A i \in DOMAIN vs : Position(Found, vs[i].moniker) = i - 1
      BY <1>1, <2>1, <2>2, <2>3, OrderIs
    <2>5. ASSUME NEW i \in DOMAIN vs
          PROVE  FindRpcEndpoint(cluster, vs[i].moniker) =
                   [host |-> vs[i].host, base |-> vs[i].base_port]
                 <=> Position(Found, vs[i].moniker) = i - 1
      <3> DEFINE p == Position(Found, vs[i].moniker)
      <3>1. /\ p \in Nat
            /\ FindRpcEndpoint(cluster, vs[i].moniker) =
                 [host |-> Localhost, base |-> 8000 + 10 * p]
        BY <1>1, <2>4, GuessFinds
      <3>2. vs[i].host = Localhost /\ vs[i].base_port = 8000 + 10 * (i - 1)
        BY <1>1 DEF Standard
      <3>3. i \in Nat
        BY <2>1, SeqFacts DEF IsConfig, ValidatorLists
      <3> HIDE DEF p
      <3>4. 8000 + 10 * p = 8000 + 10 * (i - 1) <=> p = i - 1
        BY <3>1, <3>3
      <3>5. QED
        BY <3>1, <3>2, <3>4 DEF p
    <2>6. Serves(cfg) <=> InOrder(cfg)
      BY <2>4, <2>5 DEF Serves
    <2>7. QED
      BY <2>1, <2>6, TenAreInOrder
  <1>2. IInv /\ SInv /\ GInv => GuessServes
    BY <1>1 DEF GuessServes
  <1>3. QED
    BY <1>2, PlacedHolds, PTL
=============================================================================
