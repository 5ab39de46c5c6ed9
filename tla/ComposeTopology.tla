--------------------------- MODULE ComposeTopology ---------------------------
(***************************************************************************)
(* generate_docker_compose (tempo/devnet/supervisor.py) in both of its     *)
(* topologies: validators on a private network and, in the two-network     *)
(* one, follow nodes and P2P proxies on both networks and public nodes on  *)
(* the public one.                                                         *)
(*                                                                         *)
(* The generator works through the services in order and writes a script,  *)
(* a key and an identity for each, then docker-compose.yaml.  It may be    *)
(* killed at any file, which may be left torn, and deriving an identity    *)
(* may fail (tempo missing on the host, a timeout), which it goes on       *)
(* after.  What it left is what the next run finds.  The layout under it   *)
(* is that of DevnetInit, here made in one step.                           *)
(***************************************************************************)
EXTENDS DevnetConfig, FiniteSets, SequencesExt

CONSTANTS
    Dicts,      \* the configuration mappings the user has
    Overrides,  \* values of --backend, None for none
    Monikers,   \* the names of all nodes and services
    MaxCalls,   \* bound: how many commands and library calls are made
    MaxKeys,    \* bound: how many keys are ever generated
    Torn        \* a file whose writer was killed

ASSUME Bounds == MaxCalls \in Nat /\ MaxKeys \in Nat

\* The mappings are what YAML and from_dict can make of a file.
Optional(S) == S \cup {None}
Subnets == [address: Nat, size: Nat]

ASSUME MappingTypes ==
    /\ \A d \in 0 .. 9 : NodeName[d] \in Monikers
    /\ \A data \in Dicts :
         /\ data.validators \in
              Seq([host: Optional(Nat), port: Optional(Nat),
                   moniker: Optional(Monikers), base_port: Optional(Nat),
                   p2p_host: Optional(Nat), rpc_host: Optional(Nat)])
         /\ \A services \in {data.docker.follow_nodes, data.docker.p2p_proxies,
                             data.docker.public_nodes} :
              services \in Seq([moniker: Monikers, port: Optional(Nat)])
         /\ data.docker.subnet \in Optional(Subnets)
         /\ \A network \in {data.docker.validator_network,
                            data.docker.public_network} \ {None, Null} :
              network.subnet \in Optional(Subnets)

VARIABLES
    disk,   \* the data directory
    job,    \* the running or last generator, and how far it came
    made,   \* how many keys were generated; identifies them
    laid    \* history: configuration and mode of the layout in place, and
            \* whether devnet.yaml was saved with it

vars == <<disk, job, made, laid>>

Configs ==
    {FromDict(data) : data \in Dicts}
      \cup {Override(FromDict(data), backend) : data \in Dicts, backend \in Overrides}

-----------------------------------------------------------------------------
(* The nodes of a configuration *)

Node(kind, moniker, port, index) ==
    [kind |-> kind, moniker |-> moniker, port |-> port, index |-> index]

\* index counts from 0, as enumerate does.
ValidatorNodes(cfg) ==
    [i \in DOMAIN cfg.validators |->
       Node("validator", cfg.validators[i].moniker, cfg.validators[i].base_port,
            i - 1)]

ServiceNodes(kind, services) ==
    [i \in DOMAIN services |->
       Node(kind, services[i].moniker, services[i].port, i - 1)]

FollowNodes(cfg) == ServiceNodes("follow", cfg.docker.follow_nodes)
Proxies(cfg) == ServiceNodes("proxy", cfg.docker.p2p_proxies)
PublicNodes(cfg) == ServiceNodes("public", cfg.docker.public_nodes)

Nodes(cfg) ==
    ValidatorNodes(cfg) \o FollowNodes(cfg) \o Proxies(cfg) \o PublicNodes(cfg)

NamesOf(nodes) == {nodes[i].moniker : i \in DOMAIN nodes}

\* f_start, p_start and n_start: where the addresses of each kind begin.
\* Mutant: the proxies start where the follow nodes do.
AddressStart_Shared(cfg, kind) ==
    CASE kind = "validator" -> 0
      [] kind = "follow" -> Len(cfg.validators)
      [] kind = "proxy" -> Len(cfg.validators)
      [] kind = "public" -> Len(cfg.validators) + Len(cfg.docker.follow_nodes)
                              + Len(cfg.docker.p2p_proxies)

AddressStart(cfg, kind) ==
    CASE kind = "validator" -> 0
      [] kind = "follow" -> Len(cfg.validators)
      [] kind = "proxy" -> Len(cfg.validators) + Len(cfg.docker.follow_nodes)
      [] kind = "public" -> Len(cfg.validators) + Len(cfg.docker.follow_nodes)
                              + Len(cfg.docker.p2p_proxies)

-----------------------------------------------------------------------------
(* The entry of a node in docker-compose.yaml *)

Private(cfg, index) == [net |-> cfg.docker.network.name, ip |-> DockerIp(cfg, index)]
Public(cfg, index) ==
    [net |-> cfg.docker.public.name, ip |-> DockerPublicIp(cfg, index)]

\* A mapping from network to address: of one name the latter stays.
Attachments(cfg, node) ==
    LET index == AddressStart(cfg, node.kind) + node.index
    IN  CASE node.kind = "validator" -> {Private(cfg, index)}
          [] node.kind = "public"    -> {Public(cfg, index)}
          [] OTHER                   ->
               {a \in {Private(cfg, index)} : a.net # cfg.docker.public.name}
                 \cup {Public(cfg, index)}

Publish(host, container) == [host |-> host, container |-> container]

\* A proxy publishes its P2P port under its port itself, the others HTTP and WS.
Published(node) ==
    IF node.kind = "proxy"
    THEN {Publish(node.port, ExecutionP2pPort(DOCKER_CONSENSUS_P2P_PORT))}
    ELSE {Publish(HttpRpcPort(node.port), HttpRpcPort(DOCKER_CONSENSUS_P2P_PORT)),
          Publish(WsRpcPort(node.port), WsRpcPort(DOCKER_CONSENSUS_P2P_PORT))}

\* Follow nodes wait for "node0", whatever the validators are called.
DependsOn(cfg, node) ==
    CASE node.kind = "follow" -> NodeName[0]
      [] node.kind = "public" -> cfg.docker.follow_nodes[1].moniker
      [] OTHER                -> None

Entry(cfg, node) ==
    [kind |-> node.kind, networks |-> Attachments(cfg, node),
     ports |-> Published(node), dependsOn |-> DependsOn(cfg, node)]

\* services[moniker] = ...: of two nodes of one name the later one stays.
Services(cfg) ==
    [m \in NamesOf(Nodes(cfg)) |->
       LET nodes == Nodes(cfg)
           last == CHOOSE i \in DOMAIN nodes :
                     /\ nodes[i].moniker = m
                     /\ \A k \in DOMAIN nodes : nodes[k].moniker = m => k <= i
       IN  Entry(cfg, nodes[last])]

-----------------------------------------------------------------------------
(* What the generator does, file by file *)

Op(do, node) == [do |-> do, node |-> node]

\* _ensure_enode_keypair
EnsureKeypair(node) == <<Op("key", node), Op("identity", node)>>

\* _docker_service_trusted_peers materializes the key pairs of its services.
\* Mutant: it takes those that are there.
EnsureKeypairs_None(nodes) == <<>>

EnsureKeypairs(nodes) ==
    [k \in 1 .. 2 * Len(nodes) |-> EnsureKeypair(nodes[(k + 1) \div 2])[2 - (k % 2)]]

PrepareFollow(cfg, node) ==
    EnsureKeypairs(Proxies(cfg)) \o <<Op("script", node)>> \o EnsureKeypair(node)

PrepareProxy(node) == <<Op("script", node)>> \o EnsureKeypair(node)

PreparePublic(cfg, node) ==
    EnsureKeypairs(FollowNodes(cfg)) \o EnsureKeypairs(Proxies(cfg))
      \o <<Op("script", node)>> \o EnsureKeypair(node) \o <<Op("depend", node)>>

Prepare(cfg, node) ==
    CASE node.kind = "validator" -> <<Op("script", node)>>
      [] node.kind = "follow"    -> PrepareFollow(cfg, node)
      [] node.kind = "proxy"     -> PrepareProxy(node)
      [] node.kind = "public"    -> PreparePublic(cfg, node)

\* The operations for each node in turn, then those for the file itself.
Program(cfg) ==
    Append([i \in DOMAIN Nodes(cfg) |-> Prepare(cfg, Nodes(cfg)[i])],
           <<Op("compose", None)>>)

\* --trusted-peers: the nodes whose identity file is there.
\* Mutant: all whose directory is.
Peers_All(nodes) ==
    {[id |-> disk.dirs[m].identity, at |-> m] : m \in
       {n \in NamesOf(nodes) : disk.dirs[n] # None}}

Peers(nodes) ==
    {[id |-> disk.dirs[m].identity, at |-> m] : m \in
       {n \in NamesOf(nodes) : disk.dirs[n] # None /\ disk.dirs[n].identity # None}}

PeersOf(cfg, node) ==
    CASE node.kind = "validator" ->
           {p \in Peers(ValidatorNodes(cfg)) : p.at # node.moniker}
      [] node.kind = "follow" -> Peers(ValidatorNodes(cfg)) \cup Peers(Proxies(cfg))
      [] node.kind = "proxy"  -> {}
      [] node.kind = "public" -> Peers(FollowNodes(cfg)) \cup Peers(Proxies(cfg))

\* Where a node syncs from: an address on the private network for follow nodes
\* and proxies, a service for public nodes.
\* Mutant: the second validator's address.
Upstream_OffByOne(cfg, node) ==
    CASE node.kind = "validator" -> [ip |-> None, service |-> None]
      [] node.kind = "public" ->
           [ip |-> None,
            service |-> IF cfg.docker.follow_nodes # <<>>
                        THEN cfg.docker.follow_nodes[1].moniker ELSE "follower0"]
      [] OTHER -> [ip |-> DockerIp(cfg, 1), service |-> None]

Upstream(cfg, node) ==
    CASE node.kind = "validator" -> [ip |-> None, service |-> None]
      [] node.kind = "public" ->
           [ip |-> None,
            service |-> IF cfg.docker.follow_nodes # <<>>
                        THEN cfg.docker.follow_nodes[1].moniker ELSE "follower0"]
      [] OTHER -> [ip |-> DockerIp(cfg, 0), service |-> None]

\* The address a node binds its services to.
ListenAddr(cfg, node) ==
    IF node.kind = "validator" /\ IsTwoNetwork(cfg)
    THEN DockerIp(cfg, node.index) ELSE AnyHost

Script(cfg, node) ==
    [kind |-> node.kind, peers |-> PeersOf(cfg, node),
     upstream |-> Upstream(cfg, node), listen |-> ListenAddr(cfg, node)]

-----------------------------------------------------------------------------
(* State *)

KeyFile == (1 .. MaxKeys) \cup {None, Torn}

Genesis ==
    [keys: Seq(KeyFile), addresses: Seq([host: Nat, port: Nat])]

Scripts ==
    [kind: {"validator", "follow", "proxy", "public"},
     peers: SUBSET [id: KeyFile \ {None}, at: Monikers],
     upstream: [ip: Nat \cup {None}, service: Monikers \cup {None, "follower0"}],
     listen: Nat]

Dir ==
    [key: KeyFile, identity: KeyFile, genesis: Genesis \cup {None},
     script: Scripts \cup {None, Torn}]

Disk ==
    [genesis: Genesis \cup {None}, dirs: [Monikers -> Dir \cup {None}],
     yaml: {ToDict(cfg) : cfg \in Configs} \cup {None},
     compose: Configs \cup {None, Torn}]

Results == {"none", "ok", "kept", "raised", "killed"}

Layouts == [cfg: Configs, docker: BOOLEAN, saved: BOOLEAN]

TypeOK ==
    /\ disk \in Disk
    /\ job \in [cfg: Configs \cup {None}, part: Nat, pc: Nat,
               calls: 0 .. MaxCalls, failed: SUBSET Monikers, result: Results]
    /\ job.result = "ok" => job.cfg # None
    /\ job.part > 0 => /\ job.cfg # None
                      /\ job.part \in DOMAIN Program(job.cfg)
                      /\ job.pc \in DOMAIN Program(job.cfg)[job.part]
    /\ made \in 0 .. MaxKeys
    /\ laid \in Layouts \cup {None}

\* Nothing, null and a torn file are no values.
ASSUME NoneIsAbsence ==
    /\ None # Null /\ None # Torn
    /\ \A nothing \in {None, Null, Torn} :
         /\ nothing \notin Nat \cup Monikers \cup Subnets \cup Configs
         /\ nothing \notin Genesis \cup Scripts \cup Dir \cup Layouts
         /\ \A cfg \in Configs :
              /\ nothing # cfg.docker.network
              /\ IsTwoNetwork(cfg) => nothing # cfg.docker.public

EmptyDir == [key |-> None, identity |-> None, genesis |-> None, script |-> None]

EmptyDisk ==
    [genesis |-> None, dirs |-> [m \in Monikers |-> None], yaml |-> None,
     compose |-> None]

Init ==
    /\ disk = EmptyDisk
    /\ job = [cfg |-> None, part |-> 0, pc |-> 0, calls |-> 0, failed |-> {},
              result |-> "none"]
    /\ made = 0
    /\ laid = None

-----------------------------------------------------------------------------
(* The layout, as DevnetInit leaves it: the xtask makes a key for each      *)
(* validator and puts its address into genesis; the directories of          *)
(* validators of one moniker could not both be put in place.                *)

Call(cfg) ==
    /\ job.part = 0 /\ job.calls < MaxCalls
    /\ cfg \in Configs

DistinctValidators(cfg) == IsInjective([i \in DOMAIN cfg.validators |->
                                          cfg.validators[i].moniker])

KeyCount(cfg) == IF cfg.backend = DEFAULT_BACKEND THEN Len(cfg.validators) ELSE 0

KeyOf(cfg, i) == IF i <= KeyCount(cfg) THEN made + i ELSE None

LayOver(old, cfg, docker) ==
    [old EXCEPT
       !.genesis = [keys |-> [i \in DOMAIN cfg.validators |-> KeyOf(cfg, i)],
                    addresses |-> GenesisAddresses(cfg, docker)],
       !.dirs = [m \in Monikers |->
                   IF m \in NamesOf(ValidatorNodes(cfg))
                   THEN LET i == CHOOSE k \in DOMAIN cfg.validators :
                                   cfg.validators[k].moniker = m
                        IN  [EmptyDir EXCEPT !.key = KeyOf(cfg, i),
                                             !.identity = KeyOf(cfg, i)]
                   ELSE @[m]]]

Lay(old, cfg, docker, saved) ==
    /\ DistinctValidators(cfg)
    /\ docker => cfg.backend = DEFAULT_BACKEND
    /\ made' = made + KeyCount(cfg)
    /\ made' <= MaxKeys
    /\ disk' = LayOver(old, cfg, docker)
    /\ laid' = [cfg |-> cfg, docker |-> docker, saved |-> saved]

Start(cfg, at, result) ==
    job' = [cfg |-> cfg, part |-> at, pc |-> at, calls |-> job.calls + 1, failed |-> {},
            result |-> result]

\* init --force, with or without --gen-compose-file.
CallInit(data, backend, docker) ==
    LET cfg == Override(FromDict(data), backend)
    IN  /\ Call(cfg)
        /\ Lay([EmptyDisk EXCEPT !.yaml = ToDict(cfg)], cfg, docker, TRUE)
        /\ Start(cfg, IF docker THEN 1 ELSE 0, IF docker THEN "none" ELSE "kept")

\* generate_localnet alone: no devnet.yaml is written, and whether the xtask's
\* --force removes what else was in the directory is not known.
CallLocalnet(data, docker) ==
    LET cfg == FromDict(data)
    IN  /\ Call(cfg)
        /\ \E old \in {disk, EmptyDisk} : Lay(old, cfg, docker, FALSE)
        /\ Start(cfg, 0, "kept")

-----------------------------------------------------------------------------
(* generate_docker_compose *)

CallCompose(data, force) ==
    LET cfg == FromDict(data)
    IN  /\ Call(cfg)
        /\ cfg.backend = DEFAULT_BACKEND
        /\ disk.compose = None \/ force
        /\ Start(cfg, 1, "none")
        /\ UNCHANGED <<disk, made, laid>>

ComposeKept(data) ==
    LET cfg == FromDict(data)
    IN  /\ Call(cfg)
        /\ cfg.backend = DEFAULT_BACKEND
        /\ disk.compose # None
        /\ Start(cfg, 0, "kept")
        /\ UNCHANGED <<disk, made, laid>>

\* docker mode is not supported for the other backends.
ComposeRefused(data) ==
    LET cfg == FromDict(data)
    IN  /\ Call(cfg)
        /\ cfg.backend # DEFAULT_BACKEND
        /\ Start(cfg, 0, "raised")
        /\ UNCHANGED <<disk, made, laid>>

Current == Program(job.cfg)[job.part][job.pc]

\* The operation do is next, on the directory dir of moniker m.
At(do) == job.part > 0 /\ Current.do = do

Done(failed) ==
    job' = IF job.pc < Len(Program(job.cfg)[job.part])
           THEN [job EXCEPT !.pc = @ + 1, !.failed = failed]
           ELSE IF job.part < Len(Program(job.cfg))
           THEN [job EXCEPT !.part = @ + 1, !.pc = 1, !.failed = failed]
           ELSE [job EXCEPT !.part = 0, !.pc = 0, !.result = "ok",
                            !.failed = failed]

Stop(result) == job' = [job EXCEPT !.part = 0, !.pc = 0, !.result = result]

DirOf(m) == IF disk.dirs[m] = None THEN EmptyDir ELSE disk.dirs[m]

Write(m, dir) == disk' = [disk EXCEPT !.dirs[m] = dir]

\* Mutant: every run makes new keys.
WriteKey_Always ==
    /\ At("key")
    /\ LET m == Current.node.moniker
       IN  /\ made < MaxKeys
           /\ made' = made + 1
           /\ Write(m, [DirOf(m) EXCEPT !.key = made + 1, !.identity = None])
    /\ Done(job.failed)
    /\ UNCHANGED laid

\* A key that is there is never replaced.
WriteKey ==
    /\ At("key")
    /\ LET m == Current.node.moniker
       IN  IF DirOf(m).key = None
           THEN /\ made < MaxKeys
                /\ made' = made + 1
                /\ Write(m, [DirOf(m) EXCEPT !.key = made + 1])
           ELSE UNCHANGED <<disk, made>>
    /\ Done(job.failed)
    /\ UNCHANGED laid

\* tempo p2p enode reads the key file.
WriteIdentity ==
    /\ At("identity")
    /\ LET m == Current.node.moniker
       IN  /\ DirOf(m).identity # None \/ DirOf(m).key \notin {None, Torn}
           /\ Write(m, [DirOf(m) EXCEPT
                !.identity = IF @ = None THEN DirOf(m).key ELSE @])
           /\ Done(job.failed)
    /\ UNCHANGED <<made, laid>>

\* The tempo binary is missing, fails or takes too long: only a warning.
IdentityFails ==
    /\ At("identity")
    /\ DirOf(Current.node.moniker).identity = None
    /\ Done(job.failed \cup {Current.node.moniker})
    /\ UNCHANGED <<disk, made, laid>>

\* The directory of a service is made and gets genesis.json with its script;
\* that of a validator has to be there.
WriteScript ==
    /\ At("script")
    /\ LET node == Current.node
           dir == DirOf(node.moniker)
       IN  /\ node.kind = "validator" => disk.dirs[node.moniker] # None
           /\ Write(node.moniker,
                [dir EXCEPT !.script = Script(job.cfg, node),
                            !.genesis = IF \/ node.kind = "validator"
                                           \/ disk.genesis = None
                                        THEN @ ELSE disk.genesis])
    /\ Done(job.failed)
    /\ UNCHANGED <<made, laid>>

ScriptRaises ==
    /\ At("script")
    /\ Current.node.kind = "validator"
    /\ disk.dirs[Current.node.moniker] = None
    /\ Stop("raised")
    /\ UNCHANGED <<disk, made, laid>>

\* docker_follow_nodes[0]
TakeFollowNode ==
    /\ At("depend")
    /\ IF job.cfg.docker.follow_nodes = <<>> THEN Stop("raised")
       ELSE Done(job.failed)
    /\ UNCHANGED <<disk, made, laid>>

WriteCompose ==
    /\ At("compose")
    /\ disk' = [disk EXCEPT !.compose = job.cfg]
    /\ Done(job.failed)
    /\ UNCHANGED <<made, laid>>

\* Killed before the file is opened, or while it is written.
Kill ==
    /\ job.part > 0
    /\ \/ UNCHANGED disk
       \/ At("key") /\ LET m == Current.node.moniker
                       IN  /\ DirOf(m).key = None
                           /\ Write(m, [DirOf(m) EXCEPT !.key = Torn])
       \/ At("identity") /\ LET m == Current.node.moniker
                            IN  /\ DirOf(m).identity = None
                                /\ DirOf(m).key \notin {None, Torn}
                                /\ Write(m, [DirOf(m) EXCEPT !.identity = Torn])
       \/ At("script") /\ LET m == Current.node.moniker
                          IN  /\ Current.node.kind = "validator" =>
                                   disk.dirs[m] # None
                              /\ Write(m, [DirOf(m) EXCEPT !.script = Torn])
       \/ At("compose") /\ disk' = [disk EXCEPT !.compose = Torn]
    /\ Stop("killed")
    /\ UNCHANGED <<made, laid>>

Step ==
    \/ WriteKey \/ WriteIdentity \/ IdentityFails \/ WriteScript \/ ScriptRaises
    \/ TakeFollowNode \/ WriteCompose \/ Kill

Next ==
    \/ \E data \in Dicts :
         \/ \E backend \in Overrides, docker \in BOOLEAN :
              CallInit(data, backend, docker)
         \/ \E docker \in BOOLEAN : CallLocalnet(data, docker)
         \/ \E force \in BOOLEAN : CallCompose(data, force)
         \/ ComposeKept(data) \/ ComposeRefused(data)
    \/ Step

Spec == Init /\ [][Next]_vars
-----------------------------------------------------------------------------
(* Properties *)

\* The generator got to its end, and docker-compose.yaml is the one it wrote.
Generated == job.part = 0 /\ job.result = "ok"

IsGenerated(compose) == compose \notin {None, Torn}

DistinctNodes(cfg) ==
    IsInjective([i \in DOMAIN Nodes(cfg) |-> Nodes(cfg)[i].moniker])

Inside(ip, subnet) == subnet.address + 1 < ip /\ ip < subnet.address + subnet.size - 1

\* The networks, should they go by one name, are one.
OneSubnetPerName(cfg) ==
    (IsTwoNetwork(cfg) /\ cfg.docker.network.name = cfg.docker.public.name)
      => cfg.docker.network.subnet = cfg.docker.public.subnet

\* No two services are given one address, and as long as a subnet has room for
\* ten addresses and one per node, none is given the gateway's, the broadcast
\* address or one outside of it (docker_ip and docker_public_ip only add), unless
\* the user gave two different subnets under one name.
AddressesFit ==
    (IsGenerated(disk.compose) /\ OneSubnetPerName(disk.compose)) =>
      LET cfg == disk.compose
          services == Services(cfg)
          subnets == {cfg.docker.network}
                       \cup IF IsTwoNetwork(cfg) THEN {cfg.docker.public} ELSE {}
      IN  /\ \A m, n \in DOMAIN services :
               m # n => services[m].networks \cap services[n].networks = {}
          /\ \A net \in subnets :
               net.subnet.size > DOCKER_IP_HOST_OCTET_BASE + Len(Nodes(cfg)) =>
                 \A m \in DOMAIN services : \A a \in services[m].networks :
                   a.net = net.name => Inside(a.ip, net.subnet)

\* Every container syncs from one it shares a network with: follow nodes and
\* proxies from the first validator, at an address it listens on, public nodes
\* from the first follow node.
\* What depends_on names is there too, unless nothing goes by the name that follow
\* nodes wait for, "node0" (supervisor.py, the literal): the first validator may
\* have another name, and a proxy that has this one will do.
UpstreamsResolve ==
    (Generated /\ DistinctNodes(job.cfg)) =>
      LET services == Services(job.cfg)
          validator == ValidatorNodes(job.cfg)[1].moniker
          script(m) == disk.dirs[m].script
          nets(m) == {a.net : a \in services[m].networks}
      IN  \A m \in DOMAIN services :
            /\ script(m).kind = services[m].kind
            /\ script(m).upstream.ip # None =>
                 \E a \in services[validator].networks :
                    /\ a.ip = script(m).upstream.ip /\ a.net \in nets(m)
                    /\ script(validator).listen \in {AnyHost, a.ip}
            /\ script(m).upstream.service # None =>
                 /\ script(m).upstream.service \in DOMAIN services
                 /\ nets(script(m).upstream.service) \cap nets(m) # {}
            /\ services[m].dependsOn \notin DOMAIN services \cup {None} <=>
                 services[m].kind = "follow" /\ NodeName[0] \notin DOMAIN services

\* The layout was made for Docker, on the subnet of cfg.
SameSubnet(cfg) ==
    /\ laid.docker
    /\ laid.cfg.docker.network.subnet.address = cfg.docker.network.subnet.address

\* No validator of genesis has the address of a container of cfg.
AddressesApart(cfg) ==
    \A k \in DOMAIN disk.genesis.addresses, i \in DOMAIN cfg.validators :
      disk.genesis.addresses[k].host # DockerIp(cfg, i - 1)

\* The containers' addresses are the ones the validators have in genesis, each
\* with the keys genesis has for it, exactly when the layout was made for
\* Docker, on this subnet and with the validators in this order: nothing else
\* tells generate_docker_compose what the layout underneath is.  Left out are
\* coincidences, hosts the user gave that are containers' addresses and subnets
\* that overlap in part.
ContainersMatchGenesis ==
    (/\ Generated /\ DistinctNodes(job.cfg)
     /\ SameSubnet(job.cfg) \/ AddressesApart(job.cfg)) =>
      LET services == Services(job.cfg)
          validators == ValidatorNodes(job.cfg)
          matches == \A i \in DOMAIN validators :
                       LET m == validators[i].moniker
                       IN  \E k \in DOMAIN disk.genesis.keys :
                             /\ disk.dirs[m].key = disk.genesis.keys[k]
                             /\ \E a \in services[m].networks :
                                  a.ip = disk.genesis.addresses[k].host
          names(cfg) == [i \in DOMAIN cfg.validators |-> cfg.validators[i].moniker]
      IN  matches <=> /\ SameSubnet(job.cfg)
                      /\ IsPrefix(names(job.cfg), names(laid.cfg))

\* Whatever was killed or regenerated before, the peers in the scripts of the
\* nodes are the keys now in the peers' directories (or the empty identity of
\* a run that was killed while it wrote one), and services have the genesis of
\* the layout: keys are never replaced once a script may name them.
PeersAreCurrent ==
    Generated =>
      \A m \in NamesOf(Nodes(job.cfg)) :
        LET dir == disk.dirs[m]
        IN  /\ \A p \in dir.script.peers : p.id \in {disk.dirs[p.at].key, Torn}
            /\ dir.script.kind # "validator" => dir.genesis = disk.genesis

\* A script lists every node it should gossip with, the services that come
\* later in the file included; only one whose identity this run failed to
\* derive at some point is missing, and validators that were laid out without one
\* (by another backend, or when the directory is what a killed run left of a
\* service).
PeersComplete ==
    (Generated /\ DistinctNodes(job.cfg)) =>
      LET cfg == job.cfg
          expected(kind) ==
            CASE kind = "validator" -> NamesOf(ValidatorNodes(cfg))
              [] kind = "follow" -> NamesOf(ValidatorNodes(cfg) \o Proxies(cfg))
              [] kind = "proxy"  -> {}
              [] kind = "public" -> NamesOf(FollowNodes(cfg) \o Proxies(cfg))
      IN  \A m \in NamesOf(Nodes(cfg)) :
            LET script == disk.dirs[m].script
                listed == {p.at : p \in script.peers}
            IN  /\ listed \subseteq expected(script.kind) \ {m}
                /\ expected(script.kind) \ (listed \cup {m}) \subseteq
                     job.failed \cup
                       {n \in NamesOf(ValidatorNodes(cfg)) : DirOf(n).identity = None}
=============================================================================
