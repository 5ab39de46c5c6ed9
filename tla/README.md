# tempo-py in TLA+

tempo-py is two programs in one package: an **SDK** that builds, signs and
sponsors Tempo transactions (`src/tempo/*.py`), and a **devnet manager** that
generates, runs and controls a local network of nodes (`src/tempo/devnet/`).
This directory models the parts of both where the order of operations, several
parties, or failures decide whether the result is right.

## 1. Inventory

| Part | State it keeps | Operations | What is hard, and what makes it correct |
|---|---|---|---|
| Transactions (`models.py`, `transaction.py`, `signer.py`) | immutable `TempoTransaction` values in the callers' variables | `create`, builder, `sign_transaction`, `add_fee_payer_signature`, `clone`, `_replace_fields`, `serialize*`, `verify_*` | Two parties sign different views of one transaction, in any order, and edit it in between. A signature must count for exactly what its key was shown, and the SDK's verdict must be the node's. |
| Access keys (`keychain.py`, `p256.py`) | the key authorization and `KeychainSignature` inside a transaction | `sign_tx_access_key`, `sign_tx_registered_key`, `KeychainSignature.from_inner`, `signing_hash` | Three signing domains (0x76, 0x78, 0x04) over the same fields; embedded signatures must be byte-for-byte what the node re-encodes. |
| Key restrictions (`keychain.py`, `contracts/keychain.py`) | immutable restriction values | `create`, `with_limits`, `add_call`, `as_admin`, `KeyAuthorization.to_rlp`, `authorize_key` call data | Absent, empty and zero are three things on the wire and a list is cut at its end; two encodings of one permission must grant the same, and take what their builders make. |
| Cluster control (`devnet/cluster.py`) | the cached XML-RPC proxy | `status`, `start/stop_all`, `start/stop/restart_node` | Blocking calls to a daemon that other clients use, that boots, dies, and restarts nodes by itself; connections that stay broken. |
| Devnet initialisation (`devnet/cli.py`, `backends.py`, `supervisor.py`) | the data directory | `init`, `generate_localnet`, `prepare_layout`, `generate_supervisor_config`, `generate_docker_compose` | A dozen file-system steps that can fail or be killed, over what earlier runs left; `start` trusts the existence of one file. |
| Configuration (`devnet/config.py`) | `DevnetConfig` | `DevnetConfig(data)`, `load`, `to_dict`, the overrides of `init`, `docker_ip`, `ephemeral` | The saved file must describe the devnet that was generated, whatever was defaulted or overridden. |
| Ports (`devnet/ports.py`) | none, the host's sockets | `find_free_base_ports`, the port offsets | Probing and use are apart in time, and other processes, also ones in the same function, move in between; what is probed (TCP on one address) is less than what a node opens; blocks must not overlap. |
| Compose (`devnet/supervisor.py`) | keys, identities, scripts and `docker-compose.yaml` in the data directory | `generate_docker_compose` in both topologies, `_ensure_enode_keypair`, `_docker_service_trusted_peers` | Addresses, identities, peers and dependencies of four kinds of nodes must fit together, and with a layout made by another call; the run may be killed, or fail to derive an identity and go on. |
| Endpoints (`devnet/cluster.py`) | the cached configuration | `config`, `node_rpc_url`, `node_ws_url` | The URL must lead to the node it is asked for and to no other, on the host to an address its server is bound to, and also when the configuration is only guessed. |

The parts meet in few places: the signers call `serialize_for_signing` of the
transaction they are about to produce; `init` calls the backend, the supervisor
and the compose generators on one directory; `ClusterCLI` controls the
supervisord that runs the generated configuration. The parties of a transaction
share nothing but the value they pass on.

The hazards, each at its line and with the properties about it, are listed in
`PROJECT.json`.

## 2. Modules

| Module | Role |
|---|---|
| `TxSigning` | the SDK's signing operations over the parties' variables |
| `TxAcceptance` | extends it with the node's rules and the properties that relate SDK, node and signers |
| `TxSigningProofs` | proofs: types, and the authenticity of senders and fee payers |
| `TxAcceptanceProofs` | proofs: signing domains, and what node and SDK agree on |
| `Sponsorship` | abstract specification of signing and sponsoring: promises instead of signatures |
| `TxCommitments` | the refinement mapping: `TxSigning` implements `Sponsorship` |
| `TxCommitmentsProofs` | proofs: the refinement, and that accepted is promised |
| `MCTxSigning` | TLC instances |
| `KeyPermissions` | what an access key may do, its two encodings, and how the node reads them |
| `KeyPermissionsProofs` | proofs: what is sent is read, where both bindings agree, and what objects lose |
| `MCKeyPermissions` | TLC instance |
| `Supervisord` | the daemon, external, with the XML-RPC calls as `ClusterCLI` sees them |
| `ClusterControl` | composes it with several `ClusterCLI` clients |
| `ClusterControlProofs` | proofs: what a returned True means |
| `MCClusterControl` | TLC instances |
| `DevnetInit` | the data directory and the jobs that write it |
| `DevnetDirectory` | abstract specification of what `init` shows in the directory; `DevnetInit` maps to it |
| `DevnetInitProofs` | proofs: what `init` leaves, what a `supervisord.ini` means, and the refinement |
| `MCDevnetInit` | TLC instances and their configurations |
| `Ports` | the service ports of a node |
| `PortReservation` | extends it: callers of `find_free_base_ports`, their nodes, and other processes on one host |
| `PortReservationProofs` | proofs: who has a socket a node needs, what overlapping blocks come to, and that a search runs down |
| `MCPortReservation` | TLC instance |
| `DevnetConfig` | extends `Ports`: the configuration, its mapping, defaults and addresses |
| `ComposeTopology` | extends it: `generate_docker_compose` over layouts that earlier calls left |
| `ClusterEndpoints` | composes it with a `ClusterCLI` that reads the directory |
| `ClusterEndpointsProofs` | proofs about it and `ComposeTopology`: addresses, peers, endpoints, the saved and the guessed configuration |
| `MCClusterEndpoints` | TLC instance and the mappings users write |

### TxSigning and TxAcceptance

`tx[s]` is the transaction that variable `s` holds. Every operation reads one
variable and writes the same or another one, so two parties may hold copies that
diverge and overwrite each other. `grants` is history: each entry says which key
was asked to sign what, in which role, for which account. It is written by the
signing actions and read only by properties.

| Code | Definition |
|---|---|
| `_build_fields`, `_encode_fee_payer_field`, `_encode_fee_token` | `BuildFields`, `EncodeFeePayerField`, `EncodeFeeToken` |
| `serialize_for_signing`, `serialize_for_fee_payer_signing`, `serialize` | same names in CamelCase |
| `sign_transaction`, `add_fee_payer_signature` | `SignTransaction`, `AddFeePayerSignature` |
| `sign_tx_access_key`, `sign_tx_registered_key` | `SignTxAccessKey`, `SignTxRegisteredKey` |
| `clone`, `_replace_fields` | `Clone`, `SetFeeToken`, `SetAwaiting`, `SetBody` |
| `verify_signature`, `verify_fee_payer_signature` | `VerifySignature`, `VerifyFeePayerSignature` |

Cryptography is symbolic: a hash is what was hashed, a signature names its key
and its payload, and recovery against another payload gives `Garbage`, an address
nobody has. The byte `v` of a signature is kept (raw 0/1 or canonical 27/28)
because the node re-encodes embedded signatures canonically and hashes that.
RLP fields 0 to 9 (chain, gas, calls, nonces, validity) are one value, `body`:
no operation modelled here looks into them.

The node is not in the repository. `NodeSenderPayload`, `NodeSender` and
`NodeFeePayer` are the rules the source's comments rely on (the fee token is
skipped, and field 11 is the marker, exactly when a fee payer signature is
present), and they are marked external.

### Sponsorship and TxCommitments

`Sponsorship` knows no payloads, markers or hashes. A deal has terms, a token and
up to two promises; a promise is made over the deal as it is (`SenderPromise`,
`PayerPromise`) and never changes, and it binds its maker exactly while the deal
is what was promised (`SenderBound`, `PayerBound`). `TxCommitments` reads a deal
off a transaction: the terms are `body` and the key authorization, the promise
behind a signature is what the payload under it says, and field 11 of the sender's
payload tells which of three ways of paying the sender meant. Then

- `ImplementsSponsorship` is `Promises!Spec` under that mapping: every operation
  of the SDK is one abstract step, so none changes what an earlier signature
  promised, and a payer only ever joins a sender that the transaction names;
- `AcceptedIffPromised` relates the node to the abstraction: it accepts the
  sender, and charges the payer, exactly while the promises bind.

The two abstract fields `open` and `named` are the code's `awaiting_fee_payer`
and `sender_address`. The first alone decides how an unsponsored sender means the
fee to be paid; the second is the account that a payer's promise names.

### KeyPermissions

`restr` is the `KeyRestrictions` a program holds, `sent` what it last made of it:
a `KeyAuthorization` in a transaction, an `authorizeKey` call, or the exception
that came of it.

| Code | Definition |
|---|---|
| `KeyRestrictions.create`, `with_limits`, `add_call`, `as_admin` | `Create`, `WithLimits`, `AddCall`, `AsAdmin` |
| `TokenLimit.to_rlp`, `CallScope.to_rlp`, `KeyAuthorization.to_rlp` | `TokenLimitToRlp`, `ScopeToRlp`, `Optionals` and `ToRlp` |
| `KeyAuthorization.__attrs_post_init__` | `AdminMayCarry` |
| `_scope_rules`, `_build_restrictions_tuple`, `authorize_key` | `ScopeRules`, `BuildRestrictionsTuple`, `SendAuthorizeKey`, `AuthorizeKeyRaises` |

An RLP item is kept as its type and its value, since the node tells a field by
its place and reads the value by its width. The node (`NodeReads`,
`NodeReadsCall`) is external and written after the docstrings of `to_rlp`:
trailing-canonical lists, a period that is there and not zero, no rules meaning
any function, no recipients meaning any recipient. Tuples whose order nothing
depends on are sets.

A program may hand `authorize_key` its scopes and its limits as the documented
tuples or as the objects of `tempo.keychain` (`Forms`). A `TokenLimit` cannot be
iterated, and the `SelectorRule`s of a `CallScope` go to the ABI encoder as they
are, for which it has no `(bytes4, address[])`: with either the call raises
(`Encodable`). A `CallScope` without rules is taken, without its selector.

### Supervisord and ClusterControl

`proc`, `up`, `pending`, `failed` are supervisord's; `call[c]` is the method a
client is in (what is left of it, and whether it lists, sends or waits), and
`proxy[c]` the connection in its cached proxy. A request and its response are
separate steps: supervisord, the nodes and the other clients move in between, and
supervisord may go down and be booted again. `since` is history: in which states
a node was seen during the call. A request that cannot be sent leaves the proxy
in the state `RequestSent`, in which every later request fails; the except branch
of `status()` is `ProxyAfterStatusError`.

### DevnetInit

`disk` is the data directory: `genesis.json`, a directory per address or moniker
with its keys, genesis copy and scripts, and the three configuration files. `job`
is the running or last job and the step it is at; each file or directory
operation is one action, in the order of the code, and `Kill` ends the job at any
of them, possibly tearing the file it is writing. `runs` tells what one run of
the xtask made from what an earlier one did. What the xtask's `--force` does to
files it does not write is not known from the repository: both outcomes are
modelled, and a failing xtask may have written any of the directories.
Exceptions (a missing directory, two validators of one moniker, a torn
`genesis.json`) are actions of their own that end the job with `raised`.
One job runs at a time; two concurrent `init`s on one directory are not modelled.

`DevnetDirectory` is what all this amounts to for whoever looks for a devnet in the
directory. It has two variables, the devnet that shows (whole or broken) and the
`init` at work (clearing, building, or done with what matters). A devnet shows in
one step, whole; nothing takes it away but an `init` that was told to replace it,
in one step again, or by dying at that and leaving it broken. `DevnetShown` reads
the first off the directory as the `start` command does, by `supervisord.ini`, and
`InitAtWork` the second off the job; `ImplementsDirectory` says that the dozen
steps of `init`, killed at any of them, are steps of `DevnetDirectory` or stutters.
`IniMeansReady` says of single states what the refinement says of behaviours, and
needs the history `torn` for it; the refinement needs none.

### Ports and PortReservation

A socket is a pair of what it is bound to and a port: TCP on 127.0.0.1, TCP on the
other addresses of the host, or UDP; `owner` maps each to the process that has it.
A caller goes through `find_free_base_ports` one socket call at a time: the kernel's
choice of a base (`ChooseBase`, or `ChooseRaises` when it has none), the end of the
`with` block and the check against 65500 (`CloseBase`), and a bind and a close per
probed port (`ProbeBinds`, `ProbeCloses`, `ProbeFails`), always by TCP on 127.0.0.1
(`ToProbe`), as in every call of the package. What follows is external: the nodes
open their sockets (`NodeSockets`: the services on the host that `ephemeral` was
given, the engine API on 127.0.0.1, the execution P2P port on every address and by
UDP; these are the `tempo` backend's, of which `allegro` opens a subset) or exit
because one is taken (`NodeListens`, `NodeExits`), and the devnet is stopped. `old`
and `clash` are history: which sockets others have had since before the caller
probed their port, and which ones its nodes found taken, by whom, and whether since
the probe. The stride is any number, as in the code, which does not check it, and
may differ from caller to caller, as may the host.

### DevnetConfig, ComposeTopology and ClusterEndpoints

A YAML mapping is a record in which `None` stands for a key that is not there and
`Null` for one whose value is null, because `data.get` tells the two apart and
`or {}` does not. Addresses are numbers and subnets an address and a size, as
`ipaddress` computes with them.

| Code | Definition |
|---|---|
| `ValidatorConfig.from_dict`, `__init__` with the default moniker, `to_dict` | `ValidatorFromDict`, `ValidatorToDict`, `DefaultMoniker` |
| `DevnetConfig.__init__`, `to_dict`, the docker section | `FromDict`, `ToDict`, `DockerTopology`, `DockerToDict` |
| `docker_ip`, `docker_public_ip`, `docker_validators_arg` and `validators_arg` | `DockerIp`, `DockerPublicIp`, `GenesisAddresses` |
| `init`'s overrides of a loaded configuration | `Override` |
| the services of `_generate_two_network_compose` and of the single network | `Services`, `Entry`, `Attachments`, `Published`, `DependsOn` |
| `_ensure_enode_keypair` | `WriteKey`, `WriteIdentity`, `IdentityFails` |
| `_docker_service_trusted_peers`, `_docker_trusted_peers` | `EnsureKeypairs`, `Peers`, `PeersOf` |
| `ClusterCLI.config`, `_find_rpc_endpoint`, `node_rpc_url`, `node_ws_url` | `ReadConfig`, `Guessed`, `FindRpcEndpoint`, `NodeRpcUrl`, `NodeWsUrl` |
| the addresses and ports in the node's arguments, `node_args` of both backends | `HostSockets` |

`generate_docker_compose` is `Program(cfg)`, for each node the list of its file
operations, and the compose file last; `job.part` and `job.pc` say where the
generator is in it, and one action per kind of operation takes it on. Between any
two it may be killed, which may leave the file torn, and deriving an identity may fail, which the code passes
over with a warning. The calls that come first (`CallInit`, `CallLocalnet`) leave
what `DevnetInit` shows they leave, in one step, and `CallCompose` runs the
generator again with any configuration over any of it. Keys are numbered as they
are made, so that a stale identity differs from a current one. The two networks may go
by one name: a service then has one attachment (`Attachments`), as in the
dictionary the code fills.

Of the overrides of `init`, which can set any attribute, `Override` models the
backend, the one from which other fields were derived before. On the host,
`HostSockets` is what a validator's `run.sh` listens on, and `Answering` which
server a connection to a URL comes to: one bound to the URL's host or to every
address.

`laid` is history: which configuration the layout on disk was made from. The
properties state their conditions where the code has none of its own: a service
may have a validator's name, a subnet may be too small, two services may be left
at one default port, follow nodes wait for a literal `node0`, and
`generate_docker_compose` looks at nothing of the layout it is run over. Each of
those is in the instance, and wherever it can be said the property is an
equivalence, so that the run shows both that the code is right under the
condition and that it is not without.

## 3. Runs

| Run | Shows | Bounds |
|---|---|---|
| `sponsor` | `FeePayerAuthentic`, `SponsoredAccepted`, `AcceptedIffPromised`, `ResignKeepsSponsor`, `TokenCommitment`, `TypeOK` | 2 keys (symmetric), 1 body, a token or none, 1 variable, 4 signatures |
| `keychain` | `SenderAuthentic`, `RolesSeparated`, `UnsponsoredAccepted`, `AcceptedIffPromised`, `ImplementsSponsorship` | 2 secp256k1 keys (one a root), 1 P-256 key, 1 variable, 3 signatures |
| `responsor` | **violated**: `SponsoredStillVerifies` | as `sponsor`, with 2 bodies and 3 signatures |
| `stalekey` | **violated**: `KeychainVerifiedIsSigned` | as `keychain` |
| `wire` | `NodeReadsAuthorization`, `AdminIsUnrestricted`, `BindingsAgree`, `TypeOK` | 6 call scopes (2 at a time), 2 limits, 2 expiries |
| `clients` | `OkMeansDone` | 2 clients, 2 nodes, 1 boot, no exits |
| `returns` | `CallsReturn`, `StatusRecovers`, `OkMeansDone`, `TypeOK` | 1 client, 2 nodes, 2 boots, 3 exits, 1 retry |
| `stop_all` | **violated**: `StopAllStopsAll` | 1 client, 2 nodes |
| `init_cli` | `InitLeavesDevnet`, `IniMeansReady`, `ForcedInitRecovers`, `ImplementsDirectory` | 6 configurations of 2 validators, 2 xtask runs |
| `init_library` | `RegeneratedIsReady`, `TypeOK` | 2 configurations, 2 xtask runs |
| `compose` | `AddressesFit`, `UpstreamsResolve`, `ContainersMatchGenesis`, `PeersAreCurrent`, `PeersComplete`, `SavedConfigReloads`, `EndpointsLeadHome`, `GuessServes`, `TypeOK` | 11 configurations, 2 calls |
| `ports` | `ClashHasCause`, `OverlapKeepsDown`, `CallsRunDown`, `EveryCallEnds`, `TypeOK` | 2 callers (strides 10 and 5, 127.0.0.1 and another address), 1 other process with 2 sockets, 2 validators, 2 ephemeral ports, 2 tries |

Why the bounds are enough to see the interesting cases. A confusion of
signatures needs two keys, two roles and one edit in between: three signatures
(sender, fee payer, and one of them again) and an unbounded number of edits and
clones. A sponsorship that is lost and counts again takes both roles of both keys:
`sponsor` has four signatures, and for that one body, since what it asks turns on
the fee token and the account. `MaxGrants` counts different signatures only. In `clients` two clients on
two nodes already race on every pair of requests; exits and retries are left to
`returns`, where one client meets them: three exits, of which two take a node
through its retry to `FATAL`. Two runs of the xtask are what a stale
directory needs, and the six configurations of `init_cli` have the names that the
renames can run into: a shared moniker, a shared address, and a moniker that is the
other validator's address. The bounds `MaxGrants`, `MaxBoots`, `MaxExits`, `MaxRuns`,
`MaxCalls`, `MaxKeys` and `MaxScopes` are guards of the actions they limit;
`MaxKeys` is more than two calls can make. One variable is enough for TLC: an operation
reads a single variable, so copies that diverge are separate histories that share
only `grants`; the proofs hold for any number of variables.

In `compose`, two calls put every generator over every layout, each killed at any
file or failing at any identity; the eleven configurations are the documented one
and one for each way in which names, ports, subnets, hosts and sections can depart
from it, among them eleven validators (`node10` sorts before `node2`), two
networks under one name and a proxy that is called `node0`. In `ports`
the bases 1 and 6 make the blocks of two callers overlap in different roles, and
those of the caller with stride 5 overlap each other; the other process takes the
start of a block on 127.0.0.1 or the UDP port of a node, which nobody probes; and
from 6 the blocks of stride 10 run over the ceiling: both exits of an attempt, and
both of the loop, happen, and so do all three causes in `ClashHasCause`. In
`wire` the scopes are a plain selector, the zero selector, and rules under either,
for the function they name and for another one.

The runs of `TxSigning`, `DevnetInit` and `ClusterEndpoints` switch deadlock
checking off: there a user may simply stop, and at a bound has to. In
`ClusterControl`, `PortReservation` and `KeyPermissions` something can always be
done, and deadlock is checked.

`TypeOK` of `ClusterControl` is checked in `returns`, the only run of that module
in which every action happens.

### What the violated properties say

- `SponsoredStillVerifies`: once the fee payer has signed, field 11 of the payload
  that `verify_signature` rebuilds holds that signature, where the sender had
  signed the marker. The address it then returns belongs to nobody. The node
  substitutes the marker and accepts the sender, as `SponsoredAccepted` shows.
- `KeychainVerifiedIsSigned`: `verify_signature` discards the key it recovers from
  a keychain signature.
- `StopAllStopsAll`: the first node that is not running ends `stop_all`.

### What the conditions of the other properties say

Where the code does less than a reader might expect, and nothing in the repository
promises more, the property names the case instead of failing on it:

- `start_all` passes over nodes that supervisord gave up (`FATAL`) and returns
  True, so `OkMeansDone` asks of it only what it asked of supervisord.
- With an existing `supervisord.ini` and no `force`, `generate_supervisor_config`
  updates `genesis.json` everywhere and writes no script; `RegeneratedIsReady` is
  about forced calls. A `genesis.json` once patched stays patched, also for a
  configuration that has no patch, which the property excludes too.
- `ForcedInitRecovers`, `RegeneratedIsReady`: validators that share a moniker or an
  address, or one named like another's address, make the renames of
  `prepare_layout` meet a directory that is moved away already (`Shares`,
  `Shadows`); nothing else does.
- `AddressesFit`: nothing keeps a user from giving two different subnets to networks
  of one name, and the service then keeps the later address (`OneSubnetPerName`).
- `PeersComplete`: a script may leave out validators whose layout has no identity.
  Another backend leaves them so, and so does a killed run: after the key and
  before the identity of a service, whose directory a later layout makes a
  validator's.
- `BindingsAgree`: `authorize_key` grants more than `KeyRestrictions.create` means
  for the same arguments in two cases, a call without `allow_any_calls` and a
  `CallScope` object with a plain selector; never less. It takes every argument in
  the documented tuples. `ObjectsOpenTargets`, a part of it, is what remains with
  objects: one with rules raises, so a call that goes through grants every function of each target.
- `ClashHasCause`: besides the race between probe and use, which no such function can
  close, a node may find taken what was never probed: a UDP port, or a port on
  another address: `ephemeral(host=...)` puts the nodes on `host` and asks
  `find_free_base_ports` without it. A stride below six ports gives blocks that overlap, which the
  search returns like any others; `OverlapKeepsDown` says what becomes of them.
- `EndpointsLeadHome`: a validator with another `rpc_host` than its `host` (and not
  0.0.0.0) answers nothing at its URLs. Nodes whose port blocks overlap are left out.
- `IniMeansReady`, `RegeneratedIsReady`, `InitLeavesDevnet`: a complete devnet is one
  in which every file that the programs name is there and of one run. After an `init`
  with `--gen-compose-file`, `genesis.json` has the addresses of containers, where
  the programs of its `supervisord.ini`, run on the host, do not listen.
- `UpstreamsResolve`: the one dependency that may name no service is the follow
  nodes' `node0`, when nothing goes by this name; a proxy that does is waited for.
- `ContainersMatchGenesis`: containers run on the addresses and keys of genesis
  exactly when the layout under them was made for Docker, on the same subnet and
  with the validators in the same order. Left out are coincidences: hosts the user
  gave that are addresses of containers (`Exposed` is such a configuration), and
  two subnets that overlap in part.
- `GuessServes`: without a `devnet.yaml` the validators of the guessed configuration
  are the directories as their names sort, on 8000, 8010, .... That is right about
  local validators on those base ports exactly when they are listed in that order:
  for `node0`, `node1`, ... up to ten of them, since `node10` sorts before `node2`;
  not for a `node1` that is listed before `node0`.
- `SavedConfigReloads`: everything but the names of the binaries survives.

### Fairness

`EveryCallEnds` assumes only that a process inside `find_free_base_ports` goes on
(`WF_vars(Search(c))`: its steps wait for nobody), and nothing of the others.
`CallsRunDown`, the safe half of it, needs no fairness: each step of a call lowers
`StepsLeft`, and nobody else's changes it.

In `ClusterControl`, `CallsReturn` and `StatusRecovers` use fairness. A client that is in a method goes
on (its thread runs), and supervisord's own steps, driven by its timers and by
the processes it reaps, happen (`startsecs`, the backoff, `autorestart`, and
SIGKILL after `stopwaitsecs`). Nothing is assumed of callers, of node exits, or
of supervisord being started. `StatusRecovers` assumes a caller that keeps
polling and a supervisord that stays up. `CallsReturn` is stated of a single
client: with two, `stop_node` waits as long as another client starts the node
again before supervisord is seen with it stopped, so it is not checked there.

## 4. Proofs

Every theorem holds for all values of the constants that meet the assumptions
named below, and so for any number of keys, nodes, clients, callers, validators,
services, calls and kills; the runs show the same properties on small instances.
Assumptions are of three kinds: the bounds are natural numbers and sets have the
types the code gives them (`CountAssumption`, `SupervisordBounds`,
`DevnetConfigs`, `MappingTypes`, `ScopesAssumption`, ...), or the order that strings
have (`NamesSort`); a distinguished value
such as `None` is none of the values it stands beside (`DistinctValues`,
`NoneIsAbsence`, `NoneIsNobody`, `NoneIsNoDeal`, `OwnerAssumption`,
`ValuesAssumption`, `ItemsAssumption`); and one that is a condition on the use of
the code: in two theorems, that `init` and `generate_docker_compose` alone write the
directory. (`StrideAssumption` and `HostAssumption` are of the first kind: any stride,
and any non-empty choice of addresses.)

### TxSigningProofs, TxAcceptanceProofs

- `TypeCorrect`, `FeePayerAuthenticity`, `SenderAuthenticity`:
  `TypeOK`, `FeePayerAuthentic` and `SenderAuthentic` are invariants.
- `RoleSeparation`, `UnsponsoredAcceptance`, `SponsoredAcceptance`:
  `RolesSeparated`, `UnsponsoredAccepted` and `SponsoredAccepted` are invariants.
- `ResignTheorem`, `TokenTheorem`: `ResignKeepsSponsor` and `TokenCommitment` hold
  of every step.

Neither authenticity property is inductive: both speak about what a verifier
recomputes from the transaction as it is now, and say nothing about a signature
that does not verify at the moment but will once a field is set back. The
inductive invariant `IInv` adds `Provenance`: *every* signature a transaction
carries, valid or not, is over the payload of some transaction that its key was
granted to sign (`SenderSigGranted`, `FeeSigGranted`), and every embedded
authorization is canonical. Edits keep it since they leave signatures and history
alone; signing adds the grant with the signature. Authenticity then follows
because payloads are injective: a signature that verifies over today's payload
is over an equal one, so the transaction in the grant has the same content
(`FeePayerPayloadBinds`, `SenderPayloadBinds`), and the node's payload is the
signer's once re-encoding is known to change nothing (`ReencodeKeepsKeyAuth`).
Each action has a lemma (`BuildIInv`, `SignIInv`, `SponsorIInv`, ...); `NextIInv`
collects them. The five theorems of `TxAcceptanceProofs` need no more invariant:
the roles are apart because no payload of one domain has the shape of another's,
and the rest compares, field by field, the payloads before and after an operation,
or the SDK's with the node's.

### TxCommitmentsProofs

- `Refinement`: `Spec => ImplementsSponsorship`, every operation a step of
  `Sponsorship` or a stutter.
- `AcceptanceIsPromise`: `AcceptedIffPromised` is an invariant.

The promise that the mapping reads off a signature depends on its payload alone,
and by `Provenance` that payload is one of those `TxSigning` builds. For each of
the ways in which a payload is built, one lemma says that its fields hold the
promise over the deal as it was; the step lemmas then follow, action by action. The
node's acceptance compares payloads, and the abstract `SenderBound` and
`PayerBound` compare what is in them.

### KeyPermissionsProofs

- `TypeCorrect`, `AdminKeys` (`AdminIsUnrestricted`), `BindingsWiden`
  (`BindingsAgree`),
  `AuthorizationsAreRead` (`NodeReadsAuthorization`).

`IInv` is `TypeOK` and `Faithful`: what was sent is the encoding of restrictions
that the builders can reach. The encoding is a list cut at its last field that is
there; the lemma `FieldRead` gives back each of the six fields wherever it was cut,
and `ScopeRead` and `LimitRead` are the same for what is inside. Of an
`authorizeKey` call it keeps that its arguments were `Encodable` (`CallSent`) and of
an exception that they were not, which needs an object (`RaisedForObjects`); an
encodable scope object has no rules, and so opens its target (`EncodableOpens`).

### PortReservationProofs

- `TypeCorrect`, `ClashesHaveCauses` (`ClashHasCause`), `OverlapsKeepDown`
  (`OverlapKeepsDown`).
- `CallsComeToAnEnd` (`CallsRunDown`): every step a call takes leaves it fewer to take.

`IInv` relates where a caller is to its sockets: how far its probes got
(`Counters`), which sockets it can own then (`Sockets`), none once it has returned
but those of the nodes it has started, that its nodes start only then
(`NoEarlyNode`), and that nothing `old` is TCP on 127.0.0.1, for a probe succeeds only
where that is free (`OldElsewhere`). Every
port of a node is among those probed (`NodePortNeeded`, `NodeSocketIs`), so a socket
that another process has when the node comes to it is one taken since, or one that
no probe looks at. Ports of different nodes differ if the stride is at least a
node's ports (`NodesApart`); if not, nodes 0 and 1 share one (`NodesOverlap`),
while nodes that all run, with no clash on record, share none (`NodesRun`).

An attempt has at most `Round` steps, a bind and a close for the base and for each
port it probes; one that gives up costs the call a whole `Round` (`NextTryCounts`),
which is more than the steps it had left in it. `SearchLowers` takes the steps of a call one by one,
and `OthersLeave` says that no other step touches where it is: the sockets that
others take decide how an attempt ends, never how many follow.

### ClusterControlProofs

- `TypeCorrect`, `TrueMeansDone` (`OkMeansDone`), `ListingRecovers`
  (`ListingDropsBrokenProxy`).

The hard part is `start_node` and `restart_node`, which poll while other clients,
the nodes and supervisord move. `ClientInv` says of each client, by the step it is
at, what its request can find (`Shaped`), that what a node was seen in since the call
began is on record (`Noticed`), that an awaited start was accepted of a node that
was stopped or is stuck on one that is stopping (`Awaited`), and that the nodes a
method acts on are done or still on its list (`Progress`, `Done`, `Listed`). That a
listing has all nodes in order is an argument of its own, by the smallest
counterexample among finite sets, since recursion cannot be unfolded here.

### DevnetInitProofs

- `TypeCorrect`, `InitIsExact` (`InitLeavesDevnet`), `OnlyNamesRaise`
  (`ForcedInitRecovers`), `RegenerationWorks` (`RegeneratedIsReady`).
- `IniIsProof`: `IniMeansReady`, under `Entries \subseteq {"init", "compose"}`;
  with the library calls it is false, since they write the ini over anything.
- `DevnetShowsWhole`: `Spec => ImplementsDirectory`, under the same condition.

`IInv` says, by the step of the job, which files are there and of which run:
`Layout` for the directories while they are renamed, `LaidKeys` and `InitLaid` for
what the renames left, `Patched`, `Copies`, `Programs`, `IniWritten` and `Composes`
for the steps that follow, `KeysAreOld` and `KeysAreUnique` for the runs of the
xtask. While directories are renamed they are in one of two states: every validator
is where it should be so far (`AllGood`), or some directory that will be needed is
gone for good (`Doomed`), and the job ends by raising when it copies `genesis.json`.
Coinciding addresses and monikers only ever lead to the second, which is what makes
`ForcedInitRecovers` and `InitLeavesDevnet` true together.

The refinement needs no more invariant. Where `init` builds there is no
`supervisord.ini` (`BuildingIsBare`), so nothing that these steps write, or leave
torn, shows (`BuildStep`). When the file is written, all that `start` needs is there
(`InitReady`), and the step is `Publish`; what is written after it is nothing that
`Ready` reads (`ShownStays`). Deleting can break a devnet but never mend one
(`ReadyBefore`), so each deletion is `Retract` or a stutter (`DeleteShows`).

### ClusterEndpointsProofs

- `TypeCorrect`: `ClusterSpec => []TypeOK`
- `AddressesDistinct` (`AddressesFit`), `PeersStayCurrent` (`PeersAreCurrent`),
  `PeersAreComplete` (`PeersComplete`), `UpstreamsAreThere` (`UpstreamsResolve`),
  `ContainersAreInGenesis` (`ContainersMatchGenesis`), `SavedConfigIsRead`
  (`SavedConfigReloads`), `UrlsLeadHome` (`EndpointsLeadHome`), `GuessIsRight`
  (`GuessServes`).

Addresses follow from the configuration alone: the start of each kind in
`AddressStart` is where the previous kind ends, so a node's number is its place in
`Nodes(cfg)` (`SlotIs`), and a service is the last node of its name (`ServiceIs`).
The peers need an invariant over the files: identities are those of the keys
(`KeysIdentify`), no service has a genesis without a layout (`NoGenesis`), and
every script whose operation the running generator is past is fresh
(`ScriptsFresh`). It holds because `WriteKey` writes only where no key is
(`DirOfInv`, `GrowsFresh`), and because a later operation on the same name is a
script again. `ProgramIs` and `PrepareIs` say what the program of a node contains,
and in which order, for any number of nodes.

What a script says when the generator is through needs a second invariant, `SInv`:
a node whose identity operation is passed has an identity or is in `failed`
(`Identified`); a script that is passed has the kind, upstream and address of its
node and lists exactly the nodes it should that had an identity, or lack one for
a reason (`ScriptsRight`); and a public node's operation is passed only if there
are follow nodes (`Followed`). As names differ no other operation touches that
script, so what `WrittenSays` establishes when it is written stays
(`StepSays`, `ScriptSays`). A third, `GInv`, is what containers and genesis need:
the keys of different directories differ (`KeysDiffer`), and each validator of the
layout has the one that genesis has for it, or there is no layout and the generator
is at its first script (`LaidOut`); so a key of genesis found in a directory says
which validator that is, and an address which place it has.

`SavedConfigIsRead` is the round trip `from_dict` after `to_dict`, section by section
(`ConfigReloads`). `UrlsLeadHome` builds on it: what was read back has the nodes that
were laid out, a name that only one node has is found where that node is listed
(`AskedAre`, `EndpointIs`), and the ports that a service publishes lie in its block
(`PublishedIn`), so that no other publishes them (`ServedBy`). On the host the same
holds of the sockets of a `run.sh`, of which one has the URL's port (`SocketsAre`): it
takes the connection exactly if it is bound where the URL points (`AnsweredBy`).

`GuessIsRight` is about sorting. A name's place among the directories is the number
of names before it (`PositionIs`). Different names have different places
(`PositionsDiffer`), and there are as many places as names, so that every place of
`Sorted` has its name (`SortedIs`). A validator is then found on the port of its
name's place (`GuessFinds`), which is its own place in the list exactly if the list
is in order (`OrderIs`), as `node0`, ... are up to ten of them (`TenAreInOrder`).

### What the proofs showed about the properties

Attempts that failed for a good reason, each now stated with its condition:

- a second sender signature keeps a sponsorship only if the same account signs
  (`ResignKeepsSponsor` once said it always does);
- the count of failed starts in `Supervisord` is bounded by the exits, not by the
  retries;
- `prepare_layout` may rename a directory that another validator's rename has moved
  away already: the conditions `Shares` and `Shadows` above;
- two subnets under one network name (`OneSubnetPerName`), and validators laid over
  a service that a kill left without an identity (`PeersComplete`): both take
  configurations or a third call that the instances did not have;
- an upstream `follower0` that no node need have: without follow nodes, the
  upstream of public nodes is a literal in `_docker_public_node_command`;
- a proxy called `node0`, for which follow nodes then wait: `UpstreamsResolve` once
  said that this dependency resolves only to a validator;
- hosts that are addresses of containers: `ContainersMatchGenesis` once left out
  that they may be, and a layout for the host then matches too;
- a socket that no probe looks at: `ClashHasCause` once said that only a process that
  came after the probe could have a node's port, of a model with one owner per port;
- names and ports that the instances all had: `GuessServes` once took it for granted
  that validators are listed in the order of their names, on the default base ports.

### Only model-checked

Liveness (`CallsReturn`, `StatusRecovers`, `EveryCallEnds`) rests on fairness, which
the provers do not reach (the safe half of `EveryCallEnds` is proved, as
`CallsRunDown`), and the three violated properties on their counterexamples. Every
invariant and every action property of the passing runs is stated by a theorem, and
both refinements are proved. `ListingRecovers` is the one theorem whose property no
run checks: what it is for, `StatusRecovers`, is checked instead.

## 5. Not modelled

- Encodings of fields 0 to 9 (`body`), of calls and access lists, `from_dict`, and
  the coercions of `types.py`: a step of their own, without state. So the ways in
  which `valid_before=0` and an authorization list are lost have no property.
- A `key_authorization` that the caller makes and hands to `create` or `from_dict`:
  transactions start without one, so `UnsponsoredAccepted` says nothing of one whose
  root signature has a raw `v`.
- WebAuthn and P-256 envelopes beyond the missing `v`: their content is arithmetic
  over 256-bit integers, out of TLC's reach.
- `KeyRestrictions.to_rlp`, which nothing in the package calls, and the other
  methods of `AccountKeychain` (`authorize_key_with_witness` builds the tuple that
  `authorize_key` does) and all of `tip20.py`: they hand their arguments to
  the ABI encoder of a library.
- Scalars of `DevnetConfig` that are passed on unchanged (chain id, accounts, gas
  limit, hardforks, patches), malformed files, `reth.toml`, the wording of scripts,
  images, health checks and volumes.
- Two `init`s, or an `init` and a `generate_docker_compose`, on one directory at
  the same time.
- supervisord's event listeners, groups and log handling.
- `__init__.py`, which re-exports names.

## 6. Plan

In this order, by how much depends on it:

1. `TxSigning`, `TxAcceptance` and their proofs (done).
2. `Supervisord`, `ClusterControl` (done).
3. `DevnetInit` (done).
4. `Sponsorship`, `DevnetDirectory` and the refinements (done).
5. `DevnetConfig`, `ComposeTopology`, `ClusterEndpoints` (done).
6. `PortReservation` (done).
7. `KeyPermissions` (done).
8. Proofs about all of them (done, but for the liveness).
9. `TxEncoding`: fields 0 to 9, `from_dict`.
