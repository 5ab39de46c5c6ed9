-------------------------- MODULE MCClusterEndpoints -------------------------
(* Instances of ClusterEndpoints for TLC: configuration mappings as users write  *)
(* them, from the documentation's to the ones nobody checks.                    *)
EXTENDS ClusterEndpoints

MCNodeName == [n \in 0 .. 10 |-> "node" \o ToString(n)]

Validator(port, moniker) ==
    [host |-> None, port |-> port, moniker |-> moniker, base_port |-> None,
     p2p_host |-> None, rpc_host |-> None]

Service(moniker, port) == [moniker |-> moniker, port |-> port]

Dict(validators, docker) ==
    [backend |-> None, tempo_bin |-> None, tempo_xtask_bin |-> None,
     validators |-> validators, docker |-> docker]

Docker(validatorNet, publicNet, follow, proxies, public) ==
    [network |-> None, subnet |-> None, validator_network |-> validatorNet,
     public_network |-> publicNet, follow_nodes |-> follow,
     p2p_proxies |-> proxies, public_nodes |-> public]

Single == Docker(None, None, <<>>, <<>>, <<>>)

Small == [address |-> IPv4(10, 90, 0, 0), size |-> 16]

\* The documented topology, monikers and ports left to their defaults.
Documented ==
    Dict(<<Validator(8000, None), Validator(8010, None)>>,
         Docker([name |-> None, subnet |-> None], None,
                <<Service("follower0", None)>>, <<Service("proxy0", None)>>,
                <<Service("public0", None)>>))

\* Validators with names of their own, in the other order, on a null network;
\* two follow nodes, no proxy.
Renamed ==
    Dict(<<Validator(8010, "node1"), Validator(8000, "val0")>>,
         Docker(Null, Null,
                <<Service("follower0", 9000), Service("follower1", 9010)>>,
                <<>>, <<Service("public0", 6000)>>))

\* Public nodes with nothing to follow, on a subnet too small for all.
Unfollowed ==
    Dict(<<Validator(8000, "node0")>>,
         Docker([name |-> "v", subnet |-> Small], None, <<>>,
                <<Service("proxy0", 7000)>>, <<Service("public0", 6000)>>))

Crowded ==
    Dict([i \in 1 .. 3 |-> Validator(8000 + 10 * (i - 1), None)],
         Docker([name |-> "v", subnet |-> Small],
                [name |-> None, subnet |-> Small],
                <<Service("follower0", 9000)>>, <<Service("proxy0", 7000)>>, <<>>))

\* Both networks under one name, on two subnets.
Merged ==
    Dict(<<Validator(8000, "node0")>>,
         Docker([name |-> "v", subnet |-> None], [name |-> "v", subnet |-> Small],
                <<Service("follower0", 9000)>>, <<>>, <<Service("public0", 6000)>>))

\* A service with a validator's name.
Colliding ==
    Dict(<<Validator(8000, None)>>,
         Docker(None, [name |-> None, subnet |-> None],
                <<Service("node0", None)>>, <<>>, <<>>))

\* A proxy with the name that follow nodes wait for.
Usurped ==
    Dict(<<Validator(8000, "val0")>>,
         Docker(None, [name |-> None, subnet |-> None],
                <<Service("follower0", None)>>, <<Service("node0", None)>>, <<>>))

\* Validators listed in another order than their names', and another backend.
OneNetwork == Dict(<<Validator(8000, "node1"), Validator(8010, "node0")>>, Single)

Allegro ==
    [OneNetwork EXCEPT !.backend = "allegro",
                       !.tempo_bin = [backend |-> "custom", tool |-> "node"]]

\* On the host at the address the container would have, P2P on every interface,
\* RPC on one that is not in the node's URL; a second validator's is.
Exposed ==
    Dict(<<[host |-> IPv4(10, 88, 0, 10), port |-> 8000, moniker |-> None,
            base_port |-> 8300, p2p_host |-> AnyHost, rpc_host |-> Localhost],
           [host |-> None, port |-> 8010, moniker |-> None, base_port |-> 8310,
            p2p_host |-> None, rpc_host |-> Localhost]>>,
         Single)

\* "node10" comes before "node2".
Eleven ==
    Dict([i \in 1 .. 11 |->
            Validator(8000 + 10 * (i - 1), "node" \o ToString(i - 1))], Single)

MCDicts == {Documented, Renamed, Unfollowed, Crowded, Merged, Colliding, Usurped,
            OneNetwork, Allegro, Exposed, Eleven}

MCSortedNames ==
    <<"node0", "node1", "node10", "node2", "node3", "node4", "node5", "node6",
      "node7", "node8", "node9">>

MCNameRank == [m \in Range(MCSortedNames) |->
                 CHOOSE k \in DOMAIN MCSortedNames : MCSortedNames[k] = m]

MCMonikers == Range(MCSortedNames) \cup
    {"val0", "follower0", "follower1", "proxy0", "public0"}
=============================================================================
