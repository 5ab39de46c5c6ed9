-------------------------------- MODULE Ports --------------------------------
(***************************************************************************)
(* The service ports of a node, tempo/devnet/ports.py: offsets from the    *)
(* node's base port.                                                       *)
(***************************************************************************)
EXTENDS Naturals

ConsensusP2pPort(base) == base
ExecutionP2pPort(base) == base + 1
ConsensusMetricsPort(base) == base + 2
AuthrpcPort(base) == base + 3
HttpRpcPort(base) == base + 4
WsRpcPort(base) == base + 5

\* Mutant: the last offset is forgotten.
PORTS_PER_NODE_Five == 5

PORTS_PER_NODE == 6

\* What a node listens on.
ServicePorts(base) ==
    {ConsensusP2pPort(base), ExecutionP2pPort(base), ConsensusMetricsPort(base),
     AuthrpcPort(base), HttpRpcPort(base), WsRpcPort(base)}

\* Inside a container every node has the same base.
DOCKER_CONSENSUS_P2P_PORT == 8000
=============================================================================
