---------------------------- MODULE MCDevnetInit ----------------------------
(***************************************************************************)
(* Instances of DevnetInit for TLC: a devnet of two validators, the same   *)
(* with the monikers exchanged, one whose validators got the same default  *)
(* moniker, one whose validators have the same address, one whose first    *)
(* validator goes by the address of the second, and one of the allegro     *)
(* backend.                                                                *)
(***************************************************************************)
EXTENDS DevnetInit

CONSTANTS a1, a2, d1, d2, n0, n1

Config(m1, m2, patch, backend) ==
    [validators |-> <<[addr |-> a1, moniker |-> m1], [addr |-> a2, moniker |-> m2]>>,
     patch |-> patch, backend |-> backend]

MCAddrs == {a1, a2}
MCMonikers == {n0, n1, a2}
MCDockerAddrs == <<d1, d2>>

SameAddress ==
    [Config(n0, n1, FALSE, "tempo") EXCEPT !.validators[2].addr = a1]

CliConfigs ==
    {Config(n0, n1, TRUE, "tempo"), Config(n1, n0, FALSE, "tempo"),
     Config(n0, n0, FALSE, "tempo"), SameAddress, Config(a2, n1, FALSE, "tempo"),
     Config(n0, n1, TRUE, "allegro")}

LibraryConfigs ==
    {Config(n0, n1, TRUE, "tempo"), Config(n1, n0, FALSE, "tempo")}
=============================================================================
