-------------------------- MODULE DevnetDirectory --------------------------
(***************************************************************************)
(* What the init command promises to whoever looks for a devnet in its     *)
(* data directory: a devnet shows there in one step, and whole.  Only a    *)
(* later init that was told to replace it takes it away, in one step       *)
(* again, or leaves it broken when it dies at that.                        *)
(***************************************************************************)

CONSTANTS
    Configs,  \* the configurations that a devnet can have
    None      \* no devnet shows, no init is at work

VARIABLES
    devnet,   \* the devnet that the directory shows, and whether it is whole
    pending   \* the init at work, and how far it is

vars == <<devnet, pending>>

Showing(cfg, state) == [cfg |-> cfg, state |-> state]
At(cfg, stage) == [cfg |-> cfg, stage |-> stage]

Devnets == {Showing(cfg, state) : cfg \in Configs, state \in {"whole", "broken"}}
Inits == {At(cfg, stage) : cfg \in Configs, stage \in {"clearing", "building", "done"}}

TypeOK ==
    /\ devnet \in Devnets \cup {None}
    /\ pending \in Inits \cup {None}

Init ==
    /\ devnet = None
    /\ pending = None

\* Where no devnet shows there may be nothing to clear.
Begin(cfg) ==
    /\ pending = None
    /\ \/ pending' = At(cfg, "clearing")
       \/ devnet = None /\ pending' = At(cfg, "building")
    /\ UNCHANGED devnet

\* The old devnet goes, or goes bad, and whatever is left of it is no devnet.
Retract ==
    /\ pending # None /\ pending.stage = "clearing"
    /\ devnet # None
    /\ devnet' \in {None, Showing(devnet.cfg, "broken")}
    /\ UNCHANGED pending

Retracted ==
    /\ pending # None /\ pending.stage = "clearing"
    /\ devnet = None
    /\ pending' = At(pending.cfg, "building")
    /\ UNCHANGED devnet

\* What is left to do after it is no part of the devnet.
Publish ==
    /\ pending # None /\ pending.stage = "building"
    /\ devnet = None
    /\ devnet' = Showing(pending.cfg, "whole")
    /\ pending' \in {None, At(pending.cfg, "done")}

\* It is done, it failed, or it was killed.
Stop ==
    /\ pending # None
    /\ pending' = None
    /\ UNCHANGED devnet

Next ==
    \/ \E cfg \in Configs : Begin(cfg)
    \/ Retract \/ Retracted \/ Publish \/ Stop

Spec == Init /\ [][Next]_vars
=============================================================================
