----------------------------- MODULE DevnetInit -----------------------------
(***************************************************************************)
(* How a devnet's data directory comes about: the init command             *)
(* (tempo/devnet/cli.py) and the library calls it is made of, which test   *)
(* harnesses also use alone: generate_localnet (backends.py),              *)
(* generate_supervisor_config and generate_docker_compose (supervisor.py,  *)
(* single-network topology).                                               *)
(*                                                                         *)
(* One job runs at a time.  It works on the disk file by file, so it may   *)
(* die between any two of them or in the middle of one (a torn file), and  *)
(* what it left is what the next job finds.                                *)
(***************************************************************************)
EXTENDS Naturals, Sequences

CONSTANTS
    Configs,      \* the configurations the user has: validators, patch, backend
    DockerAddrs,  \* sequence: the container address of validator i
    Addrs,        \* the host:port addresses of the validators
    Monikers,     \* the names of their final directories
    Entries,      \* the entry points in use
    MaxRuns,      \* bound: how often the xtask is run
    None, Torn    \* an absent file, and one whose writer died

Dirs == Addrs \cup Monikers \cup {DockerAddrs[i] : i \in DOMAIN DockerAddrs}

ASSUME DevnetConfigs ==
    /\ \A cfg \in Configs :
         /\ cfg.validators \in Seq([addr: Addrs, moniker: Monikers])
         /\ cfg.validators # <<>> /\ Len(cfg.validators) <= Len(DockerAddrs)
         /\ cfg.patch \in BOOLEAN /\ cfg.backend \in {"tempo", "allegro"}
    /\ DockerAddrs \in Seq(Dirs) /\ DockerAddrs # <<>>
    /\ Entries \subseteq {"init", "localnet", "supervisor", "compose"}
    /\ MaxRuns \in Nat

VARIABLES
    disk,   \* the data directory
    job,    \* the running or last job, and how far it came
    runs,   \* how often the xtask was run; identifies what one run made
    laid,   \* history: configuration whose layout is in place, None if none is
    torn    \* history: a forced init is deleting, or died while it did

vars == <<disk, job, runs, laid, torn>>

-----------------------------------------------------------------------------
(* The data directory *)

\* signing key, signing share and enode identity that one xtask run made.
KeyFiles == [run: 1 .. MaxRuns, addr: Dirs]

\* genesis.json lists the addresses the xtask was given.
Genesis == [run: 1 .. MaxRuns, cfg: Configs, docker: BOOLEAN, patched: BOOLEAN]
GenesisFile == Genesis \cup {None, Torn}

\* run.sh and docker-run.sh: the arguments that depend on other files.
Script == [index: DOMAIN DockerAddrs, peers: SUBSET KeyFiles]

Dir == [keys: KeyFiles \cup {None}, genesis: GenesisFile,
        run: Script \cup {None}, dockerRun: Script \cup {None}, secret: BOOLEAN]

ASSUME NoneIsAbsence ==
    /\ None # Torn
    /\ \A what \in {None, Torn} : what \notin Configs /\ what \notin Genesis
    /\ None \notin KeyFiles /\ None \notin Script /\ None \notin Dir

EmptyDir ==
    [keys |-> None, genesis |-> None, run |-> None, dockerRun |-> None,
     secret |-> FALSE]

Disk == [present: BOOLEAN, genesis: GenesisFile, dirs: [Dirs -> Dir \cup {None}],
         yaml: Configs \cup {None, Torn}, ini: Configs \cup {None, Torn},
         compose: Configs \cup {None, Torn}]

EmptyDisk ==
    [present |-> TRUE, genesis |-> None, dirs |-> [n \in Dirs |-> None],
     yaml |-> None, ini |-> None, compose |-> None]

Steps == {"clear", "xtask", "sweep", "rename", "yaml", "patch", "copy",
          "programs", "ini", "dockerRun", "compose"}

Job == [op: {"none", "init", "localnet", "supervisor", "compose"},
        cfg: Configs \cup {None}, force: BOOLEAN, docker: BOOLEAN,
        pc: Steps \cup {"idle"}, i: DOMAIN DockerAddrs,
        renames: Seq(DOMAIN DockerAddrs),
        result: {"none", "ok", "error", "raised", "killed"}]

TypeOK ==
    /\ disk \in Disk
    /\ job \in Job
    /\ runs \in 0 .. MaxRuns
    /\ laid \in Configs \cup {None}
    /\ torn \in BOOLEAN

Init ==
    /\ disk = [EmptyDisk EXCEPT !.present = FALSE]
    /\ job = [op |-> "none", cfg |-> None, force |-> FALSE, docker |-> FALSE,
              pc |-> "idle", i |-> 1, renames |-> <<>>, result |-> "none"]
    /\ runs = 0
    /\ laid = None
    /\ torn = FALSE

-----------------------------------------------------------------------------
(* Configurations *)

Validators == DOMAIN job.cfg.validators
MonikerOf(i) == job.cfg.validators[i].moniker
IsTempo(cfg) == cfg.backend = "tempo"

\* The address of validator i in genesis, and the name the xtask gives its dir.
AddressOf(cfg, docker, i) ==
    IF docker THEN DockerAddrs[i] ELSE cfg.validators[i].addr

\* Mutant: the host address, in Docker mode as well.
SourceDir_Host(i) == job.cfg.validators[i].addr

SourceDir(i) == AddressOf(job.cfg, job.docker, i)

\* The enode identities found in the validators' directories.
Peers ==
    {disk.dirs[MonikerOf(i)].keys : i \in
        {k \in Validators : /\ disk.dirs[MonikerOf(k)] # None
                            /\ disk.dirs[MonikerOf(k)].keys # None}}

-----------------------------------------------------------------------------
(* Control flow *)

Begin(op, cfg, force, docker, pc) ==
    /\ job.pc = "idle" /\ op \in Entries
    /\ job' = [op |-> op, cfg |-> cfg, force |-> force, docker |-> docker,
               pc |-> pc, i |-> 1, renames |-> <<>>, result |-> "none"]

\* Mutant: supervisord.ini is written before what it refers to.
After_IniFirst(step) ==
    CASE step = "rename" -> IF job.op = "init" THEN "yaml" ELSE "idle"
      [] step = "yaml" -> "patch"
      [] step = "patch" -> "copy"
      [] step = "copy" -> "ini"
      [] step = "ini" -> "programs"
      [] step = "programs" -> IF job.docker THEN "dockerRun" ELSE "idle"
      [] step = "dockerRun" -> "compose"
      [] step = "compose" -> "idle"

After(step) ==
    CASE step = "rename" -> IF job.op = "init" THEN "yaml" ELSE "idle"
      [] step = "yaml" -> "patch"
      [] step = "patch" -> "copy"
      [] step = "copy" -> IF disk.ini # None /\ ~job.force THEN "idle" ELSE "programs"
      [] step = "programs" -> "ini"
      [] step = "ini" -> IF job.docker THEN "dockerRun" ELSE "idle"
      [] step = "dockerRun" -> "compose"
      [] step = "compose" -> "idle"

End(result) == job' = [job EXCEPT !.pc = "idle", !.result = result]

Goto(step) ==
    IF step = "idle" THEN End("ok")
    ELSE job' = [job EXCEPT !.pc = step, !.i = 1]

\* Mutant: one validator too many.
Iterate_OffByOne(bound, next) ==
    IF job.i <= bound THEN job' = [job EXCEPT !.i = @ + 1] ELSE Goto(next)

\* The loops over the validators: the body ran for job.i.
Iterate(bound, next) ==
    IF job.i < bound THEN job' = [job EXCEPT !.i = @ + 1] ELSE Goto(next)

Raise ==
    /\ End("raised")
    /\ UNCHANGED <<disk, runs, laid, torn>>

-----------------------------------------------------------------------------
(* Entry points *)

\* An existing data directory is only touched with --force.
CallInit(cfg, force, docker) ==
    /\ disk.present => force
    /\ docker => IsTempo(cfg)
    /\ runs < MaxRuns
    /\ Begin("init", cfg, TRUE, docker, IF disk.present THEN "clear" ELSE "xtask")
    /\ disk' = [disk EXCEPT !.present = TRUE]
    /\ UNCHANGED <<runs, laid, torn>>

CallLocalnet(cfg, docker) ==
    /\ docker => IsTempo(cfg)
    /\ runs < MaxRuns
    /\ Begin("localnet", cfg, FALSE, docker, "xtask")
    /\ disk' = [disk EXCEPT !.present = TRUE]
    /\ UNCHANGED <<runs, laid, torn>>

CallSupervisor(cfg, force) ==
    /\ disk.present
    /\ Begin("supervisor", cfg, force, FALSE, "patch")
    /\ UNCHANGED <<disk, runs, laid, torn>>

\* Without force an existing docker-compose.yaml is returned as it is.
CallCompose(cfg, force) ==
    /\ disk.present /\ IsTempo(cfg)
    /\ disk.compose # None => force
    /\ Begin("compose", cfg, force, TRUE, "dockerRun")
    /\ UNCHANGED <<disk, runs, laid, torn>>

-----------------------------------------------------------------------------
(* init --force: shutil.rmtree, entry by entry in any order *)

Delete ==
    /\ job.pc = "clear"
    /\ \/ \E file \in {"genesis", "yaml", "ini", "compose"} :
            disk[file] # None /\ disk' = [disk EXCEPT ![file] = None]
       \/ \E n \in Dirs :
            disk.dirs[n] # None /\ disk' = [disk EXCEPT !.dirs[n] = None]
    /\ torn' = TRUE
    /\ laid' = None
    /\ UNCHANGED <<job, runs>>

\* Mutant: --force does not delete.
Deleted_Keeps ==
    /\ job.pc = "clear"
    /\ Goto("xtask")
    /\ torn' = FALSE
    /\ UNCHANGED <<disk, runs, laid>>

Deleted ==
    /\ job.pc = "clear"
    /\ disk = EmptyDisk
    /\ Goto("xtask")
    /\ torn' = FALSE
    /\ UNCHANGED <<disk, runs, laid>>

-----------------------------------------------------------------------------
(* generate_localnet *)

\* What the xtask puts into a directory named after a validator's address.
\* Of the other entries it is not known whether its --force removes them.
Made(onDisk, which) ==
    [onDisk EXCEPT !.dirs =
       [n \in Dirs |->
          IF \E i \in which : n = AddressOf(job.cfg, job.docker, i)
          THEN [EmptyDir EXCEPT !.keys = [run |-> runs + 1, addr |-> n]]
          ELSE @[n]]]

KeptByXtask == IF IsTempo(job.cfg) THEN {disk, EmptyDisk} ELSE {disk}
MadeByXtask == IF IsTempo(job.cfg) THEN Validators ELSE {}

NewGenesis ==
    [run |-> runs + 1, cfg |-> job.cfg, docker |-> job.docker, patched |-> FALSE]

Xtask ==
    /\ job.pc = "xtask"
    /\ \E kept \in KeptByXtask :
         disk' = [Made(kept, MadeByXtask) EXCEPT !.genesis = NewGenesis]
    /\ runs' = runs + 1
    /\ laid' = None
    /\ Goto("sweep")
    /\ UNCHANGED torn

\* It exits with an error and may have written some of its files.
XtaskFails ==
    /\ job.pc = "xtask"
    /\ \E kept \in KeptByXtask, which \in SUBSET MadeByXtask :
         disk' \in {Made(kept, which),
                   [Made(kept, which) EXCEPT !.genesis = NewGenesis]}
    /\ runs' = runs + 1
    /\ laid' = None
    /\ End("error")
    /\ UNCHANGED torn

\* Mutant: a directory that is already there is taken for a renamed one.
SweepTempo_Skips ==
    LET src == SourceDir(job.i)
        dst == MonikerOf(job.i)
        renames == IF disk.dirs[src] # None /\ disk.dirs[dst] = None
                   THEN Append(job.renames, job.i) ELSE job.renames
    IN  /\ UNCHANGED disk
        /\ job' = IF job.i < Len(job.cfg.validators)
                  THEN [job EXCEPT !.i = @ + 1, !.renames = renames]
                  ELSE [job EXCEPT !.pc = "rename", !.i = 1, !.renames = renames]

\* TempoBackend.prepare_layout: what stands where a directory is to go is removed.
SweepTempo ==
    LET src == SourceDir(job.i)
        dst == MonikerOf(job.i)
        moves == src # dst /\ disk.dirs[src] # None
        renames == IF moves THEN Append(job.renames, job.i) ELSE job.renames
    IN  /\ disk' = IF moves THEN [disk EXCEPT !.dirs[dst] = None] ELSE disk
        /\ job' = IF job.i < Len(job.cfg.validators)
                  THEN [job EXCEPT !.i = @ + 1, !.renames = renames]
                  ELSE [job EXCEPT !.pc = "rename", !.i = 1, !.renames = renames]

\* AllegroBackend.prepare_layout
SweepAllegro ==
    /\ disk' = [disk EXCEPT !.dirs[MonikerOf(job.i)] = IF @ = None THEN EmptyDir ELSE @]
    /\ Iterate(Len(job.cfg.validators), "rename")

Sweep ==
    /\ job.pc = "sweep"
    /\ IF IsTempo(job.cfg) THEN SweepTempo ELSE SweepAllegro
    /\ UNCHANGED <<runs, laid, torn>>

\* The directories of two validators of one moniker cannot both go there, and
\* that of two validators of one address cannot go to both.
Rename ==
    /\ job.pc = "rename" /\ job.renames # <<>>
    /\ LET src == SourceDir(Head(job.renames))
           dst == MonikerOf(Head(job.renames))
       IN  /\ disk.dirs[src] # None /\ disk.dirs[dst] = None
           /\ disk' = [disk EXCEPT !.dirs[dst] = disk.dirs[src], !.dirs[src] = None]
    /\ job' = [job EXCEPT !.renames = Tail(@)]
    /\ UNCHANGED <<runs, laid, torn>>

RenameRaises ==
    /\ job.pc = "rename" /\ job.renames # <<>>
    /\ \/ disk.dirs[SourceDir(Head(job.renames))] = None
       \/ disk.dirs[MonikerOf(Head(job.renames))] # None
    /\ Raise

Renamed ==
    /\ job.pc = "rename" /\ job.renames = <<>>
    /\ Goto(After("rename"))
    /\ laid' = job.cfg
    /\ UNCHANGED <<disk, runs, torn>>

WriteYaml ==
    /\ job.pc = "yaml"
    /\ disk' = [disk EXCEPT !.yaml = job.cfg]
    /\ Goto(After("yaml"))
    /\ UNCHANGED <<runs, laid, torn>>

-----------------------------------------------------------------------------
(* generate_supervisor_config *)

Patches == job.cfg.patch /\ disk.genesis # None

\* jsonmerge of a patch that is applied already changes nothing.
PatchGenesis ==
    /\ job.pc = "patch"
    /\ ~(Patches /\ disk.genesis = Torn)
    /\ disk' = IF Patches THEN [disk EXCEPT !.genesis.patched = TRUE] ELSE disk
    /\ Goto(After("patch"))
    /\ UNCHANGED <<runs, laid, torn>>

PatchRaises ==
    /\ job.pc = "patch"
    /\ Patches /\ disk.genesis = Torn
    /\ Raise

CopyGenesis ==
    /\ job.pc = "copy" /\ disk.genesis # None
    /\ disk.dirs[MonikerOf(job.i)] # None
    /\ disk' = [disk EXCEPT !.dirs[MonikerOf(job.i)].genesis = disk.genesis]
    /\ Iterate(Len(job.cfg.validators), After("copy"))
    /\ UNCHANGED <<runs, laid, torn>>

CopyNothing ==
    /\ job.pc = "copy" /\ disk.genesis = None
    /\ Goto(After("copy"))
    /\ UNCHANGED <<disk, runs, laid, torn>>

CopyRaises ==
    /\ job.pc = "copy"
    /\ disk.genesis # None /\ disk.dirs[MonikerOf(job.i)] = None
    /\ Raise

\* configparser refuses a second section of the same name.
DuplicateProgram == \E k \in 1 .. job.i - 1 : MonikerOf(k) = MonikerOf(job.i)

WriteProgram ==
    /\ job.pc = "programs"
    /\ ~DuplicateProgram
    /\ disk.dirs[MonikerOf(job.i)] # None
    /\ disk' = [disk EXCEPT
         !.dirs[MonikerOf(job.i)].run =
            [index |-> job.i, peers |-> IF IsTempo(job.cfg) THEN Peers ELSE {}],
         !.dirs[MonikerOf(job.i)].secret = @ \/ IsTempo(job.cfg)]
    /\ Iterate(Len(job.cfg.validators), After("programs"))
    /\ UNCHANGED <<runs, laid, torn>>

ProgramRaises ==
    /\ job.pc = "programs"
    /\ DuplicateProgram \/ disk.dirs[MonikerOf(job.i)] = None
    /\ Raise

WriteIni ==
    /\ job.pc = "ini"
    /\ disk' = [disk EXCEPT !.ini = job.cfg]
    /\ Goto(After("ini"))
    /\ UNCHANGED <<runs, laid, torn>>

-----------------------------------------------------------------------------
(* generate_docker_compose *)

WriteDockerRun ==
    /\ job.pc = "dockerRun"
    /\ disk.dirs[MonikerOf(job.i)] # None
    /\ disk' = [disk EXCEPT !.dirs[MonikerOf(job.i)].dockerRun =
         [index |-> job.i, peers |-> Peers \ {disk.dirs[MonikerOf(job.i)].keys}]]
    /\ Iterate(Len(job.cfg.validators), After("dockerRun"))
    /\ UNCHANGED <<runs, laid, torn>>

DockerRunRaises ==
    /\ job.pc = "dockerRun"
    /\ disk.dirs[MonikerOf(job.i)] = None
    /\ Raise

WriteCompose ==
    /\ job.pc = "compose"
    /\ disk' = [disk EXCEPT !.compose = job.cfg]
    /\ Goto(After("compose"))
    /\ UNCHANGED <<runs, laid, torn>>

-----------------------------------------------------------------------------
(* The job is killed, and with it the file it is writing may be torn: those *)
(* in the directory itself are kept track of, those of a node are written   *)
(* again by whatever job gets to its scripts.                               *)

Kill ==
    /\ job.pc # "idle"
    /\ \/ UNCHANGED disk
       \/ job.pc = "yaml" /\ disk' = [disk EXCEPT !.yaml = Torn]
       \/ job.pc = "patch" /\ Patches /\ disk' = [disk EXCEPT !.genesis = Torn]
       \/ job.pc = "ini" /\ disk' = [disk EXCEPT !.ini = Torn]
       \/ job.pc = "compose" /\ disk' = [disk EXCEPT !.compose = Torn]
    /\ End("killed")
    /\ UNCHANGED <<runs, laid, torn>>

\* Killed between rmtree and mkdir: there is no data directory.
KillDeleted ==
    /\ job.pc = "clear" /\ disk = EmptyDisk
    /\ disk' = [disk EXCEPT !.present = FALSE]
    /\ torn' = FALSE
    /\ End("killed")
    /\ UNCHANGED <<runs, laid>>

Next ==
    \/ \E cfg \in Configs, force, docker \in BOOLEAN : CallInit(cfg, force, docker)
    \/ \E cfg \in Configs, docker \in BOOLEAN : CallLocalnet(cfg, docker)
    \/ \E cfg \in Configs, force \in BOOLEAN :
         CallSupervisor(cfg, force) \/ CallCompose(cfg, force)
    \/ Delete \/ Deleted
    \/ Xtask \/ XtaskFails \/ Sweep \/ Rename \/ RenameRaises \/ Renamed
    \/ WriteYaml
    \/ PatchGenesis \/ PatchRaises \/ CopyGenesis \/ CopyNothing \/ CopyRaises
    \/ WriteProgram \/ ProgramRaises \/ WriteIni
    \/ WriteDockerRun \/ DockerRunRaises \/ WriteCompose
    \/ Kill \/ KillDeleted

Spec == Init /\ [][Next]_vars

-----------------------------------------------------------------------------
(* Properties *)

Over(op, result) ==
    job.pc = "idle" /\ job.op = op /\ job.result = result

\* The directories of a configuration's validators hold what their programs
\* need: each its own keys, for the address genesis.json has it under, the same
\* genesis.json, and a script that knows the current keys of all the others.
\* Where the programs run is not part of it: a genesis.json made for Docker has
\* the addresses of containers (ComposeTopology is about these).
Ready(cfg) ==
    /\ disk.genesis \in Genesis
    /\ disk.genesis.patched = cfg.patch
    /\ LET dir(i) == disk.dirs[cfg.validators[i].moniker]
           own(i) == [run |-> disk.genesis.run,
                      addr |-> AddressOf(cfg, disk.genesis.docker, i)]
           all == DOMAIN cfg.validators
       IN  \A i \in all :
             /\ dir(i) # None
             /\ dir(i).genesis = disk.genesis
             /\ dir(i).run # None
             /\ dir(i).run.index = i
             /\ IsTempo(cfg) => /\ dir(i).keys = own(i)
                                /\ dir(i).run.peers = {own(k) : k \in all}
                                /\ dir(i).secret

\* A validator's moniker is the address of another, as the xtask names it.
Shadows(cfg, docker) ==
    \E i, k \in DOMAIN cfg.validators :
      /\ i # k /\ IsTempo(cfg)
      /\ cfg.validators[k].moniker = AddressOf(cfg, docker, i)

\* Two validators share a moniker or, where it matters, an address.
Shares(cfg, docker) ==
    \E i, k \in DOMAIN cfg.validators :
      /\ i # k
      /\ \/ cfg.validators[i].moniker = cfg.validators[k].moniker
         \/ IsTempo(cfg) /\ AddressOf(cfg, docker, i) = AddressOf(cfg, docker, k)

\* When init succeeds the data directory holds exactly this devnet, whatever
\* earlier runs, killed or failed ones included, had left in it.
InitLeavesDevnet ==
    Over("init", "ok") =>
      LET names == {MonikerOf(i) : i \in Validators}
      IN  /\ Ready(job.cfg)
          /\ disk.yaml = job.cfg /\ disk.ini = job.cfg
          /\ {n \in Dirs : disk.dirs[n] # None} = names
          /\ job.docker =>
               /\ disk.compose = job.cfg
               /\ \A n \in names : disk.dirs[n].dockerRun.peers =
                    {disk.dirs[m].keys : m \in names \ {n}}

\* A devnet made by init alone is complete, every file that its programs name in
\* place and of one run, as soon as supervisord.ini, the one file the start command
\* looks for, has them: it is written last, and only a killed --force deletion
\* leaves it behind without what it needs.
IniMeansReady ==
    (disk.ini \in Configs /\ ~torn) => Ready(disk.ini)

\* What an earlier run left behind never makes a forced init raise; only
\* validators do that share a moniker or an address, or one of which goes by the
\* address of another (the configuration rules none of it out).
ForcedInitRecovers ==
    Over("init", "raised") =>
      Shares(job.cfg, job.docker) \/ Shadows(job.cfg, job.docker)

\* The library calls in sequence: a forced supervisor configuration on top of a
\* completed layout of the same configuration makes the devnet complete, over
\* whatever layout, scripts and keys of other configurations were there before
\* (but for a genesis.json that was patched for another configuration since, and
\* a moniker that is another validator's address, which the renames run into).
RegeneratedIsReady ==
    (Over("supervisor", "ok") /\ job.force /\ laid = job.cfg
       /\ disk.genesis \in Genesis /\ (disk.genesis.patched => job.cfg.patch)
       /\ ~Shadows(job.cfg, disk.genesis.docker))
      => Ready(job.cfg) /\ disk.ini = job.cfg

-----------------------------------------------------------------------------
(* What the directory shows: the start command takes a supervisord.ini for *)
(* a devnet; one whose writer died has no programs to start.               *)

DevnetShown ==
    IF disk.ini \notin Configs THEN None
    ELSE [cfg |-> disk.ini, state |-> IF Ready(disk.ini) THEN "whole" ELSE "broken"]

StageOf(step) ==
    CASE step = "clear" -> "clearing"
      [] step \in {"dockerRun", "compose"} -> "done"
      [] OTHER -> "building"

InitAtWork ==
    IF job.op = "init" /\ job.pc # "idle"
    THEN [cfg |-> job.cfg, stage |-> StageOf(job.pc)]
    ELSE None

Directory ==
    INSTANCE DevnetDirectory WITH devnet <- DevnetShown, pending <- InitAtWork

ASSUME NoneIsNobody == None \notin Directory!Devnets /\ None \notin Directory!Inits

\* Where init and generate_docker_compose are all that writes the directory, a
\* devnet shows in one step, with everything that start needs, whatever failed or
\* was killed before; and once there it only goes, or breaks, while an init that
\* was forced to replace it deletes it.
ImplementsDirectory == Directory!Spec
=============================================================================
