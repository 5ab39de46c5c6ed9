--------------------------- MODULE DevnetInitProofs ---------------------------
(***************************************************************************)
(* Theorems about DevnetInit, for any configurations, addresses, names and *)
(* number of runs, and any interleaving of jobs that fail or are killed    *)
(* with the files they leave.                                              *)
(*                                                                         *)
(* The invariant says how far the running job must have come, by the step  *)
(* it is at.  The hard part are the renames of prepare_layout: a           *)
(* validator's directory is either where it should be, or the layout is    *)
(* doomed, and some directory is missing when genesis.json is copied       *)
(* (Doomed), however addresses and monikers coincide.                      *)
(*                                                                         *)
(* The refinement of DevnetDirectory adds nothing to the invariant: until  *)
(* supervisord.ini is written nothing shows (BuildingIsBare), and what is  *)
(* written after it is nothing that Ready reads (ShownStays).              *)
(***************************************************************************)
EXTENDS DevnetInit, Integers, TLAPS

Has(n) == disk.dirs[n] # None
Holds(n, keys) == Has(n) /\ disk.dirs[n].keys = keys

Name(cfg, i) == cfg.validators[i].moniker
AllOf(cfg) == DOMAIN cfg.validators
Distinct(cfg) == \A i, k \in AllOf(cfg) : i # k => Name(cfg, i) # Name(cfg, k)

-----------------------------------------------------------------------------
(* Where a job can be *)

JobAt ==
    /\ job.op \in Entries \cup {"none"}
    /\ job.op # "none" => job.cfg \in Configs /\ (job.docker => IsTempo(job.cfg))
    /\ job.pc # "idle" =>
         /\ job.op # "none" /\ disk.present
         /\ job.i \in Validators
    /\ job.result \in {"ok", "raised"} => job.op # "none"
    /\ job.op = "init" => job.force
    /\ job.op = "localnet" => job.pc \in {"idle", "xtask", "sweep", "rename"}
    /\ job.op = "supervisor" =>
         ~job.docker /\ job.pc \in {"idle", "patch", "copy", "programs", "ini"}
    /\ job.op = "compose" => job.pc \in {"idle", "dockerRun", "compose"}
    /\ job.pc \in {"dockerRun", "compose"} => job.docker
    /\ job.pc \in {"clear", "xtask"} => runs < MaxRuns /\ job.renames = <<>>
    /\ job.pc \in {"sweep", "rename"} => job.renames \in Seq(Validators)

NoFiles ==
    /\ disk.yaml = None /\ disk.ini = None /\ disk.compose = None

Absent ==
    (~disk.present \/ (job.op = "init" /\ job.pc = "xtask")) =>
      disk.genesis = None /\ NoFiles /\ \A n \in Dirs : ~Has(n)

-----------------------------------------------------------------------------
(* Keys *)

KeysOf(n) == IF Has(n) THEN disk.dirs[n].keys ELSE None

KeysAreOld == \A n \in Dirs : KeysOf(n) # None => KeysOf(n).run <= runs

KeysAreUnique ==
    \A m, n \in Dirs : KeysOf(m) # None /\ KeysOf(m) = KeysOf(n) => m = n

-----------------------------------------------------------------------------
(* The layout being made *)

LayingOut == job.pc \in {"sweep", "rename"}

\* Validator i's directory still has the name that the xtask gave it.
Waiting(i) ==
    \/ job.pc = "sweep" /\ job.i <= i
    \/ \E a \in DOMAIN job.renames : job.renames[a] = i

\* What the last xtask put into the directory of this name.
MadeKeys(n) == [run |-> runs, addr |-> n]
Made1(i) == MadeKeys(SourceDir(i))

Good(i) == Holds(IF Waiting(i) THEN SourceDir(i) ELSE MonikerOf(i), Made1(i))

AllGood == \A i \in Validators : Good(i)

\* The directory of validator i is gone, will be taken away by another's rename,
\* or is not there to be renamed.
Lost(i) == ~Waiting(i) /\ ~Has(MonikerOf(i))

Taken(i) ==
    /\ ~Waiting(i)
    /\ \E k \in Validators : k # i /\ Waiting(k) /\ SourceDir(k) = MonikerOf(i)

Bare(i) == Waiting(i) /\ ~Has(SourceDir(i))

Doomed == \E i \in Validators : Lost(i) \/ Taken(i) \/ Bare(i)

OnlyOurs ==
    \A n \in Dirs : Has(n) =>
      \E i \in Validators : \/ n = MonikerOf(i) /\ ~Waiting(i)
                            \/ n = SourceDir(i) /\ Waiting(i)

RenamesAscend ==
    /\ \A a \in DOMAIN job.renames :
         /\ SourceDir(job.renames[a]) # MonikerOf(job.renames[a])
         /\ job.pc = "sweep" => job.renames[a] < job.i
    /\ \A a, b \in DOMAIN job.renames : a < b => job.renames[a] < job.renames[b]

TempoLayout ==
    /\ RenamesAscend
    /\ job.op = "init" => OnlyOurs
    /\ Distinct(job.cfg) =>
         /\ job.op = "init" \/ ~Shadows(job.cfg, job.docker) => AllGood \/ Doomed
         /\ (/\ ~Shadows(job.cfg, job.docker)
             /\ job.pc = "sweep" \/ ~Shares(job.cfg, job.docker)) => AllGood

AllegroLayout ==
    /\ job.renames = <<>>
    /\ \A i \in Validators : job.pc = "rename" \/ i < job.i => Has(MonikerOf(i))
    /\ job.op = "init" =>
         \A n \in Dirs : Has(n) => \E i \in Validators : n = MonikerOf(i)

Layout ==
    LayingOut =>
      /\ laid = None
      /\ disk.genesis \in Genesis
      /\ disk.genesis = [run |-> runs, cfg |-> job.cfg, docker |-> job.docker,
                         patched |-> FALSE]
      /\ job.op = "init" => NoFiles
      /\ IF IsTempo(job.cfg) THEN TempoLayout ELSE AllegroLayout

-----------------------------------------------------------------------------
(* The layout in place *)

Own(cfg, i) ==
    [run |-> disk.genesis.run, addr |-> AddressOf(cfg, disk.genesis.docker, i)]

Missing(cfg) == \E i \in AllOf(cfg) : ~Has(Name(cfg, i))

AllKeys(cfg) ==
    IsTempo(cfg) => \A i \in AllOf(cfg) : Holds(Name(cfg, i), Own(cfg, i))

LaidKeys ==
    (/\ laid # None /\ disk.genesis \in Genesis
     /\ Distinct(laid) /\ ~Shadows(laid, disk.genesis.docker))
      => Missing(laid) \/ AllKeys(laid)

Ended == job.pc = "idle" /\ job.result = "ok" /\ job.force

\* The job is past some step: at one of those that come after it, or at its end.
Past(steps) ==
    job.op \in {"init", "supervisor"} /\ (job.pc \in steps \/ Ended)

AfterRename ==
    {"yaml", "patch", "copy", "programs", "ini", "dockerRun", "compose"}
AfterYaml == AfterRename \ {"yaml"}
AfterPatch == AfterYaml \ {"patch"}
AfterCopy == AfterPatch \ {"copy"}
AfterPrograms == AfterCopy \ {"programs"}
AfterIni == AfterPrograms \ {"ini"}
AfterDockerRun == AfterIni \ {"dockerRun"}

InitLaid ==
    (job.op = "init" /\ Past(AfterRename)) =>
      /\ disk.genesis \in Genesis
      /\ disk.genesis.docker = job.docker
      /\ disk.genesis.patched = (Past(AfterPatch) /\ job.cfg.patch)
      /\ \A n \in Dirs : Has(n) => \E i \in Validators : n = MonikerOf(i)
      /\ Distinct(job.cfg) => Missing(job.cfg) \/ AllKeys(job.cfg)
      /\ ~Shadows(job.cfg, job.docker) /\ ~Shares(job.cfg, job.docker)
           => ~Missing(job.cfg)
      /\ Past(AfterYaml) => disk.yaml = job.cfg

-----------------------------------------------------------------------------
(* The supervisor configuration *)

Patched ==
    Past(AfterPatch) =>
      (disk.genesis \in Genesis /\ job.cfg.patch => disk.genesis.patched)

Copied(i) ==
    disk.genesis # None =>
      Has(MonikerOf(i)) /\ disk.dirs[MonikerOf(i)].genesis = disk.genesis

Scripted(i) ==
    /\ Has(MonikerOf(i))
    /\ disk.dirs[MonikerOf(i)].run # None
    /\ disk.dirs[MonikerOf(i)].run.index = i
    /\ disk.dirs[MonikerOf(i)].run.peers = IF IsTempo(job.cfg) THEN Peers ELSE {}
    /\ IsTempo(job.cfg) => disk.dirs[MonikerOf(i)].secret

\* The loop over the validators got past i: it is at a later one, or it is over.
Through(step, after, i) ==
    \/ job.op \in {"init", "supervisor"} /\ job.pc = step /\ i < job.i
    \/ Past(after)

Copies == \A i \in Validators : Through("copy", AfterCopy, i) => Copied(i)

Programs ==
    \A i \in Validators : Through("programs", AfterPrograms, i) =>
      /\ Scripted(i)
      /\ \A k \in Validators : k < i => MonikerOf(k) # MonikerOf(i)

IniWritten == Past(AfterIni) => disk.ini = job.cfg

Composed(i) ==
    /\ Has(MonikerOf(i))
    /\ disk.dirs[MonikerOf(i)].dockerRun # None
    /\ disk.dirs[MonikerOf(i)].dockerRun.peers = Peers \ {disk.dirs[MonikerOf(i)].keys}

Composes ==
    (job.op = "init" /\ job.docker) =>
      /\ \A i \in Validators :
           Through("dockerRun", AfterDockerRun, i) => Composed(i)
      /\ Ended => disk.compose = job.cfg

-----------------------------------------------------------------------------
(* Devnets made by init alone *)

IniInv ==
    Entries \subseteq {"init", "compose"} =>
      /\ IniMeansReady
      /\ (job.op = "init" /\ job.pc \in AfterRename \ AfterIni) => disk.ini = None

IInv ==
    /\ TypeOK /\ JobAt /\ Absent
    /\ KeysAreOld /\ KeysAreUnique
    /\ Layout /\ LaidKeys /\ InitLaid
    /\ (job.op # "none" => Patched /\ Copies /\ Programs /\ IniWritten /\ Composes)
    /\ IniInv /\ ForcedInitRecovers
-----------------------------------------------------------------------------
(* Configurations and jobs *)

LEMMA ConfigTypes ==
    ASSUME NEW cfg \in Configs
    PROVE  /\ Len(cfg.validators) \in Nat \ {0}
           /\ AllOf(cfg) = 1 .. Len(cfg.validators)
           /\ AllOf(cfg) \subseteq DOMAIN DockerAddrs
           /\ cfg.patch \in BOOLEAN
           /\ \A i \in AllOf(cfg) :
                /\ Name(cfg, i) \in Dirs
                /\ \A docker : AddressOf(cfg, docker, i) \in Dirs
  <1>1. /\ cfg.validators \in Seq([addr: Addrs, moniker: Monikers])
        /\ cfg.validators # <<>> /\ Len(cfg.validators) <= Len(DockerAddrs)
        /\ cfg.patch \in BOOLEAN /\ DockerAddrs \in Seq(Dirs)
    BY DevnetConfigs
  <1>2. /\ Len(cfg.validators) \in Nat /\ DOMAIN cfg.validators = 1 .. Len(cfg.validators)
        /\ Len(DockerAddrs) \in Nat /\ DOMAIN DockerAddrs = 1 .. Len(DockerAddrs)
    BY <1>1
  <1>3. Len(cfg.validators) # 0
    BY <1>1
  <1>4. ASSUME NEW i \in AllOf(cfg)
        PROVE  cfg.validators[i].addr \in Addrs /\ cfg.validators[i].moniker \in Monikers
    <2> DEFINE V == [addr: Addrs, moniker: Monikers]
               vs == cfg.validators
    <2>1. vs \in Seq(V) /\ i \in DOMAIN vs
      BY <1>1 DEF AllOf
    <2> HIDE DEF vs, V
    <2>2. vs[i] \in V
      BY <2>1
    <2>3. QED
      BY <2>2 DEF V, vs
  <1>5. AllOf(cfg) \subseteq DOMAIN DockerAddrs
    BY <1>1, <1>2 DEF AllOf
  <1>6. QED
    BY <1>1, <1>2, <1>3, <1>4, <1>5 DEF AllOf, Name, AddressOf, Dirs

\* The running job's.
LEMMA JobTypes ==
    ASSUME TypeOK, JobAt, job.op # "none"
    PROVE  /\ job.cfg \in Configs
           /\ Len(job.cfg.validators) \in Nat \ {0}
           /\ Validators = 1 .. Len(job.cfg.validators)
           /\ Validators = AllOf(job.cfg)
           /\ Validators \subseteq DOMAIN DockerAddrs
           /\ 1 \in DOMAIN DockerAddrs
           /\ \A i \in Validators :
                /\ MonikerOf(i) \in Dirs /\ SourceDir(i) \in Dirs
                /\ MonikerOf(i) = Name(job.cfg, i)
                /\ SourceDir(i) = AddressOf(job.cfg, job.docker, i)
  <1>1. job.cfg \in Configs
    BY DEF JobAt
  <1>2. QED
    BY <1>1, ConfigTypes DEF Validators, AllOf, MonikerOf, SourceDir, Name

LEMMA EndEffect ==
    ASSUME TypeOK, NEW result \in {"ok", "error", "raised", "killed"}, End(result)
    PROVE  /\ job' \in Job /\ job'.pc = "idle" /\ job'.result = result
           /\ job'.op = job.op /\ job'.cfg = job.cfg /\ job'.force = job.force
           /\ job'.docker = job.docker /\ job'.renames = job.renames /\ job'.i = job.i
  BY DEF TypeOK, Job, End

\* The job goes on, and is the same job.
SameJob ==
    /\ job' \in Job
    /\ job'.op = job.op /\ job'.cfg = job.cfg /\ job'.force = job.force
    /\ job'.docker = job.docker /\ job'.renames = job.renames

At(step) == job'.pc = step /\ job'.i = 1 /\ job'.result = job.result

EndsOk == job'.pc = "idle" /\ job'.result = "ok" /\ job'.i = job.i

LEMMA GotoEffect ==
    ASSUME TypeOK, 1 \in DOMAIN DockerAddrs, NEW step \in Steps \cup {"idle"},
           Goto(step)
    PROVE  SameJob /\ IF step = "idle" THEN EndsOk ELSE At(step)
  <1>1. CASE step = "idle"
    BY <1>1, EndEffect DEF Goto, SameJob, EndsOk
  <1>2. CASE step # "idle"
    BY <1>2 DEF Goto, TypeOK, Job, SameJob, At
  <1>3. QED
    BY <1>1, <1>2

LEMMA IterateEffect ==
    ASSUME TypeOK, JobAt, job.pc # "idle", NEW next \in Steps \cup {"idle"},
           Iterate(Len(job.cfg.validators), next)
    PROVE  /\ SameJob
           /\ \/ /\ job.i < Len(job.cfg.validators) /\ job'.i = job.i + 1
                 /\ job'.pc = job.pc /\ job'.result = job.result
              \/ /\ job.i = Len(job.cfg.validators)
                 /\ IF next = "idle" THEN EndsOk ELSE At(next)
  <1>1. /\ Len(job.cfg.validators) \in Nat \ {0} /\ 1 \in DOMAIN DockerAddrs
        /\ job.i \in 1 .. Len(job.cfg.validators)
        /\ 1 .. Len(job.cfg.validators) \subseteq DOMAIN DockerAddrs
    BY JobTypes DEF JobAt
  <1>2. CASE job.i < Len(job.cfg.validators)
    <2>1. job.i + 1 \in DOMAIN DockerAddrs
      BY <1>1, <1>2
    <2>2. QED
      BY <1>2, <2>1 DEF Iterate, TypeOK, Job, SameJob
  <1>3. CASE ~(job.i < Len(job.cfg.validators))
    <2>1. Goto(next) /\ job.i = Len(job.cfg.validators)
      BY <1>1, <1>3 DEF Iterate
    <2>2. QED
      BY <1>1, <2>1, GotoEffect
  <1>4. QED
    BY <1>2, <1>3
-----------------------------------------------------------------------------
(* Steps that leave the keys where they are *)

SameKeys ==
    \A n \in Dirs : (Has(n)' <=> Has(n)) /\ KeysOf(n)' = KeysOf(n)

\* The identity of genesis.json: it may have been patched, or torn.
SameGenesis ==
    disk'.genesis \in Genesis =>
      /\ disk.genesis \in Genesis
      /\ disk'.genesis.run = disk.genesis.run
      /\ disk'.genesis.docker = disk.genesis.docker

LEMMA KeysType ==
    ASSUME TypeOK, NEW n \in Dirs
    PROVE  /\ KeysOf(n) \in KeyFiles \cup {None}
           /\ KeysOf(n) # None => KeysOf(n).run \in Nat
  <1>1. disk.dirs[n] \in Dir \cup {None} /\ MaxRuns \in Nat
    BY DevnetConfigs DEF TypeOK, Disk
  <1>2. KeysOf(n) \in KeyFiles \cup {None}
    BY <1>1 DEF KeysOf, Has, Dir
  <1>3. QED
    BY <1>1, <1>2 DEF KeyFiles

LEMMA KeysStay ==
    ASSUME KeysAreOld, KeysAreUnique, SameKeys, runs' = runs
    PROVE  KeysAreOld' /\ KeysAreUnique'
  <1>1. KeysAreOld'
    BY DEF KeysAreOld, SameKeys
  <1>2. KeysAreUnique'
    BY DEF KeysAreUnique, SameKeys
  <1>3. QED
    BY <1>1, <1>2

LEMMA MissingStays ==
    ASSUME NEW cfg \in Configs, SameKeys
    PROVE  Missing(cfg)' <=> Missing(cfg)
  BY ConfigTypes DEF Missing, SameKeys

LEMMA AllKeysStay ==
    ASSUME NEW cfg \in Configs, SameKeys, AllKeys(cfg),
           disk'.genesis.run = disk.genesis.run,
           disk'.genesis.docker = disk.genesis.docker
    PROVE  AllKeys(cfg)'
  <1> SUFFICES ASSUME IsTempo(cfg), NEW i \in AllOf(cfg)
               PROVE  Holds(Name(cfg, i), Own(cfg, i))'
    BY DEF AllKeys
  <1>1. Name(cfg, i) \in Dirs
    BY ConfigTypes
  <1>2. Own(cfg, i)' = Own(cfg, i)
    BY DEF Own
  <1>3. Holds(Name(cfg, i), Own(cfg, i))
    BY DEF AllKeys
  <1>4. KeysOf(Name(cfg, i)) = Own(cfg, i) /\ Has(Name(cfg, i))
    BY <1>3 DEF Holds, KeysOf
  <1>5. KeysOf(Name(cfg, i))' = Own(cfg, i) /\ Has(Name(cfg, i))'
    BY <1>1, <1>4 DEF SameKeys
  <1>6. QED
    BY <1>2, <1>5 DEF Holds, KeysOf

LEMMA LaidKeysStay ==
    ASSUME TypeOK, LaidKeys, SameKeys, SameGenesis, laid' = laid
    PROVE  LaidKeys'
  <1> SUFFICES ASSUME laid # None, disk'.genesis \in Genesis, Distinct(laid),
                      ~Shadows(laid, disk'.genesis.docker)
               PROVE  Missing(laid)' \/ AllKeys(laid)'
    BY DEF LaidKeys
  <1>1. laid \in Configs
    BY DEF TypeOK
  <1>2. Missing(laid) \/ AllKeys(laid)
    BY DEF LaidKeys, SameGenesis
  <1>3. QED
    BY <1>1, <1>2, MissingStays, AllKeysStay DEF SameGenesis

SameDirs == disk'.dirs = disk.dirs

LEMMA DirsStay ==
    ASSUME SameDirs
    PROVE  SameKeys
  BY DEF SameDirs, SameKeys, Has, KeysOf

-----------------------------------------------------------------------------
(* A job begins *)

LEMMA BeginKeeps ==
    ASSUME IInv, NEW op \in {"init", "localnet", "supervisor", "compose"},
           NEW cfg \in Configs, NEW force \in BOOLEAN, NEW docker \in BOOLEAN,
           NEW pc \in {"clear", "xtask", "patch", "dockerRun"},
           Begin(op, cfg, force, docker, pc),
           op = "init" => force /\ pc \in {"clear", "xtask"},
           op = "init" /\ pc = "xtask" => ~disk.present,
           op = "localnet" => pc = "xtask",
           op = "supervisor" => ~docker /\ pc = "patch",
           op = "compose" => pc = "dockerRun" /\ docker,
           docker => IsTempo(cfg),
           pc \in {"clear", "xtask"} => runs < MaxRuns,
           disk' = [disk EXCEPT !.present = TRUE],
           UNCHANGED <<runs, laid, torn>>
    PROVE  IInv'
  <1>1. /\ job.pc = "idle" /\ op \in Entries
        /\ job' = [op |-> op, cfg |-> cfg, force |-> force, docker |-> docker,
                   pc |-> pc, i |-> 1, renames |-> <<>>, result |-> "none"]
    BY DEF Begin
  <1>2. 1 \in DOMAIN DockerAddrs /\ AllOf(cfg) = 1 .. Len(cfg.validators)
        /\ Len(cfg.validators) \in Nat \ {0}
    BY ConfigTypes
  <1> DEFINE nothing == <<>>
  <1>3. nothing \in Seq(DOMAIN DockerAddrs)
    OBVIOUS
  <1>4. job' = [op |-> op, cfg |-> cfg, force |-> force, docker |-> docker,
                pc |-> pc, i |-> 1, renames |-> nothing, result |-> "none"]
    BY <1>1
  <1> HIDE DEF nothing
  <1>5. /\ job' \in Job /\ job'.op = op /\ job'.cfg = cfg /\ job'.force = force
        /\ job'.docker = docker /\ job'.pc = pc /\ job'.i = 1 /\ job'.result = "none"
        /\ job'.renames = nothing
    BY <1>2, <1>3, <1>4 DEF Job, Steps
  <1>6. /\ disk' \in Disk /\ disk'.present /\ SameDirs
        /\ disk'.genesis = disk.genesis /\ disk'.yaml = disk.yaml
        /\ disk'.ini = disk.ini /\ disk'.compose = disk.compose
    BY DEF IInv, TypeOK, Disk, SameDirs
  <1>7. SameKeys /\ SameGenesis
    BY <1>6, DirsStay DEF SameGenesis
  <1>8. TypeOK'
    BY <1>5, <1>6 DEF IInv, TypeOK
  <1>9. JobAt'
    <2>1. 1 \in DOMAIN cfg.validators
      BY <1>2 DEF AllOf
    <2>2. job'.renames = <<>>
      BY <1>5 DEF nothing
    <2>3. QED
      BY <1>1, <1>5, <1>6, <2>1, <2>2 DEF JobAt, Validators
  <1>10. Absent'
    BY <1>5, <1>6 DEF IInv, Absent, NoFiles, Has, SameDirs
  <1>11. KeysAreOld' /\ KeysAreUnique' /\ LaidKeys'
    BY <1>7, KeysStay, LaidKeysStay DEF IInv
  <1>12. Layout' /\ InitLaid'
    BY <1>5 DEF Layout, LayingOut, InitLaid, Past, AfterRename, Ended
  <1>13. /\ Patched' /\ Copies' /\ Programs' /\ IniWritten' /\ Composes'
    BY <1>5 DEF Patched, Copies, Programs, IniWritten, Composes, Through, Past, Ended,
       AfterDockerRun, AfterIni, AfterPrograms, AfterCopy, AfterPatch, AfterYaml,
       AfterRename
  <1>14. ForcedInitRecovers'
    BY <1>5 DEF ForcedInitRecovers, Over
  <1>15. IniInv'
    <2>1. torn' = torn
      OBVIOUS
    <2>2. \A c : Ready(c)' <=> Ready(c)
      BY <1>6 DEF Ready, SameDirs
    <2>3. QED
      BY <1>5, <1>6, <2>1, <2>2 DEF IInv, IniInv, IniMeansReady, AfterRename, AfterYaml,
         AfterPatch, AfterCopy, AfterPrograms, AfterIni
  <1>16. QED
    BY <1>8, <1>9, <1>10, <1>11, <1>12, <1>13, <1>14, <1>15 DEF IInv

LEMMA CallKeeps ==
    ASSUME IInv, NEW cfg \in Configs, NEW force \in BOOLEAN, NEW docker \in BOOLEAN,
           \/ CallInit(cfg, force, docker) \/ CallLocalnet(cfg, docker)
           \/ CallSupervisor(cfg, force) \/ CallCompose(cfg, force)
    PROVE  IInv'
  <1>1. CASE CallInit(cfg, force, docker)
    BY <1>1, BeginKeeps DEF CallInit
  <1>2. CASE CallLocalnet(cfg, docker)
    BY <1>2, BeginKeeps DEF CallLocalnet
  <1>3. disk.present => disk = [disk EXCEPT !.present = TRUE]
    BY DEF IInv, TypeOK, Disk
  <1>4. CASE CallSupervisor(cfg, force)
    BY <1>3, <1>4, BeginKeeps DEF CallSupervisor
  <1>5. CASE CallCompose(cfg, force)
    BY <1>3, <1>5, BeginKeeps DEF CallCompose
  <1>6. QED
    BY <1>1, <1>2, <1>4, <1>5

-----------------------------------------------------------------------------
(* A job stops short *)

LEMMA StopKeeps ==
    ASSUME IInv, job.pc # "idle", NEW result \in {"error", "raised", "killed"},
           End(result), result = "raised" /\ job.op = "init" =>
             Shares(job.cfg, job.docker) \/ Shadows(job.cfg, job.docker),
           disk' \in Disk, SameDirs, SameGenesis, UNCHANGED <<runs, laid>>,
           torn' \in BOOLEAN,
           ~disk'.present => disk' = [EmptyDisk EXCEPT !.present = FALSE],
           Entries \subseteq {"init", "compose"} => IniMeansReady'
    PROVE  IInv'
  <1>1. /\ job' \in Job /\ job'.pc = "idle" /\ job'.result = result
        /\ job'.op = job.op /\ job'.cfg = job.cfg /\ job'.force = job.force
        /\ job'.docker = job.docker
    BY EndEffect DEF IInv
  <1>2. TypeOK'
    BY <1>1 DEF IInv, TypeOK
  <1>3. JobAt'
    BY <1>1 DEF IInv, JobAt
  <1>4. Absent'
    BY <1>1 DEF Absent, NoFiles, Has, EmptyDisk
  <1>5. KeysAreOld' /\ KeysAreUnique' /\ LaidKeys'
    BY DirsStay, KeysStay, LaidKeysStay DEF IInv
  <1>6. Layout' /\ InitLaid'
    BY <1>1 DEF Layout, LayingOut, InitLaid, Past, AfterRename, Ended
  <1>7. /\ Patched' /\ Copies' /\ Programs' /\ IniWritten' /\ Composes'
    BY <1>1 DEF Patched, Copies, Programs, IniWritten, Composes, Through, Past, Ended,
       AfterDockerRun, AfterIni, AfterPrograms, AfterCopy, AfterPatch, AfterYaml,
       AfterRename
  <1>8. ForcedInitRecovers'
    <2>1. \A c, d : (Shares(c, d)' <=> Shares(c, d)) /\ (Shadows(c, d)' <=> Shadows(c, d))
      BY DEF Shares, Shadows, AddressOf
    <2>2. QED
      BY <1>1, <2>1 DEF ForcedInitRecovers, Over, IInv, JobAt
  <1>9. IniInv'
    BY <1>1 DEF IniInv, AfterRename
  <1>10. QED
    BY <1>2, <1>3, <1>4, <1>5, <1>6, <1>7, <1>8, <1>9 DEF IInv

LEMMA RaiseKeeps ==
    ASSUME IInv, job.pc # "idle", Raise, job.op = "init" =>
             Shares(job.cfg, job.docker) \/ Shadows(job.cfg, job.docker)
    PROVE  IInv'
  <1>1. /\ End("raised") /\ disk' = disk /\ UNCHANGED <<runs, laid, torn>>
    BY DEF Raise
  <1>2. disk' \in Disk /\ SameDirs /\ SameGenesis /\ torn' \in BOOLEAN
    BY <1>1 DEF IInv, TypeOK, SameDirs, SameGenesis
  <1>3. disk'.present
    BY <1>1 DEF IInv, JobAt
  <1>4. Entries \subseteq {"init", "compose"} => IniMeansReady'
    <2>1. \A c : Ready(c)' <=> Ready(c)
      BY <1>1 DEF Ready
    <2>2. QED
      BY <1>1, <2>1 DEF IInv, IniInv, IniMeansReady
  <1>5. QED
    BY <1>1, <1>2, <1>3, <1>4, StopKeeps

\* Without shared names each rename of a forced init finds what it moves, and
\* nothing in its way.
LEMMA RenameRaisesKeeps ==
    ASSUME IInv, RenameRaises
    PROVE  IInv'
  <1>1. /\ job.pc = "rename" /\ job.renames # <<>> /\ Raise
        /\ \/ disk.dirs[SourceDir(Head(job.renames))] = None
           \/ disk.dirs[MonikerOf(Head(job.renames))] # None
    BY DEF RenameRaises
  <1>2. SUFFICES ASSUME job.op = "init", ~Shares(job.cfg, job.docker),
                        ~Shadows(job.cfg, job.docker)
                 PROVE  FALSE
    BY <1>1, RaiseKeeps
  <1> DEFINE r == Head(job.renames)
  <1>3. job.renames \in Seq(Validators)
    BY <1>1 DEF IInv, JobAt
  <1>4. 1 \in DOMAIN job.renames /\ r = job.renames[1] /\ r \in Validators
    BY <1>1, <1>3
  <1>5. Waiting(r)
    BY <1>4 DEF Waiting
  <1>6. IsTempo(job.cfg) /\ TempoLayout
    BY <1>1 DEF IInv, Layout, LayingOut, AllegroLayout
  <1>7. AllGood /\ OnlyOurs /\ SourceDir(r) # MonikerOf(r)
    <2>1. Distinct(job.cfg)
      BY <1>2 DEF Shares, Distinct, AllOf, Name
    <2>2. QED
      BY <1>2, <1>4, <1>6, <2>1 DEF TempoLayout, RenamesAscend
  <1>8. disk.dirs[SourceDir(r)] # None
    BY <1>4, <1>5, <1>7 DEF AllGood, Good, Holds, Has
  <1>9. Has(MonikerOf(r)) /\ MonikerOf(r) \in Dirs
    BY <1>1, <1>4, <1>8, JobTypes DEF Has, IInv, JobAt
  <1>10. PICK i \in Validators :
           \/ MonikerOf(r) = MonikerOf(i) /\ ~Waiting(i)
           \/ MonikerOf(r) = SourceDir(i) /\ Waiting(i)
    BY <1>7, <1>9 DEF OnlyOurs
  <1>11. i # r
    BY <1>5, <1>7, <1>10
  <1>12. MonikerOf(r) # MonikerOf(i)
    BY <1>2, <1>4, <1>11 DEF Shares, MonikerOf, Validators
  <1>13. MonikerOf(r) # SourceDir(i)
    BY <1>2, <1>4, <1>6, <1>11 DEF Shadows, MonikerOf, SourceDir, Validators
  <1>14. QED
    BY <1>10, <1>12, <1>13

LEMMA RaisesKeep ==
    ASSUME IInv, PatchRaises \/ CopyRaises \/ ProgramRaises \/ DockerRunRaises
    PROVE  IInv'
  <1>1. /\ job.pc \in {"patch", "copy", "programs", "dockerRun"} /\ Raise
        /\ \/ disk.genesis = Torn
           \/ disk.dirs[MonikerOf(job.i)] = None
           \/ \E k \in 1 .. job.i - 1 : MonikerOf(k) = MonikerOf(job.i)
    BY DEF PatchRaises, CopyRaises, ProgramRaises, DuplicateProgram, DockerRunRaises
  <1>2. SUFFICES ASSUME job.op = "init", ~Shares(job.cfg, job.docker),
                        ~Shadows(job.cfg, job.docker)
                 PROVE  FALSE
    BY <1>1, RaiseKeeps
  <1>3. Past(AfterRename)
    BY <1>1, <1>2 DEF Past, AfterRename
  <1>4. disk.genesis \in Genesis /\ ~Missing(job.cfg)
    BY <1>2, <1>3 DEF IInv, InitLaid
  <1>5. disk.genesis # Torn
    BY <1>4, NoneIsAbsence
  <1>6. /\ job.i \in Validators /\ Validators = 1 .. Len(job.cfg.validators)
        /\ Validators = AllOf(job.cfg) /\ Len(job.cfg.validators) \in Nat
        /\ \A i \in Validators : MonikerOf(i) = Name(job.cfg, i)
    BY <1>1, <1>2, JobTypes DEF IInv, JobAt
  <1>7. disk.dirs[MonikerOf(job.i)] # None
    BY <1>4, <1>6 DEF Missing, Has
  <1>8. \A k \in 1 .. job.i - 1 : MonikerOf(k) # MonikerOf(job.i)
    <2> SUFFICES ASSUME NEW k \in 1 .. job.i - 1
                 PROVE  MonikerOf(k) # MonikerOf(job.i)
      OBVIOUS
    <2>1. k \in Validators /\ k # job.i
      BY <1>6
    <2>2. QED
      BY <1>2, <1>6, <2>1 DEF Shares, MonikerOf, Validators
  <1>9. QED
    BY <1>1, <1>5, <1>7, <1>8

LEMMA KillKeeps ==
    ASSUME IInv, Kill
    PROVE  IInv'
  <1>1. job.pc # "idle" /\ End("killed") /\ UNCHANGED <<runs, laid, torn>>
    BY DEF Kill
  <1>2. disk.present /\ disk \in Disk /\ torn \in BOOLEAN
    BY <1>1 DEF IInv, JobAt, TypeOK
  <1>3. ASSUME disk' \in Disk, SameDirs, SameGenesis, disk'.present,
               Entries \subseteq {"init", "compose"} => IniMeansReady'
        PROVE  IInv'
    BY <1>1, <1>2, <1>3, StopKeeps
  <1>4. ASSUME disk' \in Disk, SameDirs, disk'.genesis = disk.genesis,
               disk'.present, disk'.ini # disk.ini => disk'.ini = Torn
        PROVE  IInv'
    <2>1. SameGenesis
      BY <1>4 DEF SameGenesis
    <2>2. \A c : Ready(c)' <=> Ready(c)
      BY <1>4 DEF Ready, SameDirs
    <2>3. IniMeansReady => IniMeansReady'
      BY <1>1, <1>4, <2>2, NoneIsAbsence DEF IniMeansReady
    <2>4. QED
      BY <1>3, <1>4, <2>1, <2>3 DEF IInv, IniInv
  <1>5. CASE UNCHANGED disk
    BY <1>2, <1>4, <1>5 DEF SameDirs
  <1>6. CASE disk' = [disk EXCEPT !.yaml = Torn]
    BY <1>2, <1>4, <1>6 DEF Disk, SameDirs
  <1>7. CASE disk' = [disk EXCEPT !.ini = Torn]
    BY <1>2, <1>4, <1>7 DEF Disk, SameDirs
  <1>8. CASE disk' = [disk EXCEPT !.compose = Torn]
    BY <1>2, <1>4, <1>8 DEF Disk, SameDirs
  <1>9. CASE job.pc = "patch" /\ disk' = [disk EXCEPT !.genesis = Torn]
    <2>1. /\ disk' \in Disk /\ SameDirs /\ disk'.present /\ disk'.genesis = Torn
          /\ disk'.ini = disk.ini
      BY <1>2, <1>9 DEF Disk, SameDirs, GenesisFile
    <2>2. SameGenesis
      BY <2>1, NoneIsAbsence DEF SameGenesis
    <2>3. ASSUME Entries \subseteq {"init", "compose"}
          PROVE  IniMeansReady'
      <3>1. job.op = "init"
        BY <1>9, <2>3 DEF IInv, JobAt
      <3>2. disk.ini = None
        BY <1>9, <2>3, <3>1 DEF IInv, IniInv, AfterRename, AfterYaml, AfterPatch,
           AfterCopy, AfterPrograms, AfterIni
      <3>3. QED
        BY <2>1, <3>2, NoneIsAbsence DEF IniMeansReady
    <2>4. QED
      BY <1>3, <2>1, <2>2, <2>3
  <1>10. QED
    BY <1>5, <1>6, <1>7, <1>8, <1>9 DEF Kill

-----------------------------------------------------------------------------
(* A forced init clears the directory *)

\* Before the layout nothing has been promised of the job.
LEMMA Early ==
    ASSUME job'.pc \in {"clear", "xtask"}
    PROVE  /\ Layout' /\ InitLaid' /\ Patched' /\ Copies' /\ Programs' /\ IniWritten'
           /\ Composes' /\ ForcedInitRecovers'
  BY DEF Layout, LayingOut, InitLaid, Patched, Copies, Programs, IniWritten, Composes,
     Through, Past, Ended, AfterDockerRun, AfterIni, AfterPrograms, AfterCopy,
     AfterPatch, AfterYaml, AfterRename, ForcedInitRecovers, Over

LEMMA ClearingInit ==
    ASSUME JobAt, job.pc = "clear"
    PROVE  job.op = "init" /\ disk.present
  BY DevnetConfigs DEF JobAt

LEMMA DeleteKeeps ==
    ASSUME IInv, Delete
    PROVE  IInv'
  <1>1. /\ job.pc = "clear" /\ torn' = TRUE /\ laid' = None /\ UNCHANGED <<job, runs>>
        /\ job.op = "init" /\ disk.present /\ disk \in Disk
    BY ClearingInit DEF Delete, IInv, TypeOK
  <1>2. /\ disk' \in Disk /\ disk'.present
        /\ \A n \in Dirs : disk'.dirs[n] \in {disk.dirs[n], None}
    <2>1. ASSUME NEW file \in {"genesis", "yaml", "ini", "compose"},
                 disk' = [disk EXCEPT ![file] = None]
          PROVE  <1>2!1 /\ <1>2!2 /\ disk'.dirs = disk.dirs
      <3>1. CASE disk' = [disk EXCEPT !.genesis = None]
        BY <1>1, <3>1 DEF Disk, GenesisFile
      <3>2. CASE disk' = [disk EXCEPT !.yaml = None]
        BY <1>1, <3>2 DEF Disk
      <3>3. CASE disk' = [disk EXCEPT !.ini = None]
        BY <1>1, <3>3 DEF Disk
      <3>4. CASE disk' = [disk EXCEPT !.compose = None]
        BY <1>1, <3>4 DEF Disk
      <3>5. QED
        BY <2>1, <3>1, <3>2, <3>3, <3>4
    <2>2. ASSUME NEW n \in Dirs, disk' = [disk EXCEPT !.dirs[n] = None]
          PROVE  <1>2
      BY <1>1, <2>2 DEF Disk
    <2>3. QED
      BY <2>1, <2>2 DEF Delete
  <1>3. TypeOK'
    BY <1>1, <1>2 DEF IInv, TypeOK
  <1>4. JobAt'
    BY <1>1, <1>2 DEF IInv, JobAt, Validators
  <1>5. Absent'
    BY <1>1, <1>2 DEF Absent
  <1>6. KeysAreOld' /\ KeysAreUnique'
    <2>1. \A n \in Dirs : KeysOf(n)' \in {KeysOf(n), None}
      BY <1>2 DEF KeysOf, Has
    <2>2. QED
      BY <1>1, <2>1 DEF IInv, KeysAreOld, KeysAreUnique
  <1>7. LaidKeys' /\ IniInv'
    BY <1>1 DEF LaidKeys, IniInv, IniMeansReady, AfterRename
  <1>8. QED
    BY <1>1, <1>3, <1>4, <1>5, <1>6, <1>7, Early DEF IInv

LEMMA DeletedKeeps ==
    ASSUME IInv, Deleted
    PROVE  IInv'
  <1>1. /\ job.pc = "clear" /\ disk = EmptyDisk /\ Goto("xtask") /\ torn' = FALSE
        /\ UNCHANGED <<disk, runs, laid>> /\ job.op = "init" /\ disk.present
    BY ClearingInit DEF Deleted, IInv
  <1>2. SameJob /\ job'.pc = "xtask" /\ job'.i = 1 /\ job'.result = job.result
    BY <1>1, GotoEffect, JobTypes DEF IInv, Steps, At
  <1>3. TypeOK'
    BY <1>1, <1>2 DEF IInv, TypeOK, SameJob
  <1>4. JobAt'
    <2>1. 1 \in DOMAIN job.cfg.validators
      BY <1>1, JobTypes DEF IInv, Validators
    <2>2. QED
      BY <1>1, <1>2, <2>1 DEF IInv, JobAt, SameJob, Validators
  <1>5. disk'.ini = None /\ Absent'
    BY <1>1 DEF Absent, NoFiles, Has, EmptyDisk
  <1>6. KeysAreOld' /\ KeysAreUnique' /\ LaidKeys'
    <2>1. SameKeys /\ SameGenesis
      BY <1>1, DirsStay DEF SameDirs, SameGenesis
    <2>2. QED
      BY <1>1, <2>1, KeysStay, LaidKeysStay DEF IInv
  <1>7. IniInv'
    BY <1>2, <1>5, NoneIsAbsence DEF IniInv, IniMeansReady, AfterRename
  <1>8. QED
    BY <1>2, <1>3, <1>4, <1>5, <1>6, <1>7, Early DEF IInv

LEMMA KillDeletedKeeps ==
    ASSUME IInv, KillDeleted
    PROVE  IInv'
  <1>1. /\ job.pc = "clear" /\ disk = EmptyDisk /\ End("killed") /\ torn' = FALSE
        /\ disk' = [EmptyDisk EXCEPT !.present = FALSE] /\ UNCHANGED <<runs, laid>>
    BY DEF KillDeleted
  <1>2. disk \in Disk
    BY DEF IInv, TypeOK
  <1>3. disk' = [disk EXCEPT !.present = FALSE]
    BY <1>1
  <1>4. /\ disk' \in Disk /\ SameDirs /\ disk'.genesis = disk.genesis
        /\ disk'.ini = disk.ini
    BY <1>2, <1>3 DEF Disk, SameDirs
  <1>5. SameGenesis
    BY <1>4 DEF SameGenesis
  <1>6. IniMeansReady'
    <2>1. disk.ini = None
      BY <1>1 DEF EmptyDisk
    <2>2. QED
      BY <1>4, <2>1, NoneIsAbsence DEF IniMeansReady
  <1>7. QED
    BY <1>1, <1>4, <1>5, <1>6, StopKeeps

-----------------------------------------------------------------------------
(* The xtask *)

LEMMA XtaskEffect ==
    ASSUME IInv, job.pc = "xtask", NEW kept \in {disk, EmptyDisk},
           NEW which \in SUBSET Validators, runs' = runs + 1,
           \/ disk' = Made(kept, which)
           \/ disk' = [Made(kept, which) EXCEPT !.genesis = NewGenesis]
    PROVE  /\ disk' \in Disk /\ disk'.present /\ runs' \in 0 .. MaxRuns
           /\ KeysAreOld' /\ KeysAreUnique'
           /\ NoFiles => NoFiles'
           /\ \A n \in Dirs : IF \E i \in which : n = SourceDir(i)
                              THEN Holds(n, MadeKeys(n))'
                              ELSE Has(n)' => Has(n)
  <1>1. /\ job.op # "none" /\ job.cfg \in Configs /\ disk.present /\ disk \in Disk
        /\ runs \in Nat /\ MaxRuns \in Nat /\ runs < MaxRuns /\ job \in Job
    BY DevnetConfigs DEF IInv, JobAt, TypeOK
  <1>2. runs + 1 \in 1 .. MaxRuns /\ runs' \in 0 .. MaxRuns
    BY <1>1
  <1> DEFINE fresh(n) == [EmptyDir EXCEPT !.keys = [run |-> runs + 1, addr |-> n]]
             made(n) == \E i \in which : n = SourceDir(i)
             dirs == [n \in Dirs |-> IF made(n) THEN fresh(n) ELSE kept.dirs[n]]
  <1>3. kept \in Disk /\ kept.present
    <2>1. EmptyDisk \in Disk /\ EmptyDisk.present
      BY DEF EmptyDisk, Disk, GenesisFile
    <2>2. QED
      BY <1>1, <2>1
  <1>4. Made(kept, which) = [kept EXCEPT !.dirs = dirs]
    <2>1. \A n : made(n) <=> \E i \in which : n = AddressOf(job.cfg, job.docker, i)
      BY DEF SourceDir
    <2>2. dirs = [n \in Dirs |->
                   IF \E i \in which : n = AddressOf(job.cfg, job.docker, i)
                   THEN [EmptyDir EXCEPT !.keys = [run |-> runs + 1, addr |-> n]]
                   ELSE kept.dirs[n]]
      BY DEF SourceDir
    <2>3. QED
      BY <1>3, <2>2 DEF Made, Disk
  <1>5. \A n \in Dirs : fresh(n) \in Dir /\ fresh(n).keys = MadeKeys(n)'
    BY <1>2 DEF EmptyDir, Dir, KeyFiles, GenesisFile, MadeKeys
  <1>6. dirs \in [Dirs -> Dir \cup {None}]
    BY <1>3, <1>5 DEF Disk
  <1>7. NewGenesis \in GenesisFile
    BY <1>1, <1>2 DEF NewGenesis, GenesisFile, Genesis, Job
  <1>8. /\ disk' \in Disk /\ disk'.present /\ disk'.dirs = dirs
        /\ disk'.yaml = kept.yaml /\ disk'.ini = kept.ini /\ disk'.compose = kept.compose
    <2> HIDE DEF dirs
    <2>1. CASE disk' = Made(kept, which)
      BY <1>3, <1>4, <1>6, <2>1 DEF Disk
    <2>2. CASE disk' = [Made(kept, which) EXCEPT !.genesis = NewGenesis]
      BY <1>3, <1>4, <1>6, <1>7, <2>2 DEF Disk
    <2>3. QED
      BY <2>1, <2>2
  <1>9. NoFiles => NoFiles'
    BY <1>8 DEF NoFiles, EmptyDisk
  <1>10. ASSUME NEW n \in Dirs
         PROVE  IF made(n) THEN Holds(n, MadeKeys(n))' /\ KeysOf(n)' = MadeKeys(n)'
                ELSE (Has(n)' => Has(n)) /\ KeysOf(n)' \in {KeysOf(n), None}
    <2>1. CASE made(n)
      <3>1. disk'.dirs[n] = fresh(n) /\ fresh(n) # None /\ fresh(n).keys = MadeKeys(n)'
        BY <1>5, <1>8, <2>1, NoneIsAbsence
      <3>2. QED
        BY <2>1, <3>1 DEF Holds, Has, KeysOf
    <2>2. CASE ~made(n)
      <3>1. disk'.dirs[n] = kept.dirs[n]
        BY <1>8, <2>2
      <3>2. kept.dirs[n] = disk.dirs[n] \/ kept.dirs[n] = None
        BY DEF EmptyDisk
      <3>3. QED
        BY <2>2, <3>1, <3>2 DEF Has, KeysOf
    <2>3. QED
      BY <2>1, <2>2
  <1> HIDE DEF made
  <1>11. \A n \in Dirs : MadeKeys(n)'.run = runs + 1 /\ MadeKeys(n)'.addr = n
    BY DEF MadeKeys
  <1>12. KeysAreOld'
    <2> SUFFICES ASSUME NEW n \in Dirs, KeysOf(n)' # None
                 PROVE  KeysOf(n)'.run <= runs + 1
      BY DEF KeysAreOld
    <2>1. KeysOf(n) # None => KeysOf(n).run \in Nat /\ KeysOf(n).run <= runs
      BY KeysType DEF IInv, KeysAreOld
    <2>2. QED
      BY <1>1, <1>10, <1>11, <2>1
  <1>13. KeysAreUnique'
    <2> SUFFICES ASSUME NEW m \in Dirs, NEW n \in Dirs,
                        KeysOf(m)' # None, KeysOf(m)' = KeysOf(n)'
                 PROVE  m = n
      BY DEF KeysAreUnique
    <2>1. \A k \in Dirs : KeysOf(k) # None => KeysOf(k).run # runs + 1
      BY <1>1 DEF IInv, KeysAreOld
    <2>2. CASE made(m) \/ made(n)
      BY <1>10, <1>11, <2>1, <2>2
    <2>3. CASE ~made(m) /\ ~made(n)
      BY <1>10, <2>3 DEF IInv, KeysAreUnique
    <2>4. QED
      BY <2>2, <2>3
  <1>14. \A n \in Dirs : made(n) <=> \E i \in which : n = SourceDir(i)
    BY DEF made
  <1>15. QED
    BY <1>2, <1>8, <1>9, <1>10, <1>12, <1>13, <1>14

LEMMA XtaskKeeps ==
    ASSUME IInv, Xtask
    PROVE  IInv'
  <1>1. PICK kept \in KeptByXtask :
          disk' = [Made(kept, MadeByXtask) EXCEPT !.genesis = NewGenesis]
    BY DEF Xtask
  <1>2. /\ job.pc = "xtask" /\ runs' = runs + 1 /\ laid' = None /\ Goto("sweep")
        /\ torn' = torn
    BY DEF Xtask
  <1>3. kept \in {disk, EmptyDisk} /\ MadeByXtask \in SUBSET Validators
    BY DEF KeptByXtask, MadeByXtask
  <1>4. /\ disk' \in Disk /\ disk'.present /\ runs' \in 0 .. MaxRuns
        /\ KeysAreOld' /\ KeysAreUnique'
        /\ NoFiles => NoFiles'
        /\ \A n \in Dirs : IF \E i \in MadeByXtask : n = SourceDir(i)
                           THEN Holds(n, MadeKeys(n))'
                           ELSE Has(n)' => Has(n)
    BY <1>1, <1>2, <1>3, XtaskEffect
  <1>5. disk'.genesis = NewGenesis
    <2>1. disk \in Disk /\ EmptyDisk \in Disk
      BY DEF IInv, TypeOK, EmptyDisk, Disk, GenesisFile
    <2>2. kept \in Disk
      BY <1>3, <2>1
    <2>3. QED
      BY <1>1, <2>2 DEF Made, Disk
  <1>6. /\ SameJob /\ job'.pc = "sweep" /\ job'.i = 1 /\ job'.result = job.result
        /\ job.renames = <<>> /\ job.op # "none" /\ job.op \notin {"supervisor", "compose"}
    BY <1>2, GotoEffect, JobTypes DEF IInv, Steps, At, JobAt
  <1>7. /\ job.cfg \in Configs /\ 1 \in Validators /\ Validators' = Validators
        /\ \A i : SourceDir(i)' = SourceDir(i) /\ MonikerOf(i)' = MonikerOf(i)
        /\ \A i \in Validators : 1 <= i /\ SourceDir(i) \in Dirs
    BY <1>6, JobTypes DEF IInv, SameJob, Validators, SourceDir, MonikerOf, AddressOf
  <1>8. TypeOK'
    BY <1>2, <1>4, <1>6 DEF IInv, TypeOK, SameJob
  <1>9. JobAt'
    BY <1>4, <1>6, <1>7 DEF IInv, JobAt, SameJob
  <1>10. Absent'
    BY <1>4, <1>6 DEF Absent
  <1>11. \A i \in Validators : Waiting(i)'
    BY <1>6, <1>7 DEF Waiting
  <1>12. Layout'
    <2>1. job'.op = "init" => NoFiles' /\ \A n \in Dirs : ~Has(n)
      BY <1>2, <1>4, <1>6 DEF IInv, Absent, SameJob
    <2>2. /\ disk'.genesis \in Genesis
          /\ disk'.genesis = [run |-> runs', cfg |-> job'.cfg, docker |-> job'.docker,
                              patched |-> FALSE]
      <3>1. runs + 1 \in 1 .. MaxRuns
        BY <1>2, DevnetConfigs DEF IInv, TypeOK, JobAt
      <3>2. NewGenesis \in Genesis
        BY <1>7, <3>1 DEF NewGenesis, Genesis, IInv, TypeOK, Job
      <3>3. QED
        BY <1>2, <1>5, <1>6, <3>2 DEF NewGenesis, SameJob
    <2>3. CASE IsTempo(job.cfg)
      <3>1. MadeByXtask = Validators
        BY <2>3 DEF MadeByXtask
      <3>2. RenamesAscend'
        BY <1>6 DEF RenamesAscend, SameJob
      <3>3. job'.op = "init" => OnlyOurs'
        BY <1>4, <1>7, <1>11, <2>1, <3>1 DEF OnlyOurs
      <3>4. ASSUME NEW i \in Validators
            PROVE  Good(i)'
        <4>1. Holds(SourceDir(i), MadeKeys(SourceDir(i)))'
          <5>1. \A n \in Dirs : (\E k \in Validators : n = SourceDir(k)) =>
                  disk'.dirs[n] # None /\ disk'.dirs[n].keys = [run |-> runs', addr |-> n]
            BY <1>4, <3>1 DEF Holds, Has, MadeKeys
          <5>2. SourceDir(i) \in Dirs
            BY <1>7
          <5>3. QED
            BY <1>7, <5>1, <5>2 DEF Holds, Has, MadeKeys
        <4>2. QED
          BY <1>11, <4>1 DEF Good, Made1
      <3>5. AllGood'
        BY <1>7, <3>4 DEF AllGood
      <3>6. QED
        BY <1>2, <1>6, <2>1, <2>2, <2>3, <3>2, <3>3, <3>5
           DEF Layout, TempoLayout, SameJob
    <2>4. CASE ~IsTempo(job.cfg)
      <3>1. MadeByXtask = {}
        BY <2>4 DEF MadeByXtask
      <3>2. job'.op = "init" => \A n \in Dirs : ~Has(n)'
        BY <1>4, <2>1, <3>1
      <3>3. \A i \in Validators' : ~(job'.pc = "rename" \/ i < job'.i)
        BY <1>6, <1>7, JobTypes DEF IInv
      <3>4. AllegroLayout'
        BY <1>6, <3>2, <3>3 DEF AllegroLayout, SameJob
      <3>5. QED
        BY <1>2, <1>6, <2>1, <2>2, <2>4, <3>4 DEF Layout, SameJob
    <2>5. QED
      BY <2>3, <2>4
  <1>13. LaidKeys'
    BY <1>2 DEF LaidKeys
  <1>14. /\ InitLaid' /\ Patched' /\ Copies' /\ Programs' /\ IniWritten' /\ Composes'
         /\ ForcedInitRecovers'
    BY <1>6 DEF InitLaid, Patched, Copies, Programs, IniWritten, Composes,
       Through, Past, Ended, AfterDockerRun, AfterIni, AfterPrograms, AfterCopy,
       AfterPatch, AfterYaml, AfterRename, ForcedInitRecovers, Over
  <1>15. IniInv'
    <2>1. Entries \subseteq {"init", "compose"} => disk'.ini = None
      BY <1>2, <1>4, <1>6 DEF IInv, JobAt, Absent, NoFiles
    <2>2. QED
      BY <1>6, <2>1, NoneIsAbsence DEF IniInv, IniMeansReady, AfterRename
  <1>16. QED
    BY <1>4, <1>8, <1>9, <1>10, <1>12, <1>13, <1>14, <1>15 DEF IInv

LEMMA XtaskFailsKeeps ==
    ASSUME IInv, XtaskFails
    PROVE  IInv'
  <1>1. PICK kept \in KeptByXtask, which \in SUBSET MadeByXtask :
          disk' \in {Made(kept, which),
                     [Made(kept, which) EXCEPT !.genesis = NewGenesis]}
    BY DEF XtaskFails
  <1>2. /\ job.pc = "xtask" /\ runs' = runs + 1 /\ laid' = None /\ End("error")
        /\ torn' = torn
    BY DEF XtaskFails
  <1>3. kept \in {disk, EmptyDisk} /\ which \in SUBSET Validators
    BY <1>1 DEF KeptByXtask, MadeByXtask
  <1>4. /\ disk' \in Disk /\ disk'.present /\ runs' \in 0 .. MaxRuns
        /\ KeysAreOld' /\ KeysAreUnique'
        /\ NoFiles => NoFiles'
    BY <1>1, <1>2, <1>3, XtaskEffect
  <1>5. /\ job' \in Job /\ job'.pc = "idle" /\ job'.result = "error"
        /\ job'.op = job.op /\ job'.cfg = job.cfg /\ job'.force = job.force
        /\ job'.docker = job.docker
    BY <1>2, EndEffect DEF IInv
  <1>6. TypeOK'
    BY <1>2, <1>4, <1>5 DEF IInv, TypeOK
  <1>7. JobAt'
    BY <1>4, <1>5 DEF IInv, JobAt
  <1>8. Absent' /\ LaidKeys'
    BY <1>2, <1>4, <1>5 DEF Absent, LaidKeys
  <1>9. /\ Layout' /\ InitLaid' /\ Patched' /\ Copies' /\ Programs' /\ IniWritten'
        /\ Composes' /\ ForcedInitRecovers'
    BY <1>5 DEF Layout, LayingOut, InitLaid, Patched, Copies, Programs, IniWritten,
       Composes, Through, Past, Ended, AfterDockerRun, AfterIni, AfterPrograms,
       AfterCopy, AfterPatch, AfterYaml, AfterRename, ForcedInitRecovers, Over
  <1>10. IniInv'
    <2>1. Entries \subseteq {"init", "compose"} => disk'.ini = None
      BY <1>2, <1>4 DEF IInv, JobAt, Absent, NoFiles
    <2>2. QED
      BY <1>5, <2>1, NoneIsAbsence DEF IniInv, IniMeansReady, AfterRename
  <1>11. QED
    BY <1>4, <1>6, <1>7, <1>8, <1>9, <1>10 DEF IInv

-----------------------------------------------------------------------------
(* The layout: a step of its loops *)

LEMMA LayingOutKeeps ==
    ASSUME IInv, LayingOut, job' \in Job, job'.op = job.op, job'.cfg = job.cfg,
           job'.force = job.force, job'.docker = job.docker,
           job'.pc \in {"sweep", "rename"}, job'.i \in Validators,
           job'.renames \in Seq(Validators), job'.result = job.result,
           disk' \in Disk, disk'.present = disk.present, disk'.genesis = disk.genesis,
           disk'.yaml = disk.yaml, disk'.ini = disk.ini, disk'.compose = disk.compose,
           KeysAreOld', KeysAreUnique', UNCHANGED <<runs, laid, torn>>,
           IF IsTempo(job.cfg) THEN TempoLayout' ELSE AllegroLayout'
    PROVE  IInv'
  <1>1. /\ job.op # "none" /\ disk.present /\ job.op \notin {"supervisor", "compose"}
        /\ laid = None /\ Validators' = Validators
        /\ job.op = "init" => NoFiles
    BY DEF IInv, JobAt, LayingOut, Layout, Validators
  <1>2. TypeOK'
    BY DEF IInv, TypeOK
  <1>3. JobAt'
    BY <1>1 DEF IInv, JobAt, LayingOut
  <1>4. Absent' /\ LaidKeys'
    BY <1>1 DEF Absent, LaidKeys
  <1>5. Layout'
    BY <1>1 DEF IInv, Layout, LayingOut, NoFiles
  <1>6. /\ InitLaid' /\ Patched' /\ Copies' /\ Programs' /\ IniWritten' /\ Composes'
        /\ ForcedInitRecovers'
    BY DEF InitLaid, Patched, Copies, Programs, IniWritten, Composes,
       Through, Past, Ended, AfterDockerRun, AfterIni, AfterPrograms, AfterCopy,
       AfterPatch, AfterYaml, AfterRename, ForcedInitRecovers, Over
  <1>7. IniInv'
    <2>1. Entries \subseteq {"init", "compose"} => disk'.ini = None
      BY <1>1 DEF IInv, JobAt, NoFiles
    <2>2. QED
      BY <2>1, NoneIsAbsence DEF IniInv, IniMeansReady, AfterRename
  <1>8. QED
    BY <1>2, <1>3, <1>4, <1>5, <1>6, <1>7 DEF IInv

LEMMA KeysGo ==
    ASSUME KeysAreOld, KeysAreUnique, runs' = runs,
           \A n \in Dirs : KeysOf(n)' \in {KeysOf(n), None}
    PROVE  KeysAreOld' /\ KeysAreUnique'
  BY DEF KeysAreOld, KeysAreUnique

LEMMA SweepAllegroKeeps ==
    ASSUME IInv, Sweep, ~IsTempo(job.cfg)
    PROVE  IInv'
  <1>1. /\ job.pc = "sweep" /\ UNCHANGED <<runs, laid, torn>>
        /\ disk' = [disk EXCEPT !.dirs[MonikerOf(job.i)] = IF @ = None THEN EmptyDir ELSE @]
        /\ Iterate(Len(job.cfg.validators), "rename")
    BY DEF Sweep, SweepAllegro
  <1>2. /\ job.cfg \in Configs /\ job.i \in Validators /\ 1 \in Validators
        /\ Validators = 1 .. Len(job.cfg.validators) /\ Len(job.cfg.validators) \in Nat
        /\ \A i \in Validators : MonikerOf(i) \in Dirs
        /\ job.renames \in Seq(Validators) /\ disk \in Disk
    BY <1>1, JobTypes DEF IInv, JobAt, TypeOK
  <1>3. /\ SameJob
        /\ \/ job.i < Len(job.cfg.validators) /\ job'.i = job.i + 1 /\ job'.pc = "sweep"
           \/ job.i = Len(job.cfg.validators) /\ job'.pc = "rename" /\ job'.i = 1
        /\ job'.result = job.result
    BY <1>1, IterateEffect DEF IInv, Steps, At
  <1>4. job'.i \in Validators
    BY <1>2, <1>3
  <1> DEFINE dst == MonikerOf(job.i)
  <1>5. EmptyDir \in Dir /\ EmptyDir.keys = None
    BY DEF EmptyDir, Dir, GenesisFile
  <1>6. /\ disk' \in Disk /\ disk'.present = disk.present /\ disk'.genesis = disk.genesis
        /\ disk'.yaml = disk.yaml /\ disk'.ini = disk.ini /\ disk'.compose = disk.compose
        /\ \A n \in Dirs : disk'.dirs[n] =
             IF n = dst /\ disk.dirs[n] = None THEN EmptyDir ELSE disk.dirs[n]
    <2> HIDE DEF dst
    <2>1. disk' = [disk EXCEPT !.dirs[dst] = IF @ = None THEN EmptyDir ELSE @]
      BY <1>1 DEF dst
    <2>2. dst \in Dirs
      BY <1>2 DEF dst
    <2>3. QED
      BY <1>2, <1>5, <2>1, <2>2 DEF Disk
  <1> HIDE DEF dst
  <1>7. \A n \in Dirs : /\ KeysOf(n)' = KeysOf(n)
                        /\ Has(n)' <=> Has(n) \/ n = dst
    BY <1>5, <1>6, NoneIsAbsence DEF KeysOf, Has
  <1>8. KeysAreOld' /\ KeysAreUnique'
    BY <1>1, <1>7, KeysGo DEF IInv
  <1>9. AllegroLayout'
    <2>1. AllegroLayout
      BY <1>1 DEF IInv, Layout, LayingOut
    <2>2. Validators' = Validators /\ \A i : MonikerOf(i)' = MonikerOf(i)
      BY <1>3 DEF SameJob, Validators, MonikerOf
    <2>3. ASSUME NEW i \in Validators, job'.pc = "rename" \/ i < job'.i
          PROVE  Has(MonikerOf(i))'
      <3>1. i < job.i \/ i = job.i
        BY <1>2, <1>3, <2>3
      <3>2. Has(MonikerOf(i)) \/ MonikerOf(i) = dst
        BY <2>1, <3>1 DEF AllegroLayout, dst
      <3>3. disk'.dirs[MonikerOf(i)] # None
        <4>1. \A n \in Dirs : Has(n) \/ n = dst => disk'.dirs[n] # None
          BY <1>7 DEF Has
        <4>2. QED
          BY <1>2, <3>2, <4>1
      <3>4. QED
        BY <2>2, <3>3 DEF Has
    <2>4. job.op = "init" =>
            \A n \in Dirs : Has(n)' => \E i \in Validators : n = MonikerOf(i)
      BY <1>2, <1>7, <2>1 DEF AllegroLayout, dst
    <2>5. QED
      BY <1>3, <2>1, <2>2, <2>3, <2>4 DEF AllegroLayout, SameJob
  <1>10. QED
    BY <1>1, <1>2, <1>3, <1>4, <1>6, <1>8, <1>9, LayingOutKeeps DEF SameJob, LayingOut

\* What the parts of the layout say of the next state, the job being the same.
LEMMA LayoutFrame ==
    ASSUME job'.cfg = job.cfg, job'.docker = job.docker, job'.op = job.op, runs' = runs
    PROVE  /\ Validators' = Validators
           /\ \A k : MonikerOf(k)' = MonikerOf(k) /\ SourceDir(k)' = SourceDir(k)
           /\ \A k : Lost(k)' <=> ~Waiting(k)' /\ disk'.dirs[MonikerOf(k)] = None
           /\ \A k : Bare(k)' <=> Waiting(k)' /\ disk'.dirs[SourceDir(k)] = None
           /\ \A k : Taken(k)' <=>
                /\ ~Waiting(k)'
                /\ \E m \in Validators :
                     m # k /\ Waiting(m)' /\ SourceDir(m) = MonikerOf(k)
           /\ \A k : Good(k)' <=>
                /\ Waiting(k)' => /\ disk'.dirs[SourceDir(k)] # None
                                  /\ disk'.dirs[SourceDir(k)].keys = Made1(k)
                /\ ~Waiting(k)' => /\ disk'.dirs[MonikerOf(k)] # None
                                   /\ disk'.dirs[MonikerOf(k)].keys = Made1(k)
           /\ OnlyOurs' <=> \A n \in Dirs : disk'.dirs[n] # None =>
                \E k \in Validators : \/ n = MonikerOf(k) /\ ~Waiting(k)'
                                      \/ n = SourceDir(k) /\ Waiting(k)'
           /\ AllGood' <=> \A k \in Validators : Good(k)'
           /\ Doomed' <=> \E k \in Validators : Lost(k)' \/ Taken(k)' \/ Bare(k)'
  <1>1. /\ Validators' = Validators
        /\ \A k : MonikerOf(k)' = MonikerOf(k) /\ SourceDir(k)' = SourceDir(k)
    BY DEF Validators, MonikerOf, SourceDir, AddressOf
  <1>2. \A k : Made1(k)' = Made1(k)
    BY <1>1 DEF Made1, MadeKeys
  <1>3. /\ \A k : Lost(k)' <=> ~Waiting(k)' /\ disk'.dirs[MonikerOf(k)] = None
        /\ \A k : Bare(k)' <=> Waiting(k)' /\ disk'.dirs[SourceDir(k)] = None
    BY <1>1 DEF Lost, Bare, Has
  <1>4. \A k : Taken(k)' <=>
          /\ ~Waiting(k)'
          /\ \E m \in Validators : m # k /\ Waiting(m)' /\ SourceDir(m) = MonikerOf(k)
    BY <1>1 DEF Taken
  <1>5. \A k : Good(k)' <=>
          /\ Waiting(k)' => /\ disk'.dirs[SourceDir(k)] # None
                            /\ disk'.dirs[SourceDir(k)].keys = Made1(k)
          /\ ~Waiting(k)' => /\ disk'.dirs[MonikerOf(k)] # None
                             /\ disk'.dirs[MonikerOf(k)].keys = Made1(k)
    BY <1>1, <1>2 DEF Good, Holds, Has
  <1>6. OnlyOurs' <=> \A n \in Dirs : disk'.dirs[n] # None =>
          \E k \in Validators : \/ n = MonikerOf(k) /\ ~Waiting(k)'
                                \/ n = SourceDir(k) /\ Waiting(k)'
    BY <1>1 DEF OnlyOurs, Has
  <1>7. (AllGood' <=> \A k \in Validators : Good(k)')
        /\ (Doomed' <=> \E k \in Validators : Lost(k)' \/ Taken(k)' \/ Bare(k)')
    BY <1>1 DEF AllGood, Doomed
  <1>8. QED
    BY <1>1, <1>3, <1>4, <1>5, <1>6, <1>7

LEMMA TempoLayoutFrame ==
    ASSUME job'.cfg = job.cfg, job'.docker = job.docker, job'.op = job.op,
           RenamesAscend', job.op = "init" => OnlyOurs',
           Distinct(job.cfg) =>
             /\ job.op = "init" \/ ~Shadows(job.cfg, job.docker) => AllGood' \/ Doomed'
             /\ (/\ ~Shadows(job.cfg, job.docker)
                 /\ job'.pc = "sweep" \/ ~Shares(job.cfg, job.docker)) => AllGood'
    PROVE  TempoLayout'
  <1>1. \A c, d : /\ Distinct(c)' <=> Distinct(c)
                  /\ Shares(c, d)' <=> Shares(c, d)
                  /\ Shadows(c, d)' <=> Shadows(c, d)
    BY DEF Distinct, AllOf, Name, Shares, Shadows, AddressOf
  <1>2. QED
    BY <1>1 DEF TempoLayout

LEMMA DistinctNames ==
    ASSUME TypeOK, JobAt, job.op # "none"
    PROVE  /\ Distinct(job.cfg) =>
                \A i, k \in Validators : i # k => MonikerOf(i) # MonikerOf(k)
           /\ IsTempo(job.cfg) /\ ~Shadows(job.cfg, job.docker) =>
                \A i, k \in Validators : i # k => MonikerOf(k) # SourceDir(i)
           /\ IsTempo(job.cfg) /\ ~Shares(job.cfg, job.docker) =>
                \A i, k \in Validators : i # k => SourceDir(i) # SourceDir(k)
  BY DEF Distinct, AllOf, Name, Validators, MonikerOf, SourceDir, Shadows, Shares

LEMMA SweepTempoKeeps ==
    ASSUME IInv, Sweep, IsTempo(job.cfg)
    PROVE  IInv'
  <1> DEFINE i == job.i
             src == SourceDir(i)
             dst == MonikerOf(i)
             moves == src # dst /\ disk.dirs[src] # None
             renames == IF moves THEN Append(job.renames, i) ELSE job.renames
  <1>1. /\ job.pc = "sweep" /\ runs' = runs /\ laid' = laid /\ torn' = torn
        /\ disk' = IF moves THEN [disk EXCEPT !.dirs[dst] = None] ELSE disk
        /\ job' = IF i < Len(job.cfg.validators)
                  THEN [job EXCEPT !.i = @ + 1, !.renames = renames]
                  ELSE [job EXCEPT !.pc = "rename", !.i = 1, !.renames = renames]
    BY DEF Sweep, SweepTempo
  <1>2. /\ job.op # "none" /\ job.i \in Validators /\ job.renames \in Seq(Validators)
        /\ disk \in Disk /\ job \in Job
    BY <1>1 DEF IInv, JobAt, TypeOK
  <1>3. /\ job.cfg \in Configs /\ 1 \in Validators
        /\ Validators = 1 .. Len(job.cfg.validators) /\ Len(job.cfg.validators) \in Nat
        /\ Validators \subseteq DOMAIN DockerAddrs
        /\ \A k \in Validators : MonikerOf(k) \in Dirs /\ SourceDir(k) \in Dirs
    BY <1>2, JobTypes DEF IInv
  <1>4. renames \in Seq(Validators) /\ renames \in Seq(DOMAIN DockerAddrs)
    <2> DEFINE V == Validators
    <2>1. job.renames \in Seq(V) /\ i \in V /\ V \subseteq DOMAIN DockerAddrs
      BY <1>2, <1>3
    <2> HIDE DEF V
    <2>2. Append(job.renames, i) \in Seq(V)
      BY <2>1
    <2>3. Append(job.renames, i) \in Seq(DOMAIN DockerAddrs)
      BY <2>1, <2>2
    <2>4. QED
      BY <1>2, <2>1, <2>2, <2>3 DEF V, Job
  <1>5. \/ renames = Append(job.renames, i) /\ moves
        \/ renames = job.renames /\ ~moves
    OBVIOUS
  <1> HIDE DEF renames
  <1>6. /\ job' \in Job /\ job'.op = job.op /\ job'.cfg = job.cfg
        /\ job'.force = job.force /\ job'.docker = job.docker
        /\ job'.renames = renames /\ job'.result = job.result
        /\ \/ i < Len(job.cfg.validators) /\ job'.i = i + 1 /\ job'.pc = "sweep"
           \/ i = Len(job.cfg.validators) /\ job'.i = 1 /\ job'.pc = "rename"
    <2>1. CASE i < Len(job.cfg.validators)
      <3>1. i + 1 \in DOMAIN DockerAddrs
        BY <1>2, <1>3, <2>1
      <3>2. job' = [job EXCEPT !.i = i + 1, !.renames = renames]
        BY <1>1, <2>1
      <3>3. QED
        BY <1>1, <1>2, <1>4, <2>1, <3>1, <3>2 DEF Job
    <2>2. CASE ~(i < Len(job.cfg.validators))
      <3>1. i = Len(job.cfg.validators) /\ 1 \in DOMAIN DockerAddrs
        BY <1>2, <1>3, <2>2
      <3>2. job' = [job EXCEPT !.pc = "rename", !.i = 1, !.renames = renames]
        BY <1>1, <2>2
      <3>3. QED
        BY <1>1, <1>2, <1>4, <3>1, <3>2 DEF Job, Steps
    <2>3. QED
      BY <2>1, <2>2
  <1>7. job'.i \in Validators
    BY <1>2, <1>3, <1>6
  <1>8. /\ disk' \in Disk /\ disk'.present = disk.present /\ disk'.genesis = disk.genesis
        /\ disk'.yaml = disk.yaml /\ disk'.ini = disk.ini /\ disk'.compose = disk.compose
        /\ \A n \in Dirs : disk'.dirs[n] = IF moves /\ n = dst THEN None ELSE disk.dirs[n]
    BY <1>1, <1>2, <1>3 DEF Disk
  <1>9. KeysAreOld' /\ KeysAreUnique'
    BY <1>1, <1>8, KeysGo DEF IInv, KeysOf, Has
  <1>10. TempoLayout /\ RenamesAscend
    BY <1>1 DEF IInv, Layout, LayingOut, TempoLayout
  <1>11. \A k \in Validators : Waiting(k)' <=> Waiting(k) /\ (k = i => moves)
    <2> SUFFICES ASSUME NEW k \in Validators
                 PROVE  Waiting(k)' <=> Waiting(k) /\ (k = i => moves)
      OBVIOUS
    <2>1. Waiting(k)' <=> \/ job'.pc = "sweep" /\ job'.i <= k
                          \/ \E a \in DOMAIN renames : renames[a] = k
      BY <1>6 DEF Waiting
    <2>2. Waiting(k) <=> i <= k \/ \E a \in DOMAIN job.renames : job.renames[a] = k
      BY <1>1 DEF Waiting
    <2>3. \A a \in DOMAIN job.renames : job.renames[a] < i
      BY <1>1, <1>10 DEF RenamesAscend
    <2>4. (job'.pc = "sweep" /\ job'.i <= k) <=> i < k
      BY <1>2, <1>3, <1>6
    <2>5. (\E a \in DOMAIN renames : renames[a] = k) <=>
            (\/ \E a \in DOMAIN job.renames : job.renames[a] = k
             \/ moves /\ k = i)
      <3> HIDE DEF moves
      <3>1. ASSUME renames = Append(job.renames, i)
            PROVE  (\E a \in DOMAIN renames : renames[a] = k) <=>
                   (\E a \in DOMAIN job.renames : job.renames[a] = k) \/ k = i
        <4>1. /\ DOMAIN job.renames = 1 .. Len(job.renames) /\ Len(job.renames) \in Nat
              /\ DOMAIN renames = 1 .. Len(job.renames) + 1
              /\ renames[Len(job.renames) + 1] = i
              /\ \A a \in 1 .. Len(job.renames) : renames[a] = job.renames[a]
          BY <1>2, <3>1
        <4>2. Len(job.renames) + 1 \in DOMAIN renames
          BY <4>1
        <4>3. \A a \in DOMAIN renames : a \in DOMAIN job.renames \/ renames[a] = i
          BY <4>1
        <4>4. \A a \in DOMAIN job.renames :
                a \in DOMAIN renames /\ renames[a] = job.renames[a]
          BY <4>1
        <4>5. QED
          BY <4>1, <4>2, <4>3, <4>4
      <3>2. QED
        BY <1>5, <3>1
    <2>6. QED
      BY <1>2, <1>3, <2>1, <2>2, <2>3, <2>4, <2>5
  <1>12. RenamesAscend'
    <2>1. /\ DOMAIN job.renames = 1 .. Len(job.renames) /\ Len(job.renames) \in Nat
          /\ \A a \in DOMAIN job.renames : job.renames[a] \in Validators
      BY <1>2
    <2>2. /\ \A a \in DOMAIN job.renames :
               /\ SourceDir(job.renames[a]) # MonikerOf(job.renames[a])
               /\ job.renames[a] < i
          /\ \A a, b \in DOMAIN job.renames : a < b => job.renames[a] < job.renames[b]
      BY <1>1, <1>10 DEF RenamesAscend
    <2>3. /\ \A a \in DOMAIN renames :
               /\ SourceDir(renames[a]) # MonikerOf(renames[a])
               /\ renames[a] <= i
          /\ \A a, b \in DOMAIN renames : a < b => renames[a] < renames[b]
      <3>1. CASE renames = job.renames
        <4>1. \A k \in Validators : k < i => k <= i
          BY <1>2, <1>3
        <4>2. QED
          BY <2>1, <2>2, <3>1, <4>1
      <3>2. CASE renames = Append(job.renames, i) /\ moves
        <4>1. /\ DOMAIN renames = 1 .. Len(job.renames) + 1
              /\ renames[Len(job.renames) + 1] = i
              /\ \A a \in 1 .. Len(job.renames) : renames[a] = job.renames[a]
          BY <1>2, <2>1, <3>2
        <4>2. \A a \in DOMAIN renames :
                \/ a \in DOMAIN job.renames /\ renames[a] = job.renames[a]
                \/ a = Len(job.renames) + 1 /\ renames[a] = i
          BY <2>1, <4>1
        <4>3. SourceDir(i) # MonikerOf(i)
          BY <3>2
        <4>4. \A a \in DOMAIN renames :
                SourceDir(renames[a]) # MonikerOf(renames[a]) /\ renames[a] <= i
          BY <1>2, <1>3, <2>1, <2>2, <4>2, <4>3
        <4>5. ASSUME NEW a \in DOMAIN renames, NEW b \in DOMAIN renames, a < b
              PROVE  renames[a] < renames[b]
          <5>1. a \in DOMAIN job.renames /\ renames[a] = job.renames[a]
            BY <2>1, <4>1, <4>2, <4>5
          <5>2. QED
            BY <2>2, <4>2, <4>5, <5>1
        <4>6. QED
          BY <4>4, <4>5
      <3>3. QED
        BY <1>5, <3>1, <3>2
    <2>4. job'.pc = "sweep" => job'.i = i + 1
      BY <1>6
    <2>5. \A a \in DOMAIN renames : renames[a] \in Validators
      BY <1>4
    <2>6. \A a \in DOMAIN renames : job'.pc = "sweep" => renames[a] < job'.i
      BY <1>2, <1>3, <2>3, <2>4, <2>5
    <2>7. \A k : SourceDir(k)' = SourceDir(k) /\ MonikerOf(k)' = MonikerOf(k)
      BY <1>1, <1>6, LayoutFrame
    <2>8. QED
      BY <1>6, <2>3, <2>6, <2>7 DEF RenamesAscend
  <1>13. /\ Distinct(job.cfg) =>
              \A k, m \in Validators : k # m => MonikerOf(k) # MonikerOf(m)
         /\ ~Shadows(job.cfg, job.docker) =>
              \A k, m \in Validators : k # m => MonikerOf(m) # SourceDir(k)
    BY <1>2, DistinctNames DEF IInv
  <1>14. Waiting(i)
    BY <1>1, <1>2, <1>3 DEF Waiting
  <1>15. job.op = "init" => OnlyOurs'
    <2> SUFFICES ASSUME job.op = "init", NEW n \in Dirs, disk'.dirs[n] # None
                 PROVE  \E k \in Validators : \/ n = MonikerOf(k) /\ ~Waiting(k)'
                                              \/ n = SourceDir(k) /\ Waiting(k)'
      BY <1>1, <1>6, LayoutFrame
    <2>1. disk.dirs[n] # None /\ ~(moves /\ n = dst)
      BY <1>8
    <2>2. PICK k \in Validators :
              \/ n = MonikerOf(k) /\ ~Waiting(k)
              \/ n = SourceDir(k) /\ Waiting(k)
      BY <1>10, <2>1 DEF TempoLayout, OnlyOurs, Has
    <2>3. QED
      BY <1>2, <1>11, <2>1, <2>2
  <1>16. ASSUME Distinct(job.cfg), job.op = "init" \/ ~Shadows(job.cfg, job.docker)
         PROVE  AllGood' \/ Doomed'
    <2>1. (job.op = "init" => OnlyOurs) /\ (~Shadows(job.cfg, job.docker) => AllGood)
      BY <1>1, <1>10, <1>16 DEF TempoLayout
    <2>2. CASE AllGood
      <3>1. SUFFICES ASSUME NEW k \in Validators, ~Good(k)'
                     PROVE  Lost(k)' \/ Taken(k)' \/ Bare(k)'
        BY <1>1, <1>6, LayoutFrame
      <3>2. Good(k)
        BY <2>2 DEF AllGood
      <3>3. QED
        BY <1>1, <1>2, <1>3, <1>6, <1>8, <1>11, <1>13, <1>14, <1>16, <3>1, <3>2,
           LayoutFrame DEF Good, Holds, Has
    <2>3. CASE ~AllGood
      <3>1. OnlyOurs /\ Doomed
        BY <1>10, <1>16, <2>1, <2>3 DEF TempoLayout
      <3>2. PICK j \in Validators : Lost(j) \/ Taken(j) \/ Bare(j)
        BY <3>1 DEF Doomed
      <3>3. SUFFICES Lost(j)' \/ Taken(j)' \/ Bare(j)'
        BY <1>1, <1>6, LayoutFrame
      <3>4. CASE Lost(j)
        BY <1>1, <1>3, <1>6, <1>8, <1>11, <3>4, LayoutFrame DEF Lost, Has
      <3>5. CASE Taken(j)
        <4>1. PICK k \in Validators :
                k # j /\ Waiting(k) /\ SourceDir(k) = MonikerOf(j)
          BY <3>5 DEF Taken
        <4>2. ~Waiting(j)
          BY <3>5 DEF Taken
        <4>3. ~Waiting(j)'
          BY <1>11, <4>2
        <4>4. CASE Waiting(k)'
          BY <1>1, <1>6, <4>1, <4>3, <4>4, LayoutFrame
        <4>5. CASE ~Waiting(k)'
          <5>1. k = i /\ ~moves
            BY <1>11, <4>1, <4>5
          <5>2. src # dst
            BY <1>13, <1>16, <4>1, <5>1
          <5>3. disk'.dirs[MonikerOf(j)] = None
            BY <1>3, <1>8, <4>1, <5>1, <5>2
          <5>4. QED
            BY <1>1, <1>6, <4>3, <5>3, LayoutFrame
        <4>6. QED
          BY <4>4, <4>5
      <3>6. CASE Bare(j)
        <4>1. Waiting(j) /\ disk.dirs[SourceDir(j)] = None
          BY <3>6 DEF Bare, Has
        <4>2. CASE Waiting(j)'
          BY <1>1, <1>3, <1>6, <1>8, <4>1, <4>2, LayoutFrame
        <4>3. CASE ~Waiting(j)'
          <5>1. j = i /\ ~moves
            BY <1>11, <4>1, <4>3
          <5>2. CASE disk.dirs[dst] = None
            BY <1>1, <1>2, <1>3, <1>6, <1>8, <4>3, <5>1, <5>2, LayoutFrame
          <5>3. CASE disk.dirs[dst] # None
            <6>1. src # dst /\ dst \in Dirs
              BY <1>2, <1>3, <4>1, <5>1, <5>3
            <6>2. PICK m \in Validators :
              \/ dst = MonikerOf(m) /\ ~Waiting(m)
              \/ dst = SourceDir(m) /\ Waiting(m)
              BY <3>1, <5>3, <6>1 DEF OnlyOurs, Has
            <6>3. m # i /\ dst = SourceDir(m) /\ Waiting(m)
              BY <1>2, <1>13, <1>14, <1>16, <6>1, <6>2
            <6>4. Waiting(m)'
              BY <1>11, <6>3
            <6>5. QED
              BY <1>1, <1>6, <4>3, <5>1, <6>3, <6>4, LayoutFrame
          <5>4. QED
            BY <5>2, <5>3
        <4>4. QED
          BY <4>2, <4>3
      <3>7. QED
        BY <3>2, <3>4, <3>5, <3>6
    <2>4. QED
      BY <2>2, <2>3
  <1>17. ASSUME Distinct(job.cfg), ~Shadows(job.cfg, job.docker)
         PROVE  AllGood'
    <2>1. AllGood
      BY <1>1, <1>10, <1>17 DEF TempoLayout
    <2>2. SUFFICES ASSUME NEW k \in Validators
                   PROVE  Good(k)'
      BY <1>1, <1>6, LayoutFrame
    <2>3. Good(k) /\ Good(i)
      BY <1>2, <2>1 DEF AllGood
    <2>4. CASE k = i
      BY <1>1, <1>2, <1>3, <1>6, <1>8, <1>11, <1>14, <2>3, <2>4, LayoutFrame
         DEF Good, Holds, Has
    <2>5. CASE k # i
      BY <1>1, <1>2, <1>3, <1>6, <1>8, <1>11, <1>13, <1>17, <2>3, <2>5, LayoutFrame
         DEF Good, Holds, Has
    <2>6. QED
      BY <2>4, <2>5
  <1>18. TempoLayout'
    BY <1>6, <1>12, <1>15, <1>16, <1>17, TempoLayoutFrame
  <1>19. QED
    BY <1>1, <1>4, <1>6, <1>7, <1>8, <1>9, <1>18, LayingOutKeeps DEF LayingOut

\* A directory moves to its own name, where nothing is.
LEMMA RenameKeeps ==
    ASSUME IInv, Rename
    PROVE  IInv'
  <1> DEFINE r == Head(job.renames)
             src == SourceDir(r)
             dst == MonikerOf(r)
  <1>1. /\ job.pc = "rename" /\ job.renames # <<>>
        /\ disk.dirs[src] # None /\ disk.dirs[dst] = None
        /\ disk' = [disk EXCEPT !.dirs[dst] = disk.dirs[src], !.dirs[src] = None]
        /\ job' = [job EXCEPT !.renames = Tail(@)]
        /\ runs' = runs /\ laid' = laid /\ torn' = torn
    BY DEF Rename
  <1>2. /\ job.op # "none" /\ job.i \in Validators /\ job.renames \in Seq(Validators)
        /\ disk \in Disk /\ job \in Job
    BY <1>1 DEF IInv, JobAt, TypeOK
  <1>3. /\ Validators = 1 .. Len(job.cfg.validators) /\ Len(job.cfg.validators) \in Nat
        /\ \A k \in Validators : MonikerOf(k) \in Dirs /\ SourceDir(k) \in Dirs
    BY <1>2, JobTypes DEF IInv
  <1>4. /\ Len(job.renames) \in Nat \ {0} /\ DOMAIN job.renames = 1 .. Len(job.renames)
        /\ r = job.renames[1] /\ r \in Validators
        /\ Tail(job.renames) \in Seq(Validators)
        /\ DOMAIN Tail(job.renames) = 1 .. Len(job.renames) - 1
        /\ \A a \in 1 .. Len(job.renames) - 1 :
             Tail(job.renames)[a] = job.renames[a + 1]
    BY <1>1, <1>2
  <1>5. /\ job' \in Job /\ job'.op = job.op /\ job'.cfg = job.cfg
        /\ job'.force = job.force /\ job'.docker = job.docker /\ job'.pc = job.pc
        /\ job'.renames = Tail(job.renames) /\ job'.result = job.result /\ job'.i = job.i
    <2>1. Tail(job.renames) \in Seq(DOMAIN DockerAddrs)
      BY <1>1, <1>2 DEF Job
    <2>2. QED
      BY <1>1, <1>2, <2>1 DEF Job
  <1>6. IsTempo(job.cfg) /\ TempoLayout /\ RenamesAscend
    BY <1>1 DEF IInv, Layout, LayingOut, AllegroLayout, TempoLayout
  <1>7. /\ src # dst
        /\ \A a \in DOMAIN job.renames :
             SourceDir(job.renames[a]) # MonikerOf(job.renames[a])
        /\ \A a, b \in DOMAIN job.renames : a < b => job.renames[a] < job.renames[b]
    BY <1>4, <1>6 DEF RenamesAscend
  <1> HIDE DEF r
  <1>8. /\ disk' \in Disk /\ disk'.present = disk.present /\ disk'.genesis = disk.genesis
        /\ disk'.yaml = disk.yaml /\ disk'.ini = disk.ini /\ disk'.compose = disk.compose
        /\ \A n \in Dirs : disk'.dirs[n] =
             IF n = src THEN None ELSE IF n = dst THEN disk.dirs[src] ELSE disk.dirs[n]
    BY <1>1, <1>2, <1>3, <1>4, <1>7 DEF Disk
  <1>9. KeysAreOld' /\ KeysAreUnique'
    <2>1. \A n \in Dirs : KeysOf(n)' =
            IF n = src THEN None ELSE IF n = dst THEN KeysOf(src) ELSE KeysOf(n)
      BY <1>1, <1>8 DEF KeysOf, Has
    <2>2. src \in Dirs /\ dst \in Dirs
      BY <1>3, <1>4
    <2>3. KeysAreOld'
      BY <1>1, <2>1, <2>2 DEF IInv, KeysAreOld
    <2>4. KeysAreUnique'
      BY <1>1, <2>1, <2>2 DEF IInv, KeysAreUnique
    <2>5. QED
      BY <2>3, <2>4
  <1>10. \A k \in Validators : Waiting(k)' <=> Waiting(k) /\ k # r
    <2> SUFFICES ASSUME NEW k \in Validators
                 PROVE  Waiting(k)' <=> Waiting(k) /\ k # r
      OBVIOUS
    <2>1. Waiting(k)' <=> \E a \in 1 .. Len(job.renames) - 1 : job.renames[a + 1] = k
      BY <1>1, <1>4, <1>5 DEF Waiting
    <2>2. Waiting(k) <=> \E a \in DOMAIN job.renames : job.renames[a] = k
      BY <1>1 DEF Waiting
    <2>3. ASSUME NEW a \in 1 .. Len(job.renames) - 1
          PROVE  a + 1 \in DOMAIN job.renames /\ job.renames[a + 1] # r
      <3>1. 1 \in DOMAIN job.renames /\ a + 1 \in DOMAIN job.renames /\ 1 < a + 1
        BY <1>4
      <3>2. job.renames[1] < job.renames[a + 1]
        BY <1>7, <3>1
      <3>3. job.renames[1] \in Nat
        BY <1>3, <1>4
      <3>4. QED
        BY <1>4, <3>1, <3>2, <3>3
    <2>4. ASSUME NEW a \in DOMAIN job.renames, job.renames[a] # r
          PROVE  \E b \in 1 .. Len(job.renames) - 1 : job.renames[b + 1] = job.renames[a]
      <3>1. a \in Nat /\ a # 1 /\ a <= Len(job.renames)
        BY <1>4, <2>4
      <3>2. a - 1 \in 1 .. Len(job.renames) - 1 /\ (a - 1) + 1 = a
        BY <1>4, <3>1, <2>4
      <3>3. QED
        BY <3>2
    <2>5. QED
      BY <2>1, <2>2, <2>3, <2>4
  <1>11. RenamesAscend'
    <2>1. \A k : SourceDir(k)' = SourceDir(k) /\ MonikerOf(k)' = MonikerOf(k)
      BY <1>1, <1>5, LayoutFrame
    <2>2. \A a \in 1 .. Len(job.renames) - 1 :
            /\ a + 1 \in DOMAIN job.renames
            /\ Tail(job.renames)[a] = job.renames[a + 1]
      BY <1>4
    <2>3. \A a, b \in 1 .. Len(job.renames) - 1 : a < b => a + 1 < b + 1
      BY <1>4
    <2>4. QED
      BY <1>1, <1>4, <1>5, <1>7, <2>1, <2>2, <2>3 DEF RenamesAscend
  <1>12. /\ Distinct(job.cfg) =>
              \A k, m \in Validators : k # m => MonikerOf(k) # MonikerOf(m)
         /\ ~Shadows(job.cfg, job.docker) =>
              \A k, m \in Validators : k # m => MonikerOf(m) # SourceDir(k)
         /\ ~Shares(job.cfg, job.docker) =>
              \A k, m \in Validators : k # m => SourceDir(k) # SourceDir(m)
    BY <1>2, <1>6, DistinctNames DEF IInv
  <1>13. Waiting(r)
    BY <1>4 DEF Waiting
  <1>14. job.op = "init" => OnlyOurs'
    <2> SUFFICES ASSUME job.op = "init", NEW n \in Dirs, disk'.dirs[n] # None
                 PROVE  \E k \in Validators :
                          \/ n = MonikerOf(k) /\ ~Waiting(k)'
                          \/ n = SourceDir(k) /\ Waiting(k)'
      BY <1>1, <1>5, LayoutFrame
    <2>1. n # src /\ (n = dst \/ disk.dirs[n] # None)
      BY <1>8
    <2>2. CASE n = dst
      BY <1>4, <1>10, <2>2
    <2>3. CASE disk.dirs[n] # None
      <3>1. PICK k \in Validators :
              \/ n = MonikerOf(k) /\ ~Waiting(k)
              \/ n = SourceDir(k) /\ Waiting(k)
        BY <1>6, <2>3 DEF TempoLayout, OnlyOurs, Has
      <3>2. QED
        BY <1>10, <2>1, <3>1
    <2>4. QED
      BY <2>1, <2>2, <2>3
  <1>15. ASSUME Distinct(job.cfg), AllGood, NEW k \in Validators, ~Good(k)'
         PROVE  /\ k # r /\ (Lost(k)' \/ Bare(k)')
                /\ MonikerOf(k) = SourceDir(r) \/ SourceDir(k) = SourceDir(r)
    <2>1. Good(k) /\ Good(r)
      BY <1>4, <1>15 DEF AllGood
    <2>2. k # r
      <3>1. SUFFICES ASSUME k = r
                     PROVE  Good(k)'
        BY <1>15
      <3>2. disk.dirs[SourceDir(k)] # None /\ disk.dirs[SourceDir(k)].keys = Made1(k)
        BY <1>13, <2>1, <3>1 DEF Good, Holds, Has
      <3>3. disk'.dirs[MonikerOf(k)] = disk.dirs[SourceDir(k)] /\ ~Waiting(k)'
        BY <1>3, <1>7, <1>8, <1>10, <3>1
      <3>4. QED
        BY <1>1, <1>5, <3>2, <3>3, LayoutFrame
    <2>3. CASE Waiting(k)
      <3>1. disk.dirs[SourceDir(k)] # None /\ disk.dirs[SourceDir(k)].keys = Made1(k)
        BY <2>1, <2>3 DEF Good, Holds, Has
      <3>2. SourceDir(k) = src
        <4>1. SUFFICES ASSUME SourceDir(k) # src
                       PROVE  Good(k)'
          BY <1>15
        <4>2. SourceDir(k) # dst /\ SourceDir(k) \in Dirs
          BY <1>1, <1>3, <3>1
        <4>3. disk'.dirs[SourceDir(k)] = disk.dirs[SourceDir(k)] /\ Waiting(k)'
          BY <1>8, <1>10, <2>2, <2>3, <4>1, <4>2
        <4>4. QED
          BY <1>1, <1>5, <3>1, <4>3, LayoutFrame
      <3>3. QED
        BY <1>1, <1>3, <1>5, <1>8, <1>10, <2>2, <2>3, <3>2, LayoutFrame
    <2>4. CASE ~Waiting(k)
      <3>1. disk.dirs[MonikerOf(k)] # None /\ disk.dirs[MonikerOf(k)].keys = Made1(k)
        BY <2>1, <2>4 DEF Good, Holds, Has
      <3>2. MonikerOf(k) # dst
        BY <1>4, <1>12, <1>15, <2>2
      <3>3. MonikerOf(k) = src
        BY <1>1, <1>3, <1>5, <1>8, <1>10, <1>15, <2>4, <3>1, <3>2, LayoutFrame
      <3>4. QED
        BY <1>1, <1>3, <1>5, <1>8, <1>10, <2>2, <2>4, <3>3, LayoutFrame
    <2>5. QED
      BY <2>3, <2>4
  <1>16. ASSUME Distinct(job.cfg), job.op = "init" \/ ~Shadows(job.cfg, job.docker)
         PROVE  AllGood' \/ Doomed'
    <2>1. CASE AllGood
      BY <1>1, <1>5, <1>15, <1>16, <2>1, LayoutFrame
    <2>2. CASE ~AllGood
      <3>1. PICK j \in Validators : Lost(j) \/ Taken(j) \/ Bare(j)
        BY <1>6, <1>16, <2>2 DEF TempoLayout, Doomed
      <3>2. SUFFICES \E k \in Validators : Lost(k)' \/ Taken(k)' \/ Bare(k)'
        BY <1>1, <1>5, LayoutFrame
      <3>3. CASE Lost(j)
        <4>1. ~Waiting(j) /\ disk.dirs[MonikerOf(j)] = None /\ j # r
          BY <1>13, <3>3 DEF Lost, Has
        <4>2. MonikerOf(j) # dst
          BY <1>4, <1>12, <1>16, <4>1
        <4>3. QED
          BY <1>1, <1>3, <1>5, <1>8, <1>10, <4>1, <4>2, LayoutFrame
      <3>4. CASE Taken(j)
        <4>1. PICK k \in Validators :
                k # j /\ Waiting(k) /\ SourceDir(k) = MonikerOf(j)
          BY <3>4 DEF Taken
        <4>2. ~Waiting(j)'
          BY <1>10, <3>4 DEF Taken
        <4>3. CASE k = r
          BY <1>1, <1>3, <1>5, <1>8, <4>1, <4>2, <4>3, LayoutFrame
        <4>4. CASE k # r
          BY <1>1, <1>5, <1>10, <4>1, <4>2, <4>4, LayoutFrame
        <4>5. QED
          BY <4>3, <4>4
      <3>5. CASE Bare(j)
        <4>1. Waiting(j) /\ disk.dirs[SourceDir(j)] = None /\ j # r
          BY <1>1, <3>5 DEF Bare, Has
        <4>2. CASE SourceDir(j) # dst
          BY <1>1, <1>3, <1>5, <1>8, <1>10, <4>1, <4>2, LayoutFrame
        <4>3. CASE SourceDir(j) = dst
          BY <1>1, <1>4, <1>5, <1>10, <4>1, <4>3, LayoutFrame
        <4>4. QED
          BY <4>2, <4>3
      <3>6. QED
        BY <3>1, <3>3, <3>4, <3>5
    <2>3. QED
      BY <2>1, <2>2
  <1>17. ASSUME Distinct(job.cfg), ~Shadows(job.cfg, job.docker),
                ~Shares(job.cfg, job.docker)
         PROVE  AllGood'
    <2>1. AllGood
      BY <1>6, <1>17 DEF TempoLayout
    <2>2. QED
      BY <1>1, <1>4, <1>5, <1>12, <1>15, <1>17, <2>1, LayoutFrame
  <1>18. TempoLayout'
    BY <1>1, <1>5, <1>11, <1>14, <1>16, <1>17, TempoLayoutFrame
  <1>19. QED
    BY <1>1, <1>2, <1>4, <1>5, <1>6, <1>8, <1>9, <1>18, LayingOutKeeps DEF LayingOut

-----------------------------------------------------------------------------
(* The layout is done *)

LEMMA AfterSteps ==
    /\ After("rename") = IF job.op = "init" THEN "yaml" ELSE "idle"
    /\ After("yaml") = "patch" /\ After("patch") = "copy"
    /\ After("copy") = IF disk.ini # None /\ ~job.force THEN "idle" ELSE "programs"
    /\ After("programs") = "ini"
    /\ After("ini") = IF job.docker THEN "dockerRun" ELSE "idle"
    /\ After("dockerRun") = "compose" /\ After("compose") = "idle"
    /\ \A step \in AfterRename \cup {"rename"} : After(step) \in Steps \cup {"idle"}
  BY DEF After, Steps, AfterRename

\* With nobody waiting, all directories are where they should be or one is missing.
LEMMA LaidOut ==
    ASSUME IInv, job.pc = "rename", job.renames = <<>>
    PROVE  /\ Distinct(job.cfg) /\ (job.op = "init" \/ ~Shadows(job.cfg, job.docker))
                => Missing(job.cfg) \/ AllKeys(job.cfg)
           /\ ~Shadows(job.cfg, job.docker) /\ ~Shares(job.cfg, job.docker)
                => ~Missing(job.cfg)
           /\ job.op = "init" =>
                \A n \in Dirs : Has(n) => \E i \in Validators : n = MonikerOf(i)
           /\ disk.genesis \in Genesis /\ disk.genesis.run = runs
           /\ disk.genesis.docker = job.docker /\ disk.genesis.patched = FALSE
  <1>1. /\ job.op # "none" /\ Validators = AllOf(job.cfg)
        /\ \A i \in Validators : /\ MonikerOf(i) = Name(job.cfg, i)
                                 /\ SourceDir(i) = AddressOf(job.cfg, job.docker, i)
    BY JobTypes DEF IInv, JobAt
  <1>2. /\ disk.genesis \in Genesis
        /\ disk.genesis = [run |-> runs, cfg |-> job.cfg, docker |-> job.docker,
                           patched |-> FALSE]
        /\ IF IsTempo(job.cfg) THEN TempoLayout ELSE AllegroLayout
    BY DEF IInv, Layout, LayingOut
  <1>3. \A i : ~Waiting(i)
    BY DEF Waiting
  <1>4. CASE IsTempo(job.cfg)
    <2>1. AllGood => AllKeys(job.cfg) /\ ~Missing(job.cfg)
      <3> SUFFICES ASSUME AllGood, NEW i \in Validators
                   PROVE  Holds(Name(job.cfg, i), Own(job.cfg, i))
        BY <1>1 DEF AllKeys, Missing, Holds
      <3>1. Holds(MonikerOf(i), Made1(i))
        BY <1>3 DEF AllGood, Good
      <3>2. Made1(i) = Own(job.cfg, i)
        BY <1>1, <1>2 DEF Made1, MadeKeys, Own
      <3>3. QED
        BY <1>1, <3>1, <3>2
    <2>2. Doomed => Missing(job.cfg)
      BY <1>1, <1>3 DEF Doomed, Lost, Taken, Bare, Missing
    <2>3. ~Shares(job.cfg, job.docker) => Distinct(job.cfg)
      BY DEF Shares, Distinct, AllOf, Name
    <2>4. QED
      BY <1>2, <1>3, <1>4, <2>1, <2>2, <2>3 DEF TempoLayout, OnlyOurs
  <1>5. CASE ~IsTempo(job.cfg)
    BY <1>1, <1>2, <1>5 DEF AllegroLayout, AllKeys, Missing
  <1>6. QED
    BY <1>4, <1>5

LEMMA RenamedKeeps ==
    ASSUME IInv, Renamed
    PROVE  IInv'
  <1>1. /\ job.pc = "rename" /\ job.renames = <<>> /\ laid' = job.cfg
        /\ disk' = disk /\ runs' = runs /\ torn' = torn
        /\ Goto(IF job.op = "init" THEN "yaml" ELSE "idle")
    BY AfterSteps DEF Renamed
  <1>2. /\ job.op # "none" /\ job.op \notin {"supervisor", "compose"}
        /\ job.cfg \in Configs /\ disk.present /\ 1 \in Validators
        /\ 1 \in DOMAIN DockerAddrs
    BY <1>1, JobTypes DEF IInv, JobAt
  <1>3. /\ SameJob
        /\ IF job.op = "init" THEN At("yaml") ELSE EndsOk
    BY <1>1, <1>2, GotoEffect DEF IInv, Steps
  <1>4. TypeOK'
    BY <1>1, <1>2, <1>3 DEF IInv, TypeOK, SameJob
  <1>5. JobAt'
    BY <1>1, <1>2, <1>3 DEF IInv, JobAt, SameJob, At, EndsOk, Validators
  <1>6. Absent'
    BY <1>1, <1>2, <1>3 DEF Absent, At, EndsOk
  <1>7. SameKeys
    BY <1>1, DirsStay DEF SameDirs
  <1>8. KeysAreOld' /\ KeysAreUnique'
    BY <1>1, <1>7, KeysStay DEF IInv
  <1>9. Layout'
    BY <1>3 DEF Layout, LayingOut, At, EndsOk
  <1>10. \A c \in Configs : /\ Missing(c) => Missing(c)'
                            /\ ~Missing(c) => ~Missing(c)'
                            /\ AllKeys(c) => AllKeys(c)'
    BY <1>1, <1>7, MissingStays, AllKeysStay
  <1>11. LaidKeys'
    <2>1. (Distinct(job.cfg) /\ ~Shadows(job.cfg, job.docker))
            => Missing(job.cfg) \/ AllKeys(job.cfg)
      BY <1>1, LaidOut
    <2>2. disk.genesis.docker = job.docker
      BY <1>1, LaidOut
    <2>3. \A c, d : (Distinct(c)' <=> Distinct(c)) /\ (Shadows(c, d)' <=> Shadows(c, d))
      BY DEF Distinct, AllOf, Name, Shadows, AddressOf
    <2>4. QED
      BY <1>1, <1>2, <1>10, <2>1, <2>2, <2>3 DEF LaidKeys
  <1>12. InitLaid'
    <2> SUFFICES ASSUME job.op = "init"
                 PROVE  InitLaid'
      BY <1>3 DEF InitLaid, SameJob
    <2>1. /\ job'.pc = "yaml" /\ ~Past(AfterPatch)' /\ ~Past(AfterYaml)'
      BY <1>3 DEF At, Past, Ended, AfterYaml, AfterPatch, AfterRename
    <2>2. Validators' = Validators /\ \A i : MonikerOf(i)' = MonikerOf(i)
      BY <1>3 DEF SameJob, Validators, MonikerOf
    <2>3. /\ \A c, d : /\ Distinct(c)' <=> Distinct(c)
                       /\ Shadows(c, d)' <=> Shadows(c, d)
                       /\ Shares(c, d)' <=> Shares(c, d)
      BY DEF Distinct, AllOf, Name, Shadows, Shares, AddressOf
    <2>4. \A n \in Dirs : Has(n)' <=> Has(n)
      BY <1>7 DEF SameKeys
    <2>5. QED
      BY <1>1, <1>2, <1>3, <1>10, <2>1, <2>2, <2>3, <2>4, LaidOut DEF InitLaid, SameJob
  <1>13. /\ Patched' /\ Copies' /\ Programs' /\ IniWritten' /\ Composes'
         /\ ForcedInitRecovers'
    BY <1>1, <1>2, <1>3 DEF SameJob, At, EndsOk, IInv, JobAt, Patched, Copies, Programs,
       IniWritten, Composes, Through, Past, Ended, AfterDockerRun, AfterIni,
       AfterPrograms, AfterCopy, AfterPatch, AfterYaml, AfterRename,
       ForcedInitRecovers, Over
  <1>14. IniInv'
    <2>1. Entries \subseteq {"init", "compose"} => disk'.ini = None
      BY <1>1, <1>2 DEF IInv, JobAt, Layout, LayingOut, NoFiles
    <2>2. QED
      BY <1>3, <2>1, NoneIsAbsence DEF IniInv, IniMeansReady
  <1>15. QED
    BY <1>4, <1>5, <1>6, <1>8, <1>9, <1>11, <1>12, <1>13, <1>14 DEF IInv

-----------------------------------------------------------------------------
(* The files of a layout *)

\* A step of the supervisor configuration or of docker-compose.yaml: it goes on
\* with a loop or to what comes after it, and moves no directory.
StageStep ==
    /\ job.pc \in AfterRename
    /\ SameJob /\ job'.i \in Validators
    /\ \/ job'.pc = job.pc /\ job'.result = job.result
       \/ /\ job'.pc = After(job.pc)
          /\ job'.result = IF job'.pc = "idle" THEN "ok" ELSE job.result
          /\ job'.pc = "idle" \/ job'.i = 1
    /\ disk' \in Disk /\ disk'.present = disk.present
    /\ SameKeys /\ SameGenesis
    /\ UNCHANGED <<runs, laid, torn>>

LEMMA StageKeeps ==
    ASSUME IInv, StageStep
    PROVE  /\ TypeOK' /\ JobAt' /\ Absent' /\ KeysAreOld' /\ KeysAreUnique'
           /\ Layout' /\ LaidKeys' /\ ForcedInitRecovers'
  <1>1. TypeOK'
    BY DEF IInv, TypeOK, StageStep, SameJob
  <1>2. job.op # "none" /\ disk.present /\ Validators' = Validators
    BY DEF IInv, JobAt, StageStep, AfterRename, SameJob, Validators
  <1>3. job'.pc # "xtask" /\ job'.pc # "clear" /\ job'.pc \notin {"sweep", "rename"}
    BY AfterSteps DEF StageStep, AfterRename, AfterYaml, AfterPatch, AfterCopy,
       AfterPrograms, AfterIni
  <1>4. JobAt'
    BY <1>2, <1>3, AfterSteps DEF IInv, JobAt, StageStep, AfterRename, SameJob
  <1>5. Absent' /\ Layout'
    BY <1>2, <1>3 DEF Absent, Layout, LayingOut, StageStep
  <1>6. KeysAreOld' /\ KeysAreUnique' /\ LaidKeys'
    BY KeysStay, LaidKeysStay DEF IInv, StageStep
  <1>7. ForcedInitRecovers'
    <2>1. job'.pc = "idle" => job'.result = "ok"
      BY DEF StageStep, AfterRename
    <2>2. QED
      BY <2>1 DEF ForcedInitRecovers, Over
  <1>8. QED
    BY <1>1, <1>4, <1>5, <1>6, <1>7

\* How far the job is, after a step.
LEMMA StagePast ==
    ASSUME IInv, StageStep
    PROVE  /\ Past(AfterRename)' => Past(AfterRename)
           /\ Past(AfterYaml)' => Past(AfterYaml) \/ (job.op = "init" /\ job.pc = "yaml")
           /\ Past(AfterPatch)' <=>
                \/ Past(AfterPatch) /\ (job'.pc # "idle" \/ Ended')
                \/ job.op \in {"init", "supervisor"} /\ job.pc = "patch" /\ job'.pc # job.pc
           /\ Past(AfterCopy)' =>
                \/ Past(AfterCopy)
                \/ job.op \in {"init", "supervisor"} /\ job.pc = "copy" /\ job'.pc # job.pc
           /\ Past(AfterPrograms)' =>
                \/ Past(AfterPrograms)
                \/ job.op \in {"init", "supervisor"} /\ job.pc = "programs" /\ job'.pc # job.pc
           /\ Past(AfterIni)' =>
                \/ Past(AfterIni)
                \/ job.op \in {"init", "supervisor"} /\ job.pc = "ini" /\ job'.pc # job.pc
           /\ Past(AfterDockerRun)' /\ job.docker =>
                \/ Past(AfterDockerRun)
                \/ job.op \in {"init", "supervisor"} /\ job.pc = "dockerRun" /\ job'.pc # job.pc
           /\ Ended' => \/ job.pc = "ini" /\ ~job.docker
                        \/ job.pc = "compose"
           /\ job.op = "init" /\ job'.pc = "idle" => Ended'
  <1>1. /\ job'.op = job.op /\ job'.force = job.force /\ job'.docker = job.docker
        /\ job.pc \in AfterRename
        /\ job.op = "init" => job.force
        /\ job.op = "supervisor" => job.pc \in {"patch", "copy", "programs", "ini"}
    BY DEF StageStep, SameJob, IInv, JobAt, AfterRename
  <1>2. \/ job'.pc = job.pc
        \/ job.pc = "yaml" /\ job'.pc = "patch"
        \/ job.pc = "patch" /\ job'.pc = "copy"
        \/ job.pc = "copy" /\ job'.pc = "programs"
        \/ job.pc = "copy" /\ job'.pc = "idle" /\ ~job.force
        \/ job.pc = "programs" /\ job'.pc = "ini"
        \/ job.pc = "ini" /\ job'.pc = "dockerRun" /\ job.docker
        \/ job.pc = "ini" /\ job'.pc = "idle" /\ ~job.docker
        \/ job.pc = "dockerRun" /\ job'.pc = "compose"
        \/ job.pc = "compose" /\ job'.pc = "idle"
    <2>1. job'.pc = job.pc \/ job'.pc = After(job.pc)
      BY DEF StageStep
    <2>2. CASE job'.pc = After(job.pc)
      BY <1>1, <2>2, AfterSteps DEF AfterRename
    <2>3. QED
      BY <2>1, <2>2
  <1>3. job'.pc = "idle" => job'.result = "ok"
    BY <1>1 DEF StageStep, AfterRename
  <1>4. Ended' <=> job'.pc = "idle" /\ job.force
    BY <1>1, <1>3 DEF Ended
  <1>5. ~Ended
    BY <1>1 DEF Ended, AfterRename
  <1>6. \A steps : /\ Past(steps)' <=> /\ job.op \in {"init", "supervisor"}
                                       /\ job'.pc \in steps \/ Ended'
                   /\ Past(steps) <=> job.op \in {"init", "supervisor"} /\ job.pc \in steps
    BY <1>1, <1>5 DEF Past
  <1>7. /\ Past(AfterRename)' => Past(AfterRename)
        /\ Past(AfterYaml)' => Past(AfterYaml) \/ (job.op = "init" /\ job.pc = "yaml")
        /\ Past(AfterPatch)' <=>
             \/ Past(AfterPatch) /\ (job'.pc # "idle" \/ Ended')
             \/ job.op \in {"init", "supervisor"} /\ job.pc = "patch" /\ job'.pc # job.pc
    BY <1>1, <1>2, <1>4, <1>6 DEF AfterPatch, AfterYaml, AfterRename
  <1>8. /\ Past(AfterCopy)' =>
             \/ Past(AfterCopy)
             \/ job.op \in {"init", "supervisor"} /\ job.pc = "copy" /\ job'.pc # job.pc
        /\ Past(AfterPrograms)' =>
             \/ Past(AfterPrograms)
             \/ job.op \in {"init", "supervisor"} /\ job.pc = "programs" /\ job'.pc # job.pc
    BY <1>1, <1>2, <1>4, <1>6
       DEF AfterPrograms, AfterCopy, AfterPatch, AfterYaml, AfterRename
  <1>9. /\ Past(AfterIni)' =>
             \/ Past(AfterIni)
             \/ job.op \in {"init", "supervisor"} /\ job.pc = "ini" /\ job'.pc # job.pc
        /\ Past(AfterDockerRun)' /\ job.docker =>
             \/ Past(AfterDockerRun)
             \/ job.op \in {"init", "supervisor"} /\ job.pc = "dockerRun" /\ job'.pc # job.pc
    BY <1>1, <1>2, <1>4, <1>6 DEF AfterDockerRun, AfterIni, AfterPrograms, AfterCopy,
       AfterPatch, AfterYaml, AfterRename
  <1>10. /\ Ended' => \/ job.pc = "ini" /\ ~job.docker
                      \/ job.pc = "compose"
         /\ job.op = "init" /\ job'.pc = "idle" => Ended'
    BY <1>1, <1>2, <1>4 DEF AfterRename
  <1>11. QED
    BY <1>7, <1>8, <1>9, <1>10

SameCopies ==
    \A n \in Dirs : Has(n) => disk'.dirs[n].genesis = disk.dirs[n].genesis

SameScripts ==
    \A n \in Dirs : Has(n) => /\ disk'.dirs[n].run = disk.dirs[n].run
                              /\ disk'.dirs[n].secret = disk.dirs[n].secret

SameDockerRuns ==
    \A n \in Dirs : Has(n) => disk'.dirs[n].dockerRun = disk.dirs[n].dockerRun

LEMMA PeersAreKeys ==
    Peers = {KeysOf(MonikerOf(i)) : i \in Validators} \ {None}
  BY DEF Peers, KeysOf, Has

LEMMA StageFrame ==
    ASSUME IInv, StageStep
    PROVE  /\ job'.op = job.op /\ job'.cfg = job.cfg /\ job'.docker = job.docker
           /\ job'.force = job.force /\ job.op # "none" /\ job.cfg \in Configs
           /\ Validators' = Validators /\ Peers' = Peers
           /\ \A i : MonikerOf(i)' = MonikerOf(i)
           /\ \A i \in Validators : MonikerOf(i) \in Dirs
           /\ \A n \in Dirs : Has(n)' <=> Has(n)
  <1>1. /\ job'.op = job.op /\ job'.cfg = job.cfg /\ job'.docker = job.docker
        /\ job'.force = job.force /\ job.op # "none"
    BY DEF StageStep, SameJob, IInv, JobAt, AfterRename
  <1>2. /\ Validators' = Validators /\ \A i : MonikerOf(i)' = MonikerOf(i)
    BY <1>1 DEF Validators, MonikerOf
  <1>3. job.cfg \in Configs /\ \A i \in Validators : MonikerOf(i) \in Dirs
    BY <1>1, JobTypes DEF IInv
  <1>4. Peers' = Peers
    <2> DEFINE key(i) == disk.dirs[MonikerOf(i)]
               key2(i) == disk'.dirs[MonikerOf(i)]
    <2>1. \A i \in Validators :
            /\ key2(i) # None <=> key(i) # None
            /\ key(i) # None => key2(i).keys = key(i).keys
      <3>1. \A n \in Dirs : /\ disk'.dirs[n] # None <=> disk.dirs[n] # None
                            /\ disk.dirs[n] # None => disk'.dirs[n].keys = disk.dirs[n].keys
        BY DEF StageStep, SameKeys, KeysOf, Has
      <3>2. QED
        BY <1>3, <3>1
    <2>2. Peers = {key(i).keys : i \in
                    {k \in Validators : key(k) # None /\ key(k).keys # None}}
      BY DEF Peers
    <2>3. Peers' = {key2(i).keys : i \in
                     {k \in Validators : key2(k) # None /\ key2(k).keys # None}}
      BY <1>2 DEF Peers
    <2> HIDE DEF key, key2
    <2>4. QED
      BY <2>1, <2>2, <2>3
  <1>5. QED
    BY <1>1, <1>2, <1>3, <1>4 DEF StageStep, SameKeys

\* A step of another stage than a loop's gets past nobody in that loop.
LEMMA ThroughStays ==
    ASSUME IInv, StageStep, NEW i \in Validators
    PROVE  /\ job.pc # "copy" /\ Through("copy", AfterCopy, i)'
                => Through("copy", AfterCopy, i)
           /\ job.pc # "programs" /\ Through("programs", AfterPrograms, i)'
                => Through("programs", AfterPrograms, i)
           /\ job.pc # "dockerRun" /\ job.docker /\ Through("dockerRun", AfterDockerRun, i)'
                => Through("dockerRun", AfterDockerRun, i)
  <1>1. /\ job'.op = job.op
        /\ job'.pc # "idle" => job'.pc = job.pc \/ job'.i = 1
    BY DEF StageStep, SameJob
  <1>2. i \in Nat \ {0}
    BY StageFrame, JobTypes DEF IInv
  <1>3. ASSUME NEW step \in {"copy", "programs", "dockerRun"}, job.pc # step
        PROVE  ~(job'.pc = step /\ i < job'.i)
    BY <1>1, <1>2, <1>3
  <1>4. QED
    BY <1>1, <1>3, StagePast DEF Through

\* What a step keeps that writes none of the files concerned.
LEMMA StageStays ==
    ASSUME IInv, StageStep
    PROVE  /\ disk'.genesis = disk.genesis /\ job.pc # "patch" => Patched'
           /\ disk'.genesis = disk.genesis /\ SameCopies /\ job.pc # "copy" => Copies'
           /\ SameScripts /\ job.pc # "programs" => Programs'
           /\ disk'.ini = disk.ini /\ job.pc # "ini" => IniWritten'
           /\ SameDockerRuns /\ job.pc \notin {"dockerRun", "compose"} => Composes'
  <1>1. /\ job'.op = job.op /\ job'.cfg = job.cfg /\ job'.docker = job.docker
        /\ job.op # "none" /\ Validators' = Validators /\ Peers' = Peers
        /\ \A i : MonikerOf(i)' = MonikerOf(i)
        /\ \A i \in Validators : MonikerOf(i) \in Dirs
        /\ \A n \in Dirs : Has(n)' <=> Has(n)
    BY StageFrame
  <1>2. \A n \in Dirs : disk'.dirs[n] # None <=> disk.dirs[n] # None
    BY <1>1 DEF Has
  <1>3. ASSUME disk'.genesis = disk.genesis, job.pc # "patch"
        PROVE  Patched'
    BY <1>1, <1>3, StagePast DEF IInv, Patched
  <1>4. ASSUME disk'.genesis = disk.genesis, SameCopies, job.pc # "copy"
        PROVE  Copies'
    <2> SUFFICES ASSUME NEW i \in Validators, Through("copy", AfterCopy, i)'
                 PROVE  Copied(i)'
      BY <1>1 DEF Copies
    <2>1. Copied(i)
      BY <1>1, <1>4, ThroughStays DEF IInv, Copies
    <2>2. QED
      BY <1>1, <1>2, <1>4, <2>1 DEF Copied, Has, SameCopies
  <1>5. ASSUME SameScripts, job.pc # "programs"
        PROVE  Programs'
    <2> SUFFICES ASSUME NEW i \in Validators, Through("programs", AfterPrograms, i)'
                 PROVE  Scripted(i)' /\ \A k \in Validators : k < i => MonikerOf(k) # MonikerOf(i)
      BY <1>1 DEF Programs
    <2>1. Scripted(i) /\ \A k \in Validators : k < i => MonikerOf(k) # MonikerOf(i)
      BY <1>1, <1>5, ThroughStays DEF IInv, Programs
    <2>2. QED
      BY <1>1, <1>2, <1>5, <2>1 DEF Scripted, Has, SameScripts
  <1>6. ASSUME disk'.ini = disk.ini, job.pc # "ini"
        PROVE  IniWritten'
    BY <1>1, <1>6, StagePast DEF IInv, IniWritten
  <1>7. ASSUME SameDockerRuns, job.pc \notin {"dockerRun", "compose"}
        PROVE  Composes'
    <2>1. job.docker => ~Ended'
      BY <1>7, StagePast
    <2> SUFFICES ASSUME job.op = "init", job.docker, NEW i \in Validators,
                        Through("dockerRun", AfterDockerRun, i)'
                 PROVE  Composed(i)'
      BY <1>1, <2>1 DEF Composes
    <2>2. Composed(i)
      BY <1>1, <1>7, ThroughStays DEF IInv, Composes
    <2>3. KeysOf(MonikerOf(i))' = KeysOf(MonikerOf(i))
      BY <1>1, <1>2 DEF StageStep, SameKeys, KeysOf, Has
    <2>4. QED
      BY <1>1, <1>2, <1>7, <2>2, <2>3 DEF Composed, Has, KeysOf, SameDockerRuns
  <1>8. QED
    BY <1>3, <1>4, <1>5, <1>6, <1>7

LEMMA InitLaidStays ==
    ASSUME IInv, StageStep,
           (job.op = "init" /\ disk.genesis \in Genesis) =>
             /\ disk'.genesis \in Genesis
             /\ disk'.genesis.run = disk.genesis.run
             /\ disk'.genesis.docker = disk.genesis.docker
             /\ IF job.pc = "patch" THEN disk'.genesis.patched = job.cfg.patch
                ELSE disk'.genesis.patched = disk.genesis.patched,
           job.pc = "patch" => job'.pc # job.pc,
           disk'.yaml = IF job.pc = "yaml" THEN job.cfg ELSE disk.yaml
    PROVE  InitLaid'
  <1> SUFFICES ASSUME job.op = "init", Past(AfterRename)'
               PROVE  InitLaid'
    BY DEF InitLaid, StageStep, SameJob
  <1>1. /\ job'.op = job.op /\ job'.cfg = job.cfg /\ job'.docker = job.docker
        /\ job.cfg \in Configs
        /\ Validators' = Validators /\ \A i : MonikerOf(i)' = MonikerOf(i)
        /\ \A n \in Dirs : Has(n)' <=> Has(n)
    BY StageFrame
  <1>2. Past(AfterRename) /\ InitLaid
    BY StagePast DEF IInv
  <1>3. /\ disk.genesis \in Genesis
        /\ disk.genesis.docker = job.docker
        /\ disk.genesis.patched = (Past(AfterPatch) /\ job.cfg.patch)
        /\ \A n \in Dirs : Has(n) => \E i \in Validators : n = MonikerOf(i)
        /\ Distinct(job.cfg) => Missing(job.cfg) \/ AllKeys(job.cfg)
        /\ ~Shadows(job.cfg, job.docker) /\ ~Shares(job.cfg, job.docker)
             => ~Missing(job.cfg)
        /\ Past(AfterYaml) => disk.yaml = job.cfg
    BY <1>2 DEF InitLaid
  <1>4. disk'.genesis.patched = (Past(AfterPatch)' /\ job.cfg.patch)
    <2>1. CASE job.pc = "patch"
      <3>1. Past(AfterPatch)'
        BY <2>1, StagePast
      <3>2. job.cfg.patch \in BOOLEAN
        BY <1>1, ConfigTypes
      <3>3. QED
        BY <1>3, <2>1, <3>1, <3>2
    <2>2. CASE job.pc # "patch"
      <3>1. Past(AfterPatch)' <=> Past(AfterPatch)
        BY <2>2, StagePast
      <3>2. disk'.genesis.patched = disk.genesis.patched
        BY <1>3, <2>2
      <3>3. QED
        BY <1>3, <3>1, <3>2, Zenon
    <2>3. QED
      BY <2>1, <2>2
  <1>5. Past(AfterYaml)' => disk'.yaml = job.cfg
    BY <1>3, StagePast
  <1>6. (Missing(job.cfg)' <=> Missing(job.cfg)) /\ (AllKeys(job.cfg) => AllKeys(job.cfg)')
    <2>1. \A c \in Configs : /\ Missing(c)' <=> Missing(c)
                             /\ AllKeys(c) => AllKeys(c)'
      BY <1>3, MissingStays, AllKeysStay DEF StageStep
    <2>2. QED
      BY <1>1, <2>1
  <1>7. \A c, d : /\ Distinct(c)' <=> Distinct(c)
                  /\ Shadows(c, d)' <=> Shadows(c, d)
                  /\ Shares(c, d)' <=> Shares(c, d)
    BY DEF Distinct, AllOf, Name, Shadows, Shares, AddressOf
  <1>8. /\ disk'.genesis \in Genesis
        /\ disk'.genesis.docker = job.docker
    BY <1>3
  <1>9. \A n \in Dirs : Has(n)' => \E i \in Validators' : n = MonikerOf(i)'
    BY <1>1, <1>3
  <1>10. /\ Distinct(job.cfg)' => Missing(job.cfg)' \/ AllKeys(job.cfg)'
         /\ ~Shadows(job.cfg, job.docker)' /\ ~Shares(job.cfg, job.docker)'
              => ~Missing(job.cfg)'
    BY <1>1, <1>3, <1>6, <1>7
  <1>11. QED
    BY <1>1, <1>4, <1>5, <1>8, <1>9, <1>10 DEF InitLaid

-----------------------------------------------------------------------------
(* Ready to start *)

\* What a validator's directory has to hold, as Ready says it.
ReadyDir(cfg, i) ==
    /\ Has(Name(cfg, i))
    /\ disk.dirs[Name(cfg, i)].genesis = disk.genesis
    /\ disk.dirs[Name(cfg, i)].run # None
    /\ disk.dirs[Name(cfg, i)].run.index = i
    /\ IsTempo(cfg) =>
         /\ disk.dirs[Name(cfg, i)].keys = Own(cfg, i)
         /\ disk.dirs[Name(cfg, i)].run.peers = {Own(cfg, k) : k \in AllOf(cfg)}
         /\ disk.dirs[Name(cfg, i)].secret

LEMMA ReadyIsReadyDirs ==
    ASSUME NEW cfg
    PROVE  Ready(cfg) <=> /\ disk.genesis \in Genesis
                          /\ disk.genesis.patched = cfg.patch
                          /\ \A i \in AllOf(cfg) : ReadyDir(cfg, i)
  BY DEF Ready, ReadyDir, Name, AllOf, Own, Has

LEMMA ReadyStays ==
    ASSUME NEW cfg \in Configs, SameKeys, SameCopies, SameScripts,
           disk'.genesis = disk.genesis, Ready(cfg)
    PROVE  Ready(cfg)'
  <1>1. /\ disk.genesis \in Genesis
        /\ disk.genesis.patched = cfg.patch
        /\ \A i \in AllOf(cfg) : ReadyDir(cfg, i)
    BY ReadyIsReadyDirs
  <1>2. \A i : Own(cfg, i)' = Own(cfg, i)
    BY DEF Own
  <1>3. ASSUME NEW i \in AllOf(cfg)
        PROVE  ReadyDir(cfg, i)'
    <2>1. ReadyDir(cfg, i) /\ Name(cfg, i) \in Dirs
      BY <1>1, ConfigTypes
    <2>2. /\ Has(Name(cfg, i))'
          /\ disk'.dirs[Name(cfg, i)].keys = disk.dirs[Name(cfg, i)].keys
          /\ disk'.dirs[Name(cfg, i)].genesis = disk.dirs[Name(cfg, i)].genesis
          /\ disk'.dirs[Name(cfg, i)].run = disk.dirs[Name(cfg, i)].run
          /\ disk'.dirs[Name(cfg, i)].secret = disk.dirs[Name(cfg, i)].secret
      <3>1. \A n \in Dirs : Has(n) =>
              /\ Has(n)' /\ disk'.dirs[n].keys = disk.dirs[n].keys
              /\ disk'.dirs[n].genesis = disk.dirs[n].genesis
              /\ disk'.dirs[n].run = disk.dirs[n].run
              /\ disk'.dirs[n].secret = disk.dirs[n].secret
        BY DEF SameKeys, SameCopies, SameScripts, KeysOf, Has
      <3>2. Has(Name(cfg, i))
        BY <2>1 DEF ReadyDir
      <3>3. QED
        BY <2>1, <3>1, <3>2 DEF Has
    <2>3. QED
      BY <1>2, <2>1, <2>2 DEF ReadyDir
  <1>4. QED
    BY <1>1, <1>3, ReadyIsReadyDirs DEF Ready, ReadyDir, Name, AllOf, Own, Has

\* Copies of genesis.json, programs of distinct names and keys add up to Ready.
LEMMA ReadyNow ==
    ASSUME TypeOK, JobAt, job.op # "none",
           disk.genesis \in Genesis, disk.genesis.patched = job.cfg.patch,
           \A i \in Validators : Copied(i) /\ Scripted(i),
           AllKeys(job.cfg)
    PROVE  Ready(job.cfg)
  <1>1. /\ job.cfg \in Configs /\ Validators = AllOf(job.cfg)
        /\ \A i \in Validators : MonikerOf(i) = Name(job.cfg, i)
    BY JobTypes
  <1>2. disk.genesis # None
    BY NoneIsAbsence
  <1>3. \A i \in Validators : Own(job.cfg, i) # None
    <2> SUFFICES ASSUME NEW i \in Validators
                 PROVE  Own(job.cfg, i) \in KeyFiles
      BY NoneIsAbsence
    <2>1. AddressOf(job.cfg, disk.genesis.docker, i) \in Dirs
      BY <1>1, ConfigTypes
    <2>2. QED
      BY <2>1 DEF Own, KeyFiles, Genesis
  <1>4. IsTempo(job.cfg) => Peers = {Own(job.cfg, k) : k \in AllOf(job.cfg)}
    <2> SUFFICES ASSUME IsTempo(job.cfg)
                 PROVE  Peers = {Own(job.cfg, k) : k \in AllOf(job.cfg)}
      OBVIOUS
    <2>1. \A i \in Validators : KeysOf(MonikerOf(i)) = Own(job.cfg, i)
      BY <1>1 DEF AllKeys, Holds, KeysOf
    <2>2. QED
      BY <1>1, <1>3, <2>1, PeersAreKeys
  <1>5. ASSUME NEW i \in Validators
        PROVE  ReadyDir(job.cfg, i)
    <2>1. Copied(i) /\ Scripted(i) /\ MonikerOf(i) = Name(job.cfg, i)
      BY <1>1
    <2>2. IsTempo(job.cfg) => disk.dirs[Name(job.cfg, i)].keys = Own(job.cfg, i)
      BY <1>1 DEF AllKeys, Holds
    <2>3. QED
      BY <1>2, <1>4, <2>1, <2>2 DEF ReadyDir, Copied, Scripted
  <1>6. QED
    BY <1>1, <1>5, ReadyIsReadyDirs

LEMMA IniInvStays ==
    ASSUME IInv, StageStep, disk'.ini = disk.ini, job.pc # "ini",
           job.pc \in {"dockerRun", "compose"} =>
             disk'.genesis = disk.genesis /\ SameCopies /\ SameScripts
    PROVE  IniInv'
  <1> SUFFICES ASSUME Entries \subseteq {"init", "compose"}
               PROVE  /\ IniMeansReady'
                      /\ (job'.op = "init" /\ job'.pc \in AfterRename \ AfterIni)
                           => disk'.ini = None
    BY DEF IniInv
  <1>1. /\ job.op \in {"init", "compose"} /\ job'.op = job.op /\ job.pc \in AfterRename
        /\ job'.pc = job.pc \/ job'.pc = After(job.pc)
        /\ torn' = torn /\ SameKeys
    BY DEF IInv, JobAt, StageStep, SameJob, AfterRename
  <1>2. CASE job.pc \in {"dockerRun", "compose"}
    <2>1. job'.pc \in {"dockerRun", "compose", "idle"}
      BY <1>1, <1>2, AfterSteps
    <2>2. \A c \in Configs : Ready(c) => Ready(c)'
      BY <1>1, <1>2, ReadyStays
    <2>3. IniMeansReady'
      BY <1>1, <2>2 DEF IInv, IniInv, IniMeansReady
    <2>4. QED
      BY <2>1, <2>3 DEF AfterRename, AfterIni, AfterPrograms, AfterCopy, AfterPatch,
         AfterYaml
  <1>3. CASE job.pc \notin {"dockerRun", "compose"}
    <2>1. job.op = "init"
      BY <1>1, <1>3 DEF IInv, JobAt, AfterRename
    <2>2. disk.ini = None
      BY <1>1, <1>3, <2>1 DEF IInv, IniInv, AfterRename, AfterIni, AfterPrograms,
         AfterCopy, AfterPatch, AfterYaml
    <2>3. QED
      BY <2>2, NoneIsAbsence DEF IniMeansReady
  <1>4. QED
    BY <1>2, <1>3

LEMMA StageInv ==
    ASSUME IInv, StageStep, InitLaid', Patched', Copies', Programs', IniWritten',
           Composes', IniInv'
    PROVE  IInv'
  BY StageKeeps DEF IInv

\* Steps that write one file of the data directory.
LEMMA FileStage ==
    ASSUME IInv, job.pc \in AfterRename, Goto(After(job.pc)),
           disk' \in Disk, disk'.present = disk.present, SameDirs, SameGenesis,
           UNCHANGED <<runs, laid, torn>>
    PROVE  /\ StageStep /\ job'.pc = After(job.pc) /\ job'.pc # job.pc
           /\ SameCopies /\ SameScripts /\ SameDockerRuns
  <1>1. /\ job.op # "none" /\ 1 \in Validators /\ 1 \in DOMAIN DockerAddrs
        /\ job.i \in Validators
    BY JobTypes DEF IInv, JobAt, AfterRename
  <1>2. After(job.pc) \in Steps \cup {"idle"} /\ After(job.pc) # job.pc
    BY AfterSteps DEF AfterRename
  <1>3. SameJob /\ IF After(job.pc) = "idle" THEN EndsOk ELSE At(After(job.pc))
    BY <1>1, <1>2, GotoEffect DEF IInv
  <1>4. SameKeys
    BY DirsStay
  <1>5. QED
    BY <1>1, <1>2, <1>3, <1>4 DEF StageStep, At, EndsOk, SameCopies, SameScripts,
       SameDockerRuns, SameDirs

LEMMA WriteYamlKeeps ==
    ASSUME IInv, WriteYaml
    PROVE  IInv'
  <1>1. /\ job.pc = "yaml" /\ disk' = [disk EXCEPT !.yaml = job.cfg]
        /\ Goto(After(job.pc)) /\ UNCHANGED <<runs, laid, torn>>
        /\ job.cfg \in Configs /\ job.op = "init"
    BY DevnetConfigs DEF WriteYaml, IInv, JobAt
  <1>2. /\ disk' \in Disk /\ disk'.present = disk.present /\ SameDirs
        /\ disk'.genesis = disk.genesis /\ disk'.ini = disk.ini
        /\ disk'.yaml = job.cfg
    BY <1>1 DEF IInv, TypeOK, Disk, SameDirs
  <1>3. SameGenesis
    BY <1>2 DEF SameGenesis
  <1>4. StageStep /\ job'.pc # job.pc /\ SameCopies /\ SameScripts /\ SameDockerRuns
    BY <1>1, <1>2, <1>3, FileStage DEF AfterRename
  <1>5. InitLaid'
    BY <1>1, <1>2, <1>4, InitLaidStays
  <1>6. Patched' /\ Copies' /\ Programs' /\ IniWritten' /\ Composes'
    BY <1>1, <1>2, <1>4, StageStays
  <1>7. IniInv'
    BY <1>1, <1>2, <1>4, IniInvStays
  <1>8. QED
    BY <1>4, <1>5, <1>6, <1>7, StageInv

LEMMA CopyNothingKeeps ==
    ASSUME IInv, CopyNothing
    PROVE  IInv'
  <1>1. /\ job.pc = "copy" /\ disk.genesis = None /\ disk' = disk
        /\ Goto(After(job.pc)) /\ UNCHANGED <<runs, laid, torn>>
    BY DEF CopyNothing
  <1>2. /\ disk' \in Disk /\ SameDirs /\ SameGenesis
    BY <1>1 DEF IInv, TypeOK, SameDirs, SameGenesis
  <1>3. StageStep /\ job'.pc # job.pc /\ SameCopies /\ SameScripts /\ SameDockerRuns
    BY <1>1, <1>2, FileStage DEF AfterRename
  <1>4. InitLaid'
    BY <1>1, <1>3, InitLaidStays
  <1>5. Patched' /\ Programs' /\ IniWritten' /\ Composes'
    BY <1>1, <1>3, StageStays
  <1>6. Copies'
    BY <1>1 DEF Copies, Copied
  <1>7. IniInv'
    BY <1>1, <1>3, IniInvStays
  <1>8. QED
    BY <1>3, <1>4, <1>5, <1>6, <1>7, StageInv

LEMMA PatchGenesisKeeps ==
    ASSUME IInv, PatchGenesis
    PROVE  IInv'
  <1>1. /\ job.pc = "patch" /\ ~(Patches /\ disk.genesis = Torn)
        /\ disk' = IF Patches THEN [disk EXCEPT !.genesis.patched = TRUE] ELSE disk
        /\ Goto(After(job.pc)) /\ UNCHANGED <<runs, laid, torn>>
    BY DEF PatchGenesis
  <1>2. job.op # "none" /\ job.cfg \in Configs /\ job.cfg.patch \in BOOLEAN /\ disk \in Disk
    BY <1>1, JobTypes, ConfigTypes DEF IInv, JobAt, TypeOK
  <1>3. Patches => disk.genesis \in Genesis
    BY <1>1, <1>2 DEF Patches, Disk, GenesisFile
  <1>4. /\ disk' \in Disk /\ disk'.present = disk.present /\ SameDirs
        /\ disk'.ini = disk.ini /\ disk'.yaml = disk.yaml
        /\ Patches => /\ disk'.genesis \in Genesis
                      /\ disk'.genesis.patched = TRUE
                      /\ disk'.genesis.run = disk.genesis.run
                      /\ disk'.genesis.docker = disk.genesis.docker
        /\ ~Patches => disk'.genesis = disk.genesis
    <2>1. CASE Patches
      <3> DEFINE g == [disk.genesis EXCEPT !.patched = TRUE]
      <3>1. g \in Genesis /\ g.patched = TRUE /\ g.run = disk.genesis.run
            /\ g.docker = disk.genesis.docker
        BY <1>3, <2>1 DEF Genesis
      <3>2. disk' = [disk EXCEPT !.genesis = g]
        BY <1>1, <1>2, <2>1 DEF Disk
      <3> HIDE DEF g
      <3>3. QED
        BY <1>2, <2>1, <3>1, <3>2 DEF Disk, GenesisFile, SameDirs
    <2>2. CASE ~Patches
      BY <1>1, <1>2, <2>2 DEF SameDirs
    <2>3. QED
      BY <2>1, <2>2
  <1>5. SameGenesis
    BY <1>3, <1>4 DEF SameGenesis
  <1>6. StageStep /\ job'.pc # job.pc /\ SameCopies /\ SameScripts /\ SameDockerRuns
    BY <1>1, <1>4, <1>5, FileStage DEF AfterRename
  <1>7. InitLaid'
    <2>1. (job.op = "init" /\ disk.genesis \in Genesis) =>
             /\ disk'.genesis \in Genesis
             /\ disk'.genesis.run = disk.genesis.run
             /\ disk'.genesis.docker = disk.genesis.docker
             /\ disk'.genesis.patched = job.cfg.patch
      <3> SUFFICES ASSUME job.op = "init", disk.genesis \in Genesis
                   PROVE  /\ disk'.genesis \in Genesis
                          /\ disk'.genesis.run = disk.genesis.run
                          /\ disk'.genesis.docker = disk.genesis.docker
                          /\ disk'.genesis.patched = job.cfg.patch
        OBVIOUS
      <3>1. Patches <=> job.cfg.patch
        BY NoneIsAbsence DEF Patches
      <3>2. Past(AfterRename) /\ ~Past(AfterPatch)
        BY <1>1 DEF Past, Ended, AfterPatch, AfterYaml, AfterRename
      <3>3. disk.genesis.patched = FALSE
        <4>1. disk.genesis.patched = (Past(AfterPatch) /\ job.cfg.patch)
          BY <3>2 DEF IInv, InitLaid
        <4>2. QED
          BY <3>2, <4>1, Zenon
      <3>4. CASE Patches
        BY <1>2, <1>4, <3>1, <3>4
      <3>5. CASE ~Patches
        BY <1>2, <1>4, <3>1, <3>3, <3>5
      <3>6. QED
        BY <3>4, <3>5
    <2>2. QED
      BY <1>1, <1>4, <1>6, <2>1, InitLaidStays
  <1>8. Patched'
    <2>1. job'.cfg = job.cfg
      BY <1>6, StageFrame
    <2>2. disk'.genesis \in Genesis /\ job.cfg.patch => Patches
      BY <1>4, NoneIsAbsence DEF Patches
    <2>3. QED
      BY <1>4, <2>1, <2>2 DEF Patched
  <1>9. Programs' /\ IniWritten' /\ Composes'
    BY <1>1, <1>4, <1>6, StageStays
  <1>10. Copies'
    <2> SUFFICES ASSUME NEW i \in Validators, Through("copy", AfterCopy, i)'
                 PROVE  FALSE
      BY <1>6, StageFrame DEF Copies
    <2>1. Through("copy", AfterCopy, i)
      BY <1>1, <1>6, ThroughStays
    <2>2. QED
      BY <1>1, <2>1 DEF Through, Past, Ended, AfterCopy, AfterPatch, AfterYaml,
         AfterRename
  <1>11. IniInv'
    BY <1>1, <1>4, <1>6, IniInvStays
  <1>12. QED
    BY <1>6, <1>7, <1>8, <1>9, <1>10, <1>11, StageInv

-----------------------------------------------------------------------------
(* The loops that write into the validators' directories *)

LEMMA DirWrite ==
    ASSUME TypeOK, NEW n \in Dirs, Has(n), NEW d \in Dir, d.keys = disk.dirs[n].keys,
           disk' = [disk EXCEPT !.dirs[n] = d]
    PROVE  /\ disk' \in Disk /\ disk'.present = disk.present
           /\ disk'.genesis = disk.genesis /\ disk'.yaml = disk.yaml
           /\ disk'.ini = disk.ini /\ disk'.compose = disk.compose
           /\ SameKeys /\ SameGenesis
           /\ \A m \in Dirs : disk'.dirs[m] = IF m = n THEN d ELSE disk.dirs[m]
  <1>1. /\ disk' \in Disk /\ disk'.present = disk.present
        /\ disk'.genesis = disk.genesis /\ disk'.yaml = disk.yaml
        /\ disk'.ini = disk.ini /\ disk'.compose = disk.compose
        /\ \A m \in Dirs : disk'.dirs[m] = IF m = n THEN d ELSE disk.dirs[m]
    BY DEF TypeOK, Disk
  <1>2. d # None
    BY NoneIsAbsence
  <1>3. QED
    BY <1>1, <1>2 DEF SameKeys, SameGenesis, KeysOf, Has

LEMMA LoopStage ==
    ASSUME IInv, job.pc \in {"copy", "programs", "dockerRun"},
           Iterate(Len(job.cfg.validators), After(job.pc)),
           disk' \in Disk, disk'.present = disk.present, SameKeys, SameGenesis,
           UNCHANGED <<runs, laid, torn>>
    PROVE  /\ StageStep
           /\ \A i \in Validators :
                (job'.pc = job.pc /\ i < job'.i) \/ job'.pc # job.pc
                  => i < job.i \/ i = job.i
  <1>1. /\ job.op # "none" /\ job.i \in Validators /\ 1 \in Validators
        /\ Validators = 1 .. Len(job.cfg.validators) /\ Len(job.cfg.validators) \in Nat
        /\ job.pc \in AfterRename
    BY JobTypes DEF IInv, JobAt, AfterRename
  <1>2. After(job.pc) \in Steps \cup {"idle"} /\ After(job.pc) # job.pc
    BY AfterSteps DEF AfterRename
  <1>3. /\ SameJob
        /\ \/ /\ job.i < Len(job.cfg.validators) /\ job'.i = job.i + 1
              /\ job'.pc = job.pc /\ job'.result = job.result
           \/ /\ job.i = Len(job.cfg.validators)
              /\ IF After(job.pc) = "idle" THEN EndsOk ELSE At(After(job.pc))
    BY <1>2, IterateEffect DEF IInv
  <1>4. job'.i \in Validators
    BY <1>1, <1>3 DEF EndsOk, At
  <1>5. StageStep
    BY <1>1, <1>2, <1>3, <1>4 DEF StageStep, EndsOk, At
  <1>6. QED
    BY <1>1, <1>2, <1>3, <1>5 DEF EndsOk, At

LEMMA CopyGenesisKeeps ==
    ASSUME IInv, CopyGenesis
    PROVE  IInv'
  <1> DEFINE n == MonikerOf(job.i)
             d == [disk.dirs[n] EXCEPT !.genesis = disk.genesis]
  <1>1. /\ job.pc = "copy" /\ disk.genesis # None /\ disk.dirs[n] # None
        /\ disk' = [disk EXCEPT !.dirs[MonikerOf(job.i)].genesis = disk.genesis]
        /\ Iterate(Len(job.cfg.validators), After(job.pc))
        /\ UNCHANGED <<runs, laid, torn>>
    BY DEF CopyGenesis
  <1>2. /\ job.op # "none" /\ job.i \in Validators /\ disk \in Disk
        /\ \A i \in Validators : MonikerOf(i) \in Dirs
    BY <1>1, JobTypes DEF IInv, JobAt, TypeOK
  <1>3. n \in Dirs /\ Has(n) /\ disk.dirs[n] \in Dir /\ disk.genesis \in GenesisFile
    BY <1>1, <1>2 DEF Disk, Has
  <1>4. /\ d \in Dir /\ d.keys = disk.dirs[n].keys /\ d.genesis = disk.genesis
        /\ d.run = disk.dirs[n].run /\ d.secret = disk.dirs[n].secret
        /\ d.dockerRun = disk.dirs[n].dockerRun
    BY <1>3 DEF Dir
  <1>5. disk' = [disk EXCEPT !.dirs[n] = d]
    BY <1>1, <1>2
  <1> HIDE DEF d, n
  <1>6. /\ disk' \in Disk /\ disk'.present = disk.present
        /\ disk'.genesis = disk.genesis /\ disk'.yaml = disk.yaml
        /\ disk'.ini = disk.ini /\ disk'.compose = disk.compose
        /\ SameKeys /\ SameGenesis
        /\ \A m \in Dirs : disk'.dirs[m] = IF m = n THEN d ELSE disk.dirs[m]
    BY <1>3, <1>4, <1>5, DirWrite DEF IInv
  <1>7. SameScripts /\ SameDockerRuns
    BY <1>4, <1>6 DEF SameScripts, SameDockerRuns
  <1>8. /\ StageStep
        /\ \A i \in Validators :
             (job'.pc = job.pc /\ i < job'.i) \/ job'.pc # job.pc
               => i < job.i \/ i = job.i
    BY <1>1, <1>6, LoopStage
  <1>9. InitLaid'
    BY <1>1, <1>6, <1>8, InitLaidStays
  <1>10. Patched' /\ Programs' /\ IniWritten' /\ Composes'
    BY <1>1, <1>6, <1>7, <1>8, StageStays
  <1>11. Copies'
    <2>1. Validators' = Validators /\ \A i : MonikerOf(i)' = MonikerOf(i)
      BY <1>8, StageFrame
    <2> SUFFICES ASSUME NEW i \in Validators, Through("copy", AfterCopy, i)'
                 PROVE  Copied(i)'
      BY <2>1 DEF Copies
    <2>2. i < job.i \/ i = job.i
      <3>1. (job'.pc = job.pc /\ i < job'.i) \/ job'.pc # job.pc
        BY <1>1, <1>8, StagePast DEF Through, Past, Ended, AfterCopy, AfterPatch,
           AfterYaml, AfterRename
      <3>2. QED
        BY <1>8, <3>1
    <2>3. job.op \in {"init", "supervisor"}
      BY <1>8 DEF Through, Past, StageStep, SameJob
    <2>4. i < job.i => Copied(i)
      BY <1>1, <1>2, <2>3 DEF IInv, Copies, Through
    <2>5. disk'.dirs[MonikerOf(i)] # None /\ disk'.dirs[MonikerOf(i)].genesis = disk.genesis
      <3>1. d # None
        BY <1>4, NoneIsAbsence
      <3>2. CASE MonikerOf(i) = n
        BY <1>2, <1>3, <1>4, <1>6, <3>1, <3>2
      <3>3. CASE MonikerOf(i) # n
        <4>1. i < job.i
          BY <2>2, <3>3 DEF n
        <4>2. QED
          BY <1>1, <1>2, <1>6, <2>4, <3>3, <4>1 DEF Copied, Has
      <3>4. QED
        BY <3>2, <3>3
    <2>6. QED
      BY <1>6, <2>1, <2>5 DEF Copied, Has
  <1>12. IniInv'
    BY <1>1, <1>6, <1>8, IniInvStays
  <1>13. QED
    BY <1>8, <1>9, <1>10, <1>11, <1>12, StageInv

LEMMA PeersType ==
    ASSUME TypeOK, \A i \in Validators : MonikerOf(i) \in Dirs
    PROVE  Peers \in SUBSET KeyFiles
  BY KeysType, PeersAreKeys

LEMMA WriteProgramKeeps ==
    ASSUME IInv, WriteProgram
    PROVE  IInv'
  <1> DEFINE n == MonikerOf(job.i)
             run == [index |-> job.i, peers |-> IF IsTempo(job.cfg) THEN Peers ELSE {}]
             secret == disk.dirs[n].secret \/ IsTempo(job.cfg)
             d == [disk.dirs[n] EXCEPT !.run = run, !.secret = secret]
  <1>1. /\ job.pc = "programs" /\ ~DuplicateProgram /\ disk.dirs[n] # None
        /\ disk' = [disk EXCEPT
             !.dirs[MonikerOf(job.i)].run =
                [index |-> job.i, peers |-> IF IsTempo(job.cfg) THEN Peers ELSE {}],
             !.dirs[MonikerOf(job.i)].secret = @ \/ IsTempo(job.cfg)]
        /\ Iterate(Len(job.cfg.validators), After(job.pc))
        /\ UNCHANGED <<runs, laid, torn>>
    BY DEF WriteProgram
  <1>2. /\ job.op # "none" /\ job.i \in Validators /\ disk \in Disk
        /\ \A i \in Validators : MonikerOf(i) \in Dirs
        /\ Validators \subseteq DOMAIN DockerAddrs
        /\ Validators = 1 .. Len(job.cfg.validators) /\ Len(job.cfg.validators) \in Nat
    BY <1>1, JobTypes DEF IInv, JobAt, TypeOK
  <1>3. n \in Dirs /\ Has(n) /\ disk.dirs[n] \in Dir
    BY <1>1, <1>2 DEF Disk, Has
  <1>4. run \in Script /\ run.index = job.i
        /\ run.peers = IF IsTempo(job.cfg) THEN Peers ELSE {}
    BY <1>2, PeersType DEF Script, IInv
  <1>5. secret \in BOOLEAN /\ (IsTempo(job.cfg) => secret)
    BY DEF IsTempo
  <1>6. disk' = [disk EXCEPT !.dirs[n] = d]
    BY <1>1, <1>2, <1>3 DEF Disk, Dir
  <1> HIDE DEF run, secret
  <1>7. /\ d \in Dir /\ d.keys = disk.dirs[n].keys /\ d.genesis = disk.dirs[n].genesis
        /\ d.run = run /\ d.secret = secret /\ d.dockerRun = disk.dirs[n].dockerRun
    BY <1>3, <1>4, <1>5 DEF Dir
  <1> HIDE DEF d, n
  <1>8. /\ disk' \in Disk /\ disk'.present = disk.present
        /\ disk'.genesis = disk.genesis /\ disk'.yaml = disk.yaml
        /\ disk'.ini = disk.ini /\ disk'.compose = disk.compose
        /\ SameKeys /\ SameGenesis
        /\ \A m \in Dirs : disk'.dirs[m] = IF m = n THEN d ELSE disk.dirs[m]
    BY <1>3, <1>6, <1>7, DirWrite DEF IInv
  <1>9. SameCopies /\ SameDockerRuns
    BY <1>7, <1>8 DEF SameCopies, SameDockerRuns
  <1>10. /\ StageStep
         /\ \A i \in Validators :
              (job'.pc = job.pc /\ i < job'.i) \/ job'.pc # job.pc
                => i < job.i \/ i = job.i
    BY <1>1, <1>8, LoopStage
  <1>11. InitLaid'
    BY <1>1, <1>8, <1>10, InitLaidStays
  <1>12. Patched' /\ Copies' /\ IniWritten' /\ Composes'
    BY <1>1, <1>8, <1>9, <1>10, StageStays
  <1>13. Programs'
    <2>1. /\ Validators' = Validators /\ \A i : MonikerOf(i)' = MonikerOf(i)
          /\ Peers' = Peers /\ job'.cfg = job.cfg
      BY <1>10, StageFrame
    <2> SUFFICES ASSUME NEW i \in Validators, Through("programs", AfterPrograms, i)'
                 PROVE  /\ Scripted(i)'
                        /\ \A k \in Validators : k < i => MonikerOf(k) # MonikerOf(i)
      BY <2>1 DEF Programs
    <2>2. i < job.i \/ i = job.i
      <3>1. (job'.pc = job.pc /\ i < job'.i) \/ job'.pc # job.pc
        BY <1>1, <1>10, StagePast DEF Through, Past, Ended, AfterPrograms, AfterCopy,
           AfterPatch, AfterYaml, AfterRename
      <3>2. QED
        BY <1>10, <3>1
    <2>3. job.op \in {"init", "supervisor"}
      BY <1>10 DEF Through, Past, StageStep, SameJob
    <2>4. i < job.i => /\ Scripted(i)
                       /\ \A k \in Validators : k < i => MonikerOf(k) # MonikerOf(i)
      BY <1>1, <1>2, <2>3 DEF IInv, Programs, Through
    <2>5. \A k \in Validators : k < job.i => MonikerOf(k) # n
      BY <1>1, <1>2 DEF DuplicateProgram, n
    <2>6. d # None /\ run # None
      BY <1>4, <1>7, NoneIsAbsence
    <2>7. CASE i = job.i
      <3>1. disk'.dirs[MonikerOf(i)] = d
        BY <1>3, <1>8, <2>7 DEF n
      <3>2. Scripted(i)'
        BY <1>4, <1>5, <1>7, <2>1, <2>6, <2>7, <3>1 DEF Scripted, Has
      <3>3. QED
        BY <2>5, <2>7, <3>2 DEF n
    <2>8. CASE i < job.i
      <3>1. disk'.dirs[MonikerOf(i)] = disk.dirs[MonikerOf(i)]
        BY <1>2, <1>8, <2>5, <2>8
      <3>2. Scripted(i)'
        BY <2>1, <2>4, <2>8, <3>1 DEF Scripted, Has
      <3>3. QED
        BY <2>4, <2>8, <3>2
    <2>9. QED
      BY <2>2, <2>7, <2>8
  <1>14. IniInv'
    BY <1>1, <1>8, <1>10, IniInvStays
  <1>15. QED
    BY <1>10, <1>11, <1>12, <1>13, <1>14, StageInv

LEMMA WriteDockerRunKeeps ==
    ASSUME IInv, WriteDockerRun
    PROVE  IInv'
  <1> DEFINE n == MonikerOf(job.i)
             script == [index |-> job.i, peers |-> Peers \ {disk.dirs[n].keys}]
             d == [disk.dirs[n] EXCEPT !.dockerRun = script]
  <1>1. /\ job.pc = "dockerRun" /\ disk.dirs[n] # None
        /\ disk' = [disk EXCEPT !.dirs[MonikerOf(job.i)].dockerRun =
             [index |-> job.i, peers |-> Peers \ {disk.dirs[MonikerOf(job.i)].keys}]]
        /\ Iterate(Len(job.cfg.validators), After(job.pc))
        /\ UNCHANGED <<runs, laid, torn>>
    BY DEF WriteDockerRun
  <1>2. /\ job.op # "none" /\ job.i \in Validators /\ disk \in Disk
        /\ \A i \in Validators : MonikerOf(i) \in Dirs
        /\ Validators \subseteq DOMAIN DockerAddrs
    BY <1>1, JobTypes DEF IInv, JobAt, TypeOK
  <1>3. n \in Dirs /\ Has(n) /\ disk.dirs[n] \in Dir
    BY <1>1, <1>2 DEF Disk, Has
  <1>4. script \in Script /\ script.peers = Peers \ {disk.dirs[n].keys}
    BY <1>2, PeersType DEF Script, IInv
  <1>5. disk' = [disk EXCEPT !.dirs[n] = d]
    BY <1>1, <1>2
  <1> HIDE DEF script
  <1>6. /\ d \in Dir /\ d.keys = disk.dirs[n].keys /\ d.genesis = disk.dirs[n].genesis
        /\ d.run = disk.dirs[n].run /\ d.secret = disk.dirs[n].secret
        /\ d.dockerRun = script
    BY <1>3, <1>4 DEF Dir
  <1> HIDE DEF d, n
  <1>7. /\ disk' \in Disk /\ disk'.present = disk.present
        /\ disk'.genesis = disk.genesis /\ disk'.yaml = disk.yaml
        /\ disk'.ini = disk.ini /\ disk'.compose = disk.compose
        /\ SameKeys /\ SameGenesis
        /\ \A m \in Dirs : disk'.dirs[m] = IF m = n THEN d ELSE disk.dirs[m]
    BY <1>3, <1>5, <1>6, DirWrite DEF IInv
  <1>8. SameCopies /\ SameScripts
    BY <1>6, <1>7 DEF SameCopies, SameScripts
  <1>9. /\ StageStep
        /\ \A i \in Validators :
             (job'.pc = job.pc /\ i < job'.i) \/ job'.pc # job.pc
               => i < job.i \/ i = job.i
    BY <1>1, <1>7, LoopStage
  <1>10. InitLaid'
    BY <1>1, <1>7, <1>9, InitLaidStays
  <1>11. Patched' /\ Copies' /\ Programs' /\ IniWritten'
    BY <1>1, <1>7, <1>8, <1>9, StageStays
  <1>12. Composes'
    <2>1. /\ Validators' = Validators /\ \A i : MonikerOf(i)' = MonikerOf(i)
          /\ Peers' = Peers /\ job'.op = job.op /\ job'.docker = job.docker
      BY <1>9, StageFrame
    <2>2. ~Ended'
      BY <1>1, <1>9, StagePast
    <2> SUFFICES ASSUME job.op = "init", job.docker, NEW i \in Validators,
                        Through("dockerRun", AfterDockerRun, i)'
                 PROVE  Composed(i)'
      BY <2>1, <2>2 DEF Composes
    <2>3. i < job.i \/ i = job.i
      <3>1. (job'.pc = job.pc /\ i < job'.i) \/ job'.pc # job.pc
        BY <1>1, <1>9, StagePast DEF Through, Past, Ended, AfterDockerRun, AfterIni,
           AfterPrograms, AfterCopy, AfterPatch, AfterYaml, AfterRename
      <3>2. QED
        BY <1>9, <3>1
    <2>4. i < job.i => Composed(i)
      BY <1>1, <1>2 DEF IInv, Composes, Through
    <2>5. d # None /\ script # None
      BY <1>4, <1>6, NoneIsAbsence
    <2>6. CASE MonikerOf(i) = n
      <3>1. disk'.dirs[MonikerOf(i)] = d
        BY <1>3, <1>7, <2>6
      <3>2. QED
        BY <1>4, <1>6, <2>1, <2>5, <2>6, <3>1 DEF Composed, Has
    <2>7. CASE MonikerOf(i) # n
      <3>1. disk'.dirs[MonikerOf(i)] = disk.dirs[MonikerOf(i)]
        BY <1>2, <1>7, <2>7
      <3>2. Composed(i)
        BY <2>3, <2>4, <2>7 DEF n
      <3>3. QED
        BY <2>1, <3>1, <3>2 DEF Composed, Has
    <2>8. QED
      BY <2>6, <2>7
  <1>13. IniInv'
    BY <1>1, <1>7, <1>8, <1>9, IniInvStays
  <1>14. QED
    BY <1>9, <1>10, <1>11, <1>12, <1>13, StageInv

-----------------------------------------------------------------------------
(* The last files *)

\* Programs of all validators have distinct names, and directories.
LEMMA ScriptedIsComplete ==
    ASSUME TypeOK, JobAt, job.op # "none", Programs, Past(AfterPrograms)
    PROVE  /\ \A i \in Validators : Scripted(i)
           /\ Distinct(job.cfg) /\ ~Missing(job.cfg)
  <1>1. /\ Validators = AllOf(job.cfg)
        /\ Validators = 1 .. Len(job.cfg.validators) /\ Len(job.cfg.validators) \in Nat
        /\ \A i \in Validators : MonikerOf(i) = Name(job.cfg, i)
    BY JobTypes
  <1>2. \A i \in Validators :
          /\ Scripted(i)
          /\ \A k \in Validators : k < i => MonikerOf(k) # MonikerOf(i)
    BY DEF Programs, Through
  <1>3. \A i, k \in Validators : i # k => MonikerOf(i) # MonikerOf(k)
    <2> SUFFICES ASSUME NEW i \in Validators, NEW k \in Validators, i # k
                 PROVE  MonikerOf(i) # MonikerOf(k)
      OBVIOUS
    <2>1. i < k \/ k < i
      BY <1>1
    <2>2. QED
      BY <1>2, <2>1
  <1>4. Distinct(job.cfg)
    BY <1>1, <1>3 DEF Distinct
  <1>5. ~Missing(job.cfg)
    BY <1>1, <1>2 DEF Missing, Scripted
  <1>6. QED
    BY <1>2, <1>4, <1>5

LEMMA InitReady ==
    ASSUME IInv, job.op = "init", Past(AfterPrograms)
    PROVE  Ready(job.cfg)
  <1>1. /\ TypeOK /\ JobAt /\ Programs /\ Copies /\ InitLaid
    BY DEF IInv
  <1>2. Past(AfterRename) /\ Past(AfterPatch) /\ Past(AfterCopy)
    BY DEF Past, AfterPrograms, AfterCopy, AfterPatch, AfterYaml
  <1>3. /\ \A i \in Validators : Scripted(i)
        /\ Distinct(job.cfg) /\ ~Missing(job.cfg)
    BY <1>1, ScriptedIsComplete
  <1>4. disk.genesis \in Genesis /\ AllKeys(job.cfg)
    BY <1>1, <1>2, <1>3 DEF InitLaid
  <1>5. disk.genesis.patched = job.cfg.patch
    <2>1. disk.genesis.patched = (Past(AfterPatch) /\ job.cfg.patch)
      BY <1>1, <1>2 DEF InitLaid
    <2>2. job.cfg.patch \in BOOLEAN
      BY <1>1, JobTypes, ConfigTypes
    <2>3. disk.genesis.patched \in BOOLEAN
      BY <1>4 DEF Genesis
    <2>4. QED
      BY <1>2, <2>1, <2>2, <2>3
  <1>6. \A i \in Validators : Copied(i)
    BY <1>1, <1>2 DEF Copies, Through
  <1>7. QED
    BY <1>1, <1>3, <1>4, <1>5, <1>6, ReadyNow

LEMMA WriteIniKeeps ==
    ASSUME IInv, WriteIni
    PROVE  IInv'
  <1>1. /\ job.pc = "ini" /\ disk' = [disk EXCEPT !.ini = job.cfg]
        /\ Goto(After(job.pc)) /\ UNCHANGED <<runs, laid, torn>>
    BY DEF WriteIni
  <1>2. job.op # "none" /\ job.cfg \in Configs
    BY <1>1 DEF IInv, JobAt
  <1>3. /\ disk' \in Disk /\ disk'.present = disk.present /\ SameDirs
        /\ disk'.genesis = disk.genesis /\ disk'.yaml = disk.yaml
        /\ disk'.ini = job.cfg
    BY <1>1, <1>2 DEF IInv, TypeOK, Disk, SameDirs
  <1>4. SameGenesis /\ SameKeys
    BY <1>3, DirsStay DEF SameGenesis
  <1>5. /\ StageStep /\ job'.pc = After(job.pc) /\ job'.pc # job.pc
        /\ SameCopies /\ SameScripts /\ SameDockerRuns
    BY <1>1, <1>3, <1>4, FileStage
       DEF AfterRename
  <1>6. InitLaid'
    BY <1>1, <1>3, <1>5, InitLaidStays
  <1>7. Patched' /\ Copies' /\ Programs' /\ Composes'
    BY <1>1, <1>3, <1>5, StageStays
  <1>8. IniWritten'
    BY <1>3, <1>5, StageFrame DEF IniWritten
  <1>9. IniInv'
    <2> SUFFICES ASSUME Entries \subseteq {"init", "compose"}
                 PROVE  IniMeansReady' /\ job'.pc \notin AfterRename \ AfterIni
      BY DEF IniInv
    <2>1. job.op = "init"
      BY <1>1, <1>2 DEF IInv, JobAt
    <2>2. Past(AfterPrograms)
      BY <1>1, <2>1 DEF Past, AfterPrograms, AfterCopy, AfterPatch, AfterYaml, AfterRename
    <2>3. Ready(job.cfg)
      BY <2>1, <2>2, InitReady
    <2>4. \A c \in Configs : Ready(c) => Ready(c)'
      BY <1>3, <1>4, <1>5, ReadyStays
    <2>5. disk'.ini = job.cfg /\ \A c \in Configs : c = job.cfg => Ready(c)'
      BY <1>3, <2>3, <2>4
    <2>6. IniMeansReady'
      BY <1>2, <2>5 DEF IniMeansReady
    <2>7. job'.pc \in {"dockerRun", "idle"}
      BY <1>1, <1>5, AfterSteps
    <2>8. QED
      BY <2>6, <2>7 DEF AfterRename, AfterIni, AfterPrograms, AfterCopy, AfterPatch,
         AfterYaml
  <1>10. QED
    BY <1>5, <1>6, <1>7, <1>8, <1>9, StageInv

LEMMA WriteComposeKeeps ==
    ASSUME IInv, WriteCompose
    PROVE  IInv'
  <1>1. /\ job.pc = "compose" /\ disk' = [disk EXCEPT !.compose = job.cfg]
        /\ Goto(After(job.pc)) /\ UNCHANGED <<runs, laid, torn>>
    BY DEF WriteCompose
  <1>2. job.op # "none" /\ job.cfg \in Configs
    BY <1>1 DEF IInv, JobAt
  <1>3. /\ disk' \in Disk /\ disk'.present = disk.present /\ SameDirs
        /\ disk'.genesis = disk.genesis /\ disk'.yaml = disk.yaml
        /\ disk'.ini = disk.ini /\ disk'.compose = job.cfg
    BY <1>1, <1>2 DEF IInv, TypeOK, Disk, SameDirs
  <1>4. SameGenesis
    BY <1>3 DEF SameGenesis
  <1>5. /\ StageStep /\ job'.pc # job.pc
        /\ SameCopies /\ SameScripts /\ SameDockerRuns
    BY <1>1, <1>3, <1>4, FileStage DEF AfterRename
  <1>6. InitLaid'
    BY <1>1, <1>3, <1>5, InitLaidStays
  <1>7. Patched' /\ Copies' /\ Programs' /\ IniWritten'
    BY <1>1, <1>3, <1>5, StageStays
  <1>8. Composes'
    <2>1. /\ Validators' = Validators /\ \A i : MonikerOf(i)' = MonikerOf(i)
          /\ Peers' = Peers /\ job'.op = job.op /\ job'.cfg = job.cfg
          /\ \A i \in Validators : MonikerOf(i) \in Dirs
      BY <1>5, StageFrame
    <2> SUFFICES ASSUME job.op = "init", job.docker, NEW i \in Validators
                 PROVE  Composed(i)'
      BY <1>3, <2>1, <1>5, StageFrame DEF Composes
    <2>2. Past(AfterDockerRun)
      BY <1>1 DEF Past, AfterDockerRun, AfterIni, AfterPrograms, AfterCopy, AfterPatch,
         AfterYaml, AfterRename
    <2>3. Composed(i)
      BY <1>2, <2>2 DEF IInv, Composes, Through
    <2>4. disk'.dirs = disk.dirs
      BY <1>3 DEF SameDirs
    <2>5. QED
      BY <2>1, <2>3, <2>4 DEF Composed, Has
  <1>9. IniInv'
    BY <1>1, <1>3, <1>5, IniInvStays
  <1>10. QED
    BY <1>5, <1>6, <1>7, <1>8, <1>9, StageInv

-----------------------------------------------------------------------------
(* The invariant *)

LEMMA InitIInv == Init => IInv
  <1> SUFFICES ASSUME Init
               PROVE  IInv
    OBVIOUS
  <1> DEFINE nothing == <<>>
  <1>1. /\ job = [op |-> "none", cfg |-> None, force |-> FALSE, docker |-> FALSE,
                  pc |-> "idle", i |-> 1, renames |-> nothing, result |-> "none"]
        /\ runs = 0 /\ laid = None /\ torn = FALSE
        /\ disk = [EmptyDisk EXCEPT !.present = FALSE]
    BY DEF Init
  <1>2. nothing \in Seq(DOMAIN DockerAddrs)
    OBVIOUS
  <1> HIDE DEF nothing
  <1>3. /\ disk \in Disk /\ disk.present = FALSE /\ disk.genesis = None
        /\ disk.yaml = None /\ disk.ini = None /\ disk.compose = None
        /\ \A n \in Dirs : disk.dirs[n] = None
    BY <1>1 DEF EmptyDisk, Disk, GenesisFile
  <1>4. job \in Job
    <2>1. 1 \in DOMAIN DockerAddrs
      BY DevnetConfigs
    <2>2. QED
      BY <1>1, <1>2, <2>1 DEF Job
  <1>5. TypeOK
    <2>1. 0 \in 0 .. MaxRuns
      BY DevnetConfigs
    <2>2. QED
      BY <1>1, <1>3, <1>4, <2>1 DEF TypeOK
  <1>6. JobAt
    BY <1>1 DEF JobAt
  <1>7. Absent /\ KeysAreOld /\ KeysAreUnique
    BY <1>3 DEF Absent, NoFiles, KeysAreOld, KeysAreUnique, KeysOf, Has
  <1>8. Layout /\ LaidKeys /\ InitLaid /\ ForcedInitRecovers
    BY <1>1 DEF Layout, LayingOut, LaidKeys, InitLaid, ForcedInitRecovers, Over
  <1>9. IniInv
    BY <1>1, <1>3, NoneIsAbsence DEF IniInv, IniMeansReady
  <1>10. QED
    BY <1>1, <1>5, <1>6, <1>7, <1>8, <1>9 DEF IInv

LEMMA NextIInv == IInv /\ [Next]_vars => IInv'
  <1> SUFFICES ASSUME IInv, [Next]_vars
               PROVE  IInv'
    OBVIOUS
  <1>1. ASSUME NEW cfg \in Configs, NEW force \in BOOLEAN, NEW docker \in BOOLEAN,
               \/ CallInit(cfg, force, docker) \/ CallLocalnet(cfg, docker)
               \/ CallSupervisor(cfg, force) \/ CallCompose(cfg, force)
        PROVE  IInv'
    BY <1>1, CallKeeps
  <1>2. CASE Delete \/ Deleted \/ Kill \/ KillDeleted
    BY <1>2, DeleteKeeps, DeletedKeeps, KillKeeps, KillDeletedKeeps
  <1>3. CASE Xtask \/ XtaskFails
    BY <1>3, XtaskKeeps, XtaskFailsKeeps
  <1>4. CASE Sweep \/ Rename \/ RenameRaises \/ Renamed
    BY <1>4, SweepTempoKeeps, SweepAllegroKeeps, RenameKeeps, RenameRaisesKeeps,
       RenamedKeeps
  <1>5. CASE WriteYaml \/ PatchGenesis \/ CopyGenesis \/ CopyNothing
    BY <1>5, WriteYamlKeeps, PatchGenesisKeeps, CopyGenesisKeeps, CopyNothingKeeps
  <1>6. CASE PatchRaises \/ CopyRaises \/ ProgramRaises \/ DockerRunRaises
    BY <1>6, RaisesKeep
  <1>7. CASE WriteProgram \/ WriteIni \/ WriteDockerRun \/ WriteCompose
    BY <1>7, WriteProgramKeeps, WriteIniKeeps, WriteDockerRunKeeps, WriteComposeKeeps
  <1>8. CASE UNCHANGED vars
    <2>1. /\ disk' = disk /\ job' = job /\ runs' = runs /\ laid' = laid /\ torn' = torn
      BY <1>8 DEF vars
    <2>2. TypeOK' /\ JobAt' /\ Absent'
      BY <2>1 DEF IInv, TypeOK, JobAt, Absent, NoFiles, Has, Validators
    <2>3. SameKeys /\ SameGenesis
      BY <2>1, DirsStay DEF SameDirs, SameGenesis
    <2>4. KeysAreOld' /\ KeysAreUnique' /\ LaidKeys'
      BY <2>1, <2>3, KeysStay, LaidKeysStay DEF IInv
    <2>5. Layout'
      <3>1. RenamesAscend => RenamesAscend'
        BY <2>1 DEF RenamesAscend, SourceDir, MonikerOf, AddressOf
      <3>2. \A k : Waiting(k)' <=> Waiting(k)
        BY <2>1 DEF Waiting
      <3>3. /\ OnlyOurs => OnlyOurs'
            /\ AllGood => AllGood'
            /\ Doomed => Doomed'
        BY <2>1, <3>2, LayoutFrame DEF OnlyOurs, AllGood, Good, Holds, Doomed, Lost,
           Taken, Bare, Has
      <3>4. TempoLayout => TempoLayout'
        BY <2>1, <3>1, <3>3, TempoLayoutFrame DEF TempoLayout
      <3>5. AllegroLayout => AllegroLayout'
        BY <2>1 DEF AllegroLayout, Has, MonikerOf, Validators
      <3>6. QED
        BY <2>1, <3>4, <3>5 DEF IInv, Layout, LayingOut, NoFiles
    <2>6. InitLaid'
      BY <2>1 DEF IInv, InitLaid, Past, Ended, Missing, AllKeys, Holds, Has, Own,
         MonikerOf, Validators, AddressOf, Distinct, Shadows, Shares, AllOf, Name
    <2>7. job.op # "none" => Patched' /\ Copies' /\ IniWritten'
      BY <2>1 DEF IInv, Patched, Copies, Copied, IniWritten, Through, Past, Ended,
         MonikerOf, Validators, Has
    <2>8. job.op # "none" => Programs' /\ Composes'
      <3>1. Peers' = Peers
        BY <2>1 DEF Peers, MonikerOf, Validators
      <3>2. \A i : (Scripted(i) => Scripted(i)') /\ (Composed(i) => Composed(i)')
        BY <2>1, <3>1 DEF Scripted, Composed, MonikerOf, Has
      <3>3. \A i, step, after : Through(step, after, i)' <=> Through(step, after, i)
        BY <2>1 DEF Through, Past, Ended
      <3>4. job.op # "none" => Programs'
        BY <2>1, <3>2, <3>3 DEF IInv, Programs, MonikerOf, Validators
      <3>5. job.op # "none" => Composes'
        BY <2>1, <3>2, <3>3 DEF IInv, Composes, Validators, Ended
      <3>6. QED
        BY <3>4, <3>5
    <2>9. IniInv' /\ ForcedInitRecovers'
      <3>1. \A c : Ready(c)' <=> Ready(c)
        BY <2>1 DEF Ready
      <3>2. \A c, d : (Shares(c, d)' <=> Shares(c, d)) /\ (Shadows(c, d)' <=> Shadows(c, d))
        BY DEF Shares, Shadows, AddressOf
      <3>3. QED
        BY <2>1, <3>1, <3>2 DEF IInv, IniInv, IniMeansReady, ForcedInitRecovers, Over
    <2>10. QED
      BY <2>1, <2>2, <2>4, <2>5, <2>6, <2>7, <2>8, <2>9 DEF IInv
  <1>9. QED
    BY <1>1, <1>2, <1>3, <1>4, <1>5, <1>6, <1>7, <1>8 DEF Next

LEMMA SpecIInv == Spec => []IInv
  BY InitIInv, NextIInv, PTL DEF Spec

-----------------------------------------------------------------------------
(* Theorems *)

\* The data directory, the running job and the history stay what their types say,
\* whatever jobs fail or are killed in between.
THEOREM TypeCorrect == Spec => []TypeOK
  BY SpecIInv, PTL DEF IInv

LEMMA IInvLeavesDevnet == IInv => InitLeavesDevnet
  <1> SUFFICES ASSUME IInv, Over("init", "ok")
               PROVE  LET names == {MonikerOf(i) : i \in Validators}
                      IN  /\ Ready(job.cfg)
                          /\ disk.yaml = job.cfg /\ disk.ini = job.cfg
                          /\ {n \in Dirs : disk.dirs[n] # None} = names
                          /\ job.docker =>
                               /\ disk.compose = job.cfg
                               /\ \A n \in names : disk.dirs[n].dockerRun.peers =
                                    {disk.dirs[m].keys : m \in names \ {n}}
    BY DEF InitLeavesDevnet
  <1> DEFINE names == {MonikerOf(i) : i \in Validators}
  <1>1. job.op = "init" /\ job.force /\ Ended
    BY DEF Over, Ended, IInv, JobAt
  <1>2. /\ Past(AfterRename) /\ Past(AfterYaml) /\ Past(AfterPrograms) /\ Past(AfterIni)
        /\ Past(AfterDockerRun)
    BY <1>1 DEF Past
  <1>3. Ready(job.cfg)
    BY <1>1, <1>2, InitReady
  <1>4. disk.yaml = job.cfg /\ disk.ini = job.cfg
    BY <1>1, <1>2 DEF IInv, InitLaid, IniWritten
  <1>5. /\ \A i \in Validators : Scripted(i)
        /\ Distinct(job.cfg) /\ ~Missing(job.cfg)
    BY <1>1, <1>2, ScriptedIsComplete DEF IInv
  <1>6. \A i \in Validators : MonikerOf(i) \in Dirs /\ MonikerOf(i) = Name(job.cfg, i)
    BY <1>1, JobTypes DEF IInv
  <1>7. {n \in Dirs : disk.dirs[n] # None} = names
    <2>1. \A n \in Dirs : disk.dirs[n] # None => n \in names
      BY <1>1, <1>2 DEF IInv, InitLaid, Has
    <2>2. \A i \in Validators : disk.dirs[MonikerOf(i)] # None
      BY <1>5 DEF Scripted, Has
    <2>3. QED
      BY <1>6, <2>1, <2>2
  <1>8. ASSUME job.docker
        PROVE  /\ disk.compose = job.cfg
               /\ \A n \in names : disk.dirs[n].dockerRun.peers =
                    {disk.dirs[m].keys : m \in names \ {n}}
    <2>1. disk.compose = job.cfg
      BY <1>1, <1>8 DEF IInv, Composes
    <2>2. \A i \in Validators : Composed(i)
      BY <1>1, <1>2, <1>8 DEF IInv, Composes, Through
    <2>3. \A n \in names :
            /\ n \in Dirs /\ disk.dirs[n] # None
            /\ disk.dirs[n].dockerRun.peers = Peers \ {disk.dirs[n].keys}
      BY <1>6, <2>2 DEF Composed, Has
    <2>4. \A n \in names : KeysOf(n) # None /\ KeysOf(n) = disk.dirs[n].keys
      <3>1. IsTempo(job.cfg)
        BY <1>1, <1>8 DEF IInv, JobAt
      <3>2. disk.genesis \in Genesis /\ AllKeys(job.cfg) /\ job.cfg \in Configs
        BY <1>1, <1>2, <1>5 DEF IInv, InitLaid, JobAt
      <3>3. ASSUME NEW i \in Validators
            PROVE  /\ KeysOf(MonikerOf(i)) # None
                   /\ KeysOf(MonikerOf(i)) = disk.dirs[MonikerOf(i)].keys
        <4>1. i \in AllOf(job.cfg)
          BY DEF Validators, AllOf
        <4>2. Holds(MonikerOf(i), Own(job.cfg, i))
          BY <1>6, <3>1, <3>2, <4>1 DEF AllKeys
        <4>3. Own(job.cfg, i) \in KeyFiles
          <5>1. AddressOf(job.cfg, disk.genesis.docker, i) \in Dirs
            BY <3>2, <4>1, ConfigTypes
          <5>2. QED
            BY <3>2, <5>1 DEF Own, KeyFiles, Genesis
        <4>4. QED
          BY <4>2, <4>3, NoneIsAbsence DEF Holds, KeysOf
      <3>4. QED
        BY <3>3
    <2>5. Peers = {disk.dirs[m].keys : m \in names}
      <3>1. Peers = {KeysOf(m) : m \in names} \ {None}
        BY PeersAreKeys
      <3>2. QED
        BY <2>4, <3>1
    <2>6. \A m, n \in names : disk.dirs[m].keys = disk.dirs[n].keys => m = n
      BY <2>3, <2>4 DEF IInv, KeysAreUnique
    <2> HIDE DEF names
    <2>7. QED
      BY <2>1, <2>3, <2>5, <2>6
  <1>9. QED
    BY <1>3, <1>4, <1>7, <1>8

\* A successful init leaves exactly the configured devnet: its files, a directory
\* for each validator and no other, and containers that know all their peers but
\* themselves, over whatever killed and failed jobs had left before it.
THEOREM InitIsExact == Spec => []InitLeavesDevnet
  BY SpecIInv, IInvLeavesDevnet, PTL

\* No leftover makes a forced init raise: only a configuration does in which
\* validators share a name, or one goes by the address of another.
THEOREM OnlyNamesRaise == Spec => []ForcedInitRecovers
  BY SpecIInv, PTL DEF IInv

LEMMA IInvRegenerates == IInv => RegeneratedIsReady
  <1> SUFFICES ASSUME IInv, Over("supervisor", "ok"), job.force, laid = job.cfg,
                      disk.genesis \in Genesis, disk.genesis.patched => job.cfg.patch,
                      ~Shadows(job.cfg, disk.genesis.docker)
               PROVE  Ready(job.cfg) /\ disk.ini = job.cfg
    BY DEF RegeneratedIsReady
  <1>1. /\ job.op = "supervisor" /\ Ended /\ TypeOK /\ JobAt
        /\ Patched /\ Copies /\ Programs /\ IniWritten /\ LaidKeys
    BY DEF Over, Ended, IInv
  <1>2. /\ Past(AfterPatch) /\ Past(AfterCopy) /\ Past(AfterPrograms) /\ Past(AfterIni)
    BY <1>1 DEF Past
  <1>3. job.cfg \in Configs /\ laid # None
    BY <1>1, NoneIsAbsence DEF JobAt
  <1>4. /\ \A i \in Validators : Scripted(i)
        /\ Distinct(job.cfg) /\ ~Missing(job.cfg)
    BY <1>1, <1>2, ScriptedIsComplete
  <1>5. AllKeys(job.cfg)
    BY <1>1, <1>3, <1>4 DEF LaidKeys
  <1>6. disk.genesis.patched = job.cfg.patch
    <2>1. job.cfg.patch => disk.genesis.patched
      BY <1>1, <1>2 DEF Patched
    <2>2. job.cfg.patch \in BOOLEAN /\ disk.genesis.patched \in BOOLEAN
      BY <1>3, ConfigTypes DEF Genesis
    <2>3. QED
      BY <2>1, <2>2
  <1>7. \A i \in Validators : Copied(i)
    BY <1>1, <1>2 DEF Copies, Through
  <1>8. Ready(job.cfg)
    BY <1>1, <1>4, <1>5, <1>6, <1>7, ReadyNow
  <1>9. QED
    BY <1>1, <1>2, <1>8 DEF IniWritten

\* The library's steps, run one by one in any order and as often as one likes, end
\* in a complete devnet once a forced supervisor configuration succeeds on the
\* layout of the same configuration.
THEOREM RegenerationWorks == Spec => []RegeneratedIsReady
  BY SpecIInv, IInvRegenerates, PTL

\* Where only init and the compose generator write, a supervisord.ini with its
\* programs is proof of a complete devnet.
THEOREM IniIsProof ==
  ASSUME Entries \subseteq {"init", "compose"}
  PROVE  Spec => []IniMeansReady
  <1>1. IInv => IniMeansReady
    BY DEF IInv, IniInv
  <1>2. QED
    BY <1>1, SpecIInv, PTL

-----------------------------------------------------------------------------
(* DevnetInit implements DevnetDirectory *)

\* The steps of init before the devnet shows.
BuildSteps ==
    {"xtask", "sweep", "rename", "yaml", "patch", "copy", "programs", "ini"}

DirectoryStep == [Directory!Next]_(Directory!vars)

\* What deleting leaves is no more than there was.
LEMMA ReadyBefore ==
    ASSUME NEW cfg \in Configs, disk'.genesis = disk.genesis,
           \A n \in Dirs : Has(n)' =>
             /\ Has(n)
             /\ disk'.dirs[n].keys = disk.dirs[n].keys
             /\ disk'.dirs[n].genesis = disk.dirs[n].genesis
             /\ disk'.dirs[n].run = disk.dirs[n].run
             /\ disk'.dirs[n].secret = disk.dirs[n].secret,
           Ready(cfg)'
    PROVE  Ready(cfg)
  <1>1. /\ disk'.genesis \in Genesis
        /\ disk'.genesis.patched = cfg.patch
        /\ \A i \in AllOf(cfg) : ReadyDir(cfg, i)'
    BY ReadyIsReadyDirs DEF Ready, ReadyDir, Name, AllOf, Own, Has
  <1>2. \A i : Own(cfg, i)' = Own(cfg, i)
    BY DEF Own
  <1>3. ASSUME NEW i \in AllOf(cfg)
        PROVE  ReadyDir(cfg, i)
    <2>1. ReadyDir(cfg, i)' /\ Name(cfg, i) \in Dirs
      BY <1>1, <1>3, ConfigTypes
    <2>2. Has(Name(cfg, i))'
      BY <2>1 DEF ReadyDir
    <2>3. /\ Has(Name(cfg, i))
          /\ disk'.dirs[Name(cfg, i)].keys = disk.dirs[Name(cfg, i)].keys
          /\ disk'.dirs[Name(cfg, i)].genesis = disk.dirs[Name(cfg, i)].genesis
          /\ disk'.dirs[Name(cfg, i)].run = disk.dirs[Name(cfg, i)].run
          /\ disk'.dirs[Name(cfg, i)].secret = disk.dirs[Name(cfg, i)].secret
      BY <2>1, <2>2 DEF Has
    <2>4. QED
      BY <1>2, <2>1, <2>3 DEF ReadyDir
  <1>4. QED
    BY <1>1, <1>3, ReadyIsReadyDirs

\* What init writes once a devnet shows is nothing that Ready reads.
LEMMA ShownStays ==
    ASSUME IInv, disk'.ini = disk.ini, disk'.genesis = disk.genesis,
           SameKeys, SameCopies, SameScripts
    PROVE  DevnetShown' = DevnetShown
  <1>1. \A n \in Dirs : Has(n)' =>
          /\ Has(n)
          /\ disk'.dirs[n].keys = disk.dirs[n].keys
          /\ disk'.dirs[n].genesis = disk.dirs[n].genesis
          /\ disk'.dirs[n].run = disk.dirs[n].run
          /\ disk'.dirs[n].secret = disk.dirs[n].secret
    BY DEF SameKeys, SameCopies, SameScripts, KeysOf, Has
  <1>2. \A c \in Configs : Ready(c)' => Ready(c)
    BY <1>1, ReadyBefore
  <1>3. \A c \in Configs : Ready(c) => Ready(c)'
    BY ReadyStays
  <1>4. \A c \in Configs : c = disk.ini => (Ready(disk.ini)' <=> Ready(disk.ini))
    BY <1>2, <1>3
  <1>5. CASE disk.ini \in Configs
    <2>1. Ready(disk.ini)' <=> Ready(disk.ini)
      BY <1>4, <1>5
    <2>2. QED
      BY <1>5, <2>1 DEF DevnetShown
  <1>6. CASE disk.ini \notin Configs
    BY <1>6 DEF DevnetShown
  <1>7. QED
    BY <1>5, <1>6

LEMMA SameShown ==
    ASSUME disk'.ini = disk.ini, disk'.genesis = disk.genesis, SameDirs
    PROVE  DevnetShown' = DevnetShown
  <1>1. Ready(disk.ini)' <=> Ready(disk.ini)
    BY DEF Ready, SameDirs
  <1>2. QED
    BY <1>1 DEF DevnetShown

LEMMA ShownNowhere ==
    /\ disk.ini \in {None, Torn} => DevnetShown = None
    /\ disk'.ini \in {None, Torn} => DevnetShown' = None
  BY NoneIsAbsence DEF DevnetShown

-----------------------------------------------------------------------------
(* Whose step it is *)

LEMMA AtWork ==
    ASSUME IInv
    PROVE  /\ InitAtWork # None <=> job.op = "init" /\ job.pc # "idle"
           /\ InitAtWork # None => /\ InitAtWork.cfg = job.cfg
                                   /\ InitAtWork.stage = StageOf(job.pc)
  <1>1. CASE job.op = "init" /\ job.pc # "idle"
    <2>1. job.cfg \in Configs
      BY <1>1 DEF IInv, JobAt
    <2>2. StageOf(job.pc) \in {"clearing", "building", "done"}
      BY DEF StageOf
    <2>3. InitAtWork = [cfg |-> job.cfg, stage |-> StageOf(job.pc)]
      BY <1>1 DEF InitAtWork
    <2>4. InitAtWork \in Directory!Inits
      BY <2>1, <2>2, <2>3 DEF Directory!Inits, Directory!At
    <2>5. QED
      BY <1>1, <2>3, <2>4, NoneIsNobody
  <1>2. CASE ~(job.op = "init" /\ job.pc # "idle")
    BY <1>2 DEF InitAtWork
  <1>3. QED
    BY <1>1, <1>2

\* Nothing of an earlier devnet is left where a new one is built.
LEMMA BuildingIsBare ==
    ASSUME IInv, Entries \subseteq {"init", "compose"},
           job.op = "init", job.pc \in BuildSteps
    PROVE  disk.ini = None
  <1>1. CASE job.pc = "xtask"
    BY <1>1 DEF IInv, Absent, NoFiles
  <1>2. CASE job.pc \in {"sweep", "rename"}
    BY <1>2 DEF IInv, Layout, LayingOut, NoFiles
  <1>3. CASE job.pc \in {"yaml", "patch", "copy", "programs", "ini"}
    BY <1>3 DEF IInv, IniInv, AfterRename, AfterYaml, AfterPatch, AfterCopy,
       AfterPrograms, AfterIni
  <1>4. QED
    BY <1>1, <1>2, <1>3 DEF BuildSteps

LEMMA WhoseStep ==
    ASSUME IInv, Entries \subseteq {"init", "compose"}, job.pc # "idle"
    PROVE  /\ job.op \in {"init", "compose"}
           /\ job.pc \in BuildSteps \cup {"clear"} => job.op = "init"
  BY DEF IInv, JobAt, BuildSteps

LEMMA JobStops ==
    ASSUME IInv, job.op = "init" => job.pc # "idle", job'.pc = "idle",
           DevnetShown' = DevnetShown
    PROVE  DirectoryStep
  <1>1. InitAtWork' = None
    BY DEF InitAtWork
  <1>2. CASE job.op = "init"
    BY <1>1, <1>2, AtWork DEF DirectoryStep, Directory!Next, Directory!Stop
  <1>3. CASE job.op # "init"
    BY <1>1, <1>3 DEF InitAtWork, DirectoryStep, Directory!vars
  <1>4. QED
    BY <1>2, <1>3

LEMMA JobGoesOn ==
    ASSUME job'.op = job.op, job'.cfg = job.cfg, job.pc # "idle", job'.pc # "idle",
           job.op = "init" => StageOf(job'.pc) = StageOf(job.pc),
           DevnetShown' = DevnetShown
    PROVE  DirectoryStep
  <1>1. InitAtWork' = InitAtWork
    BY DEF InitAtWork, StageOf
  <1>2. QED
    BY <1>1 DEF DirectoryStep, Directory!vars

\* A step before the devnet shows goes on with building it, or gives up.
LEMMA BuildStep ==
    ASSUME IInv, Entries \subseteq {"init", "compose"}, job.pc \in BuildSteps,
           disk'.ini \in {disk.ini, None, Torn},
           job'.op = job.op, job'.cfg = job.cfg, job'.pc \in BuildSteps \cup {"idle"}
    PROVE  DirectoryStep
  <1>1. job.op = "init" /\ job.pc # "idle"
    BY WhoseStep DEF BuildSteps
  <1>2. disk.ini = None
    BY <1>1, BuildingIsBare
  <1>3. DevnetShown' = DevnetShown
    BY <1>2, ShownNowhere
  <1>4. CASE job'.pc = "idle"
    BY <1>1, <1>3, <1>4, JobStops
  <1>5. CASE job'.pc \in BuildSteps
    <2>1. StageOf(job'.pc) = StageOf(job.pc) /\ job'.pc # "idle"
      BY <1>5 DEF StageOf, BuildSteps
    <2>2. QED
      BY <1>1, <1>3, <2>1, JobGoesOn
  <1>6. QED
    BY <1>4, <1>5

-----------------------------------------------------------------------------
(* Jobs begin and make room *)

LEMMA CallShows ==
    ASSUME IInv, IInv', Entries \subseteq {"init", "compose"},
           NEW cfg \in Configs, NEW force \in BOOLEAN, NEW docker \in BOOLEAN,
           \/ CallInit(cfg, force, docker) \/ CallLocalnet(cfg, docker)
           \/ CallSupervisor(cfg, force) \/ CallCompose(cfg, force)
    PROVE  DirectoryStep
  <1>1. ~CallLocalnet(cfg, docker) /\ ~CallSupervisor(cfg, force)
    BY DEF CallLocalnet, CallSupervisor, Begin
  <1>2. job.pc = "idle" /\ InitAtWork = None
    BY <1>1 DEF CallInit, CallCompose, Begin, InitAtWork
  <1>3. CASE CallInit(cfg, force, docker)
    <2>1. /\ job'.op = "init" /\ job'.cfg = cfg
          /\ job'.pc = IF disk.present THEN "clear" ELSE "xtask"
          /\ disk' = [disk EXCEPT !.present = TRUE]
      BY <1>3 DEF CallInit, Begin
    <2>2. disk'.ini = disk.ini /\ disk'.genesis = disk.genesis /\ SameDirs
      BY <2>1 DEF IInv, TypeOK, Disk, SameDirs
    <2>3. DevnetShown' = DevnetShown
      BY <2>2, SameShown
    <2>4. InitAtWork' = [cfg |-> cfg, stage |-> StageOf(job'.pc)]
      BY <2>1 DEF InitAtWork, StageOf
    <2>5. CASE disk.present
      <3>1. StageOf(job'.pc) = "clearing"
        BY <2>1, <2>5 DEF StageOf
      <3>2. Directory!Begin(cfg)
        BY <1>2, <2>3, <2>4, <3>1 DEF Directory!Begin, Directory!At
      <3>3. QED
        BY <3>2 DEF DirectoryStep, Directory!Next
    <2>6. CASE ~disk.present
      <3>1. DevnetShown = None
        BY <2>6, ShownNowhere DEF IInv, Absent, NoFiles
      <3>2. StageOf(job'.pc) = "building"
        BY <2>1, <2>6 DEF StageOf
      <3>3. Directory!Begin(cfg)
        BY <1>2, <2>3, <2>4, <3>1, <3>2 DEF Directory!Begin, Directory!At
      <3>4. QED
        BY <3>3 DEF DirectoryStep, Directory!Next
    <2>7. QED
      BY <2>5, <2>6
  <1>4. CASE CallCompose(cfg, force)
    <2>1. job'.op = "compose" /\ disk' = disk
      BY <1>4 DEF CallCompose, Begin
    <2>2. InitAtWork' = None /\ DevnetShown' = DevnetShown
      BY <2>1, SameShown DEF InitAtWork, SameDirs
    <2>3. QED
      BY <1>2, <2>2 DEF DirectoryStep, Directory!vars
  <1>5. QED
    BY <1>1, <1>3, <1>4

LEMMA DeleteShows ==
    ASSUME IInv, Delete
    PROVE  DirectoryStep
  <1>1. job.pc = "clear" /\ job' = job /\ job.op = "init" /\ disk \in Disk
    BY ClearingInit DEF Delete, IInv, TypeOK
  <1>2. InitAtWork' = InitAtWork /\ InitAtWork # None /\ InitAtWork.stage = "clearing"
    <2>1. StageOf(job.pc) = "clearing"
      BY <1>1 DEF StageOf
    <2>2. QED
      BY <1>1, <2>1, AtWork DEF InitAtWork
  <1>3. /\ disk'.ini \in {disk.ini, None}
        /\ disk'.genesis \in {disk.genesis, None}
        /\ \A n \in Dirs : disk'.dirs[n] \in {disk.dirs[n], None}
    <2>1. CASE \E file \in {"genesis", "yaml", "ini", "compose"} :
                 disk[file] # None /\ disk' = [disk EXCEPT ![file] = None]
      BY <1>1, <2>1 DEF Disk
    <2>2. CASE \E n \in Dirs :
                 disk.dirs[n] # None /\ disk' = [disk EXCEPT !.dirs[n] = None]
      BY <1>1, <2>2 DEF Disk
    <2>3. QED
      BY <2>1, <2>2 DEF Delete
  <1>4. CASE disk.ini \notin Configs
    <2>1. disk'.ini \notin Configs
      BY <1>3, <1>4, NoneIsAbsence
    <2>2. QED
      BY <1>2, <1>4, <2>1 DEF DevnetShown, DirectoryStep, Directory!vars
  <1>5. CASE disk.ini \in Configs /\ disk'.ini \notin Configs
    <2>1. DevnetShown' = None
      BY <1>5 DEF DevnetShown
    <2>2. CASE DevnetShown = None
      BY <1>2, <2>1, <2>2 DEF DirectoryStep, Directory!vars
    <2>3. CASE DevnetShown # None
      BY <1>2, <2>1, <2>3 DEF DirectoryStep, Directory!Next, Directory!Retract
    <2>4. QED
      BY <2>2, <2>3
  <1>6. CASE disk.ini \in Configs /\ disk'.ini \in Configs
    <2>1. disk'.ini = disk.ini
      BY <1>3, <1>6, NoneIsAbsence
    <2>2. Ready(disk.ini)' => Ready(disk.ini)
      <3>1. ASSUME NEW c \in Configs, Ready(c)'
            PROVE  Ready(c)
        <4>1. disk'.genesis \in Genesis
          BY <3>1, ReadyIsReadyDirs DEF Ready
        <4>2. disk'.genesis = disk.genesis
          BY <1>3, <4>1, NoneIsAbsence
        <4>3. \A n \in Dirs : Has(n)' => disk'.dirs[n] = disk.dirs[n] /\ Has(n)
          BY <1>3 DEF Has
        <4>4. QED
          BY <3>1, <4>2, <4>3, ReadyBefore
      <3>2. \A c \in Configs : c = disk.ini => (Ready(disk.ini)' => Ready(disk.ini))
        BY <2>1, <3>1
      <3>3. QED
        BY <1>6, <3>2
    <2>3. CASE Ready(disk.ini)' <=> Ready(disk.ini)
      <3>1. DevnetShown' = DevnetShown
        BY <1>6, <2>1, <2>3 DEF DevnetShown
      <3>2. QED
        BY <1>2, <3>1 DEF DirectoryStep, Directory!vars
    <2>4. CASE Ready(disk.ini) /\ ~Ready(disk.ini)'
      <3>1. /\ DevnetShown = [cfg |-> disk.ini, state |-> "whole"]
            /\ DevnetShown' = [cfg |-> disk.ini, state |-> "broken"]
        BY <1>6, <2>1, <2>4 DEF DevnetShown
      <3>2. DevnetShown \in Directory!Devnets
        BY <1>6, <3>1 DEF Directory!Devnets, Directory!Showing
      <3>3. Directory!Retract
        BY <1>2, <3>1, <3>2, NoneIsNobody DEF Directory!Retract, Directory!Showing
      <3>4. QED
        BY <3>3 DEF DirectoryStep, Directory!Next
    <2>5. QED
      BY <2>2, <2>3, <2>4
  <1>7. QED
    BY <1>4, <1>5, <1>6

LEMMA DeletedShows ==
    ASSUME IInv, IInv', Deleted \/ KillDeleted
    PROVE  DirectoryStep
  <1>1. /\ job.pc = "clear" /\ job.op = "init" /\ disk = EmptyDisk
        /\ job \in Job /\ job.cfg \in Configs
    BY ClearingInit DEF Deleted, KillDeleted, IInv, TypeOK, JobAt
  <1>2. disk.ini = None /\ disk'.ini = None
    BY <1>1 DEF Deleted, KillDeleted, EmptyDisk
  <1>3. DevnetShown = None /\ DevnetShown' = None
    BY <1>2, ShownNowhere
  <1>4. InitAtWork # None /\ InitAtWork.stage = "clearing" /\ InitAtWork.cfg = job.cfg
    <2>1. StageOf(job.pc) = "clearing"
      BY <1>1 DEF StageOf
    <2>2. QED
      BY <1>1, <2>1, AtWork
  <1>5. CASE Deleted
    <2>1. job'.pc = "xtask" /\ job'.op = "init" /\ job'.cfg = job.cfg
      BY <1>1, <1>5 DEF Deleted, Goto, Job
    <2>2. InitAtWork' = [cfg |-> job.cfg, stage |-> "building"]
      BY <2>1 DEF InitAtWork, StageOf
    <2>3. QED
      BY <1>3, <1>4, <2>2
         DEF DirectoryStep, Directory!Next, Directory!Retracted, Directory!At
  <1>6. CASE KillDeleted
    <2>1. job'.pc = "idle"
      BY <1>1, <1>6 DEF KillDeleted, End, Job
    <2>2. QED
      BY <1>1, <1>3, <2>1, JobStops
  <1>7. QED
    BY <1>5, <1>6

-----------------------------------------------------------------------------
(* The devnet is built, and shows *)

\* Where a step leads to, whatever it writes.
LEMMA JobMoves ==
    ASSUME TypeOK, NEW step \in Steps \cup {"idle"}, NEW bound,
           Goto(step) \/ Iterate(bound, step)
    PROVE  job'.op = job.op /\ job'.cfg = job.cfg /\ job'.pc \in {job.pc, step}
  BY DEF TypeOK, Job, Goto, Iterate, End

LEMMA JobEnds ==
    ASSUME TypeOK, NEW result, End(result)
    PROVE  job'.op = job.op /\ job'.cfg = job.cfg /\ job'.pc = "idle"
  BY DEF TypeOK, Job, End

LEMMA LayoutShows ==
    ASSUME IInv, Entries \subseteq {"init", "compose"},
           Xtask \/ XtaskFails \/ Sweep \/ Rename \/ RenameRaises \/ Renamed
    PROVE  DirectoryStep
  <1>1. job.pc \in BuildSteps /\ TypeOK /\ disk \in Disk /\ job \in Job
    BY DEF Xtask, XtaskFails, Sweep, Rename, RenameRaises, Renamed, BuildSteps,
       IInv, TypeOK
  <1>2. job.op = "init"
    BY <1>1, WhoseStep DEF BuildSteps
  <1>3. CASE Xtask \/ XtaskFails
    <2>1. EmptyDisk \in Disk /\ EmptyDisk.ini = None
      BY DEF EmptyDisk, Disk, GenesisFile
    <2>2. KeptByXtask \subseteq {disk, EmptyDisk}
      BY DEF KeptByXtask
    <2>3. ASSUME NEW kept \in KeptByXtask, NEW which, NEW genesis,
                 \/ disk' = Made(kept, which)
                 \/ disk' = [Made(kept, which) EXCEPT !.genesis = genesis]
          PROVE  disk'.ini \in {disk.ini, None}
      <3>1. kept \in Disk /\ kept.ini \in {disk.ini, None}
        BY <1>1, <2>1, <2>2
      <3>2. Made(kept, which).ini = kept.ini
        BY <3>1 DEF Made, Disk
      <3>3. disk'.ini = kept.ini
        BY <2>3, <3>1, <3>2 DEF Made, Disk
      <3>4. QED
        BY <3>1, <3>3
    <2>4. disk'.ini \in {disk.ini, None}
      BY <1>3, <2>3 DEF Xtask, XtaskFails
    <2>5. job'.op = job.op /\ job'.cfg = job.cfg /\ job'.pc \in BuildSteps \cup {"idle"}
      BY <1>1, <1>3 DEF Xtask, XtaskFails, Goto, End, Job, BuildSteps
    <2>6. QED
      BY <1>1, <2>4, <2>5, BuildStep
  <1>4. CASE Sweep \/ Rename
    <2>1. disk'.ini = disk.ini
      BY <1>1, <1>4 DEF Sweep, SweepTempo, SweepAllegro, Rename, Disk
    <2>2. job'.op = job.op /\ job'.cfg = job.cfg /\ job'.pc \in {job.pc, "rename"}
      BY <1>1, <1>4
         DEF Sweep, SweepTempo, SweepAllegro, Rename, Iterate, Goto, Job
    <2>3. QED
      BY <1>1, <2>1, <2>2, BuildStep DEF BuildSteps
  <1>5. CASE RenameRaises
    BY <1>1, <1>5, JobEnds, BuildStep DEF RenameRaises, Raise
  <1>6. CASE Renamed
    <2>1. job'.op = job.op /\ job'.cfg = job.cfg /\ job'.pc = "yaml"
      BY <1>1, <1>2, <1>6, AfterSteps DEF Renamed, Goto, Job
    <2>2. QED
      BY <1>1, <1>6, <2>1, BuildStep DEF Renamed, BuildSteps
  <1>7. QED
    BY <1>3, <1>4, <1>5, <1>6

LEMMA ConfigShows ==
    ASSUME IInv, Entries \subseteq {"init", "compose"},
           \/ WriteYaml \/ PatchGenesis \/ PatchRaises
           \/ CopyGenesis \/ CopyNothing \/ CopyRaises
           \/ WriteProgram \/ ProgramRaises
    PROVE  DirectoryStep
  <1>1. job.pc \in {"yaml", "patch", "copy", "programs"} /\ TypeOK /\ disk \in Disk
    BY DEF WriteYaml, PatchGenesis, PatchRaises, CopyGenesis, CopyNothing, CopyRaises,
       WriteProgram, ProgramRaises, IInv, TypeOK
  <1>2. disk'.ini = disk.ini
    BY <1>1 DEF WriteYaml, PatchGenesis, PatchRaises, CopyGenesis, CopyNothing,
       CopyRaises, WriteProgram, ProgramRaises, Raise, Disk
  <1>3. job'.op = job.op /\ job'.cfg = job.cfg /\ job'.pc \in BuildSteps \cup {"idle"}
    <2>1. After(job.pc) \in BuildSteps \cup {"idle"} /\ After(job.pc) \in Steps \cup {"idle"}
      BY <1>1, AfterSteps DEF BuildSteps, AfterRename
    <2>2. CASE Goto(After(job.pc)) \/ Iterate(Len(job.cfg.validators), After(job.pc))
      BY <1>1, <2>1, <2>2, JobMoves DEF BuildSteps
    <2>3. CASE Raise
      BY <1>1, <2>3, JobEnds DEF Raise
    <2>4. QED
      BY <2>2, <2>3 DEF WriteYaml, PatchGenesis, PatchRaises, CopyGenesis, CopyNothing,
         CopyRaises, WriteProgram, ProgramRaises
  <1>4. QED
    BY <1>1, <1>2, <1>3, BuildStep DEF BuildSteps

\* Everything that start needs is there when supervisord.ini is written.
LEMMA WriteIniShows ==
    ASSUME IInv, IInv', Entries \subseteq {"init", "compose"}, WriteIni
    PROVE  DirectoryStep
  <1>1. /\ job.pc = "ini" /\ disk' = [disk EXCEPT !.ini = job.cfg]
        /\ Goto(After(job.pc)) /\ disk \in Disk /\ TypeOK
    BY DEF WriteIni, IInv, TypeOK
  <1>2. job.op = "init" /\ job.cfg \in Configs
    BY <1>1, WhoseStep DEF BuildSteps, IInv, JobAt
  <1>3. DevnetShown = None
    BY <1>1, <1>2, BuildingIsBare, ShownNowhere DEF BuildSteps
  <1>4. disk'.ini = job.cfg /\ disk'.genesis = disk.genesis /\ SameDirs
    BY <1>1, <1>2 DEF Disk, SameDirs
  <1>5. SameKeys /\ SameCopies /\ SameScripts
    BY <1>4, DirsStay DEF SameDirs, SameCopies, SameScripts
  <1>6. Ready(job.cfg)
    BY <1>1, <1>2, InitReady DEF Past, AfterPrograms, AfterCopy, AfterPatch, AfterYaml,
       AfterRename
  <1>7. \A c \in Configs : c = job.cfg => Ready(c)'
    BY <1>4, <1>5, <1>6, ReadyStays
  <1>8. \A c \in Configs : c = disk'.ini => Ready(disk.ini)'
    BY <1>4, <1>7
  <1>9. DevnetShown' = [cfg |-> job.cfg, state |-> "whole"]
    BY <1>2, <1>4, <1>8 DEF DevnetShown
  <1>10. InitAtWork # None /\ InitAtWork.stage = "building" /\ InitAtWork.cfg = job.cfg
    <2>1. StageOf(job.pc) = "building"
      BY <1>1 DEF StageOf
    <2>2. QED
      BY <1>1, <1>2, <2>1, AtWork
  <1>11. /\ job'.op = "init" /\ job'.cfg = job.cfg
         /\ job'.pc \in {"dockerRun", "idle"}
    BY <1>1, <1>2, AfterSteps DEF Goto, End, TypeOK, Job
  <1>12. InitAtWork' \in {None, [cfg |-> job.cfg, stage |-> "done"]}
    BY <1>11 DEF InitAtWork, StageOf
  <1>13. Directory!Publish
    BY <1>3, <1>9, <1>10, <1>12
       DEF Directory!Publish, Directory!Showing, Directory!At
  <1>14. QED
    BY <1>13 DEF DirectoryStep, Directory!Next

\* The script of docker mode is none of those that Ready reads.
LEMMA DockerRunKeepsDir ==
    ASSUME IInv, WriteDockerRun
    PROVE  /\ disk'.ini = disk.ini /\ disk'.genesis = disk.genesis
           /\ SameKeys /\ SameCopies /\ SameScripts
  <1> DEFINE n == MonikerOf(job.i)
             d == disk'.dirs[n]
  <1>1. /\ job.pc = "dockerRun" /\ disk.dirs[n] # None
        /\ disk' = [disk EXCEPT !.dirs[MonikerOf(job.i)].dockerRun =
             [index |-> job.i, peers |-> Peers \ {disk.dirs[MonikerOf(job.i)].keys}]]
    BY DEF WriteDockerRun
  <1>2. /\ job.op # "none" /\ job.i \in Validators /\ disk \in Disk
        /\ \A i \in Validators : MonikerOf(i) \in Dirs
        /\ Validators \subseteq DOMAIN DockerAddrs
    BY <1>1, JobTypes DEF IInv, JobAt, TypeOK
  <1>3. n \in Dirs /\ Has(n) /\ disk.dirs[n] \in Dir
    BY <1>1, <1>2 DEF Disk, Has
  <1>4. PICK script \in Script :
          disk' = [disk EXCEPT !.dirs[n].dockerRun = script]
    <2>1. [index |-> job.i, peers |-> Peers \ {disk.dirs[n].keys}] \in Script
      BY <1>2, PeersType DEF Script, IInv
    <2>2. QED
      BY <1>1, <2>1
  <1> HIDE DEF n
  <1>5. /\ d = [disk.dirs[n] EXCEPT !.dockerRun = script]
        /\ \A m \in Dirs : m # n => disk'.dirs[m] = disk.dirs[m]
        /\ disk'.ini = disk.ini /\ disk'.genesis = disk.genesis
    BY <1>2, <1>3, <1>4 DEF Disk
  <1>6. /\ d \in Dir /\ d.keys = disk.dirs[n].keys /\ d.genesis = disk.dirs[n].genesis
        /\ d.run = disk.dirs[n].run /\ d.secret = disk.dirs[n].secret
    BY <1>3, <1>5 DEF Dir
  <1>7. disk'.dirs[n] # None
    BY <1>6, NoneIsAbsence
  <1>8. QED
    BY <1>3, <1>5, <1>6, <1>7 DEF SameKeys, SameCopies, SameScripts, KeysOf, Has

LEMMA ComposeShows ==
    ASSUME IInv, Entries \subseteq {"init", "compose"},
           WriteDockerRun \/ DockerRunRaises \/ WriteCompose
    PROVE  DirectoryStep
  <1>1. job.pc \in {"dockerRun", "compose"} /\ TypeOK /\ disk \in Disk
    BY DEF WriteDockerRun, DockerRunRaises, WriteCompose, IInv, TypeOK
  <1>2. DevnetShown' = DevnetShown
    <2>1. CASE WriteDockerRun
      BY <2>1, DockerRunKeepsDir, ShownStays
    <2>2. CASE DockerRunRaises
      BY <2>2, SameShown DEF DockerRunRaises, Raise, SameDirs
    <2>3. CASE WriteCompose
      BY <1>1, <2>3, SameShown DEF WriteCompose, SameDirs, Disk
    <2>4. QED
      BY <2>1, <2>2, <2>3
  <1>3. /\ job'.op = job.op /\ job'.cfg = job.cfg
        /\ job'.pc \in {"dockerRun", "compose", "idle"}
    <2>1. After(job.pc) \in {"compose", "idle"} /\ After(job.pc) \in Steps \cup {"idle"}
      BY <1>1, AfterSteps DEF AfterRename
    <2>2. CASE Goto(After(job.pc)) \/ Iterate(Len(job.cfg.validators), After(job.pc))
      BY <1>1, <2>1, <2>2, JobMoves
    <2>3. CASE Raise
      BY <1>1, <2>3, JobEnds DEF Raise
    <2>4. QED
      BY <2>2, <2>3 DEF WriteDockerRun, DockerRunRaises, WriteCompose
  <1>4. CASE job'.pc = "idle"
    BY <1>1, <1>2, <1>4, JobStops
  <1>5. CASE job'.pc # "idle"
    <2>1. StageOf(job.pc) = "done" /\ StageOf(job'.pc) = "done"
      BY <1>1, <1>3, <1>5 DEF StageOf
    <2>2. QED
      BY <1>1, <1>2, <1>3, <1>5, <2>1, JobGoesOn
  <1>6. QED
    BY <1>4, <1>5

LEMMA KillShows ==
    ASSUME IInv, Entries \subseteq {"init", "compose"}, Kill
    PROVE  DirectoryStep
  <1>1. job.pc # "idle" /\ disk \in Disk /\ TypeOK
    BY DEF Kill, IInv, TypeOK
  <1>2. job'.op = job.op /\ job'.cfg = job.cfg /\ job'.pc = "idle"
    BY <1>1, JobEnds DEF Kill
  <1>3. CASE job.pc \in BuildSteps
    <2>1. disk'.ini \in {disk.ini, Torn}
      BY <1>1 DEF Kill, Disk
    <2>2. QED
      BY <1>2, <1>3, <2>1, BuildStep
  <1>4. CASE job.pc \notin BuildSteps
    <2>1. disk'.ini = disk.ini /\ disk'.genesis = disk.genesis /\ SameDirs
      BY <1>1, <1>4 DEF Kill, Disk, SameDirs, BuildSteps
    <2>2. QED
      BY <1>1, <1>2, <2>1, SameShown, JobStops
  <1>5. QED
    BY <1>3, <1>4

-----------------------------------------------------------------------------
(* The refinement *)

LEMMA InitShows == Init => Directory!Init
  <1> SUFFICES ASSUME Init
               PROVE  Directory!Init
    OBVIOUS
  <1>1. disk.ini = None /\ job.op = "none"
    BY DEF Init, EmptyDisk
  <1>2. QED
    BY <1>1, ShownNowhere DEF Directory!Init, InitAtWork

LEMMA StepShows ==
    ASSUME IInv, IInv', Entries \subseteq {"init", "compose"}, [Next]_vars
    PROVE  DirectoryStep
  <1>1. ASSUME NEW cfg \in Configs, NEW force \in BOOLEAN, NEW docker \in BOOLEAN,
               \/ CallInit(cfg, force, docker) \/ CallLocalnet(cfg, docker)
               \/ CallSupervisor(cfg, force) \/ CallCompose(cfg, force)
        PROVE  DirectoryStep
    BY <1>1, CallShows
  <1>2. CASE Delete \/ Deleted \/ KillDeleted
    BY <1>2, DeleteShows, DeletedShows
  <1>3. CASE Xtask \/ XtaskFails \/ Sweep \/ Rename \/ RenameRaises \/ Renamed
    BY <1>3, LayoutShows
  <1>4. CASE \/ WriteYaml \/ PatchGenesis \/ PatchRaises
             \/ CopyGenesis \/ CopyNothing \/ CopyRaises
             \/ WriteProgram \/ ProgramRaises
    BY <1>4, ConfigShows
  <1>5. CASE WriteIni
    BY <1>5, WriteIniShows
  <1>6. CASE WriteDockerRun \/ DockerRunRaises \/ WriteCompose
    BY <1>6, ComposeShows
  <1>7. CASE Kill
    BY <1>7, KillShows
  <1>8. CASE UNCHANGED vars
    <2>1. disk' = disk /\ job' = job
      BY <1>8 DEF vars
    <2>2. DevnetShown' = DevnetShown
      BY <2>1, SameShown DEF SameDirs
    <2>3. InitAtWork' = InitAtWork
      BY <2>1 DEF InitAtWork, StageOf
    <2>4. QED
      BY <2>2, <2>3 DEF DirectoryStep, Directory!vars
  <1>9. QED
    BY <1>1, <1>2, <1>3, <1>4, <1>5, <1>6, <1>7, <1>8 DEF Next

\* Where only init and the compose generator write, init implements
\* DevnetDirectory: over any failures and kills, and whatever earlier runs left, a
\* devnet shows in one step and whole, and only an init that replaces it takes it
\* away.
THEOREM DevnetShowsWhole ==
  ASSUME Entries \subseteq {"init", "compose"}
  PROVE  Spec => ImplementsDirectory
  <1>1. IInv /\ IInv' /\ [Next]_vars => [Directory!Next]_(Directory!vars)
    BY StepShows DEF DirectoryStep
  <1>2. Spec => [][Directory!Next]_(Directory!vars)
    BY <1>1, SpecIInv, PTL DEF Spec
  <1>3. QED
    BY <1>2, InitShows, PTL DEF ImplementsDirectory, Directory!Spec, Spec
=============================================================================
