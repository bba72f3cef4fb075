---------------------------- MODULE Experiments -----------------------------
(***************************************************************************)
(* The gem5art launch scripts: each registers its artifacts, creates a run *)
(* for every combination of its loops, and hands it to the Celery server   *)
(* or to a pool of processes of its own.  The script may be killed and     *)
(* started again, and files may be rebuilt at any time, while earlier jobs *)
(* wait or run.                                                            *)
(*                                                                         *)
(* gem5art, Celery and its queue, and the simulator are external, modelled *)
(* from what the scripts pass to them and what the gem5art pages promise.  *)
(***************************************************************************)
EXTENDS Integers, FiniteSets, SequencesExt

CONSTANTS Workers,      \* processes of the Celery server or of the pool
          Microbench,   \* bench.X86 of each directory that os.listdir('microbench') finds
          ListLimit,    \* bound: entries used of a list that a script loops over
          InnerLimit,   \* bound: the same for the loops inside
          MaxStarts,    \* bound: times the script is started
          MaxChanges    \* bound: files rebuilt in a behaviour

ASSUME ListAssumption == ListLimit \in Nat /\ InnerLimit \in Nat /\ MaxStarts \in Nat /\ MaxChanges \in Nat
ASSUME MicrobenchAssumption ==   \* no other artifact lies below microbench/
    /\ IsFiniteSet(Microbench)
    /\ Microbench \cap {"experiments_repo", "gem5_repo", "gem5_binary"} = {}
    /\ Microbench \cap {"./", "gem5/", "gem5/build/X86/gem5.opt"} = {}

VARIABLES config,       \* the script, where the server was started, when runs are stored
          files,        \* version of each file of the workspace, 0 if missing
          starts, pc, next,  \* starts so far, stage of the script, position in its loops
          registered,   \* version of each artifact variable, for each start
          queue,        \* jobs waiting in the broker or for the pool
          jobs,         \* what each process does
          db            \* hashes of the runs in the database

script == <<starts, pc, next, registered>>
vars == <<config, files, script, queue, jobs, db>>
---------------------------------------------------------------------------
(* The artifacts in the order of registration: variable, path, inputs. *)
Artifact(name, path, inputs) == [name |-> name, path |-> path, inputs |-> inputs]

SPEC2006Image == "disk-image/spec2006/spec2006-image/spec2006"
SPEC2006Artifacts ==
    << Artifact("experiments_repo", "./", {}),
       Artifact("gem5_repo", "gem5/", {}),
       Artifact("gem5_binary", "gem5/build/X86/gem5.opt", {"gem5_repo"}),
       Artifact("m5_binary", "gem5/util/m5/m5", {"gem5_repo"}),
       Artifact("packer", "disk-image/packer", {}),
       Artifact("disk_image", SPEC2006Image, {"packer", "experiments_repo", "m5_binary"}),
       Artifact("linux_repo", "linux-4.19.83", {}),
       Artifact("linux_binary", "linux-4.19.83/vmlinux-4.19.83", {"experiments_repo", "linux_repo"}),
       Artifact("run_script_repo", "gem5-configs", {}) >>

First(n, list) == SubSeq(list, 1, IF Len(list) < n THEN Len(list) ELSE n)
Entries(list) == First(ListLimit, list)

(* launch_boot_tests.py: a gem5 for each memory system, a kernel for each  *)
(* version of Linux.  A version stands for its kernel and the path of it.  *)
Linuxes == First(InnerLimit, <<"5.4.49", "4.19.83", "4.14.134", "4.9.186", "4.4.186">>)
BootImage == "disk-image/boot-exit/boot-exit-image/boot-exit"
BootArtifacts ==
    << Artifact("packer", "disk-image/packer", {}),
       Artifact("experiments_repo", "./", {}),
       Artifact("gem5_repo", "gem5/", {}),
       Artifact("m5_binary", "gem5/util/m5/build/x86/out/m5", {"gem5_repo"}),
       Artifact("disk_image", BootImage, {"packer", "experiments_repo", "m5_binary"}),
       Artifact("gem5_binary", "gem5/build/X86/gem5.opt", {"gem5_repo"}),
       Artifact("gem5_binary_MESI_Two_Level", "gem5/build/X86_MESI_Two_Level/gem5.opt", {"gem5_repo"}),
       Artifact("gem5_binary_MOESI_CMP_directory", "gem5/build/X86_MOESI_CMP_directory/gem5.opt", {"gem5_repo"}),
       Artifact("linux_repo", "linux-stable/", {}) >>
    \o [i \in DOMAIN Linuxes |-> Artifact(Linuxes[i], Linuxes[i], {"experiments_repo", "linux_repo"})]

MicrobenchmarkArtifactsEarly ==   \* mutant
    << Artifact("experiments_repo", "./", {}),
       Artifact("m5_binary", "gem5/util/m5/m5", {"gem5_repo"}),
       Artifact("gem5_repo", "gem5/", {}),
       Artifact("gem5_binary", "gem5/build/X86/gem5.opt", {"gem5_repo"}) >>
MicrobenchmarkArtifacts ==   \* the packer, the disk image and the kernels are commented out
    << Artifact("experiments_repo", "./", {}),
       Artifact("gem5_repo", "gem5/", {}),
       Artifact("m5_binary", "gem5/util/m5/m5", {"gem5_repo"}),
       Artifact("gem5_binary", "gem5/build/X86/gem5.opt", {"gem5_repo"}) >>

Bench == SetToSeq(Microbench)   \* in the order of os.listdir, which is any

MicroTestsArtifacts ==       \* each microbenchmark is an artifact, but of no run
    << Artifact("experiments_repo", "./", {}),
       Artifact("gem5_repo", "gem5/", {}),
       Artifact("gem5_binary", "gem5/build/X86/gem5.opt", {"gem5_repo"}) >>
    \o [i \in DOMAIN Bench |-> Artifact(Bench[i], Bench[i], {"experiments_repo"})]

Artifacts ==
    CASE config.script = "spec2006" -> SPEC2006Artifacts
      [] config.script = "boot_tests" -> BootArtifacts
      [] config.script = "microbenchmark" -> MicrobenchmarkArtifacts
      [] config.script = "micro_tests" -> MicroTestsArtifacts
---------------------------------------------------------------------------
(* The runs in the order of the loops.  uses: what the simulator reads,    *)
(* the run script by its repository.                                       *)
CPUs == Entries(<<"kvm", "atomic", "o3", "timing">>)
Sizes(cpu) == IF cpu = "kvm" THEN Entries(<<"test", "ref">>) ELSE <<"test">>

FSArtifactsNoImage == {"gem5_binary", "gem5_repo", "run_script_repo", "linux_binary"}   \* mutant
FSArtifacts == {"gem5_binary", "gem5_repo", "run_script_repo", "linux_binary", "disk_image"}
NoTimeout == 0             \* mutant
Timeout == 5 * 24 * 60     \* in minutes

SPEC2006OutdirNoCPU(cpu, size, bm) == <<size, bm>>   \* mutant
SPEC2006Outdir(cpu, size, bm) == <<cpu, size, bm>>
SPEC2006Run(cpu, size, bm) ==
    [ outdir    |-> SPEC2006Outdir(cpu, size, bm),
      artifacts |-> FSArtifacts,
      params    |-> <<cpu, bm, size>>,
      uses      |-> {"gem5/build/X86/gem5.opt", "gem5-configs", "linux-4.19.83/vmlinux-4.19.83", SPEC2006Image},
      timeout   |-> Timeout ]

Loop(list, Body(_)) == FlattenSeq([i \in 1 .. Len(list) |-> Body(list[i])])

SPEC2006Runs ==
    Loop(CPUs, LAMBDA cpu : Loop(Sizes(cpu), LAMBDA size :
        [bm \in 1 .. InnerLimit |-> SPEC2006Run(cpu, size, bm)]))

(* createRun of launch_boot_tests.py, and the product of its lists.  The   *)
(* path of the third gem5 is not the one it was registered with.           *)
BootBinary == [MI_example          |-> <<"gem5_binary", "gem5/build/X86/gem5.opt">>,
               MESI_Two_Level      |-> <<"gem5_binary_MESI_Two_Level", "gem5/build/X86_MESI_Two_Level/gem5.opt">>,
               MOESI_CMP_directory |-> <<"gem5_binary_MOESI_CMP_directory", "gem5/build/MOESI_CMP_directory/gem5.opt">>]
BootRun(version, cpu, num, mem) ==
    [ outdir    |-> <<version, cpu, mem, num>>,
      artifacts |-> {BootBinary[mem][1], "gem5_repo", "experiments_repo", version, "disk_image"},
      params    |-> <<cpu, mem, num>>,
      uses      |-> {BootBinary[mem][2], "./", version, BootImage},
      timeout   |-> 24 * 60 ]

BootRuns ==
    Loop(Linuxes, LAMBDA version : Loop(First(InnerLimit, <<"kvm", "atomic", "simple", "o3">>), LAMBDA cpu :
        Loop(First(InnerLimit, <<1, 2, 4, 8>>), LAMBDA num :
            Loop(<<"MI_example", "MESI_Two_Level", "MOESI_CMP_directory">>, LAMBDA mem :
                <<BootRun(version, cpu, num, mem)>>))))

(* createSERun without a timeout: gem5art's default of 15 minutes. *)
MicroRun(bm, cpu, mem) ==
    [ outdir    |-> <<bm, cpu, mem>>,
      artifacts |-> {"gem5_binary", "gem5_repo", "experiments_repo"},
      params    |-> <<cpu, mem, bm>>,
      uses      |-> {"gem5/build/X86/gem5.opt", "./", Bench[bm]},
      timeout   |-> 15 ]

MicroTestsRuns ==
    Loop([i \in DOMAIN Bench |-> i], LAMBDA bm : Loop(First(InnerLimit, <<"TimingSimple", "DerivO3">>), LAMBDA cpu :
        Loop(First(InnerLimit, <<"Inf", "SingleCycle", "Slow">>), LAMBDA mem :
            <<MicroRun(bm, cpu, mem)>>)))

(* The runs that are created: none by launch_microbenchmark.py. *)
Runs ==
    CASE config.script = "spec2006" -> SPEC2006Runs
      [] config.script = "boot_tests" -> BootRuns
      [] config.script = "microbenchmark" -> <<>>
      [] config.script = "micro_tests" -> MicroTestsRuns

(* createSERun and createFSRun take four strings, name, gem5_binary,       *)
(* run_script and outdir, before the first Artifact.  microbenchmark gives *)
(* neither a name nor an outdir, so that an Artifact arrives as run_script *)
(* and the names of cpu and memory as Artifacts.                           *)
StringsRequired == 4
StringsGiven == [spec2006 |-> 4, boot_tests |-> 4, microbenchmark |-> 2, micro_tests |-> 4]
CallFits == StringsGiven[config.script] = StringsRequired

(* run_gem5_instance.apply_async((run,)), with os.getcwd() as second       *)
(* argument in micro_tests only; boot_tests lists the runs for a pool.     *)
Pools == {"boot_tests"}
PassesDirectoryNever == {}   \* mutant
PassesDirectory == {"micro_tests"}
---------------------------------------------------------------------------
(* A job is a start of the script and a place in its list of runs.  What   *)
(* identifies its run in the database: the parameters and the artifacts.   *)
Run(job) == Runs[job[2]]
PathOf(name) == LET k == CHOOSE k \in DOMAIN Artifacts : Artifacts[k].name = name IN Artifacts[k].path
Recorded(job) == {<<PathOf(name), registered[job[1]][name]>> : name \in Run(job).artifacts}
RunHash(job) == <<Run(job).params, Recorded(job)>>

Config(scripts, servers) ==
    [script : scripts,
     server : servers,             \* where the Celery server was started
     stores : {"begin", "end"}]    \* when run() stores the run
Configs == Config({"spec2006", "micro_tests"}, {"workspace", "elsewhere"})
           \cup Config({"microbenchmark", "boot_tests"}, {"none"})
Paths == {Artifacts[k].path : k \in DOMAIN Artifacts} \cup UNION {Runs[k].uses : k \in DOMAIN Runs}
Ended == {"Failed artifact check", "in database"}  \* without a simulation
Idle == [status |-> "idle"]
Free(p) == jobs[p].status \in Ended \cup {"idle"}

Init ==
    /\ config \in Configs
    /\ \E missing \in {{}} \cup {{p} : p \in Paths} : files = [p \in Paths |-> IF p \in missing THEN 0 ELSE 1]
    /\ starts = 0 /\ pc = "stopped" /\ next = 1 /\ registered = <<>>
    /\ queue = <<>>
    /\ jobs = [w \in Workers |-> Idle]
    /\ db = {}

(* The script registers its artifacts one after the other: the inputs of   *)
(* each must be variables it has assigned before, and the hash recorded is *)
(* that of the file, which must be there.  It is one action because each   *)
(* file is read once: a change between two registrations is like one       *)
(* before or after them all.                                               *)
Fails(k) == \/ files[Artifacts[k].path] = 0
            \/ ~(Artifacts[k].inputs \subseteq {Artifacts[i].name : i \in 1 .. k - 1})

Start ==
    /\ pc \in {"stopped", "error", "failed"}
    /\ starts < MaxStarts
    /\ starts' = starts + 1
    /\ registered' = Append(registered, [n \in {Artifacts[k].name : k \in DOMAIN Artifacts} |-> files[PathOf(n)]])
    /\ LET failing == {k \in DOMAIN Artifacts : Fails(k)}
       IN  IF failing = {}
           THEN pc' = "launch" /\ next' = 1
           ELSE pc' = "error" /\ next' = Min(failing)
    /\ UNCHANGED <<config, files, queue, jobs, db>>

(* run() begins: a run that is in the database is not run again. *)
Begin(p, job) ==
    LET known == RunHash(job) \in db
    IN  /\ jobs' = [jobs EXCEPT ![p] = [job |-> job, status |-> IF known THEN "in database" ELSE "Begin run",
                                        seen |-> {}, used |-> {}]]
        /\ db' = IF ~known /\ config.stores = "begin" THEN db \cup {RunHash(job)} ELSE db

(* One turn of the loops: the run goes to the queue or the pool's list. *)
Launch ==
    /\ pc = "launch" /\ CallFits
    /\ next <= Len(Runs)
    /\ queue' = Append(queue, <<starts, next>>)
    /\ next' = next + 1
    /\ UNCHANGED <<config, files, starts, pc, registered, jobs, db>>

(* The first turn of the loops makes a call that cannot create a run, and  *)
(* ends the script.                                                        *)
CallFails ==
    /\ pc = "launch" /\ ~CallFits
    /\ pc' = "failed"
    /\ UNCHANGED <<config, files, starts, next, registered, queue, jobs, db>>

Launched ==
    /\ pc = "launch" /\ CallFits
    /\ next > Len(Runs)
    /\ pc' = IF config.script \in Pools THEN "map" ELSE "stopped"
    /\ next' = 1
    /\ UNCHANGED <<config, files, starts, registered, queue, jobs, db>>

(* pool.map(worker, jobs) returns. *)
Mapped ==
    /\ pc = "map"
    /\ queue = <<>> /\ \A w \in Workers : Free(w)
    /\ pc' = "stopped"
    /\ UNCHANGED <<config, files, starts, next, registered, queue, jobs, db>>

(* The script is killed, with the processes of its pool or without them:   *)
(* then they finish their runs but take no other.                          *)
Kill ==
    /\ pc \in {"launch", "map"}
    /\ pc' = "stopped" /\ next' = 1
    /\ \E left \in {Workers} \cup (IF config.script \in Pools THEN {{}} ELSE {}) :
          jobs' = [p \in DOMAIN jobs |-> IF p \in left THEN jobs[p] ELSE Idle]
    /\ queue' = IF config.script \in Pools THEN <<>> ELSE queue
    /\ UNCHANGED <<config, files, starts, registered, db>>

(* A process takes the next job. *)
Take(w) ==
    /\ queue # <<>> /\ Free(w)
    /\ config.script \in Pools => pc = "map"
    /\ Begin(w, Head(queue))
    /\ queue' = Tail(queue)
    /\ UNCHANGED <<config, files, script>>
---------------------------------------------------------------------------
(* run(): the artifacts are checked in the directory of the job, the       *)
(* simulator is spawned there, and its exit or the timeout ends the run.   *)
InWorkspace(p) == \/ config.server \in {"none", "workspace"}
                  \/ config.script \in PassesDirectory
Contents(job) == {<<path, files[path]>> : path \in Run(job).uses}

Proceed(p, status) == jobs' = [jobs EXCEPT ![p].status = status]

CheckArtifacts(p) ==
    LET job == jobs[p].job
        matches == InWorkspace(p) /\ \A a \in Recorded(job) : files[a[1]] = a[2]
    IN  /\ jobs[p].status = "Begin run"
        /\ IF matches
           THEN jobs' = [jobs EXCEPT ![p].status = "Spawning", ![p].seen = Contents(job)]
           ELSE Proceed(p, "Failed artifact check")
        /\ UNCHANGED <<config, files, script, queue, db>>

Spawn(p) ==
    /\ jobs[p].status = "Spawning"
    /\ jobs' = [jobs EXCEPT ![p].status = "Running", ![p].used = Contents(jobs[p].job)]
    /\ UNCHANGED <<config, files, script, queue, db>>

(* The exit code makes the run Finished or Failed, which nothing here reads. *)
End(p) ==
    /\ jobs[p].status = "Running"
    /\ jobs' = [jobs EXCEPT ![p] = Idle]
    /\ db' = db \cup {RunHash(jobs[p].job)}
    /\ UNCHANGED <<config, files, script, queue>>

Exit(p) == End(p)
TimeOut(p) == jobs[p].status = "Running" /\ Run(jobs[p].job).timeout > 0 /\ End(p)

(* Somebody builds a file again, or checks out another commit. *)
Rebuild(path) ==
    /\ Cardinality({q \in DOMAIN files : files[q] > 1}) < MaxChanges
    /\ files[path] = 1 /\ starts > 0
    /\ files' = [files EXCEPT ![path] = 2]
    /\ UNCHANGED <<config, script, queue, jobs, db>>

Next ==
    \/ Start \/ Launch \/ CallFails \/ Launched \/ Mapped \/ Kill
    \/ \E w \in Workers : Take(w)
    \/ \E p \in Workers : CheckArtifacts(p) \/ Spawn(p) \/ Exit(p) \/ TimeOut(p)
    \/ \E path \in UNION {Runs[k].uses : k \in DOMAIN Runs} : Rebuild(path)

Spec == Init /\ [][Next]_vars

(* The script runs on unless it is killed, the server or the pool keeps    *)
(* its processes busy, and time passes; a simulation may never end by      *)
(* itself.                                                                 *)
Fairness ==
    /\ WF_vars(Launch \/ CallFails \/ Launched \/ Mapped)
    /\ \A w \in Workers : WF_vars(Take(w))
    /\ \A p \in Workers : WF_vars(CheckArtifacts(p) \/ Spawn(p)) /\ WF_vars(TimeOut(p))

FairSpec == Spec /\ Fairness
---------------------------------------------------------------------------
(* Properties. *)
Jobs == (1 .. MaxStarts) \X (1 .. Len(Runs))
Occupied == {p \in Workers : jobs[p] # Idle}
Statuses == Ended \cup {"Begin run", "Spawning", "Running"}

(* Types; registration ends in an error only for a file that is missing,   *)
(* since every input is registered before the artifact that is made from   *)
(* it, and only launch_microbenchmark.py ends without having made a run.   *)
TypeOK ==
    /\ config \in Configs
    /\ files \in [Paths -> 0 .. 2]
    /\ starts \in 0 .. MaxStarts /\ Len(registered) = starts
    /\ pc \in {"stopped", "launch", "map", "error", "failed"}
    /\ pc = "error" => files[Artifacts[next].path] = 0
    /\ pc = "failed" => config.script = "microbenchmark"
    /\ queue \in Seq(Jobs)
    /\ \A p \in Occupied : jobs[p].job \in Jobs /\ jobs[p].status \in Statuses

(* What a simulator reads is what its run records.  A file built again     *)
(* while the job waits is noticed; only a change between the check and the *)
(* spawn is not, nor one of a microbenchmark, which is no artifact of the  *)
(* runs that simulate it, nor one of the gem5 with MOESI_CMP_directory,    *)
(* which boot_tests registers at another path.                             *)
UsesWhatItRecords ==
    \A p \in Occupied :
        jobs[p].status = "Running" /\ jobs[p].used = jobs[p].seen =>
            \A u \in jobs[p].used : \/ u \in Recorded(jobs[p].job)
                                    \/ u[1] \in Microbench \cup {"gem5/build/MOESI_CMP_directory/gem5.opt"}

(* Two simulators write into one directory only if the script was started  *)
(* again while jobs of the last start were waiting, and then only because  *)
(* an artifact has changed or the first was not yet in the database.       *)
OwnDirectory ==
    \A p, q \in Occupied :
        p # q /\ jobs[p].status = "Running" /\ jobs[q].status = "Running"
              /\ Run(jobs[p].job).outdir = Run(jobs[q].job).outdir =>
            /\ jobs[p].job[1] # jobs[q].job[1]
            /\ RunHash(jobs[p].job) # RunHash(jobs[q].job) \/ config.stores = "end"

(* A job is left out only because the same run belongs to an earlier start *)
(* of the script, because an artifact is no longer what was registered, or *)
(* because the server works in another directory and was not told which.   *)
NoneLeftOut ==
    \A p \in Occupied :
        /\ jobs[p].status = "in database" => jobs[p].job[1] > 1
        /\ jobs[p].status = "Failed artifact check" =>
              \/ \E a \in Recorded(jobs[p].job) : files[a[1]] # a[2]
              \/ config.server = "elsewhere" /\ config.script = "spec2006"

(* Whatever the simulations do, the queue drains, every job ends, and so   *)
(* does the script that waits for them.                                    *)
AllJobsEnd == <>[](pc \in {"stopped", "error", "failed"} /\ queue = <<>> /\ \A w \in Workers : Free(w))
===========================================================================
