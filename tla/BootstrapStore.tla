--------------------------- MODULE BootstrapStore ---------------------------
(***************************************************************************)
(* The artifact storage of the Linux bootstrap service                     *)
(* (internal/bootstrap/storage.go) with its callers: NewService and the    *)
(* publication of a job in internal/bootstrap/service.go, the freezing of  *)
(* references into an archive (internal/experiment/archive.go), the        *)
(* operator's provisioning and garbage collection                          *)
(* (internal/experiment/bootstrap.go), and the cross-run initialisation    *)
(* that copies a source run's jobs (internal/store/cross_run_bootstrap.go).*)
(*                                                                         *)
(* Each run has a harness process of its own.  All runs share one storage  *)
(* root, one lock over it and the recovery that every holder of the lock   *)
(* performs first.  A process may die between any two steps; its lock dies *)
(* with it.  Every write of a file is a step, and so is every removal of a *)
(* directory, which a crash may leave half done.                           *)
(***************************************************************************)
EXTENDS Integers, Sequences, FiniteSets

CONSTANTS
    MaxGen,    \* bound: generations archived, by run
    MaxJob,    \* bound: job IDs drawn
    JobLimit   \* retained successful jobs of a run (64)

ASSUME BootstrapStoreBounds == MaxJob \in Nat /\ JobLimit \in Nat \ {0}

Runs == {"source", "destination"}
Jobs == 1..MaxJob
NoRefs == {0}    \* no references file
NoRun == "free"
NoGen == -1

VARIABLES
    lock,       \* the run whose process holds the storage lock
    created,    \* by run: no, published or yes (its initialisation returned)
    config,     \* by run: none, disabled or enabled
    inherited,  \* by run: the jobs of bootstrap-inherited.json
    store,      \* by run: its directory under the storage root
    archives,   \* by run: the references frozen with each generation
    live,       \* by run: the generation that runs, and its Service
    op,         \* by run: the storage operation its process is in
    fresh       \* the next job ID

vars == <<lock, created, config, inherited, store, archives, live, op, fresh>>

\* A store directory: .init- while staged; jobs are complete job directories,
\* broken ones are half removed, stage says that a .stage- directory is there.
NoStore == [state |-> "absent", owner |-> FALSE, jobs |-> {}, broken |-> {},
            stage |-> FALSE, index |-> NoRefs, gen |-> NoGen]
NoService == [phase |-> "none", gen |-> NoGen, parent |-> NoGen, refs |-> NoRefs,
              enabled |-> FALSE, told |-> {}, tried |-> {}]
Idle == [pc |-> "idle", then |-> "idle", todo |-> {}, gen |-> NoGen]
Doing(pc) == [Idle EXCEPT !.pc = "recover", !.then = pc]

TypeOK ==
    /\ lock \in Runs \cup {NoRun}
    /\ created \in [Runs -> {"no", "published", "yes"}]
    /\ config \in [Runs -> {"none", "disabled", "enabled"}]
    /\ inherited \in [Runs -> SUBSET Jobs \cup {NoRefs}]
    /\ store \in [Runs -> [state : {"absent", "staged", "ready"}, owner : BOOLEAN,
                           jobs : SUBSET Jobs, broken : SUBSET Jobs, stage : BOOLEAN,
                           index : SUBSET Jobs \cup {NoRefs}, gen : Int]]
    /\ \A r \in Runs : \A i \in DOMAIN archives[r] :
           archives[r][i] \in [refs : SUBSET Jobs \cup {NoRefs}, parent : Int,
                               told : SUBSET Jobs, tried : SUBSET Jobs]
    /\ live \in [Runs -> [phase : {"none", "running"}, gen : Int, parent : Int,
                          refs : SUBSET Jobs \cup {NoRefs}, enabled : BOOLEAN,
                          told : SUBSET Jobs, tried : SUBSET Jobs]]
    /\ op \in [Runs -> [pc : STRING, then : STRING, todo : SUBSET Jobs, gen : Int]]
    /\ fresh \in 1..MaxJob + 1

Init ==
    /\ lock = NoRun
    /\ created = [r \in Runs |-> IF r = "source" THEN "yes" ELSE "no"]
    /\ config = [r \in Runs |-> "none"]
    /\ inherited = [r \in Runs |-> NoRefs]
    /\ store = [r \in Runs |-> NoStore]
    /\ archives = [r \in Runs |-> <<>>]
    /\ live = [r \in Runs |-> NoService]
    /\ op = [r \in Runs |-> Idle]
    /\ fresh = 1
----------------------------------------------------------------------------
(***************************************************************************)
(* LockStorage, recover and Close.                                         *)
(***************************************************************************)
\* A store no committed run configuration points to.
Unreachable(q) == store[q].state = "ready" /\ config[q] = "none"

\* recover reads the owner of every store before it does anything with it; a
\* store without one fails the lock for every run.
LockStorage(r, pc) ==
    /\ lock = NoRun /\ op[r].pc = "idle"
    /\ \A q \in Runs : store[q].state = "ready" => store[q].owner
    /\ lock' = r /\ op' = [op EXCEPT ![r] = Doing(pc)]

\* RemoveAll of a store has reached its owner.json.
LoseOwner(q) == store' = [store EXCEPT ![q].owner = FALSE]

Recovered(q) ==
    IF store[q].state = "staged" \/ Unreachable(q) THEN NoStore
    ELSE [store[q] EXCEPT !.stage = FALSE]

\* Initialisers, unreachable stores and publication staging are removed.
Recover(r) ==
    /\ lock = r /\ op[r].pc = "recover"
    /\ \/ /\ \E q \in Runs : Unreachable(q) /\ store[q].owner /\ LoseOwner(q)
          /\ UNCHANGED op
       \/ /\ store' = [q \in Runs |-> Recovered(q)]
          /\ op' = [op EXCEPT ![r].pc = op[r].then]
    /\ UNCHANGED <<lock, created, config, inherited, archives, live, fresh>>

\* Process r is at pc of an operation, holding the lock.
At(r, pc) == lock = r /\ op[r].pc = pc
Goto(r, pc) == op' = [op EXCEPT ![r].pc = pc] /\ UNCHANGED lock
\* The operation returns: its deferred Close releases the lock.
Close(r) == lock' = NoRun /\ op' = [op EXCEPT ![r] = Idle]

\* Any step may fail and return its error; a publication removes its staging.
Fails(r) ==
    /\ lock = r
    /\ op[r].pc \in {"recover", "provisionInit", "provisionStore", "provisionConfig",
                     "service", "admit", "publish", "rename", "index", "collect", "remove",
                     "inheritInit", "inheritStore", "enable"}
    /\ store' = [store EXCEPT ![r].stage = FALSE,
                              ![r].state = IF @ = "staged" THEN "absent" ELSE @]
    /\ Close(r)
    /\ UNCHANGED <<created, config, inherited, archives, live, fresh>>
----------------------------------------------------------------------------
(***************************************************************************)
(* Provision and initializeStorage, at an inactive gate.                   *)
(***************************************************************************)
\* requireBootstrapGate
Gate(r) == created[r] # "no" /\ live[r].phase = "none" /\ archives[r] # <<>>

\* A configured run is enabled without the lock.
EnableAgain(r) ==
    /\ Gate(r) /\ op[r].pc = "idle" /\ config[r] = "disabled"
    /\ config' = [config EXCEPT ![r] = "enabled"]
    /\ UNCHANGED <<lock, created, inherited, store, archives, live, op, fresh>>

Provision(r) ==
    /\ Gate(r) /\ config[r] = "none"
    /\ LockStorage(r, "provisionInit")
    /\ UNCHANGED <<created, config, inherited, store, archives, live, fresh>>

\* initializeStorage writes the owner and the jobs directory into .init-, and
\* renames it to the store.
InitStaged == [NoStore EXCEPT !.state = "staged"]
InitReady == [NoStore EXCEPT !.state = "ready", !.owner = TRUE]

ProvisionStage(r) ==
    /\ At(r, "provisionInit") /\ Goto(r, "provisionStore")
    /\ store' = [store EXCEPT ![r] = InitStaged]
    /\ UNCHANGED <<created, config, inherited, archives, live, fresh>>

ProvisionRename(r) ==
    /\ At(r, "provisionStore") /\ Goto(r, "provisionConfig")
    /\ store' = [store EXCEPT ![r] = InitReady]
    /\ UNCHANGED <<created, config, inherited, archives, live, fresh>>

ProvisionCommit(r) ==
    /\ At(r, "provisionConfig") /\ Close(r)
    /\ config' = [config EXCEPT ![r] = "enabled"]
    /\ UNCHANGED <<created, inherited, store, archives, live, fresh>>
----------------------------------------------------------------------------
(***************************************************************************)
(* NewService: the references of the generation that boots.                *)
(***************************************************************************)
\* The parent's frozen references; a first generation has the inherited ones.
Base(r, parent) ==
    LET refs == IF parent = NoGen THEN inherited[r] ELSE archives[r][parent + 1].refs
    IN  refs \ NoRefs

\* Mutant: the index on disk is carried on
IndexOnDisk(r, parent) == IF store[r].index = NoRefs THEN Base(r, parent) ELSE store[r].index

ServiceRefs(r, parent) == Base(r, parent)

Started(r, parent, refs) ==
    live' = [live EXCEPT ![r] =
                [NoService EXCEPT !.phase = "running", !.gen = Len(archives[r]),
                                  !.parent = parent, !.refs = refs,
                                  !.enabled = config[r] = "enabled"]]

\* A boot, continuation or rollback from an archive; without a configuration
\* there is no service.
Boot(r, parent) ==
    /\ created[r] # "no" /\ op[r].pc = "idle" /\ live[r].phase = "none"
    /\ Len(archives[r]) < MaxGen[r]
    /\ IF archives[r] = <<>> THEN parent = NoGen ELSE parent \in 0..Len(archives[r]) - 1
    /\ IF config[r] = "none"
       THEN Started(r, parent, NoRefs) /\ UNCHANGED <<lock, op>>
       ELSE /\ lock = NoRun /\ \A q \in Runs : store[q].state = "ready" => store[q].owner
            /\ lock' = r
            /\ op' = [op EXCEPT ![r] = [Doing("service") EXCEPT !.gen = parent]]
            /\ UNCHANGED live
    /\ UNCHANGED <<created, config, inherited, store, archives, fresh>>

\* Validate, then the index of the new generation is written.
Valid(r, refs) == store[r].state = "ready" /\ refs \subseteq store[r].jobs

NewService(r) ==
    LET parent == op[r].gen
        refs == ServiceRefs(r, parent)
    IN  /\ At(r, "service") /\ Valid(r, refs)
        /\ store' = [store EXCEPT ![r].index = refs, ![r].gen = Len(archives[r])]
        /\ \/ Started(r, parent, refs)
           \/ UNCHANGED live   \* the index is written and the boot fails later
        /\ Close(r)
        /\ UNCHANGED <<created, config, inherited, archives, fresh>>
----------------------------------------------------------------------------
(***************************************************************************)
(* A job of the running generation: HandleRequest's storage half, Admit    *)
(* and Publish.                                                            *)
(***************************************************************************)
BeginJob(r) ==
    /\ live[r].phase = "running" /\ live[r].enabled /\ fresh <= MaxJob
    /\ LockStorage(r, "admit")
    /\ UNCHANGED <<created, config, inherited, store, archives, live, fresh>>

\* Mutant: the last place is given twice
AdmitOneMore(r) == store[r].broken = {} /\ Cardinality(store[r].jobs) <= JobLimit

\* Every retained job counts, referenced or not; a damaged one refuses.
Admit(r) == store[r].broken = {} /\ Cardinality(store[r].jobs) < JobLimit

\* The job is admitted, and runs while the lock is held.
AdmitJob(r) ==
    /\ At(r, "admit") /\ Admit(r) /\ Goto(r, "publish")
    /\ fresh' = fresh + 1
    /\ UNCHANGED <<created, config, inherited, store, archives, live>>

\* The outputs and the manifest are staged; the count is taken again.
PublishStage(r) ==
    /\ At(r, "publish") /\ Admit(r) /\ Cardinality(live[r].refs) < JobLimit
    /\ Goto(r, "rename")
    /\ store' = [store EXCEPT ![r].stage = TRUE]
    /\ UNCHANGED <<created, config, inherited, archives, live, fresh>>

\* The staged job becomes jobs/ID.
PublishRename(r) ==
    /\ At(r, "rename") /\ Goto(r, "index")
    /\ store' = [store EXCEPT ![r].jobs = @ \cup {fresh - 1}, ![r].stage = FALSE]
    /\ UNCHANGED <<created, config, inherited, archives, live, fresh>>

\* The index is the commit point.  When its directory cannot be synced after
\* the rename, the publication is reported as failed.
PublishCommit(r) ==
    LET job == fresh - 1
        refs == live[r].refs \cup {job}
    IN  /\ At(r, "index") /\ Close(r)
        /\ store' = [store EXCEPT ![r].index = refs, ![r].gen = live[r].gen]
        /\ \/ live' = [live EXCEPT ![r].refs = refs, ![r].told = @ \cup {job},
                                   ![r].tried = @ \cup {job}]
           \/ live' = [live EXCEPT ![r].tried = @ \cup {job}]
        /\ UNCHANGED <<created, config, inherited, archives, fresh>>
----------------------------------------------------------------------------
(***************************************************************************)
(* The end of a generation: Freeze into its archive, or nothing at all.    *)
(***************************************************************************)
\* Freeze reads the index, without the lock.
FrozenRefs(r) ==
    IF config[r] = "none" THEN NoRefs ELSE store[r].index \ NoRefs

IndexFits(r) ==
    config[r] # "none" =>
        /\ store[r].index # NoRefs => store[r].gen = live[r].gen
        /\ Valid(r, FrozenRefs(r))

Freeze(r) ==
    /\ live[r].phase = "running" /\ op[r].pc = "idle" /\ IndexFits(r)
    /\ archives' = [archives EXCEPT ![r] =
           Append(@, [refs |-> FrozenRefs(r), parent |-> live[r].parent,
                      told |-> live[r].told, tried |-> live[r].tried])]
    /\ live' = [live EXCEPT ![r] = NoService]
    /\ UNCHANGED <<lock, created, config, inherited, store, op, fresh>>

\* The generation fails, or its archive does.
Discard(r) ==
    /\ live[r].phase = "running" /\ op[r].pc = "idle"
    /\ live' = [live EXCEPT ![r] = NoService]
    /\ UNCHANGED <<lock, created, config, inherited, store, archives, op, fresh>>

\* The process dies.
Crash(r) ==
    /\ op[r].pc # "idle" \/ live[r].phase = "running"
    /\ op' = [op EXCEPT ![r] = Idle]
    /\ live' = [live EXCEPT ![r] = NoService]
    /\ lock' = IF lock = r THEN NoRun ELSE lock
    /\ UNCHANGED <<created, config, inherited, store, archives, fresh>>
----------------------------------------------------------------------------
(***************************************************************************)
(* GarbageCollect, at an inactive gate.                                    *)
(***************************************************************************)
GarbageCollect(r) ==
    /\ Gate(r) /\ config[r] # "none"
    /\ LockStorage(r, "collect")
    /\ UNCHANGED <<created, config, inherited, store, archives, live, fresh>>

\* Mutant: only the latest archive is kept
KeepLatest(r) == (archives[r][Len(archives[r])].refs \cup inherited[r]) \ NoRefs

\* The jobs some archive or the imported parent refers to.
Keep(r) ==
    (UNION {archives[r][i].refs : i \in DOMAIN archives[r]} \cup inherited[r]) \ NoRefs

\* Every archive is validated and the index loses what is not kept, first.
CollectIndex(r) ==
    /\ At(r, "collect") /\ Goto(r, "remove")
    /\ \A i \in DOMAIN archives[r] : Valid(r, archives[r][i].refs \ NoRefs)
    /\ store' = [store EXCEPT ![r].index = IF @ = NoRefs THEN @ ELSE @ \cap Keep(r)]
    /\ UNCHANGED <<created, config, inherited, archives, live, fresh>>

\* A job directory that is not kept: some of it is gone, or all of it.
CollectJob(r) ==
    /\ At(r, "remove")
    /\ \/ \E j \in store[r].jobs \ Keep(r) :
              store' = [store EXCEPT ![r].jobs = @ \ {j}, ![r].broken = @ \cup {j}]
       \/ \E j \in store[r].broken \ Keep(r) :
              store' = [store EXCEPT ![r].broken = @ \ {j}]
    /\ UNCHANGED <<lock, created, config, inherited, archives, live, op, fresh>>

CollectDone(r) ==
    /\ At(r, "remove") /\ (store[r].jobs \cup store[r].broken) \ Keep(r) = {}
    /\ Close(r)
    /\ UNCHANGED <<created, config, inherited, store, archives, live, fresh>>
----------------------------------------------------------------------------
(***************************************************************************)
(* initializeCrossRunBootstrap with Inherit: the destination is made from  *)
(* the latest archive of the source.                                       *)
(***************************************************************************)
Selected == archives["source"][Len(archives["source"])].refs

\* Without references there is nothing to copy and no lock is taken.
Inherit ==
    /\ created["destination"] = "no" /\ archives["source"] # <<>>
    /\ IF Selected = NoRefs
       THEN /\ op["destination"].pc = "idle"
            /\ created' = [created EXCEPT !["destination"] = "yes"] /\ UNCHANGED <<lock, op>>
       ELSE /\ \A q \in Runs : store[q].state = "ready" => store[q].owner
            /\ lock = NoRun /\ lock' = "destination" /\ UNCHANGED created
            /\ op["destination"].pc = "idle"
            /\ op' = [op EXCEPT !["destination"] = [Doing("inheritInit") EXCEPT !.todo = Selected]]
    /\ UNCHANGED <<config, inherited, store, archives, live, fresh>>

\* The selected jobs are validated, and the destination store initialised.
InheritStage ==
    /\ At("destination", "inheritInit") /\ Valid("source", op["destination"].todo)
    /\ Goto("destination", "inheritStore")
    /\ store' = [store EXCEPT !["destination"] = InitStaged]
    /\ UNCHANGED <<created, config, inherited, archives, live, fresh>>

InheritRename ==
    /\ At("destination", "inheritStore") /\ Goto("destination", "inheritCopy")
    /\ store' = [store EXCEPT !["destination"] = InitReady]
    /\ UNCHANGED <<created, config, inherited, archives, live, fresh>>

InheritCopy ==
    /\ At("destination", "inheritCopy")
    /\ \E j \in op["destination"].todo \ store["destination"].jobs :
           store' = [store EXCEPT !["destination"].jobs = @ \cup {j}]
    /\ UNCHANGED <<lock, created, config, inherited, archives, live, op, fresh>>

\* All copied: the index, and the configuration in the unpublished candidate.
InheritIndex ==
    LET refs == op["destination"].todo
    IN  /\ At("destination", "inheritCopy") /\ refs \subseteq store["destination"].jobs
        /\ Goto("destination", "inheritPublish")
        /\ store' = [store EXCEPT !["destination"].index = refs, !["destination"].gen = 0]
        /\ UNCHANGED <<created, config, inherited, archives, live, fresh>>

\* The candidate is renamed to the destination.
InheritPublish ==
    /\ At("destination", "inheritPublish") /\ Goto("destination", "inheritDone")
    /\ created' = [created EXCEPT !["destination"] = "published"]
    /\ config' = [config EXCEPT !["destination"] = "disabled"]
    /\ inherited' = [inherited EXCEPT !["destination"] = op["destination"].todo]
    /\ UNCHANGED <<store, archives, live, fresh>>

\* The parent directory is synced and the wrapper removed: finishArtifacts(true).
InheritComplete ==
    /\ At("destination", "inheritDone") /\ Close("destination")
    /\ created' = [created EXCEPT !["destination"] = "yes"]
    /\ UNCHANGED <<config, inherited, store, archives, live, fresh>>

\* An error after the store exists: finishArtifacts(false) removes the store,
\* then the lock goes, and only then the published destination.
InheritFails ==
    /\ lock = "destination"
    /\ op["destination"].pc \in {"inheritCopy", "inheritPublish", "inheritDone"}
    /\ Goto("destination", "undo")
    /\ LoseOwner("destination")
    /\ UNCHANGED <<created, config, inherited, archives, live, fresh>>

InheritUndo ==
    /\ At("destination", "undo")
    /\ store' = [store EXCEPT !["destination"] = NoStore]
    /\ lock' = NoRun /\ op' = [op EXCEPT !["destination"].pc = "forget"]
    /\ UNCHANGED <<created, config, inherited, archives, live, fresh>>

InheritForget ==
    /\ op["destination"].pc = "forget"
    /\ created' = [created EXCEPT !["destination"] = "no"]
    /\ config' = [config EXCEPT !["destination"] = "none"]
    /\ inherited' = [inherited EXCEPT !["destination"] = NoRefs]
    /\ op' = [op EXCEPT !["destination"] = Idle]
    /\ UNCHANGED <<lock, store, archives, live, fresh>>

\* ProvisionInherited: an unstarted destination is enabled.
ProvisionInherited ==
    /\ created["destination"] # "no" /\ config["destination"] = "disabled"
    /\ archives["destination"] = <<>> /\ live["destination"].phase = "none"
    /\ LockStorage("destination", "enable")
    /\ UNCHANGED <<created, config, inherited, store, archives, live, fresh>>

EnableInherited ==
    /\ At("destination", "enable") /\ Valid("destination", inherited["destination"])
    /\ config' = [config EXCEPT !["destination"] = "enabled"]
    /\ Close("destination")
    /\ UNCHANGED <<created, inherited, store, archives, live, fresh>>
----------------------------------------------------------------------------
Next ==
    \/ \E r \in Runs :
        \/ Recover(r) \/ Fails(r) \/ EnableAgain(r) \/ Provision(r)
        \/ ProvisionStage(r) \/ ProvisionRename(r) \/ ProvisionCommit(r)
        \/ NewService(r) \/ BeginJob(r) \/ AdmitJob(r) \/ PublishStage(r)
        \/ PublishRename(r) \/ PublishCommit(r) \/ Freeze(r) \/ Discard(r) \/ Crash(r)
        \/ GarbageCollect(r) \/ CollectIndex(r) \/ CollectJob(r) \/ CollectDone(r)
        \/ \E parent \in NoGen..MaxGen[r] : Boot(r, parent)
    \/ Inherit \/ InheritStage \/ InheritRename \/ InheritCopy \/ InheritIndex
    \/ InheritPublish \/ InheritComplete \/ InheritFails \/ InheritUndo \/ InheritForget
    \/ ProvisionInherited \/ EnableInherited

Spec == Init /\ [][Next]_vars
----------------------------------------------------------------------------
(***************************************************************************)
(* Properties.                                                             *)
(***************************************************************************)
\* The jobs that anything durable or in memory authorises are complete in the
\* run's own store: whatever is collected, rolled back, copied or interrupted
\* (storage.go:860, 520, 676; service.go:138).
ReferencedJobsExist ==
    \A r \in Runs :
        /\ \A i \in DOMAIN archives[r] : archives[r][i].refs \ NoRefs \subseteq store[r].jobs
        /\ config[r] # "none" /\ store[r].state = "ready" =>
               store[r].index \ NoRefs \subseteq store[r].jobs
        /\ live[r].refs \ NoRefs \subseteq store[r].jobs

\* A destination whose initialisation returned keeps the store that its
\* configuration names, with its owner and every job it inherited, although
\* every lock holder removes stores it thinks unreachable
\* (cross_run_bootstrap.go:431, storage.go:202).
DestinationKeepsItsJobs ==
    created["destination"] = "yes" /\ config["destination"] # "none" =>
        /\ store["destination"].state = "ready" /\ store["destination"].owner
        /\ inherited["destination"] \ NoRefs \subseteq store["destination"].jobs

\* No run retains more successful jobs than the limit, counting the ones no
\* index mentions (storage.go:827).
RetainedJobsBounded ==
    \A r \in Runs : Cardinality(store[r].jobs) <= JobLimit

\* An archive holds its parent's jobs and every job its own generation was told
\* had succeeded, and nothing else but jobs which that generation itself
\* carried to the index: never the work of a discarded attempt or of a sibling
\* (service.go:136-137, storage.go:676).
ArchivesFollowLineage ==
    \A r \in Runs : \A i \in DOMAIN archives[r] :
        LET a == archives[r][i]
            base == Base(r, a.parent)
        IN  a.refs # NoRefs =>
                /\ base \cup a.told \subseteq a.refs
                /\ a.refs \subseteq base \cup a.tried

\* The archive of a running generation is never refused because of the index:
\* it is the index of that generation and its jobs are all there
\* (storage.go:689-694).
LiveIndexFits ==
    \A r \in Runs : live[r].phase = "running" /\ op[r].pc = "idle" => IndexFits(r)

\* Whenever the lock is free, every store directory has the owner that
\* initializeStorage promises never to omit (storage.go:295).
StoresAreOwned ==
    lock = NoRun => \A r \in Runs : store[r].state = "ready" => store[r].owner
============================================================================
