------------------------- MODULE BootstrapStoreProofs -----------------------
(***************************************************************************)
(* For every number of generations and jobs, and every retention limit:    *)
(* the jobs that archives, indexes and running services refer to exist, a  *)
(* store keeps no more jobs than its limit, and every archive carries the  *)
(* jobs of its parent and its own.                                         *)
(***************************************************************************)
EXTENDS BootstrapStore, TLAPS

\* A leaf that names no prover is tried with each of these in turn.
USE Zenon, SMT, ZenonT(60), SMTT(60)

\* Process r is in one of the steps pcs, or recovers on the way to one.
Busy(r, pcs) == op[r].pc \in pcs \/ (op[r].pc = "recover" /\ op[r].then \in pcs)

ProvisionSteps == {"provisionInit", "provisionStore", "provisionConfig"}
JobSteps == {"admit", "publish", "rename", "index"}
CandidateSteps == {"inheritInit", "inheritStore", "inheritCopy", "inheritPublish"}
InheritSteps == CandidateSteps \cup {"inheritDone", "undo", "forget"}
GateSteps == ProvisionSteps \cup InheritSteps \cup {"service", "collect", "remove", "enable"}

\* The shape of the variables: records by run, and sequences of archives
Fields(f, names) == DOMAIN f = Runs /\ \A q \in Runs : DOMAIN f[q] = names

Shape ==
    /\ Fields(store, {"state", "owner", "jobs", "broken", "stage", "index", "gen"})
    /\ Fields(live, {"phase", "gen", "parent", "refs", "enabled", "told", "tried"})
    /\ Fields(op, {"pc", "then", "todo", "gen"})
    /\ DOMAIN created = Runs /\ DOMAIN config = Runs /\ DOMAIN inherited = Runs
    /\ DOMAIN archives = Runs
    /\ \A q \in Runs :
         Len(archives[q]) \in Nat /\ DOMAIN archives[q] = 1..Len(archives[q])

\* A process in the middle of a storage operation holds the lock.
LockHeld == \A r \in Runs : op[r].pc \notin {"idle", "forget"} => lock = r

\* Only the operations of a job run beside a generation, and a run that is not
\* initialised has none.
GateQuiet ==
    /\ \A r \in Runs : Busy(r, GateSteps) => live[r].phase = "none"
    /\ \A r \in Runs : Busy(r, JobSteps) => live[r].phase = "running"
    /\ \A r \in Runs : live[r].phase = "none" => live[r].refs = NoRefs /\ ~live[r].enabled
    /\ created["destination"] = "no" \/ Busy("destination", InheritSteps)
           => archives["destination"] = <<>> /\ live["destination"].phase = "none"
    /\ Busy("destination", CandidateSteps) => created["destination"] = "no"

\* What a run without a configuration has, and when it has one.
ConfigFits ==
    /\ created["destination"] = "no" => config["destination"] = "none"
    /\ \A r \in Runs : Busy(r, ProvisionSteps) => config[r] = "none"
    /\ \A r \in Runs : Busy(r, ProvisionSteps \cup {"enable"}) => created[r] # "no"
    /\ \A r \in Runs : Busy(r, JobSteps \cup {"service"})
       \/ live[r].enabled => config[r] # "none"
    /\ \A r \in Runs : store[r].state = "staged" => config[r] = "none"
    /\ \A r \in Runs : op[r].pc \in {"provisionConfig", "inheritCopy", "inheritPublish"}
           => store[r].state # "staged"

\* An unconfigured run refers to no job.
UnconfiguredRefs ==
    \A r \in Runs : config[r] = "none" =>
        /\ live[r].refs = NoRefs
        /\ \A i \in DOMAIN archives[r] : archives[r][i].refs = NoRefs

\* Every reference is to a job that is there, the index of a store that no
\* configuration names yet included.
RefsExist ==
    \A r \in Runs :
        /\ \A i \in DOMAIN archives[r] : archives[r][i].refs \ NoRefs \subseteq store[r].jobs
        /\ store[r].index \ NoRefs \subseteq store[r].jobs
        /\ live[r].refs \ NoRefs \subseteq store[r].jobs

\* The job that is to be committed is in place, and what is about to be removed
\* is not in the index.
StepFits ==
    \A r \in Runs :
        /\ op[r].pc = "recover" => op[r].then \notin {"index", "remove"}
        /\ op[r].pc = "index" => fresh - 1 \in store[r].jobs
        /\ op[r].pc = "remove" => store[r].index \ NoRefs \subseteq Keep(r)

StoreInv ==
    /\ Shape /\ LockHeld /\ GateQuiet /\ ConfigFits /\ UnconfiguredRefs /\ RefsExist
    /\ StepFits

USE DEF vars, NoStore, NoService, Idle, NoRefs, NoRun, NoGen

\* The runs are two, and neither is the name of the free lock.
LEMMA RunNames == NoRun \notin Runs /\ "source" \in Runs /\ "destination" \in Runs
    BY DEF Runs

USE RunNames

\* The operations that begin a boot and an initialisation recover first.
LEMMA BootBegins ==
    ASSUME Shape, NEW r \in Runs, NEW parent, Boot(r, parent), config[r] # "none"
    PROVE  /\ op'[r].pc = "recover" /\ op'[r].then = "service"
           /\ \A q \in Runs \ {r} : op'[q] = op[q]
           /\ UNCHANGED <<created, config, inherited, store, archives, live, fresh>>
           /\ live[r].phase = "none" /\ created[r] # "no" /\ op[r].pc = "idle"
<1> DEFINE d == [Doing("service") EXCEPT !.gen = parent]
<1>1. d.pc = "recover" /\ d.then = "service"
    BY DEF Doing
<1>2. op' = [op EXCEPT ![r] = d]
    BY DEF Boot
<1> HIDE DEF d
<1>3. op'[r] = d /\ \A q \in Runs \ {r} : op'[q] = op[q]
    BY <1>2 DEF Shape, Fields
<1> QED
    BY <1>1, <1>3 DEF Boot

\* The same, for the initialisation of a destination (Inherit).
LEMMA InheritBegins ==
    ASSUME Shape, Inherit
    PROVE  /\ created["destination"] = "no" /\ op["destination"].pc = "idle"
           /\ \/ op' = op /\ created'["destination"] = "yes"
              \/ /\ op'["destination"].pc = "recover" /\ op'["destination"].then = "inheritInit"
                 /\ UNCHANGED created
           /\ \A q \in Runs \ {"destination"} : op'[q] = op[q] /\ created'[q] = created[q]
           /\ UNCHANGED <<config, inherited, store, archives, live, fresh>>
<1> DEFINE d == [Doing("inheritInit") EXCEPT !.todo = Selected]
<1>1. d.pc = "recover" /\ d.then = "inheritInit"
    BY DEF Doing
<1>2. CASE Selected = NoRefs
    BY <1>2 DEF Inherit, Shape
<1>3. CASE Selected # NoRefs
  <2>1. op' = [op EXCEPT !["destination"] = d] /\ UNCHANGED created
      BY <1>3 DEF Inherit
  <2> HIDE DEF d
  <2>2. op'["destination"] = d /\ \A q \in Runs \ {"destination"} : op'[q] = op[q]
      BY <2>1 DEF Shape, Fields
  <2> QED
      BY <1>1, <1>3, <2>1, <2>2 DEF Inherit
<1> QED
    BY <1>2, <1>3

\* What recovery does to the stores, and where it leads.
LEMMA RecoverEffect ==
    ASSUME Shape, NEW r \in Runs, Recover(r)
    PROVE  /\ op[r].pc = "recover" /\ lock = r
           /\ \A q \in Runs \ {r} : op'[q] = op[q]
           /\ \/ op' = op
              \/ /\ op'[r].pc = op[r].then /\ op'[r].then = op[r].then
                 /\ \A q \in Runs : store'[q].state # "staged"
           /\ \A q \in Runs :
                \/ /\ store'[q].jobs = store[q].jobs /\ store'[q].index = store[q].index
                   /\ store'[q].state = store[q].state
                \/ /\ store[q].state = "staged" \/ config[q] = "none"
                   /\ store'[q] = NoStore
           /\ UNCHANGED <<lock, created, config, inherited, archives, live, fresh>>
<1>1. ASSUME NEW p \in Runs, LoseOwner(p)
      PROVE  \A q \in Runs : /\ store'[q].jobs = store[q].jobs
             /\ store'[q].index = store[q].index
                             /\ store'[q].state = store[q].state
    BY SMTT(60), <1>1 DEF LoseOwner
<1>2. ASSUME store' = [q \in Runs |-> Recovered(q)], NEW q \in Runs
      PROVE  /\ store'[q].state # "staged"
             /\ \/ /\ store'[q].jobs = store[q].jobs /\ store'[q].index = store[q].index
                   /\ store'[q].state = store[q].state
                \/ /\ store[q].state = "staged" \/ config[q] = "none"
                   /\ store'[q] = NoStore
    BY SMTT(60), <1>2 DEF Recovered, Unreachable
<1>3. op' = [op EXCEPT ![r].pc = op[r].then] =>
        /\ op'[r].pc = op[r].then /\ op'[r].then = op[r].then
        /\ \A q \in Runs \ {r} : op'[q] = op[q]
    BY SMTT(60) DEF Shape, Fields
<1>4. CASE (\E q \in Runs : Unreachable(q) /\ store[q].owner /\ LoseOwner(q)) /\ UNCHANGED op
    BY <1>1, <1>4 DEF Recover
<1>5. CASE store' = [q \in Runs |-> Recovered(q)] /\ op' = [op EXCEPT ![r].pc = op[r].then]
    BY <1>2, <1>3, <1>5 DEF Recover
<1> QED
    BY <1>4, <1>5 DEF Recover

\* Collection removes only what is not kept.
LEMMA CollectEffect ==
    ASSUME Shape, NEW r \in Runs, CollectJob(r)
    PROVE  /\ \A q \in Runs : store'[q].state = store[q].state
              /\ store'[q].index = store[q].index
           /\ \A q \in Runs \ {r} : store'[q].jobs = store[q].jobs
           /\ store[r].jobs \cap Keep(r) \subseteq store'[r].jobs
           /\ store'[r].jobs \subseteq store[r].jobs
           /\ \A q \in Runs \ {r} : store'[q] = store[q]
           /\ op[r].pc = "remove"
           /\ UNCHANGED <<lock, created, config, inherited, archives, live, op, fresh>>
<1>1. ASSUME NEW j \in store[r].jobs \ Keep(r),
             store' = [store EXCEPT ![r].jobs = @ \ {j}, ![r].broken = @ \cup {j}]
      PROVE  /\ \A q \in Runs : store'[q].state = store[q].state
                /\ store'[q].index = store[q].index
             /\ \A q \in Runs \ {r} : store'[q] = store[q]
             /\ store'[r].jobs = store[r].jobs \ {j}
    BY <1>1 DEF Shape, Fields
<1>2. ASSUME NEW j \in store[r].broken \ Keep(r), store' = [store EXCEPT ![r].broken = @ \ {j}]
      PROVE  /\ \A q \in Runs : store'[q].state = store[q].state
                /\ store'[q].index = store[q].index
             /\ \A q \in Runs : store'[q].jobs = store[q].jobs
             /\ \A q \in Runs \ {r} : store'[q] = store[q]
    BY <1>2 DEF Shape, Fields
<1>3. CASE \E j \in store[r].jobs \ Keep(r) :
              store' = [store EXCEPT ![r].jobs = @ \ {j}, ![r].broken = @ \cup {j}]
    BY <1>1, <1>3 DEF CollectJob, At
<1>4. CASE \E j \in store[r].broken \ Keep(r) : store' = [store EXCEPT ![r].broken = @ \ {j}]
    BY <1>2, <1>4 DEF CollectJob, At
<1> QED
    BY <1>3, <1>4 DEF CollectJob

\* The Service of a generation that starts
LEMMA StartedEffect ==
    ASSUME Shape, NEW r \in Runs, NEW parent, NEW refs, Started(r, parent, refs)
    PROVE  /\ live'[r].phase = "running" /\ live'[r].refs = refs
           /\ live'[r].parent = parent /\ live'[r].told = {} /\ live'[r].tried = {}
           /\ live'[r].enabled => config[r] = "enabled"
           /\ \A q \in Runs \ {r} : live'[q] = live[q]
    BY DEF Shape, Fields, Started
----------------------------------------------------------------------------
\* Recovery removes stores that nothing configured refers to.
LEMMA RecoverStep ==
    ASSUME StoreInv, NEW r \in Runs, Recover(r)
    PROVE  StoreInv'
<1> USE DEF StoreInv
<1>1. Shape'
  <2> DEFINE names == {"state", "owner", "jobs", "broken", "stage", "index", "gen"}
  <2>1. ASSUME NEW q \in Runs, LoseOwner(q) PROVE Fields(store', names)
      BY <2>1 DEF LoseOwner, Shape, Fields
  <2>2. ASSUME store' = [q \in Runs |-> Recovered(q)] PROVE Fields(store', names)
      BY <2>2 DEF Recovered, Shape, Fields
  <2>3. Fields(store', names)
      BY <2>1, <2>2 DEF Recover
  <2>4. Fields(op', {"pc", "then", "todo", "gen"})
      BY DEF Recover, Shape, Fields
  <2> QED
      BY <2>3, <2>4, RecoverEffect DEF Shape
<1>2. GateQuiet'
    BY SMTT(60), RecoverEffect DEF GateQuiet, Busy
<1>3. ConfigFits'
    BY SMTT(60), RecoverEffect DEF ConfigFits, Busy
<1>4. UnconfiguredRefs'
    BY SMTT(60), RecoverEffect DEF UnconfiguredRefs
<1>5. RefsExist'
    BY SMTT(60), RecoverEffect DEF RefsExist, ConfigFits, UnconfiguredRefs
<1>6. StepFits'
  <2>1. \A q \in Runs \ {r} : op[q].pc \notin {"recover", "index", "remove"}
      BY RecoverEffect DEF LockHeld
  <2>2. UNCHANGED <<archives, inherited, fresh>> /\ \A q \in Runs \ {r} : op'[q] = op[q]
      BY RecoverEffect
  <2>3. op'[r].then = op[r].then /\ op'[r].pc \in {"recover", op[r].then}
      BY RecoverEffect
  <2>4. op[r].then \notin {"index", "remove"}
      BY RecoverEffect DEF StepFits
  <2> QED
      BY <2>1, <2>2, <2>3, <2>4 DEF StepFits
<1>7. LockHeld'
    BY DEF Recover, Shape, Fields, LockHeld
<1> QED
    BY <1>1, <1>2, <1>3, <1>4, <1>5, <1>6, <1>7

\* A boot without a configuration has no service; otherwise it begins to open the storage.
LEMMA BootStep ==
    ASSUME StoreInv, NEW r \in Runs, NEW parent, Boot(r, parent)
    PROVE  StoreInv'
<1> USE DEF StoreInv
<1>1. Shape'
  <2>1. Fields(live', {"phase", "gen", "parent", "refs", "enabled", "told", "tried"})
      BY ZenonT(60) DEF Boot, Started, Shape, Fields
  <2> DEFINE d == [Doing("service") EXCEPT !.gen = parent]
  <2>a. DOMAIN d = {"pc", "then", "todo", "gen"}
      BY DEF Doing
  <2>b. op' = op \/ op' = [op EXCEPT ![r] = d]
      BY DEF Boot
  <2> HIDE DEF d
  <2>2. Fields(op', {"pc", "then", "todo", "gen"})
      BY <2>a, <2>b DEF Shape, Fields
  <2> QED
      BY <2>1, <2>2 DEF Boot, Shape
<1>2. GateQuiet'
  <2>1. CASE config[r] = "none"
    <3>1. live'[r].phase = "running" /\ \A q \in Runs \ {r} : live'[q] = live[q]
        BY <2>1, StartedEffect DEF Boot
    <3>2. UNCHANGED <<op, created, archives>> /\ op[r].pc = "idle" /\ created[r] # "no"
        BY <2>1 DEF Boot
    <3> QED
        BY <3>1, <3>2 DEF GateQuiet, Busy, ProvisionSteps, CandidateSteps, InheritSteps,
                          GateSteps
  <2>2. CASE config[r] # "none"
      BY SMTT(60), <2>2, BootBegins DEF GateQuiet, Busy, JobSteps, CandidateSteps, InheritSteps
  <2> QED
      BY <2>1, <2>2
<1>3. ConfigFits'
  <2>1. CASE config[r] = "none"
    <3>1. ~live'[r].enabled /\ \A q \in Runs \ {r} : live'[q] = live[q]
        BY <2>1, StartedEffect DEF Boot
    <3> QED
        BY <2>1, <3>1 DEF Boot, ConfigFits, Busy
  <2>2. CASE config[r] # "none"
      BY SMTT(60), <2>2, BootBegins DEF ConfigFits, Busy, ProvisionSteps
  <2> QED
      BY <2>1, <2>2
<1>4. UnconfiguredRefs'
  <2>1. CASE config[r] = "none"
    <3>1. live'[r].refs = NoRefs /\ \A q \in Runs \ {r} : live'[q] = live[q]
        BY SMTT(60), <2>1, StartedEffect DEF Boot
    <3> QED
        BY <2>1, <3>1 DEF Boot, UnconfiguredRefs
  <2>2. CASE config[r] # "none"
      BY SMTT(60), <2>2, BootBegins DEF UnconfiguredRefs
  <2> QED
      BY <2>1, <2>2
<1>5. RefsExist'
  <2>1. CASE config[r] = "none"
    <3>1. live'[r].refs = NoRefs /\ \A q \in Runs \ {r} : live'[q] = live[q]
        BY SMTT(60), <2>1, StartedEffect DEF Boot
    <3> QED
        BY <2>1, <3>1 DEF Boot, RefsExist
  <2>2. CASE config[r] # "none"
      BY <2>2, BootBegins DEF RefsExist
  <2> QED
      BY <2>1, <2>2
<1>6. StepFits'
  <2>1. CASE config[r] = "none"
      BY SMTT(60), <2>1 DEF Boot, StepFits, Keep
  <2>2. CASE config[r] # "none"
      BY SMTT(60), <2>2, BootBegins DEF StepFits, Keep
  <2> QED
      BY <2>1, <2>2
<1>7. LockHeld'
    BY DEF Boot, Shape, Fields, LockHeld
<1> QED
    BY <1>1, <1>2, <1>3, <1>4, <1>5, <1>6, <1>7

\* A service starts with references that were validated.
LEMMA NewServiceStep ==
    ASSUME StoreInv, NEW r \in Runs, NewService(r)
    PROVE  StoreInv'
<1> USE DEF StoreInv
<1>1. GateQuiet'
  <2>1. op' = [op EXCEPT ![r] = Idle] /\ op[r].pc = "service" /\ UNCHANGED <<created, archives>>
      BY DEF NewService, At, Close
  <2>2. \/ UNCHANGED live
        \/ live'[r].phase = "running" /\ \A q \in Runs \ {r} : live'[q] = live[q]
      BY StartedEffect DEF NewService
  <2>3. created["destination"] = "no" => r # "destination"
      BY <2>1 DEF ConfigFits, Busy
  <2>4. \A q \in Runs :
          /\ Busy(q, GateSteps)' => q # r /\ Busy(q, GateSteps)
          /\ Busy(q, JobSteps)' => q # r /\ Busy(q, JobSteps)
          /\ Busy(q, InheritSteps)' => q # r /\ Busy(q, InheritSteps)
          /\ Busy(q, CandidateSteps)' => q # r /\ Busy(q, CandidateSteps)
      BY <2>1 DEF Shape, Fields, Busy, ProvisionSteps, JobSteps, CandidateSteps,
                  InheritSteps, GateSteps
  <2> QED
      BY <2>1, <2>2, <2>3, <2>4 DEF GateQuiet
<1>2. ConfigFits'
  <2>1. op' = [op EXCEPT ![r] = Idle] /\ op[r].pc = "service" /\ UNCHANGED <<created, config>>
      BY DEF NewService, At, Close
  <2>2. \/ UNCHANGED live
        \/ (live'[r].enabled => config[r] # "none") /\ \A q \in Runs \ {r} : live'[q] = live[q]
      BY StartedEffect DEF NewService
  <2>3. \A q \in Runs : store'[q].state = store[q].state
      BY DEF NewService, Shape, Fields
  <2> QED
      BY SMTT(60), <2>1, <2>2, <2>3 DEF ConfigFits, Busy, ProvisionSteps
<1>3. UnconfiguredRefs'
  <2>1. config[r] # "none"
      BY DEF NewService, At, ConfigFits, Busy
  <2>2. \A q \in Runs \ {r} : live'[q] = live[q]
      BY StartedEffect DEF NewService
  <2> QED
      BY <2>1, <2>2 DEF NewService, UnconfiguredRefs
<1>4. RefsExist'
  <2> DEFINE refs == ServiceRefs(r, op[r].gen)
  <2>1. refs \subseteq store[r].jobs /\ UNCHANGED archives
      BY DEF NewService, Valid
  <2>2. \/ UNCHANGED live
        \/ live'[r].refs = refs /\ \A q \in Runs \ {r} : live'[q] = live[q]
    <3>1. Started(r, op[r].gen, refs) \/ UNCHANGED live
        BY DEF NewService
    <3> HIDE DEF refs
    <3> QED
        BY SMTT(60), <3>1, StartedEffect
  <2>3. store' = [store EXCEPT ![r].index = refs, ![r].gen = Len(archives[r])]
      BY DEF NewService
  <2> HIDE DEF refs
  <2>4. /\ \A q \in Runs : store'[q].jobs = store[q].jobs
        /\ \A q \in Runs \ {r} : store'[q].index = store[q].index
        /\ store'[r].index = refs
      BY <2>3 DEF Shape, Fields
  <2> QED
      BY <2>1, <2>2, <2>4 DEF RefsExist
<1>5. Shape'
    BY DEF NewService, Close, Started, Shape, Fields
<1>6. LockHeld'
    BY DEF NewService, At, Close, Shape, Fields, LockHeld
<1>7. StepFits'
    BY SMTT(60) DEF NewService, At, Close, LockHeld, StepFits
<1> QED
    BY <1>1, <1>2, <1>3, <1>4, <1>5, <1>6, <1>7

\* A committed job is in place before anything refers to it.
LEMMA PublishCommitStep ==
    ASSUME StoreInv, NEW r \in Runs, PublishCommit(r)
    PROVE  StoreInv'
<1> USE DEF StoreInv
<1>1. GateQuiet'
  <2>1. live'[r].phase = live[r].phase /\ \A q \in Runs \ {r} : live'[q] = live[q]
      BY SMTT(60) DEF PublishCommit, Shape, Fields
  <2>2. op' = [op EXCEPT ![r] = Idle] /\ op[r].pc = "index" /\ UNCHANGED <<created, archives>>
      BY DEF PublishCommit, At, Close
  <2>3. live[r].phase = "running"
      BY <2>2 DEF GateQuiet, Busy, JobSteps
  <2>4. op'[r].pc = "idle" /\ \A q \in Runs \ {r} : op'[q] = op[q]
      BY <2>2 DEF Shape, Fields
  <2>5. live[r].phase # "none" => r # "destination" \/ created["destination"] # "no"
      BY DEF GateQuiet
  <2> QED
      BY SMTT(60), <2>1, <2>2, <2>3, <2>4, <2>5 DEF GateQuiet, Busy, ProvisionSteps,
      CandidateSteps,
                                          InheritSteps, GateSteps
<1>2. UnconfiguredRefs'
  <2>1. config[r] # "none"
      BY DEF PublishCommit, At, ConfigFits, Busy, JobSteps
  <2>2. \A q \in Runs \ {r} : live'[q] = live[q]
      BY DEF PublishCommit, Shape, Fields
  <2> QED
      BY <2>1, <2>2 DEF PublishCommit, UnconfiguredRefs
<1>3. RefsExist'
  <2> DEFINE refs == live[r].refs \cup {fresh - 1}
  <2>1. refs \ NoRefs \subseteq store[r].jobs
      BY DEF PublishCommit, At, RefsExist, StepFits
  <2>2. \/ live' = [live EXCEPT ![r].refs = refs, ![r].told = live[r].told \cup {fresh - 1},
                               ![r].tried = live[r].tried \cup {fresh - 1}]
        \/ live' = [live EXCEPT ![r].tried = live[r].tried \cup {fresh - 1}]
      BY DEF PublishCommit
  <2>3. store' = [store EXCEPT ![r].index = refs, ![r].gen = live[r].gen] /\ UNCHANGED archives
      BY DEF PublishCommit
  <2> HIDE DEF refs
  <2>4. /\ \A q \in Runs : store'[q].jobs = store[q].jobs
        /\ \A q \in Runs \ {r} : store'[q].index = store[q].index
        /\ store'[r].index = refs
      BY <2>3 DEF Shape, Fields
  <2>5. /\ live'[r].refs \in {refs, live[r].refs}
        /\ \A q \in Runs \ {r} : live'[q].refs = live[q].refs
      BY SMTT(60), <2>2 DEF Shape, Fields
  <2> QED
      BY ZenonT(60), <2>1, <2>3, <2>4, <2>5 DEF RefsExist
<1>4. Shape' /\ LockHeld' /\ ConfigFits'
    BY SMTT(60) DEF PublishCommit, At, Close, Shape, Fields, LockHeld, GateQuiet, ConfigFits,
    Busy,
           ProvisionSteps, JobSteps, CandidateSteps, GateSteps
<1>5. StepFits'
    BY SMTT(60) DEF PublishCommit, Close, Shape, Fields, StepFits, Keep
<1> QED
    BY <1>1, <1>2, <1>3, <1>4, <1>5

\* Collection spares what archives, the inherited references and the index refer to.
LEMMA CollectJobStep ==
    ASSUME StoreInv, NEW r \in Runs, CollectJob(r)
    PROVE  StoreInv'
<1> USE DEF StoreInv
<1>1. GateQuiet'
    BY SMTT(60), CollectEffect DEF GateQuiet, Busy
<1>2. ConfigFits'
    BY SMTT(60), CollectEffect DEF ConfigFits, Busy
<1>3. UnconfiguredRefs'
    BY SMTT(60), CollectEffect DEF UnconfiguredRefs
<1>4. RefsExist'
    BY SMTT(60), CollectEffect DEF RefsExist, StepFits, GateQuiet, Busy, GateSteps, Keep
<1>5. StepFits'
    BY SMTT(60), CollectEffect DEF StepFits, Keep
<1>6. Shape' /\ LockHeld'
    BY DEF CollectJob, Shape, Fields, LockHeld
<1> QED
    BY <1>1, <1>2, <1>3, <1>4, <1>5, <1>6

\* A destination is initialised before it has archives or a generation.
LEMMA InheritStep ==
    ASSUME StoreInv, Inherit
    PROVE  StoreInv'
<1> USE DEF StoreInv
<1>1. GateQuiet'
    BY InheritBegins DEF GateQuiet, Busy, JobSteps, CandidateSteps
<1>2. ConfigFits'
    BY SMTT(60), InheritBegins DEF ConfigFits, Busy, ProvisionSteps, JobSteps
<1>3. UnconfiguredRefs'
    BY SMTT(60), InheritBegins DEF UnconfiguredRefs
<1>4. RefsExist'
    BY InheritBegins DEF RefsExist
<1>5. StepFits'
    BY SMTT(60), InheritBegins DEF StepFits, Keep
<1>6. Shape' /\ LockHeld'
    BY ZenonT(60) DEF Inherit, Doing, Shape, Fields, LockHeld
<1> QED
    BY <1>1, <1>2, <1>3, <1>4, <1>5, <1>6

\* Authority over an inherited store is granted to a complete store.
LEMMA EnableInheritedStep ==
    ASSUME StoreInv, EnableInherited
    PROVE  StoreInv'
<1> USE DEF StoreInv
<1>1. ConfigFits'
  <2>1. store["destination"].state = "ready" /\ created["destination"] # "no"
      BY DEF EnableInherited, Valid, At, ConfigFits, Busy
  <2> QED
      BY <2>1 DEF EnableInherited, Close, Shape, Fields, ConfigFits, Busy, ProvisionSteps
<1>2. Shape' /\ LockHeld' /\ GateQuiet'
    BY DEF EnableInherited, At, Close, Shape, Fields, LockHeld, GateQuiet, Busy, JobSteps,
           CandidateSteps, InheritSteps, GateSteps
<1>3. UnconfiguredRefs' /\ RefsExist' /\ StepFits'
    BY SMTT(60) DEF EnableInherited, Close, UnconfiguredRefs, RefsExist, StepFits, Keep
<1> QED
    BY <1>1, <1>2, <1>3

\* An archive takes the references of the index or of the service, which exist.
LEMMA FreezeStep ==
    ASSUME StoreInv, NEW r \in Runs, Freeze(r)
    PROVE  StoreInv'
<1> USE DEF StoreInv
<1>1. Shape' /\ LockHeld' /\ GateQuiet'
    BY SMTT(60) DEF Freeze, Shape, Fields, LockHeld, GateQuiet, Busy, JobSteps
<1>2. ConfigFits' /\ UnconfiguredRefs' /\ RefsExist'
    BY SMTT(60) DEF Freeze, FrozenRefs, ConfigFits, Busy, UnconfiguredRefs, RefsExist
<1>3. StepFits'
    BY SMTT(60) DEF Freeze, StepFits, Keep
<1> QED
    BY <1>1, <1>2, <1>3

\* A discarded generation leaves no references of its own.
LEMMA DiscardStep ==
    ASSUME StoreInv, NEW r \in Runs, Discard(r)
    PROVE  StoreInv'
<1> USE DEF StoreInv
<1>1. Shape' /\ LockHeld' /\ GateQuiet'
    BY DEF Discard, Shape, Fields, LockHeld, GateQuiet, Busy, JobSteps
<1>2. ConfigFits' /\ UnconfiguredRefs' /\ RefsExist'
    BY SMTT(60) DEF Discard, ConfigFits, Busy, UnconfiguredRefs, RefsExist
<1>3. StepFits'
    BY SMTT(60) DEF Discard, StepFits, Keep
<1> QED
    BY <1>1, <1>2, <1>3

\* A collection that is over releases the lock.
LEMMA CollectDoneStep ==
    ASSUME StoreInv, NEW r \in Runs, CollectDone(r)
    PROVE  StoreInv'
<1> USE DEF StoreInv
<1>1. Shape' /\ LockHeld' /\ GateQuiet'
    BY SMTT(60) DEF CollectDone, At, Close, Shape, Fields, LockHeld, GateQuiet, Busy, JobSteps,
           CandidateSteps, InheritSteps, GateSteps
<1>2. ConfigFits' /\ UnconfiguredRefs' /\ RefsExist'
    BY SMTT(60) DEF CollectDone, Close, ConfigFits, Busy, ProvisionSteps, JobSteps,
    UnconfiguredRefs,
           RefsExist
<1>3. StepFits'
    BY SMTT(60) DEF CollectDone, Close, StepFits, Keep
<1> QED
    BY <1>1, <1>2, <1>3

\* A destination that is initialised has the configuration and the store it was given.
LEMMA InheritCompleteStep ==
    ASSUME StoreInv, InheritComplete
    PROVE  StoreInv'
<1> USE DEF StoreInv
<1>1. Shape' /\ LockHeld' /\ GateQuiet'
    BY DEF InheritComplete, At, Close, Shape, Fields, LockHeld, GateQuiet, Busy, JobSteps,
           CandidateSteps, InheritSteps
<1>2. ConfigFits' /\ UnconfiguredRefs' /\ RefsExist'
    BY SMTT(60) DEF InheritComplete, Close, ConfigFits, Busy, ProvisionSteps, JobSteps,
           UnconfiguredRefs, RefsExist
<1>3. StepFits'
    BY SMTT(60) DEF InheritComplete, Close, StepFits, Keep
<1> QED
    BY <1>1, <1>2, <1>3

\* An initialisation that failed leaves a destination that was never created.
LEMMA InheritForgetStep ==
    ASSUME StoreInv, InheritForget
    PROVE  StoreInv'
<1> USE DEF StoreInv
<1>1. Shape' /\ LockHeld' /\ GateQuiet'
    BY DEF InheritForget, Shape, Fields, LockHeld, GateQuiet, Busy, JobSteps, InheritSteps
<1>2. ConfigFits' /\ UnconfiguredRefs' /\ RefsExist'
    BY SMTT(60) DEF InheritForget, Shape, GateQuiet, ConfigFits, Busy, ProvisionSteps, JobSteps,
           CandidateSteps, InheritSteps, UnconfiguredRefs, RefsExist
<1>3. StepFits'
    BY SMTT(60) DEF InheritForget, StepFits, Keep
<1> QED
    BY <1>1, <1>2, <1>3

\* A crash ends the operation and the generation of one process and frees the lock.
LEMMA CrashStep ==
    ASSUME StoreInv, NEW r \in Runs, Crash(r)
    PROVE  StoreInv'
<1> USE DEF StoreInv
<1>1. Shape' /\ LockHeld' /\ GateQuiet'
    BY DEF Crash, Shape, Fields, LockHeld, GateQuiet, Busy, JobSteps, CandidateSteps,
           InheritSteps
<1>2. ConfigFits' /\ UnconfiguredRefs' /\ RefsExist'
    BY SMTT(60) DEF Crash, ConfigFits, Busy, ProvisionSteps, JobSteps, UnconfiguredRefs,
    RefsExist
<1>3. StepFits'
    BY SMTT(60) DEF Crash, StepFits, Keep
<1> QED
    BY <1>1, <1>2, <1>3

\* A configuration is committed over a store that is in place.
LEMMA ProvisionCommitStep ==
    ASSUME StoreInv, NEW r \in Runs, ProvisionCommit(r)
    PROVE  StoreInv'
<1> USE DEF StoreInv
<1>1. ConfigFits'
  <2>1. created[r] # "no" /\ store[r].state # "staged"
      BY DEF ProvisionCommit, At, ConfigFits, Busy, ProvisionSteps
  <2> QED
      BY <2>1 DEF ProvisionCommit, Close, Shape, Fields, ConfigFits, Busy, ProvisionSteps
<1>2. Shape' /\ LockHeld' /\ GateQuiet'
    BY DEF ProvisionCommit, At, Close, Shape, Fields, LockHeld, GateQuiet, Busy,
           ProvisionSteps, JobSteps, CandidateSteps, InheritSteps, GateSteps
<1>3. UnconfiguredRefs' /\ RefsExist' /\ StepFits'
    BY SMTT(60) DEF ProvisionCommit, Close, Shape, Fields, UnconfiguredRefs, RefsExist,
    StepFits,
           Keep
<1> QED
    BY <1>1, <1>2, <1>3

\* Every step keeps the invariant: the actions above by their lemmas, the others
\* because each of them changes one store, one operation or one service.
LEMMA InvariantStep == StoreInv /\ [Next]_vars => StoreInv'
<1> SUFFICES ASSUME StoreInv, [Next]_vars PROVE StoreInv'
    OBVIOUS
<1> USE DEF StoreInv
<1>1. ASSUME NEW r \in Runs, Recover(r) PROVE StoreInv'
    BY <1>1, RecoverStep
<1>2. ASSUME NEW r \in Runs, Fails(r) PROVE StoreInv'
    BY SMTT(60), <1>2 DEF Fails, Close, Shape, Fields, LockHeld, GateQuiet, ConfigFits,
           UnconfiguredRefs, RefsExist, StepFits, Keep, Busy, ProvisionSteps, JobSteps,
           CandidateSteps, InheritSteps, GateSteps
<1>3. ASSUME NEW r \in Runs, EnableAgain(r) PROVE StoreInv'
    BY SMTT(60), <1>3 DEF EnableAgain, Shape, LockHeld, GateQuiet, ConfigFits,
                          UnconfiguredRefs, RefsExist, StepFits, Keep, Busy
<1>4. ASSUME NEW r \in Runs, Provision(r) PROVE StoreInv'
    BY SMTT(60), <1>4 DEF Provision, Gate, LockStorage, Doing, Shape, Fields, LockHeld,
                          GateQuiet, ConfigFits, UnconfiguredRefs, RefsExist, StepFits,
                          Busy, ProvisionSteps, JobSteps, CandidateSteps, InheritSteps
<1>5. ASSUME NEW r \in Runs, ProvisionStage(r) PROVE StoreInv'
    BY SMTT(60), <1>5 DEF ProvisionStage, At, Goto, InitStaged, Shape, Fields, LockHeld,
                          GateQuiet, ConfigFits, UnconfiguredRefs, RefsExist, StepFits,
                          Busy, ProvisionSteps, JobSteps, CandidateSteps, InheritSteps,
                          GateSteps
<1>6. ASSUME NEW r \in Runs, ProvisionRename(r) PROVE StoreInv'
    BY SMTT(60), <1>6 DEF ProvisionRename, At, Goto, InitReady, Shape, Fields, LockHeld,
                          GateQuiet, ConfigFits, UnconfiguredRefs, RefsExist, StepFits,
                          Keep, Busy, ProvisionSteps, JobSteps, CandidateSteps,
                          InheritSteps, GateSteps
<1>7. ASSUME NEW r \in Runs, ProvisionCommit(r) PROVE StoreInv'
    BY <1>7, ProvisionCommitStep
<1>8. ASSUME NEW r \in Runs, NewService(r) PROVE StoreInv'
    BY <1>8, NewServiceStep
<1>9. ASSUME NEW r \in Runs, BeginJob(r) PROVE StoreInv'
    BY SMTT(60), <1>9 DEF BeginJob, LockStorage, Doing, Shape, Fields, LockHeld, GateQuiet,
           ConfigFits, UnconfiguredRefs, RefsExist, StepFits, Keep, Busy, ProvisionSteps,
           JobSteps, CandidateSteps, InheritSteps, GateSteps
<1>10. ASSUME NEW r \in Runs, AdmitJob(r) PROVE StoreInv'
    BY SMTT(60), <1>10 DEF AdmitJob, At, Goto, Shape, Fields, LockHeld, GateQuiet,
           ConfigFits, UnconfiguredRefs, RefsExist, StepFits, Keep, Busy, ProvisionSteps,
           JobSteps, CandidateSteps, InheritSteps, GateSteps
<1>11. ASSUME NEW r \in Runs, PublishStage(r) PROVE StoreInv'
    BY SMTT(60), <1>11 DEF PublishStage, At, Goto, Shape, Fields, LockHeld, GateQuiet,
           ConfigFits, UnconfiguredRefs, RefsExist, StepFits, Keep, Busy, ProvisionSteps,
           JobSteps, CandidateSteps, InheritSteps, GateSteps
<1>12. ASSUME NEW r \in Runs, PublishRename(r) PROVE StoreInv'
    BY SMTT(60), <1>12 DEF PublishRename, At, Goto, Shape, Fields, LockHeld, GateQuiet,
           ConfigFits, UnconfiguredRefs, RefsExist, StepFits, Keep, Busy, ProvisionSteps,
           JobSteps, CandidateSteps, InheritSteps, GateSteps
<1>13. ASSUME NEW r \in Runs, PublishCommit(r) PROVE StoreInv'
    BY <1>13, PublishCommitStep
<1>14. ASSUME NEW r \in Runs, Freeze(r) PROVE StoreInv'
    BY <1>14, FreezeStep
<1>15. ASSUME NEW r \in Runs, Discard(r) PROVE StoreInv'
    BY <1>15, DiscardStep
<1>16. ASSUME NEW r \in Runs, Crash(r) PROVE StoreInv'
    BY <1>16, CrashStep
<1>17. ASSUME NEW r \in Runs, GarbageCollect(r) PROVE StoreInv'
    BY SMTT(60), <1>17 DEF GarbageCollect, Gate, LockStorage, Doing, Shape, Fields,
           LockHeld, GateQuiet, ConfigFits, UnconfiguredRefs, RefsExist, StepFits, Keep,
           Busy, ProvisionSteps, JobSteps, CandidateSteps, InheritSteps, GateSteps
<1>18. ASSUME NEW r \in Runs, CollectIndex(r) PROVE StoreInv'
    BY SMTT(60), <1>18 DEF CollectIndex, At, Goto, Shape, Fields, LockHeld, GateQuiet,
           ConfigFits, UnconfiguredRefs, RefsExist, StepFits, Keep, Busy, ProvisionSteps,
           JobSteps, CandidateSteps, InheritSteps, GateSteps
<1>19. ASSUME NEW r \in Runs, CollectJob(r) PROVE StoreInv'
    BY <1>19, CollectJobStep
<1>20. ASSUME NEW r \in Runs, CollectDone(r) PROVE StoreInv'
    BY <1>20, CollectDoneStep
<1>21. ASSUME NEW r \in Runs, NEW parent \in NoGen..MaxGen[r], Boot(r, parent)
      PROVE  StoreInv'
    BY <1>21, BootStep
<1>22. CASE Inherit
    BY <1>22, InheritStep
<1>23. CASE InheritStage
    BY SMTT(60), <1>23 DEF InheritStage, At, Goto, InitStaged, Shape, Fields, LockHeld,
           GateQuiet, ConfigFits, UnconfiguredRefs, RefsExist, StepFits, Keep, Busy,
           ProvisionSteps, JobSteps, CandidateSteps, InheritSteps, GateSteps
<1>24. CASE InheritRename
    BY SMTT(60), <1>24 DEF InheritRename, At, Goto, InitReady, Shape, Fields, LockHeld,
           GateQuiet, ConfigFits, UnconfiguredRefs, RefsExist, StepFits, Keep, Busy,
           ProvisionSteps, JobSteps, CandidateSteps, InheritSteps, GateSteps
<1>25. CASE InheritCopy
    BY SMTT(60), <1>25 DEF InheritCopy, At, Shape, Fields, LockHeld, GateQuiet, ConfigFits,
           UnconfiguredRefs, RefsExist, StepFits, Keep, Busy, ProvisionSteps, JobSteps,
           CandidateSteps, InheritSteps, GateSteps
<1>26. CASE InheritIndex
    BY SMTT(60), <1>26 DEF InheritIndex, At, Goto, Shape, Fields, LockHeld, GateQuiet,
           ConfigFits, UnconfiguredRefs, RefsExist, StepFits, Keep, Busy, ProvisionSteps,
           JobSteps, CandidateSteps, InheritSteps, GateSteps
<1>27. CASE InheritPublish
    BY SMTT(60), <1>27 DEF InheritPublish, At, Goto, Shape, Fields, LockHeld, GateQuiet,
           ConfigFits, UnconfiguredRefs, RefsExist, StepFits, Keep, Busy, ProvisionSteps,
           JobSteps, CandidateSteps, InheritSteps, GateSteps
<1>28. CASE InheritComplete
    BY <1>28, InheritCompleteStep
<1>29. CASE InheritFails
    BY SMTT(60), <1>29 DEF InheritFails, Goto, LoseOwner, Shape, Fields, LockHeld,
           GateQuiet, ConfigFits, UnconfiguredRefs, RefsExist, StepFits, Keep, Busy,
           ProvisionSteps, JobSteps, CandidateSteps, InheritSteps, GateSteps
<1>30. CASE InheritUndo
    BY SMTT(60), <1>30 DEF InheritUndo, At, Shape, Fields, LockHeld, GateQuiet, ConfigFits,
           UnconfiguredRefs, RefsExist, StepFits, Keep, Busy, ProvisionSteps, JobSteps,
           CandidateSteps, InheritSteps, GateSteps
<1>31. CASE InheritForget
    BY <1>31, InheritForgetStep
<1>32. CASE ProvisionInherited
    BY SMTT(60), <1>32 DEF ProvisionInherited, LockStorage, Doing, Shape, Fields, LockHeld,
           GateQuiet, ConfigFits, UnconfiguredRefs, RefsExist, StepFits, Keep, Busy,
           ProvisionSteps, JobSteps, CandidateSteps, InheritSteps, GateSteps
<1>33. CASE EnableInherited
    BY <1>33, EnableInheritedStep
<1>34. CASE UNCHANGED vars
  <2>1. Shape'
      BY <1>34 DEF Shape, Fields
  <2>2. LockHeld'
      BY <1>34 DEF LockHeld
  <2>3. GateQuiet'
      BY <1>34 DEF GateQuiet, Busy
  <2>4. ConfigFits'
      BY <1>34 DEF ConfigFits, Busy
  <2>5. UnconfiguredRefs'
      BY <1>34 DEF UnconfiguredRefs
  <2>6. RefsExist'
      BY <1>34 DEF RefsExist
  <2>7. StepFits'
      BY SMTT(60), <1>34 DEF StepFits, Keep
  <2> QED
      BY <2>1, <2>2, <2>3, <2>4, <2>5, <2>6, <2>7
<1> QED
    BY <1>1, <1>2, <1>3, <1>4, <1>5, <1>6, <1>7, <1>8, <1>9, <1>10, <1>11, <1>12, <1>13,
           <1>14, <1>15, <1>16, <1>17, <1>18, <1>19, <1>20, <1>21, <1>22, <1>23, <1>24,
           <1>25, <1>26, <1>27, <1>28, <1>29, <1>30, <1>31, <1>32, <1>33, <1>34 DEF Next
----------------------------------------------------------------------------
\* A run starts with no stores and no operations.
LEMMA StoreInit == Init => StoreInv
<1> SUFFICES ASSUME Init PROVE StoreInv
    OBVIOUS
<1>1. Shape /\ LockHeld
    BY SMTT(60) DEF Init, Shape, Fields, LockHeld
<1>2. GateQuiet /\ ConfigFits
    BY DEF Init, GateQuiet, ConfigFits, Busy, ProvisionSteps, JobSteps, CandidateSteps,
           InheritSteps, GateSteps
<1>3. UnconfiguredRefs /\ RefsExist /\ StepFits
    BY SMTT(60) DEF Init, UnconfiguredRefs, RefsExist, StepFits
<1> QED
    BY <1>1, <1>2, <1>3 DEF StoreInv

\* The stores of both runs keep the invariant through every interleaving of
\* Provision, Start, Admit, Publish, Freeze, Collect and Inherit, and through a
\* crash between any two of their writes.
THEOREM StoreInvariant == Spec => []StoreInv
<1> QED
    BY StoreInit, InvariantStep, PTL DEF Spec

\* No job that an archive, a running service or an index in use refers to is
\* ever missing: collection, a crash in the middle of it, a failed publication
\* and another run's recovery remove only what nothing refers to.
THEOREM ReferencedCorrect == Spec => []ReferencedJobsExist
<1>1. StoreInv => ReferencedJobsExist
    BY DEF StoreInv, RefsExist, ReferencedJobsExist
<1> QED
    BY <1>1, StoreInvariant, PTL
----------------------------------------------------------------------------
(***************************************************************************)
(* Retention and lineage.  What is true of one run, on top of StoreInv.    *)
(***************************************************************************)
PublishSteps == {"publish", "rename", "index"}
CopySteps == {"inheritInit", "inheritStore", "inheritCopy"}

\* A publication has a place for its job and a number that is not zero, and a
\* destination holds only jobs it was told to copy, which fit.
Bound(q) ==
    /\ IsFiniteSet(store[q].jobs) /\ Cardinality(store[q].jobs) <= JobLimit
    /\ op[q].pc = "recover" => op[q].then \notin PublishSteps \cup {"inheritCopy"}
    /\ fresh \in Nat \ {0} /\ (op[q].pc \in PublishSteps => fresh > 1)
    /\ op[q].pc = "rename" => Cardinality(store[q].jobs) < JobLimit
    /\ Busy(q, CopySteps) => IsFiniteSet(op[q].todo) /\ Cardinality(op[q].todo) <= JobLimit
    /\ op[q].pc = "inheritCopy" => store[q].jobs \subseteq op[q].todo

\* A parent that is archived, or none
Known(q, parent) == parent = NoGen \/ parent + 1 \in DOMAIN archives[q]

\* The archived references lie between what the generation was told and what it tried.
Follows(q, i) ==
    LET a == archives[q][i]
        base == Base(q, a.parent)
    IN  /\ Known(q, a.parent)
        /\ \/ a.refs = NoRefs
           \/ /\ 0 \notin a.refs
              /\ base \cup a.told \subseteq a.refs /\ a.refs \subseteq base \cup a.tried

\* Archives follow their lineage, and the index of a running service lies
\* between the same two.
Line(q) ==
    /\ \A i \in DOMAIN archives[q] : Follows(q, i)
    /\ live[q].phase = "running" => Known(q, live[q].parent)
    /\ live[q].phase = "running" /\ config[q] # "none" =>
         LET base == Base(q, live[q].parent)
         IN  /\ base \cup live[q].told \subseteq live[q].refs
             /\ live[q].refs \subseteq store[q].index
             /\ store[q].index \subseteq base \cup live[q].tried
             /\ 0 \notin store[q].index
    /\ Busy(q, {"service"}) => Known(q, op[q].gen)

LineageInv == StoreInv /\ \A q \in Runs : Bound(q) /\ Line(q)

\* A step that leaves what Bound and Line say of a run as it was, or takes from it.
PlainOp(q) ==
    \/ op'[q] = op[q]
    \/ op'[q].pc \notin PublishSteps \cup CopySteps \cup {"service", "recover"}
    \/ op'[q].pc = "recover" /\ op'[q].then \in {"provisionInit", "admit", "collect", "enable"}
    \/ /\ op[q].pc = "recover" /\ op'[q].pc = op[q].then /\ op'[q].then = op[q].then
       /\ op'[q].todo = op[q].todo /\ op'[q].gen = op[q].gen
Still(q) ==
    /\ archives'[q] = archives[q]
    /\ archives[q] = <<>> \/ inherited'[q] = inherited[q]
    /\ live'[q] = live[q] \/ live'[q].phase = "none"
    /\ \/ live'[q].phase = "none" \/ config'[q] = "none"
       \/ /\ inherited'[q] = inherited[q] /\ store'[q].index = store[q].index
          /\ config[q] # "none"
Plain(q) ==
    /\ store'[q].jobs \subseteq store[q].jobs
    /\ fresh' \in {fresh, fresh + 1}
    /\ Still(q) /\ PlainOp(q)

INSTANCE FiniteSetTheorems

\* A set of jobs that loses some has no more than it had.
LEMMA FewerJobs ==
    ASSUME NEW S, NEW T, IsFiniteSet(S), T \subseteq S
    PROVE  IsFiniteSet(T) /\ Cardinality(T) <= Cardinality(S)
           /\ Cardinality(T) \in Nat /\ Cardinality(S) \in Nat
    BY FS_Subset, FS_CardinalityType

\* A job more is at most one more.
LEMMA OneMoreJob ==
    ASSUME NEW S, NEW x, IsFiniteSet(S)
    PROVE  /\ IsFiniteSet(S \cup {x}) /\ Cardinality(S \cup {x}) <= Cardinality(S) + 1
           /\ Cardinality(S) \in Nat /\ Cardinality(S \cup {x}) \in Nat
<1>1. IsFiniteSet(S \cup {x})
    BY FS_AddElement
<1>2. Cardinality(S \cup {x}) = Cardinality(S) \/ Cardinality(S \cup {x}) = Cardinality(S) + 1
    BY FS_AddElement
<1>3. Cardinality(S) \in Nat
    BY FS_CardinalityType
<1> QED
    BY <1>1, <1>2, <1>3

\* A new store has no jobs.
LEMMA NewStoreIsEmpty == InitStaged.jobs = {} /\ InitReady.jobs = {}
    BY DEF InitStaged, InitReady

\* Bound and Line survive a plain step.
LEMMA PlainBound ==
    ASSUME NEW q \in Runs, Bound(q), Plain(q)
    PROVE  Bound(q)'
<1>1. /\ IsFiniteSet(store'[q].jobs) /\ Cardinality(store'[q].jobs) <= Cardinality(store[q].jobs)
      /\ Cardinality(store'[q].jobs) \in Nat /\ Cardinality(store[q].jobs) \in Nat
    BY FewerJobs DEF Bound, Plain
<1>2. JobLimit \in Nat
    BY BootstrapStoreBounds
<1>3. /\ op'[q].pc = "recover" => op'[q].then \notin PublishSteps \cup {"inheritCopy"}
      /\ op'[q].pc \in PublishSteps => op[q].pc = op'[q].pc
      /\ Busy(q, CopySteps)' => Busy(q, CopySteps) /\ op'[q].todo = op[q].todo
      /\ op'[q].pc = "inheritCopy" => op[q].pc = "inheritCopy" /\ op'[q].todo = op[q].todo
    BY DEF Bound, Plain, PlainOp, PublishSteps, CopySteps, Busy
<1> HIDE DEF PublishSteps, CopySteps
<1>4. fresh' \in Nat \ {0} /\ (op'[q].pc \in PublishSteps => fresh' > 1)
    BY <1>3 DEF Bound, Plain
<1>5. op'[q].pc = "rename" => op[q].pc = "rename"
    BY <1>3 DEF PublishSteps
<1>6. op'[q].pc = "inheritCopy" => store'[q].jobs \subseteq op'[q].todo
    BY <1>3 DEF Bound, Plain
<1> QED
    BY SMTT(60), <1>1, <1>2, <1>3, <1>4, <1>5, <1>6 DEF Bound

LEMMA FollowsSame ==
    ASSUME NEW q \in Runs, archives'[q] = archives[q], inherited'[q] = inherited[q]
    PROVE  /\ \A i : Follows(q, i)' <=> Follows(q, i)
           /\ \A p : (Known(q, p)' <=> Known(q, p)) /\ Base(q, p)' = Base(q, p)
    BY DEF Follows, Known, Base

LEMMA StillLine ==
    ASSUME NEW q \in Runs, Line(q), Still(q),
           Busy(q, {"service"})' => Busy(q, {"service"}) /\ op'[q].gen = op[q].gen
    PROVE  Line(q)'
<1>1. \A p : Known(q, p)' <=> Known(q, p)
    BY DEF Known, Still
<1>2. \A p : inherited'[q] = inherited[q] => Base(q, p)' = Base(q, p)
    BY DEF Base, Still
<1>3. DOMAIN archives[q] # {} => inherited'[q] = inherited[q]
    BY DEF Still
<1>4. \A i \in DOMAIN archives'[q] : Follows(q, i)'
    BY <1>1, <1>2, <1>3 DEF Line, Still, Follows
<1>5. live'[q].phase = "running" => live'[q] = live[q]
    BY DEF Still
<1>6. live'[q].phase = "running" /\ config'[q] # "none" =>
        /\ inherited'[q] = inherited[q] /\ store'[q].index = store[q].index
        /\ config[q] # "none"
    BY DEF Still
<1> QED
    BY <1>1, <1>2, <1>4, <1>5, <1>6 DEF Line

LEMMA PlainLine ==
    ASSUME NEW q \in Runs, Line(q), Plain(q)
    PROVE  Line(q)'
<1>1. Busy(q, {"service"})' => Busy(q, {"service"}) /\ op'[q].gen = op[q].gen
    BY DEF Plain, PlainOp, Busy
<1> QED
    BY <1>1, StillLine DEF Plain

\* A run that a step does not touch
Untouched(q) ==
    /\ store'[q] = store[q] /\ archives'[q] = archives[q] /\ inherited'[q] = inherited[q]
    /\ live'[q] = live[q] /\ config'[q] = config[q] /\ op'[q] = op[q]
    /\ fresh' \in {fresh, fresh + 1}

LEMMA UntouchedPlain == ASSUME NEW q, Untouched(q) PROVE Plain(q)
    BY DEF Untouched, Plain, PlainOp, Still

\* What the three ways of moving an operation on do to it.
LEMMA OpEnds ==
    ASSUME Shape, NEW r \in Runs, op' = [op EXCEPT ![r] = Idle]
    PROVE  op'[r].pc = "idle" /\ \A q \in Runs \ {r} : op'[q] = op[q]
    BY DEF Shape, Fields

LEMMA OpMoves ==
    ASSUME Shape, NEW r \in Runs, NEW pc, op' = [op EXCEPT ![r].pc = pc]
    PROVE  /\ op'[r].pc = pc /\ op'[r].then = op[r].then
           /\ op'[r].todo = op[r].todo /\ op'[r].gen = op[r].gen
           /\ \A q \in Runs \ {r} : op'[q] = op[q]
    BY DEF Shape, Fields

LEMMA OpBegins ==
    ASSUME Shape, NEW r \in Runs, NEW pc, op' = [op EXCEPT ![r] = Doing(pc)]
    PROVE  /\ op'[r].pc = "recover" /\ op'[r].then = pc
           /\ \A q \in Runs \ {r} : op'[q] = op[q]
    BY DEF Shape, Fields, Doing

\* A step keeps the invariant of every run when it is plain for all of them, or
\* keeps that of one and does not touch the others.
LEMMA PlainKeeps ==
    ASSUME LineageInv, \A q \in Runs : Plain(q)
    PROVE  \A q \in Runs : Bound(q)' /\ Line(q)'
    BY PlainBound, PlainLine DEF LineageInv

LEMMA OneKeeps ==
    ASSUME LineageInv, NEW r \in Runs, \A q \in Runs \ {r} : Untouched(q), Bound(r)', Line(r)'
    PROVE  \A q \in Runs : Bound(q)' /\ Line(q)'
    BY UntouchedPlain, PlainBound, PlainLine DEF LineageInv

LEMMA PlainSteps ==
    ASSUME LineageInv, NEW r \in Runs, \A q \in Runs \ {r} : Untouched(q), Plain(r)
    PROVE  \A q \in Runs : Bound(q)' /\ Line(q)'
    BY UntouchedPlain, PlainKeeps
----------------------------------------------------------------------------
\* Recovery takes whole stores from runs without a configuration.
LEMMA RecoverLine ==
    ASSUME LineageInv, NEW r \in Runs, Recover(r)
    PROVE  \A q \in Runs : Bound(q)' /\ Line(q)'
<1>1. ASSUME NEW q \in Runs
      PROVE  /\ store'[q].jobs \subseteq store[q].jobs
             /\ store'[q].index = store[q].index \/ config[q] = "none"
    BY SMTT(60), RecoverEffect DEF LineageInv, StoreInv, ConfigFits
<1>2. \/ op' = op
      \/ /\ op'[r].pc = op[r].then /\ op'[r].then = op[r].then
         /\ op'[r].todo = op[r].todo /\ op'[r].gen = op[r].gen
         /\ \A q \in Runs \ {r} : op'[q] = op[q]
    BY OpMoves DEF Recover, LineageInv, StoreInv
<1>3. op[r].pc = "recover" /\ UNCHANGED <<config, inherited, archives, live, fresh>>
    BY DEF Recover
<1>4. \A q \in Runs : Plain(q)
    BY <1>1, <1>2, <1>3 DEF Plain, Still, PlainOp
<1> QED
    BY <1>4, PlainKeeps

\* The steps that end, or that move an operation on without a job or an archive.
LEMMA QuietLines ==
    ASSUME LineageInv, NEW r \in Runs,
           \/ Fails(r) \/ EnableAgain(r) \/ Provision(r) \/ ProvisionStage(r)
           \/ ProvisionRename(r) \/ ProvisionCommit(r) \/ BeginJob(r) \/ Discard(r)
           \/ Crash(r) \/ GarbageCollect(r) \/ CollectIndex(r) \/ CollectJob(r)
           \/ CollectDone(r)
    PROVE  \A q \in Runs : Bound(q)' /\ Line(q)'
<1> USE DEF LineageInv, StoreInv
<1>1. CASE Fails(r)
  <2>1. op'[r].pc = "idle" /\ \A q \in Runs \ {r} : op'[q] = op[q]
      BY <1>1, OpEnds DEF Fails, Close
  <2>2. /\ store'[r].jobs = store[r].jobs /\ store'[r].index = store[r].index
        /\ \A q \in Runs \ {r} : store'[q] = store[q]
      BY <1>1 DEF Fails, Shape, Fields
  <2>3. UNCHANGED <<config, inherited, archives, live, fresh>>
      BY <1>1 DEF Fails
  <2> QED
      BY <2>1, <2>2, <2>3, PlainSteps DEF Untouched, Plain, Still, PlainOp, PublishSteps,
      CopySteps
<1>2. CASE EnableAgain(r)
  <2>1. config[r] = "disabled" /\ \A q \in Runs \ {r} : config'[q] = config[q]
      BY <1>2 DEF EnableAgain, Shape
  <2>2. UNCHANGED <<store, op, inherited, archives, live, fresh>>
      BY <1>2 DEF EnableAgain
  <2> QED
      BY <2>1, <2>2, PlainSteps DEF Untouched, Plain, Still, PlainOp
<1>3. CASE Provision(r) \/ BeginJob(r) \/ GarbageCollect(r)
  <2>1. \E pc \in {"provisionInit", "admit", "collect"} : op' = [op EXCEPT ![r] = Doing(pc)]
      BY <1>3 DEF Provision, BeginJob, GarbageCollect, LockStorage
  <2>2. /\ op'[r].pc = "recover" /\ op'[r].then \in {"provisionInit", "admit", "collect"}
        /\ \A q \in Runs \ {r} : op'[q] = op[q]
      BY <2>1, OpBegins
  <2>3. UNCHANGED <<store, config, inherited, archives, live, fresh>>
      BY <1>3 DEF Provision, BeginJob, GarbageCollect
  <2> QED
      BY <2>2, <2>3, PlainSteps DEF Untouched, Plain, Still, PlainOp
<1>4. CASE ProvisionStage(r) \/ ProvisionRename(r)
  <2>1. \E pc \in {"provisionStore", "provisionConfig"} : op' = [op EXCEPT ![r].pc = pc]
      BY <1>4 DEF ProvisionStage, ProvisionRename, Goto
  <2>2. /\ op'[r].pc \in {"provisionStore", "provisionConfig"}
        /\ \A q \in Runs \ {r} : op'[q] = op[q]
      BY ZenonT(60), <2>1, OpMoves
  <2>3. store'[r].jobs = {} /\ \A q \in Runs \ {r} : store'[q] = store[q]
      BY <1>4, NewStoreIsEmpty DEF ProvisionStage, ProvisionRename, Shape, Fields
  <2>4. UNCHANGED <<config, inherited, archives, live, fresh>>
      BY <1>4 DEF ProvisionStage, ProvisionRename
  <2>5. live[r].phase = "none"
      BY <1>4 DEF ProvisionStage, ProvisionRename, At, GateQuiet, Busy, GateSteps,
      ProvisionSteps
  <2> QED
      BY <2>2, <2>3, <2>4, <2>5, PlainSteps DEF Untouched, Plain, Still, PlainOp, PublishSteps,
         CopySteps
<1>5. CASE ProvisionCommit(r)
  <2>1. op'[r].pc = "idle" /\ \A q \in Runs \ {r} : op'[q] = op[q]
      BY <1>5, OpEnds DEF ProvisionCommit, Close
  <2>2. /\ UNCHANGED <<store, inherited, archives, live, fresh>>
        /\ \A q \in Runs \ {r} : config'[q] = config[q]
      BY <1>5 DEF ProvisionCommit, Shape
  <2>3. live[r].phase = "none"
      BY <1>5 DEF ProvisionCommit, At, GateQuiet, Busy, GateSteps, ProvisionSteps
  <2> QED
      BY <2>1, <2>2, <2>3, PlainSteps DEF Untouched, Plain, Still, PlainOp, PublishSteps,
      CopySteps
<1>6. CASE Discard(r)
  <2>1. /\ live'[r].phase = "none" /\ \A q \in Runs \ {r} : live'[q] = live[q]
      BY <1>6 DEF Discard, Shape, Fields
  <2>2. UNCHANGED <<store, op, config, inherited, archives, fresh>>
      BY <1>6 DEF Discard
  <2> QED
      BY <2>1, <2>2, PlainSteps DEF Untouched, Plain, Still, PlainOp
<1>7. CASE Crash(r)
  <2>1. /\ live'[r].phase = "none" /\ \A q \in Runs \ {r} : live'[q] = live[q]
      BY <1>7 DEF Crash, Shape, Fields
  <2>2. op'[r].pc = "idle" /\ \A q \in Runs \ {r} : op'[q] = op[q]
      BY <1>7, OpEnds DEF Crash
  <2>3. UNCHANGED <<store, config, inherited, archives, fresh>>
      BY <1>7 DEF Crash
  <2> QED
      BY <2>1, <2>2, <2>3, PlainSteps DEF Untouched, Plain, Still, PlainOp, PublishSteps,
      CopySteps
<1>8. CASE CollectIndex(r)
  <2>1. op'[r].pc = "remove" /\ \A q \in Runs \ {r} : op'[q] = op[q]
      BY <1>8, OpMoves DEF CollectIndex, Goto
  <2>2. /\ store'[r].jobs = store[r].jobs /\ \A q \in Runs \ {r} : store'[q] = store[q]
      BY <1>8 DEF CollectIndex, Shape, Fields
  <2>3. UNCHANGED <<config, inherited, archives, live, fresh>>
      BY <1>8 DEF CollectIndex
  <2>4. live[r].phase = "none"
      BY <1>8 DEF CollectIndex, At, GateQuiet, Busy, GateSteps
  <2> QED
      BY <2>1, <2>2, <2>3, <2>4, PlainSteps DEF Untouched, Plain, Still, PlainOp, PublishSteps,
         CopySteps
<1>9. CASE CollectJob(r)
  <2>1. /\ store'[r].jobs \subseteq store[r].jobs /\ store'[r].index = store[r].index
        /\ \A q \in Runs \ {r} : store'[q] = store[q]
      BY <1>9, CollectEffect
  <2>2. UNCHANGED <<op, config, inherited, archives, live, fresh>>
      BY <1>9 DEF CollectJob
  <2>3. live[r].phase = "none"
      BY <1>9 DEF CollectJob, At, GateQuiet, Busy, GateSteps
  <2> QED
      BY <2>1, <2>2, <2>3, PlainSteps DEF Untouched, Plain, Still, PlainOp
<1>10. CASE CollectDone(r)
  <2>1. op'[r].pc = "idle" /\ \A q \in Runs \ {r} : op'[q] = op[q]
      BY <1>10, OpEnds DEF CollectDone, Close
  <2>2. UNCHANGED <<store, config, inherited, archives, live, fresh>>
      BY <1>10 DEF CollectDone
  <2>3. live[r].phase = "none"
      BY <1>10 DEF CollectDone, At, GateQuiet, Busy, GateSteps
  <2> QED
      BY <2>1, <2>2, <2>3, PlainSteps DEF Untouched, Plain, Still, PlainOp, PublishSteps,
      CopySteps
<1> QED
    BY <1>1, <1>2, <1>3, <1>4, <1>5, <1>6, <1>7, <1>8, <1>9, <1>10

\* A boot knows its parent, and a generation without a configuration has no index.
LEMMA BootLine ==
    ASSUME LineageInv, NEW r \in Runs, NEW parent, Boot(r, parent)
    PROVE  \A q \in Runs : Bound(q)' /\ Line(q)'
<1> USE DEF LineageInv, StoreInv
<1>1. Known(r, parent)
    BY SMTT(60) DEF Boot, Known, Shape
<1>2. UNCHANGED <<store, config, inherited, archives, fresh>> /\ op[r].pc = "idle"
    BY DEF Boot
<1>3. CASE config[r] = "none"
  <2>1. op' = op /\ Started(r, parent, NoRefs)
      BY <1>3 DEF Boot
  <2>2. live'[r].parent = parent /\ \A q \in Runs \ {r} : live'[q] = live[q]
      BY <2>1, StartedEffect
  <2>3. \A q \in Runs \ {r} : Untouched(q)
      BY <1>2, <2>1, <2>2 DEF Untouched
  <2>4. Bound(r)'
      BY <1>2, <2>1 DEF Bound, Busy
  <2>5. Line(r)'
    <3>1. /\ \A i : Follows(r, i)' <=> Follows(r, i)
          /\ \A p : (Known(r, p)' <=> Known(r, p)) /\ Base(r, p)' = Base(r, p)
        BY <1>2, FollowsSame
    <3>2. Busy(r, {"service"})' => Busy(r, {"service"}) /\ op' = op
        BY <2>1 DEF Busy
    <3> QED
        BY <1>1, <1>2, <1>3, <2>2, <3>1, <3>2 DEF Line
  <2> QED
      BY <2>3, <2>4, <2>5, OneKeeps
<1>4. CASE config[r] # "none"
  <2> DEFINE d == [Doing("service") EXCEPT !.gen = parent]
  <2>1. d.pc = "recover" /\ d.then = "service" /\ d.gen = parent
      BY DEF Doing
  <2>2. op' = [op EXCEPT ![r] = d] /\ UNCHANGED live
      BY <1>4 DEF Boot
  <2> HIDE DEF d
  <2>3. op'[r] = d /\ \A q \in Runs \ {r} : op'[q] = op[q]
      BY <2>2 DEF Shape, Fields
  <2>4. \A q \in Runs \ {r} : Untouched(q)
      BY <1>2, <2>2, <2>3 DEF Untouched
  <2>5. Bound(r)'
      BY <1>2, <2>1, <2>3 DEF Bound, Busy, PublishSteps, CopySteps
  <2>6. Line(r)'
    <3>1. /\ \A i : Follows(r, i)' <=> Follows(r, i)
          /\ \A p : (Known(r, p)' <=> Known(r, p)) /\ Base(r, p)' = Base(r, p)
        BY <1>2, FollowsSame
    <3> QED
        BY <1>1, <1>2, <2>1, <2>2, <2>3, <3>1 DEF Line
  <2> QED
      BY <2>4, <2>5, <2>6, OneKeeps
<1> QED
    BY <1>3, <1>4

\* A service starts from its parent's references, whatever the index held.
LEMMA NewServiceLine ==
    ASSUME LineageInv, NEW r \in Runs, NewService(r)
    PROVE  \A q \in Runs : Bound(q)' /\ Line(q)'
<1> USE DEF LineageInv, StoreInv
<1> DEFINE parent == op[r].gen
           refs == Base(r, op[r].gen)
<1>1. op'[r].pc = "idle" /\ \A q \in Runs \ {r} : op'[q] = op[q]
    BY OpEnds DEF NewService, Close
<1>2. op[r].pc = "service" /\ UNCHANGED <<config, inherited, archives, fresh>>
    BY DEF NewService, At
<1>3. store' = [store EXCEPT ![r].index = refs, ![r].gen = Len(archives[r])]
    BY DEF NewService, ServiceRefs
<1>4. Started(r, parent, refs) \/ UNCHANGED live
    BY DEF NewService, ServiceRefs
<1>5. Known(r, parent) /\ live[r].phase = "none"
    BY <1>2 DEF Line, Busy, GateQuiet, GateSteps
<1>6. 0 \notin refs
    BY DEF Base
<1>7. /\ \A i : Follows(r, i)' <=> Follows(r, i)
      /\ \A p : (Known(r, p)' <=> Known(r, p)) /\ Base(r, p)' = Base(r, p)
    BY <1>2, FollowsSame
<1>8. Base(r, parent) = refs
    OBVIOUS
<1> HIDE DEF refs, parent
<1>9. /\ store'[r].index = refs /\ store'[r].jobs = store[r].jobs
      /\ \A q \in Runs \ {r} : store'[q] = store[q]
    BY <1>3 DEF Shape, Fields
<1>10. \/ UNCHANGED live
       \/ /\ live'[r].parent = parent /\ live'[r].refs = refs
          /\ live'[r].told = {} /\ live'[r].tried = {}
          /\ \A q \in Runs \ {r} : live'[q] = live[q]
    BY SMTT(60), <1>4, StartedEffect
<1>11. \A q \in Runs \ {r} : Untouched(q)
    BY <1>1, <1>2, <1>9, <1>10 DEF Untouched
<1>12. Bound(r)'
    BY <1>1, <1>2, <1>9 DEF Bound, Busy, PublishSteps, CopySteps
<1>13. Line(r)'
  <2>1. ~Busy(r, {"service"})'
      BY <1>1 DEF Busy
  <2>2. live'[r].phase = "running" =>
          /\ live'[r].parent = parent /\ live'[r].refs = refs
          /\ live'[r].told = {} /\ live'[r].tried = {}
      BY <1>5, <1>10
  <2> QED
      BY SMTT(60), <1>2, <1>5, <1>6, <1>7, <1>8, <1>9, <2>1, <2>2 DEF Line
<1> QED
    BY <1>11, <1>12, <1>13, OneKeeps

\* Up to the rename of a job a publication changes neither index nor archives.
LEMMA PublicationLine ==
    ASSUME LineageInv, NEW r \in Runs, AdmitJob(r) \/ PublishStage(r) \/ PublishRename(r)
    PROVE  \A q \in Runs : Bound(q)' /\ Line(q)'
<1> USE DEF LineageInv, StoreInv
<1>1. UNCHANGED <<config, inherited, archives, live>> /\ fresh' \in {fresh, fresh + 1}
    BY DEF AdmitJob, PublishStage, PublishRename
<1>2. \E pc \in PublishSteps : op' = [op EXCEPT ![r].pc = pc]
    BY DEF AdmitJob, PublishStage, PublishRename, Goto, PublishSteps
<1>3. op'[r].pc \in PublishSteps /\ \A q \in Runs \ {r} : op'[q] = op[q]
    BY <1>2, OpMoves
<1>4. store'[r].index = store[r].index /\ \A q \in Runs \ {r} : store'[q] = store[q]
    BY SMTT(60) DEF AdmitJob, PublishStage, PublishRename, Shape, Fields
<1>5. Line(r)'
  <2>1. Still(r)
      BY <1>1, <1>4 DEF Still
  <2>2. ~Busy(r, {"service"})'
      BY <1>3 DEF Busy, PublishSteps
  <2> QED
      BY <2>1, <2>2, StillLine
<1>6. /\ ~Busy(r, CopySteps)' /\ op'[r].pc \notin {"inheritCopy", "recover"}
      /\ JobLimit \in Nat
    BY <1>3, BootstrapStoreBounds DEF Busy, CopySteps, PublishSteps
<1>7. \A q \in Runs \ {r} : Untouched(q)
    BY <1>1, <1>3, <1>4 DEF Untouched
<1>8. CASE AdmitJob(r)
  <2>1. op'[r].pc = "publish" /\ fresh' = fresh + 1 /\ UNCHANGED store /\ op[r].pc = "admit"
      BY <1>8, OpMoves DEF AdmitJob, Goto, At
  <2>2. fresh' \in Nat \ {0} /\ fresh' > 1
    <3>1. fresh \in Nat /\ fresh # 0
        BY DEF Bound
    <3> QED
        BY <2>1, <3>1
  <2>3. Bound(r)'
      BY <1>6, <2>1, <2>2 DEF Bound
  <2> QED
      BY <1>5, <1>7, <2>3, OneKeeps
<1>9. CASE PublishStage(r)
  <2>1. /\ op'[r].pc = "rename" /\ fresh' = fresh /\ op[r].pc = "publish"
        /\ Cardinality(store[r].jobs) < JobLimit
      BY <1>9, OpMoves DEF PublishStage, Goto, At, Admit
  <2>2. store'[r].jobs = store[r].jobs
      BY <1>9 DEF PublishStage, Shape, Fields
  <2>3. Bound(r)'
      BY <1>6, <2>1, <2>2 DEF Bound, PublishSteps
  <2> QED
      BY <1>5, <1>7, <2>3, OneKeeps
<1>10. CASE PublishRename(r)
  <2>1. op'[r].pc = "index" /\ fresh' = fresh /\ op[r].pc = "rename"
      BY <1>10, OpMoves DEF PublishRename, Goto, At
  <2>2. store'[r].jobs = store[r].jobs \cup {fresh - 1}
      BY <1>10 DEF PublishRename, Shape, Fields
  <2>3. IsFiniteSet(store[r].jobs) /\ Cardinality(store[r].jobs) < JobLimit
      BY <2>1 DEF Bound
  <2>4. IsFiniteSet(store'[r].jobs) /\ Cardinality(store'[r].jobs) <= JobLimit
    <3> DEFINE jobs == store[r].jobs
    <3>1. /\ IsFiniteSet(jobs \cup {fresh - 1}) /\ Cardinality(jobs) \in Nat
          /\ Cardinality(jobs \cup {fresh - 1}) \in Nat
          /\ Cardinality(jobs \cup {fresh - 1}) <= Cardinality(jobs) + 1
        BY <2>3, OneMoreJob
    <3>2. Cardinality(jobs \cup {fresh - 1}) <= JobLimit
        BY <1>6, <2>3, <3>1
    <3> QED
        BY <2>2, <3>1, <3>2
  <2>5. Bound(r)'
      BY <1>6, <2>1, <2>4 DEF Bound, PublishSteps
  <2> QED
      BY <1>5, <1>7, <2>5, OneKeeps
<1> QED
    BY <1>8, <1>9, <1>10

\* The commit adds one job to the index: told when it succeeds, tried in any case.
LEMMA CommitLine ==
    ASSUME LineageInv, NEW r \in Runs, PublishCommit(r)
    PROVE  \A q \in Runs : Bound(q)' /\ Line(q)'
<1> USE DEF LineageInv, StoreInv
<1> DEFINE job == fresh - 1
           refs == live[r].refs \cup {job}
<1>1. op'[r].pc = "idle" /\ \A q \in Runs \ {r} : op'[q] = op[q]
    BY OpEnds DEF PublishCommit, Close
<1>2. op[r].pc = "index" /\ UNCHANGED <<config, inherited, archives, fresh>>
    BY DEF PublishCommit, At
<1>3. store' = [store EXCEPT ![r].index = refs, ![r].gen = live[r].gen]
    BY DEF PublishCommit
<1>4. \/ live' = [live EXCEPT ![r].refs = refs, ![r].told = @ \cup {job},
                              ![r].tried = @ \cup {job}]
      \/ live' = [live EXCEPT ![r].tried = @ \cup {job}]
    BY DEF PublishCommit
<1>5. job # 0
    BY SMTT(60), <1>2 DEF Bound, PublishSteps
<1>6. refs = live[r].refs \cup {job}
    OBVIOUS
<1> HIDE DEF job, refs
<1>7. /\ store'[r].index = refs /\ store'[r].jobs = store[r].jobs
      /\ \A q \in Runs \ {r} : store'[q] = store[q]
    BY <1>3 DEF Shape, Fields
<1>8. /\ live'[r].phase = live[r].phase /\ live'[r].parent = live[r].parent
      /\ live'[r].tried = live[r].tried \cup {job}
      /\ \/ live'[r].refs = refs /\ live'[r].told = live[r].told \cup {job}
         \/ live'[r].refs = live[r].refs /\ live'[r].told = live[r].told
      /\ \A q \in Runs \ {r} : live'[q] = live[q]
    BY SMTT(60), <1>4 DEF Shape, Fields
<1>9. /\ \A i : Follows(r, i)' <=> Follows(r, i)
      /\ \A p : (Known(r, p)' <=> Known(r, p)) /\ Base(r, p)' = Base(r, p)
    BY <1>2, FollowsSame
<1>10. \A q \in Runs \ {r} : Untouched(q)
    BY <1>1, <1>2, <1>7, <1>8 DEF Untouched
<1>11. Bound(r)'
    BY <1>1, <1>2, <1>7 DEF Bound, Busy, PublishSteps, CopySteps
<1>12. live[r].phase = "running" /\ config[r] # "none"
    BY <1>2 DEF GateQuiet, ConfigFits, Busy, JobSteps
<1>13. Line(r)'
  <2> DEFINE base == Base(r, live[r].parent)
  <2>1. /\ base \cup live[r].told \subseteq live[r].refs
        /\ live[r].refs \subseteq base \cup live[r].tried
        /\ 0 \notin live[r].refs /\ Known(r, live[r].parent)
      BY <1>12 DEF Line
  <2>2. Base(r, live[r].parent)' = base
      BY <1>8, <1>9
  <2> HIDE DEF base
  <2>3. /\ base \cup live'[r].told \subseteq live'[r].refs
        /\ live'[r].refs \subseteq store'[r].index
        /\ store'[r].index \subseteq base \cup live'[r].tried
        /\ 0 \notin store'[r].index
      BY <1>5, <1>6, <1>7, <1>8, <2>1
  <2>4. ~Busy(r, {"service"})'
      BY <1>1 DEF Busy
  <2> QED
      BY <1>2, <1>8, <1>9, <2>1, <2>2, <2>3, <2>4 DEF Line
<1> QED
    BY <1>10, <1>11, <1>13, OneKeeps

\* An archive takes the index of the generation that ends.
LEMMA FreezeLine ==
    ASSUME LineageInv, NEW r \in Runs, Freeze(r)
    PROVE  \A q \in Runs : Bound(q)' /\ Line(q)'
<1> USE DEF LineageInv, StoreInv
<1> DEFINE a == [refs |-> FrozenRefs(r), parent |-> live[r].parent,
                 told |-> live[r].told, tried |-> live[r].tried]
           n == Len(archives[r])
<1>1. /\ live[r].phase = "running" /\ op[r].pc = "idle"
      /\ UNCHANGED <<config, inherited, store, op, fresh>>
    BY DEF Freeze
<1>2. archives' = [archives EXCEPT ![r] = Append(archives[r], a)]
    BY DEF Freeze
<1>3. live'[r].phase = "none" /\ \A q \in Runs \ {r} : live'[q] = live[q]
    BY DEF Freeze, Shape, Fields
<1>4. /\ a.parent = live[r].parent
      /\ \/ a.refs = NoRefs
         \/ /\ 0 \notin a.refs
            /\ Base(r, a.parent) \cup a.told \subseteq a.refs
            /\ a.refs \subseteq Base(r, a.parent) \cup a.tried
  <2>1. CASE config[r] = "none"
      BY <2>1 DEF FrozenRefs
  <2>2. CASE config[r] # "none"
    <3>1. /\ Base(r, live[r].parent) \cup live[r].told \subseteq store[r].index
          /\ store[r].index \subseteq Base(r, live[r].parent) \cup live[r].tried
          /\ 0 \notin store[r].index
        BY <1>1, <2>2 DEF Line
    <3>2. a.refs = store[r].index /\ a.parent = live[r].parent
        BY <2>2, <3>1 DEF FrozenRefs
    <3>3. a.told = live[r].told /\ a.tried = live[r].tried
        OBVIOUS
    <3> HIDE DEF a
    <3> QED
        BY <3>1, <3>2, <3>3
  <2> QED
      BY <2>1, <2>2
<1> HIDE DEF a
<1>5. /\ n \in Nat /\ DOMAIN archives[r] = 1..n /\ DOMAIN archives'[r] = 1..(n + 1)
      /\ archives'[r][n + 1] = a /\ \A i \in 1..n : archives'[r][i] = archives[r][i]
      /\ \A q \in Runs \ {r} : archives'[q] = archives[q]
    BY SMTT(60), <1>2 DEF Shape
<1> HIDE DEF n
<1>6. \A p : Known(r, p) => Known(r, p)' /\ Base(r, p)' = Base(r, p)
    BY SMTT(60), <1>1, <1>5 DEF Known, Base
<1>7. Known(r, live[r].parent) /\ \A i \in DOMAIN archives[r] : Known(r, archives[r][i].parent)
    BY <1>1 DEF Line, Follows
<1>8. ASSUME NEW i \in DOMAIN archives'[r]
      PROVE  Follows(r, i)'
  <2>1. CASE i = n + 1
      BY <1>4, <1>5, <1>6, <1>7, <2>1 DEF Follows
  <2>2. CASE i \in 1..n
      BY SMTT(60), <1>5, <1>6, <1>7, <2>2 DEF Line, Follows
  <2> QED
      BY SMTT(60), <1>5, <2>1, <2>2
<1>9. Line(r)'
    BY <1>1, <1>3, <1>8 DEF Line, Busy
<1>10. Bound(r)'
    BY <1>1 DEF Bound, Busy
<1>11. \A q \in Runs \ {r} : Untouched(q)
    BY <1>1, <1>3, <1>5 DEF Untouched
<1> QED
    BY <1>9, <1>10, <1>11, OneKeeps

\* A destination is told to copy the references of the source's latest archive,
\* all of them jobs the source retains.
LEMMA InheritLine ==
    ASSUME LineageInv, Inherit
    PROVE  \A q \in Runs : Bound(q)' /\ Line(q)'
<1> USE DEF LineageInv, StoreInv
<1>1. UNCHANGED <<config, inherited, store, archives, live, fresh>>
    BY DEF Inherit
<1>2. CASE Selected = NoRefs
  <2>1. op' = op
      BY <1>2 DEF Inherit
  <2> QED
      BY <1>1, <2>1, UntouchedPlain, PlainKeeps DEF Untouched
<1>3. CASE Selected # NoRefs
  <2> DEFINE d == [Doing("inheritInit") EXCEPT !.todo = Selected]
             n == Len(archives["source"])
  <2>1. d.pc = "recover" /\ d.then = "inheritInit" /\ d.todo = Selected
      BY DEF Doing
  <2>2. op' = [op EXCEPT !["destination"] = d] /\ archives["source"] # <<>>
      BY <1>3 DEF Inherit
  <2> HIDE DEF d
  <2>3. op'["destination"] = d /\ \A q \in Runs \ {"destination"} : op'[q] = op[q]
      BY <2>2 DEF Shape, Fields
  <2>4. n \in DOMAIN archives["source"]
      BY SMTT(60), <2>2 DEF Shape
  <2>5. Selected \subseteq store["source"].jobs
    <3>1. 0 \notin Selected
        BY <1>3, <2>4 DEF Line, Follows, Selected
    <3> QED
        BY <2>4, <3>1 DEF RefsExist, Selected
  <2>6. IsFiniteSet(Selected) /\ Cardinality(Selected) <= JobLimit
    <3>1. IsFiniteSet(store["source"].jobs) /\ Cardinality(store["source"].jobs) <= JobLimit
        BY DEF Bound
    <3> QED
        BY <2>5, <3>1, FewerJobs, BootstrapStoreBounds
  <2> HIDE DEF n
  <2>7. Bound("destination")'
      BY <1>1, <2>1, <2>3, <2>6 DEF Bound, PublishSteps
  <2>8. Line("destination")'
    <3>1. ~Busy("destination", {"service"})' /\ Still("destination")
        BY <1>1, <2>1, <2>3 DEF Busy, Still
    <3> QED
        BY <3>1, StillLine
  <2>9. \A q \in Runs \ {"destination"} : Untouched(q)
      BY <1>1, <2>3 DEF Untouched
  <2> QED
      BY <2>7, <2>8, <2>9, OneKeeps
<1> QED
    BY <1>2, <1>3

\* The store of a destination is filled with what it was told to copy.
LEMMA CopyLine ==
    ASSUME LineageInv, InheritStage \/ InheritRename \/ InheritCopy
    PROVE  \A q \in Runs : Bound(q)' /\ Line(q)'
<1> USE DEF LineageInv, StoreInv
<1> DEFINE r == "destination"
<1>1. UNCHANGED <<config, inherited, archives, live, fresh>>
    BY DEF InheritStage, InheritRename, InheritCopy
<1>2. Busy(r, CopySteps) /\ live[r].phase = "none"
    BY DEF InheritStage, InheritRename, InheritCopy, At, Busy, CopySteps, GateQuiet, GateSteps,
       InheritSteps, CandidateSteps
<1>3. op' = op \/ \E pc \in {"inheritStore", "inheritCopy"} : op' = [op EXCEPT ![r].pc = pc]
    BY DEF InheritStage, InheritRename, InheritCopy, Goto
<1>4. /\ op'[r].todo = op[r].todo /\ \A q \in Runs \ {r} : op'[q] = op[q]
      /\ op'[r].pc \in {"inheritStore", "inheritCopy"}
    BY <1>3, OpMoves DEF InheritCopy, InheritStage, InheritRename, At, Goto
<1>5. \A q \in Runs \ {r} : store'[q] = store[q]
    BY DEF InheritStage, InheritRename, InheritCopy, Shape, Fields
<1>6. store'[r].jobs \subseteq op[r].todo
  <2>1. CASE InheritStage \/ InheritRename
      BY <2>1, NewStoreIsEmpty DEF InheritStage, InheritRename, Shape, Fields
  <2>2. CASE InheritCopy
    <3>1. store[r].jobs \subseteq op[r].todo
        BY <2>2 DEF InheritCopy, At, Bound
    <3> QED
        BY SMTT(60), <2>2, <3>1 DEF InheritCopy, Shape, Fields
  <2> QED
      BY <2>1, <2>2
<1>7. IsFiniteSet(op[r].todo) /\ Cardinality(op[r].todo) <= JobLimit /\ JobLimit \in Nat
    BY <1>2, BootstrapStoreBounds DEF Bound
<1>8. IsFiniteSet(store'[r].jobs) /\ Cardinality(store'[r].jobs) <= JobLimit
    BY SMTT(60), <1>6, <1>7, FewerJobs
<1>9. Bound(r)'
    BY <1>1, <1>4, <1>6, <1>7, <1>8 DEF Bound, PublishSteps
<1>10. Line(r)'
  <2>1. ~Busy(r, {"service"})' /\ Still(r)
      BY <1>1, <1>2, <1>4 DEF Busy, Still
  <2> QED
      BY <2>1, StillLine
<1>11. \A q \in Runs \ {r} : Untouched(q)
    BY <1>1, <1>4, <1>5 DEF Untouched
<1> QED
    BY <1>9, <1>10, <1>11, OneKeeps

\* The end of an initialisation, and an enabled destination, have no archive and
\* no generation yet.
LEMMA DestinationLines ==
    ASSUME LineageInv,
           \/ InheritIndex \/ InheritPublish \/ InheritComplete \/ InheritFails
           \/ InheritUndo \/ InheritForget \/ ProvisionInherited \/ EnableInherited
    PROVE  \A q \in Runs : Bound(q)' /\ Line(q)'
<1> USE DEF LineageInv, StoreInv
<1> DEFINE r == "destination"
<1>1. UNCHANGED <<archives, live, fresh>>
    BY DEF InheritIndex, InheritPublish, InheritComplete, InheritFails, InheritUndo,
       InheritForget, ProvisionInherited, EnableInherited
<1>2. live[r].phase = "none"
  <2>1. CASE ProvisionInherited
      BY <2>1 DEF ProvisionInherited
  <2>2. CASE ~ProvisionInherited
    <3>1. Busy(r, GateSteps)
        BY <2>2 DEF InheritIndex, InheritPublish, InheritComplete, InheritFails, InheritUndo,
           InheritForget, EnableInherited, At, Busy, GateSteps, InheritSteps, CandidateSteps
    <3> QED
        BY <3>1 DEF GateQuiet
  <2> QED
      BY <2>1, <2>2
<1>3. /\ \A q \in Runs \ {r} : inherited'[q] = inherited[q] /\ config'[q] = config[q]
      /\ inherited'[r] = inherited[r] \/ archives[r] = <<>>
  <2>1. CASE InheritPublish \/ InheritForget
    <3>1. Busy(r, InheritSteps)
        BY <2>1 DEF InheritPublish, InheritForget, At, Busy, InheritSteps, CandidateSteps
    <3>2. \A q \in Runs \ {r} : inherited'[q] = inherited[q] /\ config'[q] = config[q]
        BY <2>1 DEF InheritPublish, InheritForget, Shape
    <3> QED
        BY <3>1, <3>2 DEF GateQuiet
  <2>2. CASE ~(InheritPublish \/ InheritForget)
      BY <2>2 DEF InheritIndex, InheritComplete, InheritFails, InheritUndo,
         ProvisionInherited, EnableInherited, Shape
  <2> QED
      BY <2>1, <2>2
<1>4. /\ store'[r].jobs \subseteq store[r].jobs
      /\ \A q \in Runs \ {r} : store'[q] = store[q]
  <2>1. CASE InheritIndex
      BY <2>1 DEF InheritIndex, Shape, Fields
  <2>2. CASE InheritFails \/ InheritUndo
      BY SMTT(60), <2>2 DEF InheritFails, InheritUndo, LoseOwner, Shape, Fields
  <2>3. CASE ~(InheritIndex \/ InheritFails \/ InheritUndo)
      BY <2>3 DEF InheritPublish, InheritComplete, InheritForget, ProvisionInherited,
         EnableInherited
  <2> QED
      BY <2>1, <2>2, <2>3
<1>5. /\ PlainOp(r) /\ \A q \in Runs \ {r} : op'[q] = op[q]
  <2>1. \/ op' = [op EXCEPT ![r] = Idle] \/ op' = [op EXCEPT ![r] = Doing("enable")]
        \/ \E pc \in {"inheritPublish", "inheritDone", "undo", "forget"} :
             op' = [op EXCEPT ![r].pc = pc]
      BY DEF InheritIndex, InheritPublish, InheritComplete, InheritFails, InheritUndo,
         InheritForget, ProvisionInherited, EnableInherited, Goto, Close, LockStorage
  <2> QED
      BY SMTT(60), <2>1, OpEnds, OpBegins, OpMoves DEF PlainOp, PublishSteps, CopySteps
<1>6. Plain(r)
    BY <1>1, <1>2, <1>3, <1>4, <1>5 DEF Plain, Still
<1>7. \A q \in Runs \ {r} : Untouched(q)
    BY <1>1, <1>3, <1>4, <1>5 DEF Untouched
<1> QED
    BY <1>6, <1>7, PlainSteps

\* Every step keeps the bound and the lineage of every run.
LEMMA LineageStep == LineageInv /\ [Next]_vars => LineageInv'
<1> SUFFICES ASSUME LineageInv, [Next]_vars PROVE \A q \in Runs : Bound(q)' /\ Line(q)'
    BY InvariantStep DEF LineageInv
<1>1. CASE \E r \in Runs :
             \/ Fails(r) \/ EnableAgain(r) \/ Provision(r) \/ ProvisionStage(r)
             \/ ProvisionRename(r) \/ ProvisionCommit(r) \/ BeginJob(r) \/ Discard(r)
             \/ Crash(r) \/ GarbageCollect(r) \/ CollectIndex(r) \/ CollectJob(r)
             \/ CollectDone(r)
    BY <1>1, QuietLines
<1>2. CASE \E r \in Runs : Recover(r) \/ NewService(r) \/ PublishCommit(r) \/ Freeze(r)
    BY <1>2, RecoverLine, NewServiceLine, CommitLine, FreezeLine
<1>3. CASE \E r \in Runs : AdmitJob(r) \/ PublishStage(r) \/ PublishRename(r)
    BY <1>3, PublicationLine
<1>4. CASE \E r \in Runs : \E parent \in NoGen..MaxGen[r] : Boot(r, parent)
    BY <1>4, BootLine
<1>5. CASE Inherit \/ InheritStage \/ InheritRename \/ InheritCopy
    BY <1>5, InheritLine, CopyLine
<1>6. CASE \/ InheritIndex \/ InheritPublish \/ InheritComplete \/ InheritFails
           \/ InheritUndo \/ InheritForget \/ ProvisionInherited \/ EnableInherited
    BY <1>6, DestinationLines
<1>7. CASE UNCHANGED vars
    BY <1>7, UntouchedPlain, PlainKeeps DEF Untouched
<1> QED
    BY <1>1, <1>2, <1>3, <1>4, <1>5, <1>6, <1>7 DEF Next

\* The stores of both runs keep the limit and the lineage at all times.
THEOREM LineageInvariant == Spec => []LineageInv
<1>1. Init => LineageInv
  <2> SUFFICES ASSUME Init PROVE LineageInv
      OBVIOUS
  <2>1. StoreInv
      BY StoreInit
  <2>2. ASSUME NEW q \in Runs PROVE Bound(q)
    <3>1. store[q].jobs = {} /\ op[q].pc = "idle" /\ fresh = 1
        BY DEF Init
    <3>2. IsFiniteSet(store[q].jobs) /\ Cardinality(store[q].jobs) = 0
        BY <3>1, FS_EmptySet
    <3> QED
        BY SMTT(60), <3>1, <3>2, BootstrapStoreBounds DEF Bound, Busy, PublishSteps, CopySteps
  <2>3. ASSUME NEW q \in Runs PROVE Line(q)
      BY DEF Init, Line, Busy
  <2> QED
      BY <2>1, <2>2, <2>3 DEF LineageInv
<1> QED
    BY <1>1, LineageStep, PTL DEF Spec

\* No run ever retains more successful jobs than the limit, whatever is
\* published, copied, collected or interrupted: Admit counts before the staged
\* job is renamed, and nobody else renames one in between.
THEOREM RetainedCorrect == Spec => []RetainedJobsBounded
<1>1. LineageInv => RetainedJobsBounded
    BY DEF LineageInv, Bound, RetainedJobsBounded
<1> QED
    BY <1>1, LineageInvariant, PTL

\* Every archive holds its parent's jobs, the jobs its own generation was told
\* of, and none but those which that generation carried to the index.
THEOREM LineageCorrect == Spec => []ArchivesFollowLineage
<1>1. LineageInv => ArchivesFollowLineage
    BY DEF LineageInv, Line, Follows, ArchivesFollowLineage
<1> QED
    BY <1>1, LineageInvariant, PTL
=============================================================================
