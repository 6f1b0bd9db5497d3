-------------------------- MODULE BootstrapService --------------------------
(***************************************************************************)
(* The Linux bootstrap service of a live generation: Service and Client    *)
(* (internal/bootstrap/service.go), the worker process that runs one       *)
(* container (internal/bootstrap/worker_linux.go), and the operations of   *)
(* the live runtime that open, withdraw and recover it                     *)
(* (internal/experiment: InvokeTool, Pause, Resume, abort, completion,     *)
(* stop, boot and RecoverBootstrap).                                       *)
(*                                                                         *)
(* One operator gives one command at a time; tool invocations and the job  *)
(* handler run beside it.  The harness may die at any step, and so may a   *)
(* worker.  A worker whose client is gone carries on with its lease (its   *)
(* standard input) closed.  Storage is modelled in BootstrapStore; here a  *)
(* publication is its checks and its commit.                               *)
(***************************************************************************)
EXTENDS Integers, FiniteSets

CONSTANT Slots   \* bound: worker processes at one time

NoSlot == 0

ASSUME SlotsAssumption == IsFiniteSet(Slots) /\ Slots \subseteq Nat \ {NoSlot}

VARIABLES
    rt,       \* runtime state: down, running, paused or retired
    closed,   \* the generation's dispatcher has been closed
    opMu,     \* live.operationMu: free, tool or operator
    mu,       \* Service.mu: free, job or operator
    svc,      \* the Service: suspended, invocation, poisoned
    tool,     \* InvokeTool: idle, exchange or cancelled
    job,      \* HandleRequest for a bootstrap_job
    cmd,      \* the operator's command and where it is
    call,     \* the worker that Client.call waits for
    worker,   \* by slot: a worker process
    wlock,    \* the worker that holds the account's lock
    orphans,  \* containers whose worker is gone
    blocked   \* blocked.json

harness == <<rt, closed, opMu, mu, svc, tool, job, cmd, call>>
account == <<worker, wlock, orphans>>
vars == <<harness, account, blocked>>

NewSvc(poisoned) == [suspended |-> FALSE, invocation |-> FALSE, poisoned |-> poisoned]
NoJob == [pc |-> "idle", cancelled |-> FALSE, withdrawn |-> FALSE, status |-> 0, cleaned |-> FALSE]
NoCmd == [name |-> "none", pc |-> "idle"]
NoWorker == [pc |-> "gone", kind |-> "job", lease |-> FALSE, own |-> FALSE, status |-> 0, cleaned |-> FALSE]

TypeOK ==
    /\ rt \in {"down", "running", "paused", "retired"} /\ closed \in BOOLEAN
    /\ opMu \in {"free", "tool", "operator"} /\ mu \in {"free", "job", "operator"}
    /\ svc \in [suspended : BOOLEAN, invocation : BOOLEAN, poisoned : BOOLEAN]
    /\ tool \in {"idle", "exchange", "cancelled"}
    /\ job \in [pc : {"idle", "admitted", "calling", "returned", "publishing", "committing"},
                cancelled : BOOLEAN, withdrawn : BOOLEAN, status : 0..2, cleaned : BOOLEAN]
    /\ cmd \in [name : {"none", "pause", "resume", "recover", "abort", "stop", "boot"},
                pc : {"idle", "suspend", "lock", "act", "call", "join", "reopen"}]
    /\ call \in Slots \cup {NoSlot} /\ wlock \in Slots \cup {NoSlot}
    /\ worker \in [Slots -> [pc : {"gone", "lock", "recover", "preflight", "stage", "create",
                                   "run", "collect", "clean", "answer"},
                             kind : {"job", "recover"}, lease : BOOLEAN, own : BOOLEAN,
                             status : 0..2, cleaned : BOOLEAN]]
    /\ orphans \in Nat /\ blocked \in BOOLEAN

Init ==
    /\ rt = "down" /\ closed = FALSE /\ opMu = "free" /\ mu = "free" /\ svc = NewSvc(FALSE)
    /\ tool = "idle" /\ job = NoJob /\ cmd = NoCmd /\ call = NoSlot
    /\ worker = [w \in Slots |-> NoWorker] /\ wlock = NoSlot /\ orphans = 0
    /\ blocked = FALSE

Live == rt \in {"running", "paused"}
Containers == orphans + Cardinality({w \in Slots : worker[w].own})
----------------------------------------------------------------------------
(***************************************************************************)
(* The worker: ServeWorker and executeJob.                                 *)
(***************************************************************************)
Step(w, pc) == worker' = [worker EXCEPT ![w].pc = pc]
Answer(w, status, cleaned) ==
    worker' = [worker EXCEPT ![w].pc = "answer", ![w].status = status, ![w].cleaned = cleaned]

\* A second worker answers busy, and clean.
WorkerLocks(w) ==
    /\ worker[w].pc = "lock"
    /\ IF wlock = NoSlot
       THEN wlock' = w /\ Step(w, "recover")
       ELSE Answer(w, 2, TRUE) /\ UNCHANGED wlock
    /\ UNCHANGED <<harness, orphans, blocked>>

\* The process is gone: it failed to read its request, was killed or crashed.
Dies(w) ==
    /\ worker' = [worker EXCEPT ![w] = NoWorker]
    /\ wlock' = IF wlock = w THEN NoSlot ELSE wlock
    /\ orphans' = orphans + IF worker[w].own THEN 1 ELSE 0

WorkerDies(w) ==
    /\ worker[w].pc # "gone" /\ Dies(w)
    /\ UNCHANGED <<harness, blocked>>

\* Mutant: containers of an earlier worker are not looked for
SkipsRecovery(w) ==
    /\ worker[w].pc = "recover" /\ Step(w, "preflight")
    /\ UNCHANGED <<harness, wlock, orphans, blocked>>

\* recoverContainers: one labelled container may be left, and is removed; its
\* absence may not be confirmed although it is gone.  With the lease closed the
\* context is over and no command of the runtime starts.
WorkerRecovers(w) ==
    /\ worker[w].pc = "recover"
    /\ \/ worker[w].lease /\ orphans <= 1 /\ orphans' = 0 /\ Step(w, "preflight")
       \/ worker[w].lease /\ orphans = 1 /\ orphans' = 0 /\ Answer(w, 2, FALSE)
       \/ UNCHANGED orphans /\ Answer(w, 2, FALSE)
    /\ UNCHANGED <<harness, wlock, blocked>>

\* preflight, then a recovery has its answer and a job its inputs staged.
WorkerPreflights(w) ==
    /\ worker[w].pc = "preflight"
    /\ \/ Answer(w, 2, TRUE)
       \/ worker[w].lease /\ worker[w].kind = "recover" /\ Answer(w, 0, TRUE)
       \/ worker[w].lease /\ worker[w].kind = "job" /\ Step(w, "stage")
    /\ UNCHANGED <<harness, wlock, orphans, blocked>>

WorkerStages(w) ==
    /\ worker[w].pc = "stage"
    /\ Answer(w, 2, TRUE) \/ Step(w, "create")
    /\ UNCHANGED <<harness, wlock, orphans, blocked>>

\* podman create; a failure may leave a container behind.
WorkerCreates(w) ==
    /\ worker[w].pc = "create"
    /\ \/ worker[w].lease /\ worker' = [worker EXCEPT ![w].pc = "run", ![w].own = TRUE]
       \/ \E own \in BOOLEAN :
             worker' = [worker EXCEPT ![w].pc = "clean", ![w].own = own, ![w].status = 2]
    /\ UNCHANGED <<harness, wlock, orphans, blocked>>

\* The supervised command ends, or is stopped: by its limits, the deadline, the
\* lease, or an error of the runtime.
WorkerRuns(w) ==
    /\ worker[w].pc = "run"
    /\ \/ worker[w].lease /\ Step(w, "collect")
       \/ \E status \in 1..2 : worker' = [worker EXCEPT ![w].pc = "clean", ![w].status = status]
    /\ UNCHANGED <<harness, wlock, orphans, blocked>>

\* The container is frozen and its outputs collected, or not.
WorkerCollects(w) ==
    /\ worker[w].pc = "collect"
    /\ \E status \in (IF worker[w].lease THEN 0 ELSE 1)..2 :
           worker' = [worker EXCEPT ![w].pc = "clean", ![w].status = status]
    /\ UNCHANGED <<harness, wlock, orphans, blocked>>

\* The deferred cleanup: absence confirmed, or status 2 and not clean.
WorkerCleans(w) ==
    /\ worker[w].pc = "clean"
    /\ \/ worker' = [worker EXCEPT ![w].pc = "answer", ![w].own = FALSE, ![w].cleaned = TRUE]
       \/ \E own \in {FALSE, worker[w].own} :
             worker' = [worker EXCEPT ![w].pc = "answer", ![w].own = own,
                                      ![w].status = 2, ![w].cleaned = FALSE]
    /\ UNCHANGED <<harness, wlock, orphans, blocked>>

\* Nobody waits for the answer.
WorkerExits(w) ==
    /\ worker[w].pc = "answer" /\ call # w /\ Dies(w)
    /\ UNCHANGED <<harness, blocked>>
----------------------------------------------------------------------------
(***************************************************************************)
(* Client.call.                                                            *)
(***************************************************************************)
Starts(w, kind, lease) ==
    /\ worker[w].pc = "gone" /\ call' = w
    /\ worker' = [worker EXCEPT ![w] = [NoWorker EXCEPT !.pc = "lock", !.kind = kind, !.lease = lease]]

\* The call returns: the answer of a worker that retires, or an error, which is
\* neither a status 0 nor a confirmation.
Answered(status, cleaned) ==
    /\ call # NoSlot /\ worker[call].pc = "answer"
    /\ status = worker[call].status /\ cleaned = worker[call].cleaned
    /\ Dies(call)

Broken(status, cleaned) ==
    /\ call # NoSlot /\ status = 2 /\ ~cleaned
    /\ \/ worker[call].pc = "gone" /\ UNCHANGED account
       \/ worker[call].pc = "answer" /\ Dies(call)

\* The context of the call ends: the lease is closed.
Unleased == [w \in Slots |-> [worker[w] EXCEPT !.lease = @ /\ w # call]]
----------------------------------------------------------------------------
(***************************************************************************)
(* Service: Activate, Deactivate, Suspend, Resume and the job handler.     *)
(***************************************************************************)
\* Mutant: the active job keeps its authority
SuspendOnly ==
    /\ svc' = [svc EXCEPT !.suspended = TRUE, !.invocation = FALSE]
    /\ UNCHANGED <<job, worker>>

\* With mu free.  withdrawn remembers it for the property.
Suspend ==
    /\ svc' = [svc EXCEPT !.suspended = TRUE, !.invocation = FALSE]
    /\ IF job.pc # "idle"
       THEN job' = [job EXCEPT !.cancelled = TRUE, !.withdrawn = TRUE] /\ worker' = Unleased
       ELSE UNCHANGED <<job, worker>>

\* InvokeTool: a running generation, and the invocation is opened.  After
\* stopLive has cancelled the run's context it begins cancelled.
ToolBegins ==
    /\ tool = "idle" /\ opMu = "free" /\ mu = "free" /\ rt = "running" /\ ~closed
    /\ opMu' = "tool"
    /\ IF cmd.name = "stop"
       THEN tool' = "cancelled" /\ closed' = TRUE /\ UNCHANGED svc
       ELSE tool' = "exchange" /\ svc' = [svc EXCEPT !.invocation = ~svc.suspended] /\ UNCHANGED closed
    /\ UNCHANGED <<rt, mu, job, cmd, call, account, blocked>>

\* Mutant: the operation does not descend from the run's context
CancelsNothing == UNCHANGED <<tool, closed, job, worker>>

\* Its context is cancelled, and with it the job's, which descends from it.  The
\* exchange is aborted: the dispatcher takes no other.
Cancels ==
    IF tool = "exchange"
    THEN /\ tool' = "cancelled" /\ closed' = TRUE
         /\ job' = [job EXCEPT !.cancelled = job.pc # "idle"]
         /\ worker' = IF job.pc = "idle" THEN worker ELSE Unleased
    ELSE UNCHANGED <<tool, closed, job, worker>>

ToolCancelled ==
    /\ tool = "exchange" /\ Cancels
    /\ UNCHANGED <<rt, opMu, mu, svc, cmd, call, wlock, orphans, blocked>>

\* It returns: with the guest's answer, which follows the handler, or at once
\* when it is cancelled.
ToolEnds ==
    /\ mu = "free"
    /\ tool = "cancelled" \/ (tool = "exchange" /\ job.pc = "idle")
    /\ tool' = "idle" /\ opMu' = "free"
    /\ svc' = [svc EXCEPT !.invocation = FALSE]
    /\ UNCHANGED <<rt, closed, mu, job, cmd, call, account, blocked>>

\* Service.Healthy
Healthy == ~svc.poisoned

\* The exchange finished the generation: completeLiveGeneration closes it with
\* its handler done.
ToolFinishes ==
    /\ tool = "exchange" /\ job.pc = "idle" /\ mu = "free"
    /\ tool' = "idle" /\ opMu' = "free"
    /\ IF Healthy
       THEN rt' = "retired" /\ svc' = NewSvc(FALSE) /\ UNCHANGED closed
       ELSE /\ closed' = TRUE /\ svc' = [svc EXCEPT !.suspended = TRUE, !.invocation = FALSE]
            /\ UNCHANGED rt
    /\ UNCHANGED <<mu, job, cmd, call, account, blocked>>

Admits == ~svc.poisoned /\ ~svc.suspended /\ svc.invocation

\* HandleRequest admits a job of the current exchange.
JobBegins ==
    /\ tool = "exchange" /\ job.pc = "idle" /\ mu = "free" /\ Admits
    /\ job' = [NoJob EXCEPT !.pc = "admitted"]
    /\ UNCHANGED <<rt, closed, opMu, mu, svc, tool, cmd, call, account, blocked>>

\* The lock, a quota or an input refuses; or the worker is called, and may not
\* even start.
JobCalls ==
    /\ job.pc = "admitted"
    /\ \/ job' = NoJob /\ UNCHANGED <<call, worker>>
       \/ \E w \in Slots : Starts(w, "job", ~job.cancelled) /\ job' = [job EXCEPT !.pc = "calling"]
       \/ job' = [job EXCEPT !.pc = "returned", !.status = 2, !.cleaned = FALSE] /\ UNCHANGED <<call, worker>>
    /\ UNCHANGED <<rt, closed, opMu, mu, svc, tool, cmd, wlock, orphans, blocked>>

JobReturns ==
    /\ job.pc = "calling" /\ call' = NoSlot
    /\ \E status \in 0..2, cleaned \in BOOLEAN :
        /\ Answered(status, cleaned) \/ Broken(status, cleaned)
        /\ job' = [job EXCEPT !.pc = "returned", !.status = status, !.cleaned = cleaned]
    /\ UNCHANGED <<rt, closed, opMu, mu, svc, tool, cmd, blocked>>

\* Twelve seconds after the cancellation the worker's group is killed.
JobKills ==
    /\ job.pc = "calling" /\ job.cancelled /\ worker[call].pc \notin {"answer", "gone"}
    /\ Dies(call) /\ call' = NoSlot
    /\ job' = [job EXCEPT !.pc = "returned", !.status = 2, !.cleaned = FALSE]
    /\ UNCHANGED <<rt, closed, opMu, mu, svc, tool, cmd, blocked>>

\* Not confirmed: the service is poisoned, and blocked.json written if it can be.
JobPoisons ==
    /\ job.pc = "returned" /\ ~job.cleaned /\ mu = "free"
    /\ svc' = [svc EXCEPT !.poisoned = TRUE] /\ blocked' \in {blocked, TRUE}
    /\ job' = NoJob
    /\ UNCHANGED <<rt, closed, opMu, mu, tool, cmd, call, account>>

\* A failure, or a success whose context is over, leaves its record and ends.
JobFails ==
    /\ job.pc = "returned" /\ job.cleaned /\ (job.status # 0 \/ job.cancelled)
    /\ job' = NoJob
    /\ UNCHANGED <<rt, closed, opMu, mu, svc, tool, cmd, call, account, blocked>>

\* Publish runs under mu.
JobPublishes ==
    /\ job.pc = "returned" /\ job.cleaned /\ job.status = 0 /\ ~job.cancelled /\ mu = "free"
    /\ mu' = "job" /\ job' = [job EXCEPT !.pc = "publishing"]
    /\ UNCHANGED <<rt, closed, opMu, svc, tool, cmd, call, account, blocked>>

\* Its last check of the context, and the writing of the index.
PublishChecks ==
    /\ job.pc = "publishing"
    /\ IF job.cancelled
       THEN job' = NoJob /\ mu' = "free"
       ELSE job' = [job EXCEPT !.pc = "committing"] /\ UNCHANGED mu
    /\ UNCHANGED <<rt, closed, opMu, svc, tool, cmd, call, account, blocked>>

\* The index is written, or its writing fails.
PublishCommits ==
    /\ job.pc = "committing"
    /\ job' = NoJob /\ mu' = "free"
    /\ UNCHANGED <<rt, closed, opMu, svc, tool, cmd, call, account, blocked>>
----------------------------------------------------------------------------
(***************************************************************************)
(* The operator's commands, and the end of the harness.                    *)
(***************************************************************************)
At(name, pc) == cmd.name = name /\ cmd.pc = pc
Goes(pc) == cmd' = [cmd EXCEPT !.pc = pc]
Done == cmd' = NoCmd /\ opMu' = "free"

\* Pause, abort and RecoverBootstrap suspend first; stopLive first cancels the
\* contexts of all operations.
Issue(name) ==
    /\ cmd.pc = "idle"
    /\ CASE name = "boot" -> ~Live
         [] name = "recover" -> rt # "down"
         [] OTHER -> Live
    /\ cmd' = [name |-> name,
               pc |-> IF name \in {"pause", "recover", "abort"} THEN "suspend" ELSE "lock"]
    /\ IF name = "stop" THEN Cancels ELSE UNCHANGED <<tool, closed, job, worker>>
    /\ UNCHANGED <<rt, opMu, mu, svc, call, wlock, orphans, blocked>>

\* suspendBootstrap, before the command is validated: an abort whose reason is
\* refused returns here.
OperatorSuspends ==
    /\ cmd.pc = "suspend" /\ mu = "free"
    /\ IF Live THEN Suspend ELSE UNCHANGED <<svc, job, worker>>
    /\ Goes("lock") \/ (cmd.name = "abort" /\ cmd' = NoCmd)
    /\ UNCHANGED <<rt, closed, opMu, mu, tool, call, wlock, orphans, blocked>>

OperatorLocks ==
    /\ cmd.pc = "lock" /\ opMu = "free"
    /\ opMu' = "operator" /\ Goes("act")
    /\ UNCHANGED <<rt, closed, mu, svc, tool, job, call, account, blocked>>

\* The virtual machine stops, or the command fails.
PauseActs ==
    /\ At("pause", "act") /\ Done
    /\ (rt = "running" /\ rt' = "paused") \/ UNCHANGED rt
    /\ UNCHANGED <<closed, mu, svc, tool, job, call, account, blocked>>

ResumeActs ==
    /\ At("resume", "act")
    /\ \/ rt = "paused" /\ rt' = "running" /\ Goes("reopen") /\ UNCHANGED opMu
       \/ Done /\ UNCHANGED rt
    /\ UNCHANGED <<closed, mu, svc, tool, job, call, account, blocked>>

\* Service.Resume.
Reopens ==
    /\ cmd.pc = "reopen" /\ mu = "free" /\ Done
    /\ svc' = [svc EXCEPT !.suspended = FALSE]
    /\ UNCHANGED <<rt, closed, mu, tool, job, call, account, blocked>>

\* Recover holds mu from here to the worker's answer, and refuses beside an
\* active job.  At a gate RecoverRun asks the worker without a Service.
RecoverActs ==
    /\ At("recover", "act") /\ mu = "free"
    /\ \/ /\ job.pc = "idle"
          /\ \E w \in Slots : Starts(w, "recover", TRUE)
          /\ mu' = "operator" /\ Goes("call") /\ UNCHANGED opMu
       \/ Done /\ UNCHANGED <<mu, call, worker>>
    /\ UNCHANGED <<rt, closed, svc, tool, job, wlock, orphans, blocked>>

\* NewService reads blocked.json, and bootLiveGeneration recovers before it
\* starts anything.
BootActs ==
    /\ At("boot", "act")
    /\ \/ /\ svc' = NewSvc(blocked)
          /\ \E w \in Slots : Starts(w, "recover", TRUE)
          /\ mu' = "operator" /\ Goes("call") /\ UNCHANGED opMu
       \/ Done /\ UNCHANGED <<svc, mu, call, worker>>
    /\ UNCHANGED <<rt, closed, tool, job, wlock, orphans, blocked>>

\* RecoverBootstrap after Recover: a running generation admits jobs again.
ReopenIfRunning ==
    IF rt = "running" THEN Goes("reopen") /\ UNCHANGED opMu ELSE Done

Recovered(status, cleaned) == status = 0 /\ cleaned

\* The worker confirms, blocked.json is removed and the poison cleared; or the
\* service stays as it is, suspended.
RecoverReturns ==
    /\ At("recover", "call") /\ mu' = "free" /\ call' = NoSlot
    /\ \E status \in 0..2, cleaned \in BOOLEAN :
        /\ Answered(status, cleaned) \/ Broken(status, cleaned)
        /\ \/ /\ Recovered(status, cleaned)
              /\ blocked' = FALSE /\ svc' = [svc EXCEPT !.poisoned = FALSE]
              /\ ReopenIfRunning
           \/ Done /\ UNCHANGED <<blocked, svc>>
    /\ UNCHANGED <<rt, closed, tool, job>>

\* After the recovery the machine is started, which may fail as well.
BootReturns ==
    /\ At("boot", "call") /\ mu' = "free" /\ call' = NoSlot /\ Done
    /\ \E status \in 0..2, cleaned \in BOOLEAN :
        /\ Answered(status, cleaned) \/ Broken(status, cleaned)
        /\ \/ /\ Recovered(status, cleaned)
              /\ blocked' = FALSE /\ closed' = FALSE
              /\ \/ rt' = "running" /\ svc' = NewSvc(FALSE)
                 \/ UNCHANGED rt /\ svc' = NewSvc(FALSE)
           \/ UNCHANGED <<rt, closed, blocked>> /\ svc' = NewSvc(FALSE)
    /\ UNCHANGED <<tool, job>>

\* closeLiveGeneration suspends again, and closes the dispatcher.
CloseActs ==
    /\ cmd.name \in {"abort", "stop"} /\ cmd.pc = "act" /\ mu = "free"
    /\ IF Live
       THEN Suspend /\ closed' = TRUE /\ Goes("join") /\ UNCHANGED opMu
       ELSE Done /\ UNCHANGED <<svc, job, worker, closed>>
    /\ UNCHANGED <<rt, mu, tool, call, wlock, orphans, blocked>>

\* Mutant: the reader is not waited for
JoinsNothing == TRUE

\* dispatcher.Close saw its reader, which runs the handler, return in time
Joined == job.pc = "idle"

\* An abort retires the generation when the reader has been joined and the
\* service is healthy; otherwise it keeps it, closed.
AbortJoins ==
    /\ At("abort", "join") /\ mu = "free" /\ Done
    /\ \/ Joined /\ Healthy /\ rt' = "retired" /\ svc' = NewSvc(FALSE) /\ closed' = FALSE
       \/ ~(Joined /\ Healthy) /\ UNCHANGED <<rt, svc, closed>>
    /\ UNCHANGED <<mu, tool, job, call, account, blocked>>

\* The process is gone with its contexts, locks and leases.
HarnessGone ==
    /\ rt' = "down" /\ closed' = FALSE /\ opMu' = "free" /\ mu' = "free"
    /\ svc' = NewSvc(FALSE) /\ tool' = "idle" /\ job' = NoJob /\ cmd' = NoCmd
    /\ call' = NoSlot /\ worker' = [w \in Slots |-> [worker[w] EXCEPT !.lease = FALSE]]
    /\ UNCHANGED <<wlock, orphans, blocked>>

\* stopLive returns, with or without an error, and the process exits.
StopJoins == At("stop", "join") /\ HarnessGone

HarnessDies == (rt # "down" \/ cmd.pc # "idle") /\ HarnessGone
----------------------------------------------------------------------------
WorkerStep(w) ==
    \/ WorkerLocks(w) \/ WorkerRecovers(w) \/ WorkerPreflights(w) \/ WorkerStages(w)
    \/ WorkerCreates(w) \/ WorkerRuns(w) \/ WorkerCollects(w) \/ WorkerCleans(w) \/ WorkerExits(w)

JobStep ==
    \/ JobCalls \/ JobReturns \/ JobPoisons \/ JobFails \/ JobPublishes
    \/ PublishChecks \/ PublishCommits

CommandStep ==
    \/ PauseActs \/ ResumeActs \/ Reopens \/ RecoverActs \/ RecoverReturns
    \/ BootActs \/ BootReturns \/ CloseActs \/ AbortJoins \/ StopJoins

Next ==
    \/ \E w \in Slots : WorkerStep(w) \/ WorkerDies(w)
    \/ ToolBegins \/ ToolCancelled \/ ToolEnds \/ ToolFinishes
    \/ JobBegins \/ JobStep \/ JobKills
    \/ \E name \in {"pause", "resume", "recover", "abort", "stop", "boot"} : Issue(name)
    \/ OperatorSuspends \/ OperatorLocks \/ CommandStep
    \/ HarnessDies

\* A worker's steps have its deadlines; the handler's and a command's steps are
\* bounded by timers or by the worker.  The two mutexes are fair (a waiter of a
\* sync.Mutex is not passed over for ever), which is strong fairness of the
\* steps that wait for them against tools and jobs that keep coming.
Fairness ==
    /\ \A w \in Slots : WF_vars(WorkerStep(w))
    /\ WF_vars(JobStep) /\ WF_vars(CommandStep) /\ WF_vars(ToolEnds)
    /\ SF_vars(OperatorSuspends) /\ SF_vars(OperatorLocks)

Spec == Init /\ [][Next]_vars /\ Fairness
----------------------------------------------------------------------------
(***************************************************************************)
(* Properties.                                                             *)
(***************************************************************************)
\* The account never has two containers, however workers and harnesses died,
\* and while a generation is live and nobody waits for a worker, a container that
\* is still there has poisoned the service: no job is admitted and the generation
\* does not retire before a recovery (ServeWorker, recoverContainers, HandleRequest).
LeftoverIsKnown ==
    /\ Containers <= 1
    /\ Live /\ call = NoSlot /\ job.pc # "returned" /\ Containers > 0 => svc.poisoned

\* A generation that has retired left neither a job nor a container behind,
\* though its handler may have outlived the exchange it belonged to
\* (closeLiveGeneration: the reader is joined, then Healthy).
RetirementIsClean == rt = "retired" => job.pc = "idle" /\ Containers = 0

\* When the index of a publication is written the job's container is gone and
\* no Pause, abort, recovery or shutdown has withdrawn its authority: Suspend
\* waits for mu, which Publish holds from its check to its commit.
PublishedWithAuthority ==
    job.pc = "committing" => ~job.withdrawn /\ Containers = 0 /\ ~svc.suspended

\* A paused generation stays suspended, through failed commands and successful
\* recoveries, until it is resumed (RecoverBootstrap, Resume).
PausedIsSuspended == rt = "paused" => svc.suspended

\* A handler that has been admitted returns to the reader, whatever its worker
\* does (Client.call's timers and the worker's deadlines).
JobsEnd == job.pc # "idle" ~> job.pc = "idle"

\* The commands that must get through a guest that keeps asking for jobs do
\* (Pause, abort, RecoverBootstrap suspend before they wait for operationMu;
\* stopLive cancels).
CommandsReturn ==
    cmd.name \in {"pause", "abort", "recover", "stop"} ~> cmd.name = "none"

\* Recovery is not turned away by a job: it has cancelled and joined it
\* (RecoverBootstrap).
RecoveryJoinsTheJob ==
    [][At("recover", "act") /\ cmd' = NoCmd /\ rt' # "down" => job.pc = "idle"]_vars
=============================================================================
