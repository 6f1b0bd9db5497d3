----------------------- MODULE BootstrapServiceProofs -----------------------
(***************************************************************************)
(* For every number of worker slots: containers never accumulate or go     *)
(* unnoticed, a generation retires clean, and a publication has authority. *)
(***************************************************************************)
EXTENDS BootstrapService, TLAPS

\* A leaf that names no prover is tried with each of these in turn.
USE Zenon, SMT, ZenonT(60), SMTT(60)

\* The shape of a worker's record, of the harness's records, and of the variables
WorkerShape(r) ==
    /\ DOMAIN r = {"pc", "kind", "lease", "own", "status", "cleaned"}
    /\ r.own \in BOOLEAN /\ r.lease \in BOOLEAN /\ r.cleaned \in BOOLEAN

Records ==
    /\ DOMAIN svc = {"suspended", "invocation", "poisoned"}
    /\ DOMAIN job = {"pc", "cancelled", "withdrawn", "status", "cleaned"}
    /\ DOMAIN cmd = {"name", "pc"}

Shape ==
    /\ Records
    /\ DOMAIN worker = Slots
    /\ \A w \in Slots : WorkerShape(worker[w])
    /\ call \in Slots \cup {NoSlot} /\ wlock \in Slots \cup {NoSlot}
    /\ orphans \in {0, 1}

\* Who holds the two mutexes, and which generation there must be for it
LocksHeld ==
    /\ tool # "idle" <=> opMu = "tool"
    /\ cmd.pc \in {"act", "call", "join", "reopen"} <=> opMu = "operator"
    /\ job.pc \in {"publishing", "committing"} <=> mu = "job"
    /\ cmd.pc = "call" <=> mu = "operator"
    /\ cmd.pc = "idle" <=> cmd.name = "none"
    /\ job.pc # "idle" \/ tool # "idle" \/ cmd.pc = "join" => Live
    /\ cmd.name = "boot" => ~Live

\* The steps of a worker with the account's lock, and those that only a job's
\* worker takes
Locked == {"recover", "preflight", "stage", "create", "run", "collect", "clean"}
Hazardous(w) == worker[w].pc \in {"stage", "create", "run", "collect", "clean"} \/ worker[w].own

\* What the account's lock guarantees of worker w
Excludes(w) ==
    /\ worker[w].own => worker[w].pc \in {"run", "collect", "clean", "answer"}
    /\ worker[w].pc \in Locked \/ worker[w].own => wlock = w
    /\ wlock = w => worker[w].pc \notin {"gone", "lock"}
    /\ worker[w].pc \in Locked \ {"recover"} \/ worker[w].own => orphans = 0
    /\ worker[w].pc = "answer" /\ worker[w].status = 0 => wlock = w /\ orphans = 0
    /\ worker[w].pc = "answer" /\ worker[w].cleaned => ~worker[w].own

\* The account's lock serialises the workers, and whoever may create a container
\* has seen that there is none.
WorkersExclude == \A w \in Slots : Excludes(w)

\* Whom Client.call waits for; every other worker has lost its lease.
CallFits ==
    /\ call # NoSlot <=> job.pc = "calling" \/ cmd.pc = "call"
    /\ cmd.pc = "call" => /\ job.pc = "idle"
                          /\ worker[call].pc = "gone" \/ worker[call].kind = "recover"
    /\ \A w \in Slots : w # call \/ worker[w].pc = "gone" => ~worker[w].lease

\* A job that was suspended is cancelled, and a poisoned service has none.
AuthorityFits ==
    /\ job.pc # "idle" => ~svc.poisoned
    /\ job.pc # "idle" /\ svc.suspended => job.withdrawn
    /\ job.withdrawn => job.cancelled /\ job.pc # "idle"
    /\ job.pc = "committing" => ~job.withdrawn

\* A generation that is not poisoned, or has retired, has no container but the one
\* its job is waiting for.
Unnoticed == rt = "retired" \/ (Live /\ ~svc.poisoned /\ ~(job.pc = "returned" /\ ~job.cleaned))
ContainersKnown ==
    Unnoticed =>
        /\ orphans = 0 \/ (job.pc = "calling" /\ worker[call].pc = "gone")
        /\ \A w \in Slots : Hazardous(w) => job.pc = "calling" /\ w = call

ServiceInv ==
    Shape /\ LocksHeld /\ WorkersExclude /\ CallFits /\ AuthorityFits /\ ContainersKnown

USE SlotsAssumption DEF NoSlot, harness, account, vars
----------------------------------------------------------------------------
(***************************************************************************)
(* What the worker table is after each kind of update.                     *)
(***************************************************************************)
\* Only worker w is replaced.
Replaced(w) ==
    /\ DOMAIN worker' = Slots
    /\ WorkerShape(worker'[w])
    /\ \A v \in Slots \ {w} : worker'[v] = worker[v]

\* A worker that moves on keeps all but its step.
LEMMA StepEffect ==
    ASSUME Shape, NEW w \in Slots, NEW p, Step(w, p)
    PROVE  /\ Replaced(w) /\ worker'[w].pc = p
           /\ worker'[w].own = worker[w].own /\ worker'[w].lease = worker[w].lease
           /\ worker'[w].kind = worker[w].kind
    BY DEF Shape, Step, Replaced, WorkerShape

\* A worker that has cleaned up keeps its container only unconfirmed.
LEMMA CleanEffect ==
    ASSUME Shape, NEW w \in Slots,
           \/ worker' = [worker EXCEPT ![w].pc = "answer", ![w].own = FALSE,
              ![w].cleaned = TRUE]
           \/ \E own \in {FALSE, worker[w].own} :
                worker' = [worker EXCEPT ![w].pc = "answer", ![w].own = own,
                                         ![w].status = 2, ![w].cleaned = FALSE]
    PROVE  /\ Replaced(w) /\ worker'[w].own \in {FALSE, worker[w].own}
           /\ worker'[w].lease = worker[w].lease /\ worker'[w].kind = worker[w].kind
           /\ worker'[w].pc = "answer" /\ (worker'[w].cleaned => ~worker'[w].own)
<1>1. CASE worker' = [worker EXCEPT ![w].pc = "answer", ![w].own = FALSE, ![w].cleaned = TRUE]
    BY SMTT(60), <1>1 DEF Shape, Replaced, WorkerShape
<1>2. ASSUME NEW own \in {FALSE, worker[w].own},
             worker' = [worker EXCEPT ![w].pc = "answer", ![w].own = own,
                                      ![w].status = 2, ![w].cleaned = FALSE]
      PROVE  /\ Replaced(w) /\ worker'[w].own = own
             /\ worker'[w].lease = worker[w].lease /\ worker'[w].kind = worker[w].kind
             /\ worker'[w].pc = "answer" /\ ~worker'[w].cleaned
    BY SMTT(60), <1>2 DEF Shape, Replaced, WorkerShape
<1> QED
    BY <1>1, <1>2

\* A worker whose command is over keeps its container until it cleans up.
LEMMA RunEffect ==
    ASSUME Shape, NEW w \in Slots, NEW s,
           worker' = [worker EXCEPT ![w].pc = "clean", ![w].status = s]
    PROVE  /\ Replaced(w) /\ worker'[w].pc = "clean" /\ worker'[w].own = worker[w].own
           /\ worker'[w].lease = worker[w].lease /\ worker'[w].kind = worker[w].kind
    BY DEF Shape, Replaced, WorkerShape

\* A worker that creates its container keeps its lease.
LEMMA CreateEffect ==
    ASSUME Shape, NEW w \in Slots, NEW own \in BOOLEAN,
           \/ worker' = [worker EXCEPT ![w].pc = "run", ![w].own = own]
           \/ worker' = [worker EXCEPT ![w].pc = "clean", ![w].own = own, ![w].status = 2]
    PROVE  /\ Replaced(w) /\ worker'[w].pc \in {"run", "clean"}
           /\ worker'[w].lease = worker[w].lease /\ worker'[w].kind = worker[w].kind
<1>1. CASE worker' = [worker EXCEPT ![w].pc = "run", ![w].own = own]
    BY <1>1 DEF Shape, Replaced, WorkerShape
<1>2. CASE worker' = [worker EXCEPT ![w].pc = "clean", ![w].own = own, ![w].status = 2]
    BY <1>2 DEF Shape, Replaced, WorkerShape
<1> QED
    BY <1>1, <1>2

\* A worker that answers keeps its container, if it has one.
LEMMA AnswerEffect ==
    ASSUME Shape, NEW w \in Slots, NEW s, NEW c \in BOOLEAN, Answer(w, s, c)
    PROVE  /\ Replaced(w) /\ worker'[w].pc = "answer" /\ worker'[w].status = s
           /\ worker'[w].cleaned = c
           /\ worker'[w].own = worker[w].own /\ worker'[w].lease = worker[w].lease
           /\ worker'[w].kind = worker[w].kind
    BY DEF Shape, Answer, Replaced, WorkerShape

\* A worker that starts has a lease or not, and nothing else.
LEMMA StartsEffect ==
    ASSUME Shape, NEW w \in Slots, NEW kind, NEW lease \in BOOLEAN, Starts(w, kind, lease)
    PROVE  /\ Replaced(w) /\ worker'[w].pc = "lock" /\ ~worker'[w].own
           /\ worker'[w].kind = kind /\ worker[w].pc = "gone" /\ call' = w
    BY DEF Shape, Starts, NoWorker, Replaced, WorkerShape

\* All workers stay as they are, except that some lose their lease.
Withdrawn ==
    /\ DOMAIN worker' = Slots
    /\ \A w \in Slots :
          /\ WorkerShape(worker'[w]) /\ (worker'[w].lease => worker[w].lease)
          /\ worker'[w].pc = worker[w].pc /\ worker'[w].kind = worker[w].kind
          /\ worker'[w].own = worker[w].own /\ worker'[w].status = worker[w].status
          /\ worker'[w].cleaned = worker[w].cleaned

LEMMA UnleasedEffect ==
    ASSUME Shape, worker' = Unleased
    PROVE  Withdrawn
    BY DEF Shape, Unleased, Withdrawn, WorkerShape

LEMMA SameWithdrawn ==
    ASSUME Shape, UNCHANGED worker
    PROVE  Withdrawn
    BY DEF Shape, Withdrawn

LEMMA GoneEffect ==
    ASSUME Shape, worker' = [w \in Slots |-> [worker[w] EXCEPT !.lease = FALSE]]
    PROVE  Withdrawn /\ \A w \in Slots : ~worker'[w].lease
    BY DEF Shape, Withdrawn, WorkerShape

\* Worker w has gone, with its lease and the account's lock.
Gone(w) ==
    /\ Replaced(w) /\ worker'[w].pc = "gone" /\ ~worker'[w].own /\ ~worker'[w].lease
    /\ wlock' \in Slots \cup {NoSlot} /\ orphans' \in {0, 1}
    /\ ~worker[w].own => orphans' = orphans

\* The workers stay exclusive when one of them dies and leaves its container, if it
\* has one, as an orphan,
LEMMA DiesEffect ==
    ASSUME Shape, WorkersExclude, NEW w \in Slots, Dies(w)
    PROVE  Gone(w) /\ WorkersExclude'
<1>1. /\ Replaced(w) /\ worker'[w].pc = "gone" /\ ~worker'[w].own /\ ~worker'[w].lease
      /\ wlock' = (IF wlock = w THEN NoSlot ELSE wlock)
      /\ worker[w].own => orphans' = orphans + 1
      /\ ~worker[w].own => orphans' = orphans
    BY SMTT(60) DEF Shape, Dies, NoWorker, Replaced, WorkerShape
<1>2. wlock' \in Slots \cup {NoSlot} /\ orphans' \in {0, 1}
    BY SMTT(60), <1>1 DEF Shape, WorkersExclude, Excludes
<1>3. ASSUME NEW v \in Slots PROVE Excludes(v)'
    <2>1. CASE v = w
        BY <1>1, <2>1 DEF Excludes, Locked
    <2>2. CASE v # w
        <3>1. worker'[v] = worker[v] /\ Excludes(v) /\ Excludes(w)
            BY <1>1, <2>2 DEF Replaced, WorkersExclude
        <3> QED
            BY <1>1, <2>2, <3>1 DEF Excludes
    <2> QED
        BY <2>1, <2>2
<1> QED
    BY <1>1, <1>2, <1>3 DEF WorkersExclude, Gone

\* when one goes on, and may take the free lock or remove an orphan,
LEMMA StepExclude ==
    ASSUME WorkersExclude, NEW w \in Slots, Replaced(w), Excludes(w)',
           wlock' = wlock \/ (wlock = NoSlot /\ wlock' = w), orphans' \in {0, orphans}
    PROVE  WorkersExclude'
<1> SUFFICES ASSUME NEW v \in Slots, v # w PROVE Excludes(v)'
    BY DEF WorkersExclude
<1>1. worker'[v] = worker[v] /\ Excludes(v)
    BY DEF Replaced, WorkersExclude
<1> QED
    BY SMTT(60), <1>1 DEF Excludes

\* and when leases end.
LEMMA WithdrawnExclude ==
    ASSUME WorkersExclude, Withdrawn, UNCHANGED <<wlock, orphans>>
    PROVE  WorkersExclude'
<1> SUFFICES ASSUME NEW v \in Slots PROVE Excludes(v)'
    BY DEF WorkersExclude
<1>1. Excludes(v)
    BY DEF WorkersExclude
<1> QED
    BY <1>1 DEF Excludes, Withdrawn

\* What is known of containers survives a worker's step that removes orphans at
\* most, if the worker is the one that a job waits for when it becomes hazardous,
LEMMA StepKnown ==
    ASSUME ContainersKnown, NEW w \in Slots, Replaced(w), UNCHANGED harness,
           worker[w].pc # "gone", orphans' \in {0, orphans}, call \in Slots \cup {NoSlot},
           call # NoSlot <=> job.pc = "calling" \/ cmd.pc = "call",
           Hazardous(w)' => Hazardous(w) \/ (job.pc = "calling" /\ w = call)
    PROVE  ContainersKnown'
<1> SUFFICES ASSUME Unnoticed
             PROVE  /\ orphans' = 0 \/ (job.pc = "calling" /\ worker'[call].pc = "gone")
                    /\ \A v \in Slots : Hazardous(v)' => job.pc = "calling" /\ v = call
    BY DEF ContainersKnown, Unnoticed, Live
<1>1. orphans = 0 \/ (job.pc = "calling" /\ worker[call].pc = "gone")
    BY DEF ContainersKnown
<1>2. \A v \in Slots : Hazardous(v) => job.pc = "calling" /\ v = call
    BY DEF ContainersKnown
<1>3. orphans' = 0 \/ (job.pc = "calling" /\ worker'[call].pc = "gone")
    BY <1>1 DEF Replaced
<1>4. \A v \in Slots \ {w} : Hazardous(v)' => Hazardous(v)
    BY DEF Replaced, Hazardous
<1> QED
    BY <1>2, <1>3, <1>4

\* one that ends leases,
LEMMA WithdrawnKnown ==
    ASSUME ContainersKnown, Withdrawn, UNCHANGED <<orphans, call>>, job'.pc = job.pc,
           call \in Slots \cup {NoSlot},
           call # NoSlot <=> job.pc = "calling" \/ cmd.pc = "call", Unnoticed' => Unnoticed
    PROVE  ContainersKnown'
<1>1. \A v \in Slots : Hazardous(v)' <=> Hazardous(v)
    BY DEF Withdrawn, Hazardous
<1>2. call \in Slots => worker'[call].pc = worker[call].pc
    BY DEF Withdrawn
<1> QED
    BY <1>1, <1>2 DEF ContainersKnown

\* and, where there was none, the end of a worker that had none.
LEMMA QuietKnown ==
    ASSUME NEW w \in Slots, Replaced(w), worker'[w].pc = "gone", ~worker'[w].own,
           ~worker[w].own => orphans' = orphans, orphans = 0,
           \A v \in Slots : Hazardous(v) => v = w, ~worker[w].own
    PROVE  orphans' = 0 /\ \A v \in Slots : ~Hazardous(v)'
    BY DEF Replaced, Hazardous

(***************************************************************************)
(* What the other records are after each kind of update.                   *)
(***************************************************************************)
LEMMA GoesEffect ==
    ASSUME Shape, NEW p, Goes(p)
    PROVE  DOMAIN cmd' = {"name", "pc"} /\ cmd'.name = cmd.name /\ cmd'.pc = p
    BY DEF Shape, Records, Goes

LEMMA DoneEffect ==
    ASSUME cmd' = NoCmd
    PROVE  DOMAIN cmd' = {"name", "pc"} /\ cmd'.name = "none" /\ cmd'.pc = "idle"
    BY DEF NoCmd

\* A cancellation reaches the job of the exchange and its worker.
LEMMA CancelsEffect ==
    ASSUME Shape, Cancels
    PROVE  /\ Withdrawn
           /\ DOMAIN job' = DOMAIN job /\ job'.pc = job.pc /\ job'.cleaned = job.cleaned
           /\ job'.withdrawn = job.withdrawn
           /\ job.pc # "idle" /\ job.cancelled => job'.cancelled
           /\ tool' # "idle" <=> tool # "idle"
<1>1. CASE tool = "exchange"
    <2>1. DOMAIN job' = DOMAIN job /\ job'.pc = job.pc /\ job'.cleaned = job.cleaned
          /\ job'.withdrawn = job.withdrawn
        BY <1>1 DEF Cancels, Shape, Records
    <2>2. job.pc # "idle" => job'.cancelled
        BY <1>1 DEF Cancels, Shape, Records
    <2>3. Withdrawn
        BY <1>1, UnleasedEffect, SameWithdrawn DEF Cancels
    <2> QED
        BY <1>1, <2>1, <2>2, <2>3 DEF Cancels
<1>2. CASE tool # "exchange"
    BY <1>2, SameWithdrawn DEF Cancels
<1> QED
    BY <1>1, <1>2

\* A suspension withdraws the authority of the job that is active.
LEMMA SuspendEffect ==
    ASSUME Shape, Suspend
    PROVE  /\ Withdrawn
           /\ DOMAIN svc' = DOMAIN svc /\ svc'.suspended /\ svc'.poisoned = svc.poisoned
           /\ DOMAIN job' = DOMAIN job /\ job'.pc = job.pc /\ job'.cleaned = job.cleaned
           /\ job.pc # "idle" => job'.withdrawn /\ job'.cancelled
           /\ job.pc = "idle" => job' = job
<1>1. CASE job.pc # "idle"
    BY <1>1, UnleasedEffect DEF Suspend, Shape, Records
<1>2. CASE job.pc = "idle"
    BY <1>2, SameWithdrawn DEF Suspend
<1> QED
    BY <1>1, <1>2
----------------------------------------------------------------------------
(***************************************************************************)
(* What keeps the invariant, whichever step it is.                         *)
(***************************************************************************)
\* A worker moves on by itself and keeps its lease and its errand.
Works(w) ==
    /\ UNCHANGED harness /\ Replaced(w) /\ worker[w].pc # "gone" /\ worker'[w].pc # "gone"
    /\ worker'[w].lease = worker[w].lease /\ worker'[w].kind = worker[w].kind

LEMMA WorkKeeps ==
    ASSUME ServiceInv, NEW w \in Slots, Works(w), Excludes(w)',
           wlock' = wlock \/ (wlock = NoSlot /\ wlock' = w), orphans' \in {0, orphans},
           Hazardous(w)' => Hazardous(w) \/ (job.pc = "calling" /\ w = call)
    PROVE  ServiceInv'
<1> USE DEF ServiceInv
<1>1. Shape'
    BY DEF Works, Replaced, Shape, Records
<1>2. LocksHeld' /\ AuthorityFits'
    BY DEF Works, LocksHeld, AuthorityFits, Live
<1>3. WorkersExclude'
    BY StepExclude DEF Works
<1>4. CallFits'
    BY DEF Works, Replaced, CallFits, Shape
<1>5. ContainersKnown'
    BY StepKnown DEF Works, CallFits, Shape
<1> QED
    BY <1>1, <1>2, <1>3, <1>4, <1>5

\* Leases end.
LEMMA WithdrawalKeeps ==
    ASSUME ServiceInv, Withdrawn, UNCHANGED <<rt, call, wlock, orphans>>,
           Records', LocksHeld', AuthorityFits', svc'.poisoned = svc.poisoned,
           job'.pc = job.pc, job'.cleaned = job.cleaned, cmd'.pc = "call" <=> cmd.pc = "call"
    PROVE  ServiceInv'
<1> USE DEF ServiceInv
<1>1. Shape'
    BY DEF Withdrawn, Shape
<1>2. WorkersExclude'
    BY WithdrawnExclude
<1>3. CallFits'
    BY DEF Withdrawn, CallFits, Shape
<1>4. ContainersKnown'
    <2>1. Unnoticed' => Unnoticed
        BY DEF Unnoticed, Live
    <2> QED
        BY <2>1, WithdrawnKnown DEF CallFits, Shape
<1> QED
    BY <1>1, <1>2, <1>3, <1>4

\* A worker is started, for a job or for a command.
LEMMA StartKeeps ==
    ASSUME ServiceInv, NEW w \in Slots, NEW kind, NEW lease \in BOOLEAN, Starts(w, kind, lease),
           UNCHANGED <<rt, wlock, orphans>>, Records', LocksHeld', AuthorityFits',
           call = NoSlot,
           \/ job'.pc = "calling" /\ cmd'.pc # "call"
           \/ job'.pc = "idle" /\ cmd'.pc = "call" /\ kind = "recover",
           Unnoticed' => Unnoticed
    PROVE  ServiceInv'
<1> USE DEF ServiceInv
<1>1. /\ Replaced(w) /\ worker'[w].pc = "lock" /\ ~worker'[w].own
      /\ worker'[w].kind = kind /\ worker[w].pc = "gone" /\ call' = w
    BY StartsEffect
<1>2. Shape'
    BY <1>1 DEF Replaced, Shape
<1>3. WorkersExclude'
    <2>1. Excludes(w)'
        BY <1>1 DEF WorkersExclude, Excludes, Locked
    <2> QED
        BY <1>1, <2>1, StepExclude
<1>4. CallFits'
    BY <1>1 DEF Replaced, CallFits
<1>5. ContainersKnown'
    <2>1. Unnoticed => orphans = 0 /\ \A v \in Slots : ~Hazardous(v)
        BY DEF ContainersKnown, CallFits
    <2>2. (\A v \in Slots : ~Hazardous(v)) => \A v \in Slots : ~Hazardous(v)'
        BY <1>1 DEF Replaced, Hazardous
    <2> QED
        BY <2>1, <2>2 DEF ContainersKnown
<1> QED
    BY <1>2, <1>3, <1>4, <1>5

\* A call returns.
LEMMA ReturnKeeps ==
    ASSUME ServiceInv, call \in Slots, Gone(call), WorkersExclude', call' = NoSlot,
           Records', LocksHeld', AuthorityFits', job'.pc # "calling", cmd'.pc # "call",
           Unnoticed' => \/ orphans' = 0 /\ \A v \in Slots : ~Hazardous(v)'
                         \/ Unnoticed /\ worker[call].pc # "gone" /\ ~worker[call].own
                         \/ Unnoticed /\ job.pc # "calling"
    PROVE  ServiceInv'
<1> USE DEF ServiceInv
<1>1. Shape'
    BY DEF Gone, Replaced, Shape
<1>2. CallFits'
    BY DEF Gone, Replaced, CallFits
<1>3. ASSUME Unnoticed' PROVE orphans' = 0 /\ \A v \in Slots : ~Hazardous(v)'
    <2>1. CASE Unnoticed /\ worker[call].pc # "gone" /\ ~worker[call].own
        BY <2>1, QuietKnown DEF ContainersKnown, Gone
    <2>2. CASE Unnoticed /\ job.pc # "calling"
        <3>1. orphans = 0 /\ \A v \in Slots : ~Hazardous(v)
            BY <2>2 DEF ContainersKnown
        <3>2. ~worker[call].own
            BY <3>1 DEF Hazardous
        <3> QED
            BY <3>1, <3>2, QuietKnown DEF Gone
    <2> QED
        BY <1>3, <2>1, <2>2
<1> QED
    BY <1>1, <1>2, <1>3 DEF ContainersKnown

\* A call that returns with an answer or an error leaves its worker gone; a clean
\* answer leaves no container of that worker, and a clean success none at all.
LEMMA CallReturns ==
    ASSUME ServiceInv, call \in Slots, NEW status, NEW cleaned \in BOOLEAN,
           Answered(status, cleaned) \/ Broken(status, cleaned)
    PROVE  /\ Gone(call) /\ WorkersExclude'
           /\ cleaned => worker[call].pc = "answer" /\ ~worker[call].own
           /\ cleaned /\ status = 0 => orphans' = 0 /\ \A w \in Slots : ~Hazardous(w)'
<1> USE DEF ServiceInv
<1>1. CASE worker[call].pc = "gone" /\ UNCHANGED account /\ ~cleaned
    BY <1>1 DEF Gone, Shape, Replaced, WorkersExclude, Excludes, CallFits
<1>2. CASE worker[call].pc = "answer" /\ Dies(call)
           /\ (cleaned => worker[call].cleaned /\ status = worker[call].status)
    <2>1. Gone(call) /\ WorkersExclude'
        BY <1>2, DiesEffect
    <2>2. Excludes(call)
        BY DEF WorkersExclude
    <2>3. cleaned => ~worker[call].own
        BY <1>2, <2>2 DEF Excludes
    <2>4. cleaned /\ status = 0 => orphans = 0 /\ wlock = call
        BY <1>2, <2>2 DEF Excludes
    <2>5. ASSUME cleaned, status = 0, NEW w \in Slots PROVE ~Hazardous(w)'
        <3>1. CASE w = call
            BY <2>1, <3>1 DEF Hazardous, Gone
        <3>2. CASE w # call
            BY <2>1, <2>4, <2>5, <3>2 DEF Hazardous, Gone, Replaced, WorkersExclude,
                                          Excludes, Locked
        <3> QED
            BY <3>1, <3>2
    <2> QED
        BY <1>2, <2>1, <2>3, <2>4, <2>5 DEF Gone
<1> QED
    BY <1>1, <1>2 DEF Answered, Broken
----------------------------------------------------------------------------
(***************************************************************************)
(* The steps of a worker.                                                  *)
(***************************************************************************)
\* It takes the account's lock, or answers that it is taken.
LEMMA WorkerLocked ==
    ASSUME ServiceInv, NEW w \in Slots, WorkerLocks(w)
    PROVE  ServiceInv'
<1> USE DEF ServiceInv
<1>1. worker[w].pc = "lock" /\ UNCHANGED <<harness, orphans>> /\ ~worker[w].own
    BY DEF WorkerLocks, WorkersExclude, Excludes
<1>2. /\ Works(w) /\ ~worker'[w].own
      /\ \/ wlock = NoSlot /\ wlock' = w /\ worker'[w].pc = "recover"
         \/ /\ wlock' = wlock /\ wlock # w /\ worker'[w].pc = "answer" /\ worker'[w].status = 2
            /\ worker'[w].cleaned
    <2>1. CASE wlock = NoSlot
        BY <1>1, <2>1, StepEffect DEF WorkerLocks, Works
    <2>2. CASE wlock # NoSlot
        BY <1>1, <2>2, AnswerEffect DEF WorkerLocks, Works, WorkersExclude, Excludes
    <2> QED
        BY <2>1, <2>2
<1>3. Excludes(w)' /\ ~Hazardous(w)'
    BY <1>1, <1>2 DEF Excludes, Locked, Hazardous
<1> QED
    BY <1>1, <1>2, <1>3, WorkKeeps

\* It removes what an earlier one left, or cannot confirm it.
LEMMA WorkerRecovered ==
    ASSUME ServiceInv, NEW w \in Slots, WorkerRecovers(w)
    PROVE  ServiceInv'
<1> USE DEF ServiceInv
<1>1. worker[w].pc = "recover" /\ UNCHANGED <<harness, wlock>> /\ ~worker[w].own /\ wlock = w
    BY DEF WorkerRecovers, WorkersExclude, Excludes, Locked
<1>2. /\ Works(w) /\ ~worker'[w].own /\ orphans' \in {0, orphans}
      /\ \/ orphans' = 0 /\ worker'[w].pc = "preflight"
         \/ worker'[w].pc = "answer" /\ worker'[w].status = 2 /\ ~worker'[w].cleaned
    <2>1. CASE orphans' = 0 /\ Step(w, "preflight")
        BY SMTT(60), <1>1, <2>1, StepEffect DEF Works
    <2>2. CASE orphans' \in {0, orphans} /\ Answer(w, 2, FALSE)
        BY <1>1, <2>2, AnswerEffect DEF Works
    <2> QED
        BY <2>1, <2>2 DEF WorkerRecovers
<1>3. Excludes(w)' /\ ~Hazardous(w)'
    BY <1>1, <1>2 DEF Excludes, Locked, Hazardous
<1> QED
    BY <1>1, <1>2, <1>3, WorkKeeps

\* It checks the runtime and stages the inputs of its job; only a worker that a
\* job waits for has the lease that takes it to a container.
LEMMA WorkerStaged ==
    ASSUME ServiceInv, NEW w \in Slots, WorkerPreflights(w) \/ WorkerStages(w)
    PROVE  ServiceInv'
<1> USE DEF ServiceInv
<1>1. worker[w].pc \in {"preflight", "stage"} /\ UNCHANGED <<harness, wlock, orphans>>
    BY DEF WorkerPreflights, WorkerStages
<1>2. wlock = w /\ orphans = 0 /\ ~worker[w].own
    BY <1>1 DEF WorkersExclude, Excludes, Locked
<1>3. \/ \E s \in {0, 2} : Answer(w, s, TRUE)
      \/ worker[w].pc = "preflight" /\ worker[w].lease /\ worker[w].kind = "job"
         /\ Step(w, "stage")
      \/ worker[w].pc = "stage" /\ Step(w, "create")
    BY DEF WorkerPreflights, WorkerStages
<1>4. /\ Works(w) /\ ~worker'[w].own
      /\ \/ worker'[w].pc = "answer"
         \/ worker[w].lease /\ worker[w].kind = "job" /\ worker'[w].pc = "stage"
         \/ worker[w].pc = "stage" /\ worker'[w].pc = "create"
    <2>1. CASE \E s \in {0, 2} : Answer(w, s, TRUE)
        BY <1>1, <1>2, <2>1, AnswerEffect DEF Works
    <2>2. ASSUME NEW p \in {"stage", "create"}, Step(w, p)
          PROVE  Works(w) /\ ~worker'[w].own /\ worker'[w].pc = p
        BY <1>1, <1>2, <2>2, StepEffect DEF Works
    <2> QED
        BY <1>3, <2>1, <2>2
<1>5. Excludes(w)'
    BY <1>1, <1>2, <1>4 DEF Excludes
<1>6. Hazardous(w)' => Hazardous(w) \/ (job.pc = "calling" /\ w = call)
    BY <1>1, <1>4 DEF Hazardous, CallFits
<1> QED
    BY <1>1, <1>4, <1>5, <1>6, WorkKeeps

\* It creates its container, runs its command, collects the outputs and cleans up.
LEMMA WorkerRan ==
    ASSUME ServiceInv, NEW w \in Slots,
           WorkerCreates(w) \/ WorkerRuns(w) \/ WorkerCollects(w) \/ WorkerCleans(w)
    PROVE  ServiceInv'
<1> USE DEF ServiceInv
<1>1. /\ worker[w].pc \in {"create", "run", "collect", "clean"}
      /\ UNCHANGED <<harness, wlock, orphans>>
    BY DEF WorkerCreates, WorkerRuns, WorkerCollects, WorkerCleans
<1>2. wlock = w /\ orphans = 0
    BY <1>1 DEF WorkersExclude, Excludes, Locked
<1>3. /\ Works(w)
      /\ \/ worker'[w].pc \in {"run", "collect", "clean"}
         \/ worker'[w].pc = "answer" /\ (worker'[w].cleaned => ~worker'[w].own)
    <2>1. CASE WorkerCreates(w)
        <3>1. \E own \in BOOLEAN :
                 \/ worker' = [worker EXCEPT ![w].pc = "run", ![w].own = own]
                 \/ worker' = [worker EXCEPT ![w].pc = "clean", ![w].own = own, ![w].status = 2]
            BY <2>1 DEF WorkerCreates
        <3> QED
            BY <1>1, <3>1, CreateEffect DEF Works
    <2>2. CASE WorkerRuns(w) \/ WorkerCollects(w)
        <3>1. CASE Step(w, "collect")
            BY SMTT(60), <1>1, <3>1, StepEffect DEF Works
        <3>2. CASE \E s \in 0..2 : worker' = [worker EXCEPT ![w].pc = "clean", ![w].status = s]
            BY <1>1, <3>2, RunEffect DEF Works
        <3> QED
            BY SMTT(60), <2>2, <3>1, <3>2 DEF WorkerRuns, WorkerCollects
    <2>3. CASE WorkerCleans(w)
        BY <1>1, <2>3, CleanEffect DEF WorkerCleans, Works
    <2> QED
        BY <2>1, <2>2, <2>3
<1>4. Excludes(w)' /\ Hazardous(w)
    BY <1>1, <1>2, <1>3 DEF Excludes, Hazardous
<1> QED
    BY <1>1, <1>3, <1>4, WorkKeeps

\* Nobody awaits its answer, or it dies.
LEMMA WorkerGoes ==
    ASSUME ServiceInv, NEW w \in Slots, WorkerExits(w) \/ WorkerDies(w)
    PROVE  ServiceInv'
<1> USE DEF ServiceInv
<1>1. Gone(w) /\ WorkersExclude' /\ UNCHANGED harness
    BY DiesEffect DEF WorkerExits, WorkerDies
<1>2. Shape'
    BY <1>1 DEF Gone, Replaced, Shape, Records
<1>3. LocksHeld' /\ AuthorityFits'
    BY <1>1 DEF LocksHeld, AuthorityFits, Live
<1>4. CallFits'
    BY <1>1 DEF Gone, Replaced, CallFits, Shape
<1>5. ContainersKnown'
    BY <1>1 DEF Gone, Replaced, ContainersKnown, Unnoticed, Live, Hazardous, CallFits, Shape
<1> QED
    BY <1>1, <1>2, <1>3, <1>4, <1>5
----------------------------------------------------------------------------
(***************************************************************************)
(* The steps that call a worker, and the returns of the calls.             *)
(***************************************************************************)
\* A job is refused, or its worker is called, or does not start.
LEMMA JobCalled ==
    ASSUME ServiceInv, JobCalls
    PROVE  ServiceInv'
<1> USE DEF ServiceInv
<1>1. /\ job.pc = "admitted"
      /\ UNCHANGED <<rt, closed, opMu, mu, svc, tool, cmd, wlock, orphans>>
      /\ call = NoSlot /\ cmd.pc # "call"
    BY DEF JobCalls, CallFits
<1>2. CASE job' = [job EXCEPT !.pc = "calling"]
           /\ \E w \in Slots : Starts(w, "job", ~job.cancelled)
    <2>1. /\ DOMAIN job' = DOMAIN job /\ job'.pc = "calling" /\ job'.withdrawn = job.withdrawn
          /\ job'.cancelled = job.cancelled
        BY <1>2
    <2>2. Records' /\ LocksHeld' /\ AuthorityFits' /\ (Unnoticed' => Unnoticed)
        BY <1>1, <2>1 DEF Shape, Records, LocksHeld, AuthorityFits, Unnoticed, Live
    <2> QED
        BY <1>1, <1>2, <2>1, <2>2, StartKeeps
<1>3. CASE UNCHANGED <<call, worker>> /\ job' = NoJob
    <2>1. Withdrawn /\ job'.pc = "idle" /\ Records' /\ ~job'.withdrawn
        BY <1>1, <1>3, SameWithdrawn DEF NoJob, Shape, Records
    <2> QED
        BY <1>1, <1>3, <2>1, WithdrawnExclude DEF Shape, LocksHeld, CallFits, AuthorityFits,
                                                  ContainersKnown, Unnoticed, Live,
                                                  Hazardous
<1>4. CASE /\ UNCHANGED <<call, worker>>
           /\ job' = [job EXCEPT !.pc = "returned", !.status = 2, !.cleaned = FALSE]
    <2>1. /\ Withdrawn /\ job'.pc = "returned" /\ Records' /\ ~job'.cleaned
          /\ job'.withdrawn = job.withdrawn /\ job'.cancelled = job.cancelled
        BY <1>1, <1>4, SameWithdrawn DEF Shape, Records
    <2> QED
        BY <1>1, <1>4, <2>1, WithdrawnExclude DEF Shape, LocksHeld, CallFits, AuthorityFits,
                                                  ContainersKnown, Unnoticed, Live
<1> QED
    BY <1>2, <1>3, <1>4 DEF JobCalls

\* A recovery calls its worker, at a gate or in a generation, and so does a boot.
LEMMA RecoveryCalled ==
    ASSUME ServiceInv, RecoverActs \/ BootActs, cmd' # NoCmd
    PROVE  ServiceInv'
<1> USE DEF ServiceInv
<1>1. Goes("call") /\ cmd.pc = "act" /\ \E w \in Slots : Starts(w, "recover", TRUE)
    BY DEF RecoverActs, BootActs, Done, At
<1>2. DOMAIN cmd' = {"name", "pc"} /\ cmd'.name = cmd.name /\ cmd'.pc = "call"
    BY <1>1, GoesEffect
<1>3. mu' = "operator" /\ job.pc = "idle" /\ UNCHANGED <<rt, opMu, tool, job, wlock, orphans>>
    BY DEF RecoverActs, BootActs, Done, At, LocksHeld
<1>4. svc' = svc \/ (~Live /\ svc' = NewSvc(blocked))
    BY DEF RecoverActs, BootActs, At, LocksHeld
<1>5. call = NoSlot
    BY <1>1, <1>3 DEF CallFits
<1>6. Records' /\ LocksHeld' /\ AuthorityFits' /\ (Unnoticed' => Unnoticed)
    BY <1>1, <1>2, <1>3, <1>4 DEF NewSvc, Shape, Records, LocksHeld, AuthorityFits,
                                  Unnoticed, Live
<1> QED
    BY <1>1, <1>2, <1>3, <1>5, <1>6, StartKeeps

\* The call of a job returns with a status, and confirms that there is no container
\* or does not; or its worker is killed.
LEMMA JobReturnKeeps ==
    ASSUME ServiceInv, job.pc = "calling", call \in Slots, call' = NoSlot, cmd.pc # "call",
           UNCHANGED <<rt, opMu, mu, svc, tool, cmd>>, Gone(call), WorkersExclude',
           NEW status, NEW cleaned \in BOOLEAN,
           cleaned => worker[call].pc = "answer" /\ ~worker[call].own,
           job' = [job EXCEPT !.pc = "returned", !.status = status, !.cleaned = cleaned]
    PROVE  ServiceInv'
<1> USE DEF ServiceInv
<1>1. /\ DOMAIN job' = DOMAIN job /\ job'.pc = "returned" /\ job'.cleaned = cleaned
      /\ job'.withdrawn = job.withdrawn /\ job'.cancelled = job.cancelled
    BY SMTT(60)
<1>2. Records' /\ LocksHeld' /\ AuthorityFits'
    BY <1>1 DEF Shape, Records, LocksHeld, AuthorityFits, Live
<1>3. Unnoticed' => Unnoticed /\ cleaned
    BY <1>1 DEF Unnoticed, LocksHeld, Live
<1> QED
    BY <1>1, <1>2, <1>3, ReturnKeeps

LEMMA JobReturned ==
    ASSUME ServiceInv, JobReturns \/ JobKills
    PROVE  ServiceInv'
<1> USE DEF ServiceInv
<1>1. /\ job.pc = "calling" /\ call \in Slots /\ call' = NoSlot /\ cmd.pc # "call"
      /\ UNCHANGED <<rt, closed, opMu, mu, svc, tool, cmd>>
    BY DEF JobReturns, JobKills, CallFits, Shape
<1>2. CASE JobReturns
    <2>1. PICK status \in 0..2, cleaned \in BOOLEAN :
             /\ Answered(status, cleaned) \/ Broken(status, cleaned)
             /\ job' = [job EXCEPT !.pc = "returned", !.status = status, !.cleaned = cleaned]
        BY <1>2 DEF JobReturns
    <2>2. /\ Gone(call) /\ WorkersExclude'
          /\ cleaned => worker[call].pc = "answer" /\ ~worker[call].own
        BY <1>1, <2>1, CallReturns
    <2> QED
        BY <1>1, <2>1, <2>2, JobReturnKeeps
<1>3. CASE JobKills
    <2>1. Gone(call) /\ WorkersExclude'
        BY <1>1, <1>3, DiesEffect DEF JobKills
    <2>2. job' = [job EXCEPT !.pc = "returned", !.status = 2, !.cleaned = FALSE]
        BY <1>3 DEF JobKills
    <2> QED
        BY <1>1, <2>1, <2>2, JobReturnKeeps
<1> QED
    BY <1>2, <1>3

\* The call of a recovery returns.
LEMMA RecoveryReturned ==
    ASSUME ServiceInv, RecoverReturns
    PROVE  ServiceInv'
<1> USE DEF ServiceInv
<1>1. PICK status \in 0..2, cleaned \in BOOLEAN :
         /\ Answered(status, cleaned) \/ Broken(status, cleaned)
         /\ \/ /\ Recovered(status, cleaned)
               /\ svc' = [svc EXCEPT !.poisoned = FALSE] /\ ReopenIfRunning
            \/ Done /\ UNCHANGED svc
    BY DEF RecoverReturns
<1>2. /\ cmd.name = "recover" /\ cmd.pc = "call" /\ call' = NoSlot /\ mu' = "free"
      /\ UNCHANGED <<rt, closed, tool, job>> /\ job.pc = "idle" /\ call \in Slots
    BY DEF RecoverReturns, At, CallFits, Shape
<1>3. /\ Gone(call) /\ WorkersExclude'
      /\ cleaned /\ status = 0 => orphans' = 0 /\ \A w \in Slots : ~Hazardous(w)'
    BY <1>1, <1>2, CallReturns
<1>4. DOMAIN svc' = DOMAIN svc /\ (svc'.poisoned = svc.poisoned \/ (status = 0 /\ cleaned))
    BY <1>1 DEF Recovered
<1>5. /\ DOMAIN cmd' = {"name", "pc"}
      /\ \/ cmd'.pc = "reopen" /\ cmd'.name = cmd.name /\ opMu' = opMu
         \/ cmd'.pc = "idle" /\ cmd'.name = "none" /\ opMu' = "free"
    <2>1. CASE Goes("reopen") /\ UNCHANGED opMu
        BY <2>1, GoesEffect
    <2>2. CASE Done
        BY <2>2, DoneEffect DEF Done
    <2> QED
        BY <1>1, <2>1, <2>2 DEF ReopenIfRunning
<1>6. Records' /\ LocksHeld' /\ AuthorityFits'
    BY <1>2, <1>4, <1>5 DEF Shape, Records, LocksHeld, AuthorityFits
<1>7. Unnoticed' => Unnoticed \/ (status = 0 /\ cleaned)
    BY <1>2, <1>4 DEF Unnoticed, Live
<1> QED
    BY <1>2, <1>3, <1>5, <1>6, <1>7, ReturnKeeps

\* The call of a boot returns, and the machine starts or not.
LEMMA BootReturned ==
    ASSUME ServiceInv, BootReturns
    PROVE  ServiceInv'
<1> USE DEF ServiceInv
<1>1. PICK status \in 0..2, cleaned \in BOOLEAN :
         /\ Answered(status, cleaned) \/ Broken(status, cleaned)
         /\ \/ Recovered(status, cleaned) /\ rt' = "running"
            \/ UNCHANGED rt
    BY DEF BootReturns
<1>2. /\ cmd.name = "boot" /\ cmd.pc = "call" /\ call' = NoSlot /\ mu' = "free" /\ ~Live
      /\ UNCHANGED <<tool, job>> /\ job.pc = "idle" /\ call \in Slots
    BY DEF BootReturns, At, LocksHeld, CallFits, Shape
<1>3. /\ Gone(call) /\ WorkersExclude'
      /\ cleaned /\ status = 0 => orphans' = 0 /\ \A w \in Slots : ~Hazardous(w)'
    BY <1>1, <1>2, CallReturns
<1>4. /\ DOMAIN cmd' = {"name", "pc"} /\ cmd'.pc = "idle" /\ cmd'.name = "none"
      /\ opMu' = "free" /\ svc' = NewSvc(FALSE)
    BY DoneEffect DEF BootReturns, Done
<1>5. Records' /\ LocksHeld' /\ AuthorityFits'
    BY <1>2, <1>4 DEF NewSvc, Shape, Records, LocksHeld, AuthorityFits
<1>6. Unnoticed' => Unnoticed \/ (status = 0 /\ cleaned)
    BY <1>1, <1>2 DEF Unnoticed, Live, Recovered
<1> QED
    BY <1>2, <1>3, <1>4, <1>5, <1>6, ReturnKeeps
----------------------------------------------------------------------------
(***************************************************************************)
(* The steps that end leases.                                              *)
(***************************************************************************)
\* The exchange is cancelled, by its caller or by a stop; a command begins.
LEMMA ToolIsCancelled ==
    ASSUME ServiceInv, ToolCancelled
    PROVE  ServiceInv'
<1> USE DEF ServiceInv
<1>1. UNCHANGED <<rt, opMu, mu, svc, cmd, call, wlock, orphans>>
    BY DEF ToolCancelled
<1>2. /\ Withdrawn
      /\ DOMAIN job' = DOMAIN job /\ job'.pc = job.pc /\ job'.cleaned = job.cleaned
      /\ job'.withdrawn = job.withdrawn
      /\ job.pc # "idle" /\ job.cancelled => job'.cancelled
      /\ tool' # "idle" <=> tool # "idle"
    BY CancelsEffect DEF ToolCancelled
<1>3. Records' /\ LocksHeld' /\ AuthorityFits'
    BY <1>1, <1>2 DEF Shape, Records, LocksHeld, AuthorityFits, Live
<1> QED
    BY <1>1, <1>2, <1>3, WithdrawalKeeps

LEMMA CommandIssued ==
    ASSUME ServiceInv, NEW name \in {"pause", "resume", "recover", "abort", "stop", "boot"},
           Issue(name)
    PROVE  ServiceInv'
<1> USE DEF ServiceInv
<1>1. /\ cmd.pc = "idle" /\ cmd'.name = name /\ cmd'.pc \in {"suspend", "lock"}
      /\ DOMAIN cmd' = {"name", "pc"} /\ (name = "boot" => ~Live)
      /\ UNCHANGED <<rt, opMu, mu, svc, call, wlock, orphans>>
    BY DEF Issue
<1>2. /\ Withdrawn
      /\ DOMAIN job' = DOMAIN job /\ job'.pc = job.pc /\ job'.cleaned = job.cleaned
      /\ job'.withdrawn = job.withdrawn
      /\ job.pc # "idle" /\ job.cancelled => job'.cancelled
      /\ tool' # "idle" <=> tool # "idle"
    <2>1. CASE name = "stop"
        BY <2>1, CancelsEffect DEF Issue
    <2>2. CASE name # "stop"
        BY <2>2, SameWithdrawn DEF Issue
    <2> QED
        BY <2>1, <2>2
<1>3. Records' /\ LocksHeld' /\ AuthorityFits'
    BY <1>1, <1>2 DEF Shape, Records, LocksHeld, AuthorityFits, Live
<1> QED
    BY <1>1, <1>2, <1>3, WithdrawalKeeps

\* A command suspends the service, or the generation is closed.
LEMMA CommandSuspends ==
    ASSUME ServiceInv, OperatorSuspends \/ CloseActs
    PROVE  ServiceInv'
<1> USE DEF ServiceInv
<1>1. mu = "free" /\ UNCHANGED <<rt, mu, tool, call, wlock, orphans>>
    BY DEF OperatorSuspends, CloseActs
<1>2. /\ Withdrawn
      /\ DOMAIN svc' = DOMAIN svc /\ svc'.poisoned = svc.poisoned
      /\ DOMAIN job' = DOMAIN job /\ job'.pc = job.pc /\ job'.cleaned = job.cleaned
      /\ job.pc # "idle" => job'.withdrawn /\ job'.cancelled
      /\ job.pc = "idle" => job' = job
    <2>1. CASE Live
        BY <2>1, SuspendEffect DEF OperatorSuspends, CloseActs
    <2>2. CASE ~Live
        BY <2>2, SameWithdrawn DEF OperatorSuspends, CloseActs, LocksHeld
    <2> QED
        BY <2>1, <2>2
<1>3. /\ DOMAIN cmd' = {"name", "pc"} /\ (cmd'.pc = "call" <=> cmd.pc = "call")
      /\ \/ /\ cmd.pc = "suspend" /\ opMu' = opMu
            /\ \/ cmd'.pc = "lock" /\ cmd'.name = cmd.name
               \/ cmd'.pc = "idle" /\ cmd'.name = "none"
         \/ /\ cmd.pc = "act"
            /\ \/ Live /\ cmd'.pc = "join" /\ cmd'.name = cmd.name /\ opMu' = opMu
               \/ cmd'.pc = "idle" /\ cmd'.name = "none" /\ opMu' = "free"
    <2>1. CASE OperatorSuspends
        BY <2>1, GoesEffect, DoneEffect DEF OperatorSuspends
    <2>2. CASE CloseActs
        BY SMTT(60), <2>2, GoesEffect, DoneEffect DEF CloseActs, Done
    <2> QED
        BY <2>1, <2>2
<1>4. Records' /\ LocksHeld' /\ AuthorityFits'
    BY <1>1, <1>2, <1>3 DEF Shape, Records, LocksHeld, AuthorityFits, Live
<1> QED
    BY <1>1, <1>2, <1>3, <1>4, WithdrawalKeeps

\* The process of the harness is gone.
LEMMA HarnessEnds ==
    ASSUME ServiceInv, HarnessGone
    PROVE  ServiceInv'
<1> USE DEF ServiceInv
<1>1. Withdrawn /\ (\A w \in Slots : ~worker'[w].lease) /\ WorkersExclude'
    BY GoneEffect, WithdrawnExclude DEF HarnessGone
<1>2. /\ rt' = "down" /\ opMu' = "free" /\ mu' = "free" /\ tool' = "idle" /\ call' = NoSlot
      /\ Records' /\ job'.pc = "idle" /\ ~job'.withdrawn /\ cmd'.pc = "idle"
         /\ cmd'.name = "none"
      /\ UNCHANGED <<wlock, orphans>>
    BY DEF HarnessGone, NewSvc, NoJob, NoCmd, Records
<1> QED
    BY <1>1, <1>2 DEF Withdrawn, Shape, LocksHeld, CallFits, AuthorityFits, ContainersKnown,
                      Unnoticed, Live

\* The exchange finishes the generation, which retires or is closed.
LEMMA ToolFinished ==
    ASSUME ServiceInv, ToolFinishes
    PROVE  ServiceInv'
<1> USE DEF ServiceInv
<1>1. /\ tool = "exchange" /\ job.pc = "idle" /\ mu = "free" /\ tool' = "idle" /\ opMu' = "free"
      /\ UNCHANGED <<mu, job, cmd, call, account>>
    BY DEF ToolFinishes
<1>2. /\ DOMAIN svc' = {"suspended", "invocation", "poisoned"}
      /\ \/ rt' = "retired" /\ ~svc.poisoned
         \/ rt' = rt /\ svc.poisoned /\ svc'.poisoned
    <2>1. CASE Healthy
        BY <2>1 DEF ToolFinishes, Healthy, NewSvc
    <2>2. CASE ~Healthy
        BY <2>2 DEF ToolFinishes, Healthy, Shape, Records
    <2> QED
        BY <2>1, <2>2
<1>3. Shape' /\ WorkersExclude' /\ (\A w \in Slots : Hazardous(w)' <=> Hazardous(w))
    BY <1>1, <1>2 DEF Shape, Records, WorkersExclude, Excludes, Hazardous
<1>4. LocksHeld' /\ CallFits' /\ AuthorityFits'
    BY <1>1, <1>2 DEF LocksHeld, CallFits, AuthorityFits
<1>5. ContainersKnown'
    BY <1>1, <1>2, <1>3 DEF ContainersKnown, Unnoticed, LocksHeld
<1> QED
    BY <1>3, <1>4, <1>5
----------------------------------------------------------------------------
(***************************************************************************)
(* Every step keeps the invariant.                                         *)
(***************************************************************************)
\* The steps that follow from the invariant as it stands: those of the tool, of the
\* job and of the commands that neither call a worker nor end leases.
LEMMA PlainSteps ==
    ASSUME ServiceInv,
           \/ UNCHANGED vars \/ ToolBegins \/ ToolEnds
           \/ JobBegins \/ JobPoisons \/ JobFails \/ JobPublishes \/ PublishChecks
              \/ PublishCommits
           \/ OperatorLocks \/ PauseActs \/ ResumeActs \/ Reopens \/ AbortJoins
           \/ (RecoverActs \/ BootActs) /\ cmd' = NoCmd
    PROVE  ServiceInv'
<1> USE DEF ServiceInv
<1>a. UNCHANGED <<call, account>>
    <2>1. CASE UNCHANGED vars \/ ToolBegins \/ ToolEnds
        BY <2>1 DEF ToolBegins, ToolEnds
    <2>2. CASE \/ JobBegins \/ JobPoisons \/ JobFails \/ JobPublishes \/ PublishChecks
               \/ PublishCommits
        BY <2>2 DEF JobBegins, JobPoisons, JobFails, JobPublishes, PublishChecks,
                    PublishCommits
    <2>3. CASE OperatorLocks \/ PauseActs \/ ResumeActs \/ Reopens \/ AbortJoins
        BY <2>3 DEF OperatorLocks, PauseActs, ResumeActs, Reopens, AbortJoins
    <2>4. CASE (RecoverActs \/ BootActs) /\ cmd' = NoCmd
        <3>1. Goes("call") => cmd' # NoCmd
            BY SMTT(60) DEF Goes, NoCmd
        <3> QED
            BY <2>4, <3>1 DEF RecoverActs, BootActs
    <2> QED
        BY <2>1, <2>2, <2>3, <2>4
<1>b. WorkersExclude'
    BY <1>a DEF WorkersExclude, Excludes
<1>c. \A w \in Slots : Hazardous(w)' <=> Hazardous(w)
    BY <1>a DEF Hazardous
<1> USE DEF Shape, Records, LocksHeld, CallFits, AuthorityFits, ContainersKnown, Unnoticed, Live
<1>1. CASE ToolBegins
    BY <1>1, <1>a, <1>b, <1>c DEF ToolBegins
<1>2. CASE ToolEnds
    BY <1>2, <1>a, <1>b, <1>c DEF ToolEnds
<1>3. CASE JobBegins
    BY <1>3, <1>a, <1>b, <1>c DEF JobBegins, Admits, NoJob
<1>4. CASE JobPoisons
    BY <1>4, <1>a, <1>b, <1>c DEF JobPoisons, NoJob
<1>5. CASE JobFails
    BY <1>5, <1>a, <1>b, <1>c DEF JobFails, NoJob
<1>6. CASE JobPublishes
    BY <1>6, <1>a, <1>b, <1>c DEF JobPublishes
<1>7. CASE PublishChecks
    BY SMTT(60), <1>7, <1>a, <1>b, <1>c DEF PublishChecks, NoJob
<1>8. CASE PublishCommits
    BY <1>8, <1>a, <1>b, <1>c DEF PublishCommits, NoJob
<1>9. CASE OperatorLocks
    BY <1>9, <1>a, <1>b, <1>c DEF OperatorLocks, Goes
<1>10. CASE PauseActs
    BY <1>10, <1>a, <1>b, <1>c DEF PauseActs, At, Done, NoCmd
<1>11. CASE ResumeActs
    BY SMTT(60), <1>11, <1>a, <1>b, <1>c DEF ResumeActs, At, Goes, Done, NoCmd
<1>12. CASE Reopens
    BY <1>12, <1>a, <1>b, <1>c DEF Reopens, Done, NoCmd
<1>13. CASE AbortJoins
    BY <1>13, <1>a, <1>b, <1>c DEF AbortJoins, At, Joined, Healthy, NewSvc, Done,
                                             NoCmd
<1>14. CASE UNCHANGED vars
    BY ZenonT(60), <1>14, <1>a, <1>b, <1>c DEF vars
<1>15. CASE RecoverActs /\ cmd' = NoCmd
    BY <1>15, <1>a, <1>b, <1>c DEF RecoverActs, At, Goes, Done, NoCmd
<1>16. CASE BootActs /\ cmd' = NoCmd
    BY <1>16, <1>a, <1>b, <1>c DEF BootActs, At, Goes, Done, NoCmd
<1> QED
    BY ZenonT(60), <1>1, <1>2, <1>3, <1>4, <1>5, <1>6, <1>7, <1>8, <1>9, <1>10, <1>11, <1>12,
    <1>13,
           <1>14, <1>15, <1>16

\* Every step keeps the invariant.
LEMMA ServiceStep == ServiceInv /\ [Next]_vars => ServiceInv'
<1> SUFFICES ASSUME ServiceInv, [Next]_vars PROVE ServiceInv'
    OBVIOUS
<1>1. CASE UNCHANGED vars
    BY <1>1, PlainSteps
<1>2. ASSUME NEW w \in Slots, WorkerStep(w) \/ WorkerDies(w) PROVE ServiceInv'
    BY <1>2, WorkerLocked, WorkerRecovered, WorkerStaged, WorkerRan, WorkerGoes
       DEF WorkerStep
<1>3. CASE ToolBegins \/ ToolCancelled \/ ToolEnds \/ ToolFinishes
    BY <1>3, PlainSteps, ToolIsCancelled, ToolFinished
<1>4. CASE JobCalls
    BY <1>4, JobCalled
<1>5. CASE JobBegins \/ JobKills \/ (JobStep /\ ~JobCalls)
    BY <1>5, PlainSteps, JobReturned DEF JobStep
<1>6. ASSUME NEW name \in {"pause", "resume", "recover", "abort", "stop", "boot"}, Issue(name)
      PROVE  ServiceInv'
    BY <1>6, CommandIssued
<1>7. CASE RecoverActs \/ BootActs
    BY <1>7, PlainSteps, RecoveryCalled
<1>8. CASE OperatorSuspends \/ OperatorLocks \/ (CommandStep /\ ~RecoverActs /\ ~BootActs)
    BY <1>8, PlainSteps, CommandSuspends, RecoveryReturned, BootReturned, HarnessEnds
       DEF CommandStep, StopJoins
<1>9. CASE HarnessDies
    BY <1>9, HarnessEnds DEF HarnessDies
<1> QED
    BY <1>1, <1>2, <1>3, <1>4, <1>5, <1>6, <1>7, <1>8, <1>9 DEF Next

\* The harness starts with neither a worker nor a container.
LEMMA ServiceStart == Init => ServiceInv
<1> SUFFICES ASSUME Init PROVE ServiceInv
    OBVIOUS
<1> USE DEF Init, NewSvc, NoJob, NoCmd, NoWorker
<1>1. Shape
    BY DEF Shape, Records, WorkerShape
<1>2. LocksHeld /\ AuthorityFits
    BY DEF LocksHeld, AuthorityFits
<1>3. \A w \in Slots : worker[w].pc = "gone" /\ ~worker[w].own /\ ~worker[w].lease
    OBVIOUS
<1>4. WorkersExclude
    BY <1>3 DEF WorkersExclude, Excludes, Locked
<1>5. CallFits /\ ContainersKnown
    BY <1>3 DEF CallFits, ContainersKnown, Unnoticed, Live
<1> QED
    BY <1>1, <1>2, <1>4, <1>5 DEF ServiceInv

LEMMA ServiceInvariant == Spec => []ServiceInv
    BY ServiceStart, ServiceStep, PTL DEF Spec
----------------------------------------------------------------------------
(***************************************************************************)
(* The containers of the account.                                          *)
(***************************************************************************)
INSTANCE FiniteSetTheorems

\* There is at most one, and none when no orphan is left and no worker owns one.
LEMMA ContainersBounded ==
    ASSUME ServiceInv
    PROVE  /\ Containers \in {0, 1}
           /\ orphans = 0 /\ (\A w \in Slots : ~worker[w].own) => Containers = 0
<1> DEFINE owners == {w \in Slots : worker[w].own}
<1>1. owners = {} \/ (owners = {wlock} /\ orphans = 0)
    <2>1. \A w \in owners : w = wlock /\ orphans = 0
        BY DEF ServiceInv, WorkersExclude, Excludes
    <2> QED
        BY <2>1
<1>2. orphans \in {0, 1}
    BY DEF ServiceInv, Shape
<1>3. CASE owners = {}
    <2>1. Cardinality(owners) = 0
        BY <1>3, FS_EmptySet
    <2> QED
        BY SMTT(60), <1>2, <2>1 DEF Containers
<1>4. CASE owners = {wlock} /\ orphans = 0
    <2>1. Cardinality(owners) = 1
        BY <1>4, FS_Singleton
    <2>2. wlock \in owners
        BY <1>4
    <2> QED
        BY <1>4, <2>1, <2>2 DEF Containers
<1> QED
    BY <1>1, <1>3, <1>4

\* However many workers are started, killed or crash, and whatever becomes of the
\* harness, the account never has two containers, and a container that a live
\* generation does not wait for has poisoned its service.
THEOREM LeftoverCorrect == Spec => []LeftoverIsKnown
<1>1. ServiceInv => LeftoverIsKnown
    <2> SUFFICES ASSUME ServiceInv PROVE LeftoverIsKnown
        OBVIOUS
    <2>1. Containers \in {0, 1}
        BY ContainersBounded
    <2>2. ASSUME Live, call = NoSlot, job.pc # "returned", Containers > 0 PROVE svc.poisoned
        <3> SUFFICES ASSUME ~svc.poisoned PROVE FALSE
            OBVIOUS
        <3>1. job.pc # "calling"
            BY <2>2 DEF ServiceInv, CallFits
        <3>2. orphans = 0 /\ \A w \in Slots : ~Hazardous(w)
            BY <2>2, <3>1 DEF ServiceInv, ContainersKnown, Unnoticed
        <3>3. Containers = 0
            BY <3>2, ContainersBounded DEF Hazardous
        <3> QED
            BY <2>2, <3>3
    <2> QED
        BY <2>1, <2>2 DEF LeftoverIsKnown
<1> QED
    BY <1>1, ServiceInvariant, PTL

\* A generation retires, finished or aborted, only when its handler has returned
\* and left no container, though the handler may outlive its exchange.
THEOREM RetirementCorrect == Spec => []RetirementIsClean
<1>1. ServiceInv => RetirementIsClean
    <2> SUFFICES ASSUME ServiceInv, rt = "retired" PROVE job.pc = "idle" /\ Containers = 0
        BY DEF RetirementIsClean
    <2>1. job.pc = "idle"
        BY DEF ServiceInv, LocksHeld, Live
    <2>2. orphans = 0 /\ \A w \in Slots : ~Hazardous(w)
        BY <2>1 DEF ServiceInv, ContainersKnown, Unnoticed
    <2> QED
        BY <2>1, <2>2, ContainersBounded DEF Hazardous
<1> QED
    BY <1>1, ServiceInvariant, PTL

\* The index of a publication is written by a job that still has its authority and
\* has left no container: neither Suspend nor a recovery passes Publish's mutex.
THEOREM PublishedCorrect == Spec => []PublishedWithAuthority
<1>1. ServiceInv => PublishedWithAuthority
    <2> SUFFICES ASSUME ServiceInv, job.pc = "committing"
                 PROVE  ~job.withdrawn /\ Containers = 0 /\ ~svc.suspended
        BY DEF PublishedWithAuthority
    <2>1. ~job.withdrawn /\ ~svc.suspended /\ ~svc.poisoned
        BY DEF ServiceInv, AuthorityFits
    <2>2. orphans = 0 /\ \A w \in Slots : ~Hazardous(w)
        BY <2>1 DEF ServiceInv, ContainersKnown, Unnoticed, LocksHeld
    <2> QED
        BY <2>1, <2>2, ContainersBounded DEF Hazardous
<1> QED
    BY <1>1, ServiceInvariant, PTL
=============================================================================
