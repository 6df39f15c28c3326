------------------------------ MODULE AlertWorker ------------------------------
(***************************************************************************)
(* The alert pipeline of one `serve` process: the store (AlertStore), the  *)
(* webhook handlers that ingest into it, and the single worker goroutine   *)
(* of internal/web/alerts.go that claims jobs, investigates, records an    *)
(* audit run, notifies, and completes the job.  The process may crash at   *)
(* any step and is started again; it may also close the worker, as the     *)
(* deferred CloseAlertWorker of internal/cli/server.go does.               *)
(*                                                                         *)
(* The model call, the tools and the receivers of notifications are        *)
(* outside: an action chooses whether they succeed.  The audit store is    *)
(* kept to the status of each run; a failed audit write leaves it as it    *)
(* was.                                                                    *)
(***************************************************************************)
EXTENDS AlertStore

CONSTANTS
    MaxCrashes,      \* bound: crashes and shutdowns in a behaviour
    MaxAuditFaults   \* bound: failed audit writes in a behaviour

ASSUME WorkerConstantsAssumption ==
    /\ MaxCrashes \in Nat /\ MaxAuditFaults \in Nat
    /\ Runs \subseteq Nat

VARIABLES
    worker,       \* the worker goroutine: place, claimed job, audit run
    cancelled,    \* worker.ctx is done
    crashes,      \* crashes and shutdowns so far
    auditStatus,  \* per run: absent, or its status in the audit store
    auditResult,  \* runs with a recorded investigation result
    auditJob,     \* per run: the job_id in its metadata
    auditFaults,  \* failed audit writes so far
    sent          \* history: runs whose notifications were dispatched

auditVars == <<auditStatus, auditResult, auditJob, auditFaults>>
workerVars == <<worker, cancelled, crashes, auditVars, sent>>
vars == <<storeVars, workerVars>>

NoWorker == [pc |-> "off", job |-> 0, run |-> None]

WorkerInit ==
    /\ Init
    /\ worker = NoWorker /\ cancelled = FALSE /\ crashes = 0
    /\ auditStatus = [r \in Runs |-> "absent"] /\ auditResult = {}
    /\ auditJob = [r \in Runs |-> 0] /\ auditFaults = 0
    /\ sent = {}

At(pc) == proc = "up" /\ worker.pc = pc
Goto(pc) == worker' = [worker EXCEPT !.pc = pc]

\* An audit write that fails, within the bound.
AuditFault ==
    /\ auditFaults < MaxAuditFaults
    /\ auditFaults' = auditFaults + 1
-----------------------------------------------------------------------------
(* Start, crash and shutdown. *)

Start ==
    /\ OpenStore
    /\ worker' = [NoWorker EXCEPT !.pc = "boot"]
    /\ cancelled' = FALSE
    /\ UNCHANGED <<crashes, auditVars, sent>>

StartRefused == OpenStoreRefused /\ UNCHANGED workerVars

\* setAlertRuntime: RecoverRunning, whose failure is a panic of `serve`,
\* then the worker goroutine.
Recover(outcome) ==
    /\ At("boot")
    /\ RecoverRunning(outcome)
    /\ Goto(IF outcome = "ok" THEN "recovering" ELSE "panic")
    /\ UNCHANGED <<cancelled, crashes, auditVars, sent>>

Recovered ==
    /\ At("recovering") /\ Commit
    /\ Goto("claim")
    /\ UNCHANGED <<cancelled, crashes, auditVars, sent>>

RecoverySkipped ==   \* mutant: the worker starts beside running jobs
    /\ At("boot")
    /\ Goto("claim")
    /\ UNCHANGED <<storeVars, cancelled, crashes, auditVars, sent>>

NothingToRecover ==
    /\ At("boot") /\ Running = {}
    /\ Goto("claim")
    /\ UNCHANGED <<storeVars, cancelled, crashes, auditVars, sent>>

Die ==
    /\ Crash
    /\ worker' = NoWorker
    /\ UNCHANGED <<cancelled, auditVars, sent>>

ProcessCrash ==
    /\ crashes < MaxCrashes
    /\ crashes' = crashes + 1
    /\ Die

\* closeAlertWorker cancels the context, then waits for the goroutine.
Serving == proc = "up" /\ worker.pc \notin {"boot", "recovering", "panic"}

Shutdown ==
    /\ Serving /\ ~cancelled /\ crashes < MaxCrashes
    /\ cancelled' = TRUE
    /\ crashes' = crashes + 1
    /\ UNCHANGED <<storeVars, worker, auditVars, sent>>

Exit == worker.pc \in {"stopped", "panic"} /\ Die /\ UNCHANGED crashes
-----------------------------------------------------------------------------
(* run: claim until nothing is pending, then wait.  The inner loop does not *)
(* look at the context.                                                     *)

Claim(j, outcome) ==
    /\ At("claim")
    /\ ClaimNext(j, outcome)
    /\ worker' = IF outcome = "ok"
                 THEN [pc |-> "claiming", job |-> j, run |-> None]
                 ELSE [worker EXCEPT !.pc = "wait"]
    /\ UNCHANGED <<cancelled, crashes, auditVars, sent>>

Claimed ==
    /\ At("claiming") /\ Commit
    /\ Goto("begin")
    /\ UNCHANGED <<cancelled, crashes, auditVars, sent>>

NothingPending ==
    /\ At("claim") /\ Unlocked /\ Pending = {}
    /\ Goto("wait")
    /\ UNCHANGED <<storeVars, cancelled, crashes, auditVars, sent>>

\* The select: the wake token, the 30 second timer, or the context.
Woken ==
    /\ At("wait") /\ TakeWake
    /\ Goto("claim")
    /\ UNCHANGED <<cancelled, crashes, auditVars, sent>>

TimerNever == FALSE   \* mutant

TimerFires ==
    /\ At("wait") /\ ~cancelled
    /\ Goto("claim")
    /\ UNCHANGED <<storeVars, cancelled, crashes, auditVars, sent>>

Stop ==
    /\ At("wait") /\ cancelled
    /\ Goto("stopped")
    /\ UNCHANGED <<storeVars, cancelled, crashes, auditVars, sent>>
-----------------------------------------------------------------------------
(* process: one claimed job. *)

HasContext ==
    events[jobs[worker.job].event] # None /\ incidents[jobs[worker.job].incident] # None

\* Without a context, or without a prompt of it, the job fails.  Then
\* beginAuditRunAs and the alert_received event: either write may fail.
BeginRun ==
    /\ At("begin") /\ Unlocked
    /\ \/ Goto("failjob") /\ UNCHANGED auditVars
       \/ HasContext /\ AuditFault /\ Goto("failaudit")
          /\ UNCHANGED <<auditStatus, auditResult, auditJob>>
       \/ HasContext /\ \E r \in Runs :
            /\ auditStatus[r] = "absent"
            /\ \A q \in Runs : q < r => auditStatus[q] # "absent"
            /\ auditStatus' = [auditStatus EXCEPT ![r] = "running"]
            /\ auditJob' = [auditJob EXCEPT ![r] = worker.job]
            /\ UNCHANGED auditResult
            /\ \/ worker' = [worker EXCEPT !.pc = "investigate", !.run = r]
                  /\ UNCHANGED auditFaults
               \/ worker' = [worker EXCEPT !.pc = "failaudit", !.run = r]
                  /\ AuditFault
    /\ UNCHANGED <<storeVars, cancelled, crashes, sent>>

\* completeChat, then the tool events.  With the context done it fails.
Investigate ==
    /\ At("investigate")
    /\ \/ ~cancelled /\ Goto("structure") /\ UNCHANGED auditFaults
       \/ Goto("failaudit") /\ UNCHANGED auditFaults
       \/ ~cancelled /\ AuditFault /\ Goto("failaudit")
    /\ UNCHANGED <<storeVars, cancelled, crashes, auditStatus, auditResult,
                   auditJob, sent>>

StructureUnchecked ==   \* mutant: the error of the recorded result is dropped
    /\ At("structure") /\ Goto("notify")
    /\ UNCHANGED auditFaults
    /\ auditResult' \in {auditResult, auditResult \cup {worker.run}}
    /\ UNCHANGED <<storeVars, cancelled, crashes, auditStatus, auditJob, sent>>

\* structureInvestigationResult, then the result and its event are recorded.
Structure ==
    /\ At("structure")
    /\ \/ Goto("failaudit") /\ UNCHANGED <<auditResult, auditFaults>>
       \/ ~cancelled /\ AuditFault /\ Goto("failaudit")
          /\ auditResult' \in {auditResult, auditResult \cup {worker.run}}
       \/ ~cancelled /\ Goto("notify") /\ UNCHANGED auditFaults
          /\ auditResult' = auditResult \cup {worker.run}
    /\ UNCHANGED <<storeVars, cancelled, crashes, auditStatus, auditJob, sent>>

\* deliverCanonicalIncidentNotifications: the outcome of a delivery is only
\* recorded, never branched on.
Notify ==
    /\ At("notify")
    /\ sent' = sent \cup {worker.run}
    /\ Goto("record")
    /\ UNCHANGED <<storeVars, cancelled, crashes, auditVars>>

RecordDeliveries ==
    /\ At("record")
    /\ \/ Goto("finish") /\ UNCHANGED auditFaults
       \/ Goto("failaudit") /\ AuditFault
    /\ UNCHANGED <<storeVars, cancelled, crashes, auditStatus, auditResult,
                   auditJob, sent>>

FinishRunUnchecked ==   \* mutant: the error of succeed is dropped
    /\ At("finish") /\ Goto("complete")
    /\ \/ auditStatus' = [auditStatus EXCEPT ![worker.run] = "succeeded"]
          /\ UNCHANGED auditFaults
       \/ AuditFault /\ UNCHANGED auditStatus
    /\ UNCHANGED <<storeVars, cancelled, crashes, auditResult, auditJob, sent>>

\* auditRun.succeed.
FinishRun ==
    /\ At("finish")
    /\ \/ auditStatus' = [auditStatus EXCEPT ![worker.run] = "succeeded"]
          /\ Goto("complete") /\ UNCHANGED auditFaults
       \/ Goto("failjob") /\ AuditFault /\ UNCHANGED auditStatus
    /\ UNCHANGED <<storeVars, cancelled, crashes, auditResult, auditJob, sent>>

\* opsAuditRun.failIfRunning: a failed write leaves the run as it was.
FailIfRunning(pc) ==
    /\ IF worker.run # None /\ auditStatus[worker.run] = "running"
       THEN \/ auditStatus' = [auditStatus EXCEPT ![worker.run] = "failed"]
               /\ UNCHANGED auditFaults
            \/ AuditFault /\ UNCHANGED auditStatus
       ELSE UNCHANGED <<auditStatus, auditFaults>>
    /\ worker' = IF pc = "claim" THEN [NoWorker EXCEPT !.pc = pc]
                 ELSE [worker EXCEPT !.pc = pc]
    /\ UNCHANGED <<storeVars, cancelled, crashes, auditResult, auditJob, sent>>

FailAudit == At("failaudit") /\ FailIfRunning("failjob")

\* CompleteJob; its error is only logged.
Complete(outcome) ==
    /\ \/ At("complete")
          /\ CompleteJob(worker.job, "succeeded", worker.run, outcome)
       \/ At("failjob")
          /\ CompleteJob(worker.job, "failed", worker.run, outcome)
    /\ Goto(IF outcome = "ok" THEN "completing" ELSE "return")
    /\ UNCHANGED <<cancelled, crashes, auditVars, sent>>

Completed ==
    /\ At("completing") /\ Commit
    /\ Goto("return")
    /\ UNCHANGED <<cancelled, crashes, auditVars, sent>>

\* The deferred failIfRunning, then the next turn of the loop.
Return == At("return") /\ FailIfRunning("claim")
-----------------------------------------------------------------------------
(* Webhook handlers ingest once the runtime is set. *)

IngestWork ==
    \/ IngestInvalid \/ IngestDuplicate \/ IngestNew
    \/ \E o \in Outcomes : IngestAppend(o)
    \/ op.kind = "ingest" /\ Commit

HandlerStep ==
    /\ Serving
    /\ IngestWork \/ \E b \in Batches, t \in Times : BeginIngest(b, t)
    /\ UNCHANGED workerVars

WorkerStep ==
    \/ NothingToRecover \/ Recovered \/ \E o \in Outcomes : Recover(o)
    \/ NothingPending \/ Claimed
    \/ \E j \in Ids, o \in Outcomes : Claim(j, o)
    \/ Woken \/ TimerFires \/ Stop
    \/ BeginRun \/ Investigate \/ Structure \/ Notify \/ RecordDeliveries
    \/ FinishRun \/ FailAudit
    \/ Completed \/ \E o \in Outcomes : Complete(o)
    \/ Return

WorkerNext ==
    \/ Start \/ StartRefused
    \/ ProcessCrash \/ Shutdown \/ Exit
    \/ HandlerStep
    \/ WorkerStep

WorkerSpec == WorkerInit /\ [][WorkerNext]_vars

\* A supervisor starts the process again; a handler inside Ingest finishes;
\* the worker's steps terminate (model and tool calls have timeouts), and
\* sync.Mutex hands itself to a waiter it has starved: strong fairness.
FairSpec ==
    /\ WorkerSpec
    /\ WF_vars(Start) /\ WF_vars(Exit)
    /\ WF_vars(HandlerStep /\ IngestWork)
    /\ SF_vars(WorkerStep)
-----------------------------------------------------------------------------
Processing == {"begin", "investigate", "structure", "notify", "record",
               "finish", "failaudit", "complete", "failjob", "completing"}

WorkerTypeOK ==
    /\ TypeOK
    /\ worker \in [pc : Processing \cup {"off", "boot", "recovering", "panic",
                         "claim", "claiming", "wait", "return", "stopped"},
                   job : Ids \cup {0}, run : Runs \cup {None}]
    /\ cancelled \in BOOLEAN /\ crashes \in 0..MaxCrashes
    /\ auditStatus \in [Runs -> {"absent", "running"} \cup Final]
    /\ auditResult \subseteq Runs /\ sent \subseteq Runs
    /\ auditJob \in [Runs -> Ids \cup {0}]
    /\ auditFaults \in 0..MaxAuditFaults

\* "The in-process worker claims pending jobs sequentially"
\* (docs/ARCHITECTURE.md:142-143): the job it processes is running, and any other
\* running job was left so by a completion the journal did not take.
OneJobAtATime ==
    Serving => LET own == IF worker.pc \in Processing THEN {worker.job} ELSE {}
               IN  own \subseteq Running /\ Cardinality(Running \ own) <= faults

\* No lost wake-up: a worker that waits while a job is pending has a token in
\* the wake channel, whatever it missed between its last ClaimNext and select
\* (alerts.go:196-212, store.go:255-257).  Only after a failed claim does it
\* rely on the timer.
NoLostWakeup == At("wait") /\ Pending # {} /\ faults = 0 => wake

\* A job recorded as succeeded names a run of its own that the audit store
\* holds as succeeded, with its result, and whose notifications went out.
SucceededJobHasRun ==
    \A j \in Ids : Readable /\ disk.jobs[j] # None
                   /\ disk.jobs[j].status = "succeeded" =>
        LET r == disk.jobs[j].run
        IN  /\ r \in Runs /\ auditStatus[r] = "succeeded" /\ auditJob[r] = j
            /\ r \in auditResult /\ r \in sent

\* Nobody is notified of a result the audit store does not hold, and each run
\* a job names is linked from the job's incident.
ResultBeforeNotice ==
    /\ sent \subseteq auditResult
    /\ \A j \in Ids : Readable /\ disk.jobs[j] # None /\ disk.jobs[j].run # None
         => /\ disk.jobs[j].run \in disk.incidents[disk.jobs[j].incident].runs
            /\ disk.incidents[disk.jobs[j].incident].lastRun = disk.jobs[j].run

\* A job is investigated again only because a crash or a shutdown interrupted
\* it: no failed write makes the worker repeat an investigation.
RetriedOnlyAfterCrash ==
    \A j \in Ids : Cardinality({r \in Runs : auditJob[r] = j}) <= 1 + crashes

\* Across crashes and restarts, no job stays queued or running forever, unless
\* an append fails.
JobsEventuallyFinal ==
    \A j \in Ids : []<>\/ disk.jobs[j] = None
                       \/ disk.jobs[j].status \in Final
                       \/ faults > 0

\* A failed claim is retried: no job stays pending forever, unless a torn
\* record keeps the process from starting (store.go:497).
PendingEventuallyClaimed ==
    \A j \in Ids : []<>\/ disk.jobs[j] = None
                       \/ disk.jobs[j].status # "pending"
                       \/ ~Readable

\* "An interrupted `running` job becomes `pending` during the next startup"
\* (docs/operations/ALERT_CONTRACT.md:128-129).
InterruptedBecomesPending ==
    \A j \in Ids :
        (At("investigate") /\ cancelled /\ worker.job = j)
            ~> (disk.jobs[j] # None /\ disk.jobs[j].status = "pending")
=============================================================================
