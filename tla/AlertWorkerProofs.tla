--------------------------- MODULE AlertWorkerProofs ---------------------------
(***************************************************************************)
(* The pipeline implements the store: every step of AlertWorker is a step  *)
(* of AlertStore or leaves the store alone, so what AlertStoreSafety       *)
(* proves of the store holds of the running process too.                   *)
(*                                                                         *)
(* Then what the worker adds, for every number of jobs, runs, crashes and  *)
(* failed writes: one job at a time, no lost wake-up, no success without a *)
(* run that succeeded, no notice before the result, and no second run that *)
(* a crash or a shutdown has not paid for.                                 *)
(***************************************************************************)
EXTENDS AlertWorker, AlertStoreSafety, FiniteSetTheorems

\* Where the worker can be, and what it can have in hand.
Places == Processing \cup {"off", "boot", "recovering", "panic", "claim",
                           "claiming", "wait", "return", "stopped"}
WorkerRecord == [pc : Places, job : Ids \cup {0}, run : Runs \cup {None}]
WorkerType ==
    /\ worker \in WorkerRecord
    /\ cancelled \in BOOLEAN /\ crashes \in 0..MaxCrashes
    /\ auditStatus \in [Runs -> {"absent", "running"} \cup Final]
    /\ auditResult \subseteq Runs /\ sent \subseteq Runs
    /\ auditJob \in [Runs -> Ids \cup {0}]
    /\ auditFaults \in 0..MaxAuditFaults

\* From the start of its run to the end of it, the worker names the run.
Named == worker.pc \in {"investigate", "structure", "notify", "record", "finish"}
           => worker.run \in Runs

WorkerInv == WorkerType /\ Named
-----------------------------------------------------------------------------
(* Every step is a store step. *)

\* A webhook handler ingests, and does nothing else to the store.
LEMMA HandlerIsStoreStep == HandlerStep => Next
<1>1. IngestWork => Next
  BY DEF IngestWork, Next, Ingest
<1>2. (\E b \in Batches, t \in Times : BeginIngest(b, t)) => Next
  BY DEF Next, Ingest
<1> QED
  BY <1>1, <1>2 DEF HandlerStep

\* The worker's steps are queue operations, their commits, the wake token, or
\* steps of its own.
LEMMA WorkerIsStoreStep ==
  ASSUME WorkerType, WorkerStep
  PROVE  Next \/ UNCHANGED storeVars
<1>1. NothingToRecover \/ NothingPending \/ TimerFires \/ Stop => UNCHANGED storeVars
  BY DEF NothingToRecover, NothingPending, TimerFires, Stop
<1>2. BeginRun \/ Investigate \/ Structure \/ Notify \/ RecordDeliveries
        \/ FinishRun \/ FailAudit \/ Return => UNCHANGED storeVars
  BY DEF BeginRun, Investigate, Structure, Notify, RecordDeliveries, FinishRun,
         FailAudit, Return, FailIfRunning
<1>3. Recovered \/ Claimed \/ Completed => Commit
  BY DEF Recovered, Claimed, Completed
<1>4. Woken => TakeWake
  BY DEF Woken
<1>5. ASSUME NEW o \in Outcomes, Recover(o)
      PROVE  Next
  BY <1>5 DEF Recover, Next
<1>6. ASSUME NEW j \in Ids, NEW o \in Outcomes, Claim(j, o)
      PROVE  Next
  BY <1>6 DEF Claim, Next, QueueStep
<1>7. ASSUME NEW o \in Outcomes, Complete(o)
      PROVE  Next
  <2>1. worker.run \in Runs \cup {None}
    BY DEF WorkerType, WorkerRecord
  <2>2. PICK st \in Final : CompleteJob(worker.job, st, worker.run, o)
    BY <1>7 DEF Complete, Final
  <2>3. worker.job \in Ids
    BY <2>2 DEF CompleteJob, Running
  <2> QED
    BY <2>1, <2>2, <2>3 DEF Next, QueueStep
<1> QED
  BY <1>1, <1>2, <1>3, <1>4, <1>5, <1>6, <1>7 DEF WorkerStep, Next

\* The places the worker moves to.
LEMMA PlaceNames ==
  {"off", "boot", "recovering", "panic", "claim", "claiming", "wait", "begin",
   "investigate", "structure", "notify", "record", "finish", "failaudit",
   "complete", "failjob", "completing", "return", "stopped"} \subseteq Places
  BY DEF Places, Processing

\* A move of the worker's program counter changes nothing else of its record.
LEMMA GotoType ==
  ASSUME WorkerType, NEW pc \in Places, Goto(pc)
  PROVE  worker' \in WorkerRecord /\ worker'.pc = pc /\ worker'.run = worker.run
<1> HIDE DEF Places
<1> QED
  BY DEF WorkerType, WorkerRecord, Goto

\* A failed audit write is counted within its bound.
LEMMA AuditFaultType ==
  ASSUME WorkerType, AuditFault \/ UNCHANGED auditFaults
  PROVE  auditFaults' \in 0..MaxAuditFaults
  BY WorkerConstantsAssumption DEF WorkerType, AuditFault

\* A worker that is not in a run needs no name for it.
LEMMA IdleWorker ==
  ASSUME WorkerType, UNCHANGED <<cancelled, auditVars, sent>>,
         crashes' \in 0..MaxCrashes, worker' \in WorkerRecord,
         worker'.pc \notin {"investigate", "structure", "notify", "record", "finish"}
  PROVE  WorkerInv'
  BY DEF WorkerInv, WorkerType, Named, auditVars

\* Starting, stopping and claiming.
LEMMA LoopType ==
  ASSUME WorkerInv,
         \/ Start \/ StartRefused \/ ProcessCrash \/ Shutdown \/ Exit \/ HandlerStep
         \/ NothingToRecover \/ Recovered \/ \E o \in Outcomes : Recover(o)
         \/ NothingPending \/ Claimed \/ Woken \/ TimerFires \/ Stop
         \/ \E j \in Ids, o \in Outcomes : Claim(j, o)
  PROVE  WorkerInv'
<1> USE PlaceNames
<1>0. WorkerType /\ crashes \in 0..MaxCrashes
  BY DEF WorkerInv, WorkerType
<1>1. ASSUME NEW pc \in {"off", "boot"}, worker' = [NoWorker EXCEPT !.pc = pc]
      PROVE  worker' \in WorkerRecord /\ worker'.pc = pc
  BY <1>1 DEF NoWorker, WorkerRecord
<1>2. NoWorker = [NoWorker EXCEPT !.pc = "off"]
  BY DEF NoWorker
<1>3. CASE Start
  BY <1>0, <1>1, <1>3 DEF WorkerInv, WorkerType, Named, Start, auditVars
<1>4. CASE Exit \/ ProcessCrash
  <2>1. crashes' \in 0..MaxCrashes
    BY <1>0, <1>4, WorkerConstantsAssumption DEF Exit, ProcessCrash
  <2>2. worker' \in WorkerRecord /\ worker'.pc = "off"
    BY <1>1, <1>2, <1>4 DEF Exit, ProcessCrash, Die
  <2> QED
    BY <1>0, <1>4, <2>1, <2>2, IdleWorker DEF Exit, ProcessCrash, Die
<1>5. CASE StartRefused \/ HandlerStep
  BY <1>5 DEF StartRefused, HandlerStep, workerVars, auditVars, WorkerInv,
              WorkerType, Named
<1>6. CASE Shutdown
  BY <1>6, WorkerConstantsAssumption
     DEF Shutdown, auditVars, WorkerInv, WorkerType, Named
<1>7. ASSUME NEW pc \in {"recovering", "panic", "claim", "wait", "begin", "stopped"},
             Goto(pc), UNCHANGED <<cancelled, crashes, auditVars, sent>>
      PROVE  WorkerInv'
  BY <1>0, <1>7, GotoType, IdleWorker
<1>8. ASSUME NEW o \in Outcomes, Recover(o)
      PROVE  WorkerInv'
  BY <1>7, <1>8 DEF Recover
<1>9. CASE NothingToRecover \/ Recovered \/ NothingPending \/ Claimed
             \/ Woken \/ TimerFires \/ Stop
  BY <1>7, <1>9 DEF NothingToRecover, Recovered, NothingPending, Claimed, Woken,
                    TimerFires, Stop
<1>10. ASSUME NEW j \in Ids, NEW o \in Outcomes, Claim(j, o)
       PROVE  WorkerInv'
  <2>1. CASE o = "ok"
    <3>1. worker' = [pc |-> "claiming", job |-> j, run |-> None]
      BY <1>10, <2>1 DEF Claim
    <3>2. worker' \in WorkerRecord /\ worker'.pc = "claiming"
      BY <3>1 DEF WorkerRecord
    <3> QED
      BY <1>0, <1>10, <3>2, IdleWorker DEF Claim
  <2>2. CASE o # "ok"
    <3>1. Goto("wait")
      BY <1>10, <2>2 DEF Claim, Goto
    <3> QED
      BY <1>7, <1>10, <3>1 DEF Claim
  <2> QED
    BY <2>1, <2>2
<1> QED
  BY <1>3, <1>4, <1>5, <1>6, <1>8, <1>9, <1>10

\* Closing a run that is still running.
LEMMA FailIfRunningType ==
  ASSUME WorkerInv, NEW pc \in {"failjob", "claim"}, FailIfRunning(pc)
  PROVE  WorkerInv'
<1>0. WorkerType
  BY DEF WorkerInv
<1>1. worker' \in WorkerRecord /\ worker'.pc = pc
  <2>1. worker \in WorkerRecord /\ NoWorker \in WorkerRecord /\ pc \in Places
    BY <1>0, PlaceNames DEF WorkerType, NoWorker, WorkerRecord
  <2> QED
    BY <2>1 DEF FailIfRunning, WorkerRecord
<1>2. auditStatus' \in [Runs -> {"absent", "running"} \cup Final]
  BY <1>0 DEF FailIfRunning, WorkerType, Final
<1>3. auditFaults' \in 0..MaxAuditFaults
  BY <1>0, AuditFaultType DEF FailIfRunning
<1> QED
  BY <1>0, <1>1, <1>2, <1>3 DEF FailIfRunning, WorkerInv, WorkerType, Named

\* Processing a job.
LEMMA ProcessingType ==
  ASSUME WorkerInv,
         \/ BeginRun \/ Investigate \/ Structure \/ Notify \/ RecordDeliveries
         \/ FinishRun \/ FailAudit \/ Return
         \/ Completed \/ \E o \in Outcomes : Complete(o)
  PROVE  WorkerInv'
<1> USE PlaceNames
<1>0. WorkerType /\ worker \in WorkerRecord /\ Named
  BY DEF WorkerInv, WorkerType
<1>1. CASE BeginRun
  <2>1. worker' \in WorkerRecord
        /\ (worker'.pc = "investigate" => worker'.run \in Runs)
        /\ worker'.pc \in {"investigate", "failaudit", "failjob"}
    <3>1. ASSUME NEW pc \in {"investigate", "failaudit"}, NEW r \in Runs,
                 worker' = [worker EXCEPT !.pc = pc, !.run = r]
          PROVE  worker' \in WorkerRecord /\ worker'.pc = pc /\ worker'.run = r
      BY <1>0, <3>1 DEF WorkerRecord
    <3>2. ASSUME NEW pc \in {"failjob", "failaudit"}, Goto(pc)
          PROVE  worker' \in WorkerRecord /\ worker'.pc = pc
      BY <1>0, <3>2, GotoType
    <3> QED
      BY <1>1, <3>1, <3>2 DEF BeginRun
  <2>2. auditStatus' \in [Runs -> {"absent", "running"} \cup Final]
    BY <1>0, <1>1 DEF BeginRun, WorkerType, auditVars
  <2>3. auditJob' \in [Runs -> Ids \cup {0}]
    BY <1>0, <1>1 DEF BeginRun, WorkerType, auditVars, WorkerRecord
  <2>4. auditFaults' \in 0..MaxAuditFaults
    BY <1>0, <1>1, AuditFaultType DEF BeginRun, auditVars
  <2>5. auditResult' = auditResult /\ UNCHANGED <<cancelled, crashes, sent>>
    BY <1>1 DEF BeginRun, auditVars
  <2> QED
    BY <1>0, <2>1, <2>2, <2>3, <2>4, <2>5 DEF WorkerInv, WorkerType, Named
<1>2. ASSUME NEW pc \in {"structure", "notify", "record", "finish", "failaudit",
                         "complete", "failjob"},
             Goto(pc),
             worker.pc \in {"investigate", "structure", "notify", "record", "finish"},
             UNCHANGED <<cancelled, crashes, auditJob>>,
             auditStatus' \in [Runs -> {"absent", "running"} \cup Final],
             auditResult' \subseteq auditResult \cup {worker.run},
             sent' \subseteq sent \cup {worker.run},
             AuditFault \/ UNCHANGED auditFaults
      PROVE  WorkerInv'
  <2>1. /\ worker' \in WorkerRecord /\ worker'.pc = pc /\ worker'.run = worker.run
    BY <1>0, <1>2, GotoType
  <2>2. worker.run \in Runs
    BY <1>0, <1>2 DEF Named
  <2>3. auditFaults' \in 0..MaxAuditFaults
    BY <1>0, <1>2, AuditFaultType
  <2> QED
    BY <1>0, <1>2, <2>1, <2>2, <2>3 DEF WorkerInv, WorkerType, Named
<1>3. auditStatus \in [Runs -> {"absent", "running"} \cup Final]
  BY <1>0 DEF WorkerType
<1>4. CASE Investigate
  BY <1>2, <1>3, <1>4 DEF Investigate, At
<1>5. CASE Structure
  BY <1>2, <1>3, <1>5 DEF Structure, At
<1>6. CASE Notify
  BY <1>2, <1>3, <1>6 DEF Notify, At, auditVars
<1>7. CASE RecordDeliveries
  BY <1>2, <1>3, <1>7 DEF RecordDeliveries, At
<1>8. CASE FinishRun
  <2>1. auditStatus' \in [Runs -> {"absent", "running"} \cup Final]
    BY <1>3, <1>8 DEF FinishRun, Final
  <2> QED
    BY <1>2, <1>8, <2>1 DEF FinishRun, At
<1>9. CASE FailAudit \/ Return
  BY <1>9, FailIfRunningType DEF FailAudit, Return
<1>10. ASSUME NEW pc \in {"completing", "return"}, Goto(pc),
              UNCHANGED <<cancelled, crashes, auditVars, sent>>
       PROVE  WorkerInv'
  <2>1. worker' \in WorkerRecord /\ worker'.pc = pc
    BY <1>0, <1>10, GotoType
  <2>2. crashes' \in 0..MaxCrashes
    BY <1>0, <1>10 DEF WorkerType
  <2> QED
    BY <1>0, <1>10, <2>1, <2>2, IdleWorker
<1>11. CASE Completed \/ \E o \in Outcomes : Complete(o)
  BY <1>10, <1>11 DEF Completed, Complete
<1> QED
  BY <1>1, <1>4, <1>5, <1>6, <1>7, <1>8, <1>9, <1>11

\* Every step keeps the worker's types.
LEMMA WorkerTypeStep == WorkerInv /\ [WorkerNext]_vars => WorkerInv'
<1> SUFFICES ASSUME WorkerInv, [WorkerNext]_vars PROVE WorkerInv'
  OBVIOUS
<1>1. CASE UNCHANGED vars
  BY <1>1 DEF vars, workerVars, auditVars, WorkerInv, WorkerType, Named
<1>2. CASE WorkerStep
  BY <1>2, LoopType, ProcessingType DEF WorkerStep
<1> QED
  BY <1>1, <1>2, LoopType DEF WorkerNext

\* The worker starts with its types.
LEMMA WorkerInitType == WorkerInit => WorkerInv
<1> SUFFICES ASSUME WorkerInit PROVE WorkerInv
  OBVIOUS
<1>1. worker \in WorkerRecord /\ worker.pc = "off"
  BY PlaceNames DEF WorkerInit, NoWorker, WorkerRecord
<1>2. crashes \in 0..MaxCrashes /\ auditFaults \in 0..MaxAuditFaults
  BY WorkerConstantsAssumption DEF WorkerInit
<1> QED
  BY <1>1, <1>2 DEF WorkerInit, WorkerInv, WorkerType, Named

\* What is proved of the store alone holds of it in the process.
LEMMA StoreInPipeline == WorkerSpec => Spec
<1>1. WorkerInit => Init
  BY DEF WorkerInit
<1>2. WorkerInv /\ [WorkerNext]_vars => [Next]_storeVars
  <2> SUFFICES ASSUME WorkerInv, [WorkerNext]_vars PROVE [Next]_storeVars
    OBVIOUS
  <2>1. CASE Start \/ StartRefused \/ ProcessCrash \/ Exit
    BY <2>1 DEF Start, StartRefused, ProcessCrash, Exit, Die, Next
  <2>2. CASE Shutdown
    BY <2>2 DEF Shutdown
  <2>3. CASE HandlerStep
    BY <2>3, HandlerIsStoreStep
  <2>4. CASE WorkerStep
    BY <2>4, WorkerIsStoreStep DEF WorkerInv
  <2>5. CASE UNCHANGED vars
    BY <2>5 DEF vars, storeVars
  <2> QED
    BY <2>1, <2>2, <2>3, <2>4, <2>5 DEF WorkerNext
<1> QED
  BY <1>1, <1>2, WorkerInitType, WorkerTypeStep, PTL
     DEF WorkerSpec, Spec

\* The pipeline's types: the store's, and the worker's.
THEOREM WorkerTypeCorrect == WorkerSpec => []WorkerTypeOK
<1>1. WorkerSpec => []WorkerInv
  BY WorkerInitType, WorkerTypeStep, PTL DEF WorkerSpec
<1>2. WorkerSpec => []TypeOK
  BY StoreInPipeline, StoreTypeOK, PTL
<1>3. WorkerInv /\ TypeOK => WorkerTypeOK
  BY DEF WorkerInv, WorkerType, WorkerRecord, Places, WorkerTypeOK
<1> QED
  BY <1>1, <1>2, <1>3, PTL

\* In a running process, with its worker, handlers, crashes and restarts, no key
\* is stored twice and no correlation key has two open incidents.
THEOREM PipelineKeepsKeys ==
  ASSUME "unsynced" \notin Faults
  PROVE  WorkerSpec => [](NoDuplicateEvents /\ OneOpenIncident)
<1>1. Spec => []NoDuplicateEvents
  BY DuplicatesExcluded
<1>2. Spec => []OneOpenIncident
  BY OneOpenPerKey
<1> QED
  BY <1>1, <1>2, StoreInPipeline, PTL
-----------------------------------------------------------------------------
(* One job at a time, and one run for each turn at it.                     *)
(*                                                                         *)
(* The worker holds a claim on its job, the store a job that is running,   *)
(* the audit store a run, and no step changes two of them: between a claim *)
(* and its commit, between the run's success and the job's, between a      *)
(* crash and the recovery they disagree.  The strengthening says, for each *)
(* place of the worker, what the other three hold.                         *)

\* The mutex is held for the worker's record exactly where the worker waits for
\* its commit, and the record is the one the worker asked for.
Holding ==
    /\ proc = "up" <=> worker.pc # "off"
    /\ op.kind = "recover" <=> worker.pc = "recovering"
    /\ op.kind = "claim" <=> worker.pc = "claiming"
    /\ op.kind = "complete" <=> worker.pc = "completing"
    /\ op.kind \in {"recover", "claim", "complete"} => op.phase = "written"
    /\ worker.pc = "recovering" => \A j \in Ids : rec.jobs[j] = Requeued(j)
    /\ worker.pc = "claiming" =>
         /\ worker.job \in Pending
         /\ \A i \in Ids : rec.jobs[i] # None <=> i = worker.job
         /\ rec.jobs[worker.job].status = "running"
    /\ worker.pc = "completing" =>
         \A i \in Ids : rec.jobs[i] # None <=> i = worker.job
    /\ worker.pc = "stopped" => cancelled
    /\ worker.pc \in {"boot", "recovering", "panic"} => ~cancelled

\* The job in hand is running; every other running job cost a failed append.
Own == IF worker.pc \in Processing THEN {worker.job} ELSE {}
Claims == Serving => Own \subseteq Running /\ Cardinality(Running \ Own) <= faults

\* What the audit store holds of the run in hand, place by place.
InRun ==
    /\ worker.pc \in {"investigate", "structure", "notify", "record", "finish",
                      "complete"} =>
         worker.run \in Runs /\ auditJob[worker.run] = worker.job
    /\ worker.pc \in {"notify", "record", "finish", "complete"} =>
         worker.run \in auditResult
    /\ worker.pc \in {"record", "finish", "complete"} => worker.run \in sent
    /\ worker.pc = "complete" => auditStatus[worker.run] = "succeeded"
    /\ worker.pc \in {"investigate", "structure", "notify", "record", "finish"} =>
         auditStatus[worker.run] = "running"
    /\ sent \subseteq auditResult

\* What the audit store holds of the run a succeeded job of the journal names.
Backed ==
    \A j \in Ids : disk.jobs[j] # None /\ disk.jobs[j].status = "succeeded" =>
        LET r == disk.jobs[j].run
        IN  /\ r \in Runs /\ auditStatus[r] = "succeeded" /\ auditJob[r] = j
            /\ r \in auditResult /\ r \in sent

\* The runs of a job are paid for: by a crash or a shutdown each, and one by
\* the turn at the job that this process has begun.
RunsOf(j) == {r \in Runs : auditJob[r] = j}
Begun(j) == /\ Serving /\ jobs[j] # None /\ jobs[j].status # "pending"
            /\ ~(worker.pc = "begin" /\ worker.job = j)
Closing == IF Serving /\ cancelled THEN 1 ELSE 0
Turn(j) == IF Begun(j) THEN 1 ELSE 0
Budget ==
    \A j \in Ids : /\ IsFiniteSet(RunsOf(j))
                   /\ Cardinality(RunsOf(j)) + Closing <= crashes + Turn(j)

Turns == Holding /\ Claims /\ InRun /\ Backed /\ Budget /\ NoLostWakeup
WInv == WorkerInv /\ JInv /\ Turns
-----------------------------------------------------------------------------
(* What each kind of step does to the store, for the worker to know.        *)

\* A move of the program counter in a running process keeps job and run.
LEMMA MoveRecord ==
  ASSUME WorkerInv, NEW pc \in Places, Goto(pc)
  PROVE  /\ worker' \in WorkerRecord /\ worker'.pc = pc
         /\ worker'.job = worker.job /\ worker'.run = worker.run
<1> HIDE DEF Places
<1> QED
  BY DEF WorkerInv, WorkerType, WorkerRecord, Goto

\* What the append of an update leaves behind.
LEMMA UpdateEffect ==
  ASSUME JInv, Unlocked, NEW kind \in Kinds, NEW r \in Contents,
         NEW o \in Outcomes, Update(kind, r, o)
  PROVE  /\ proc = "up" /\ proc' = "up" /\ op.phase = "idle"
         /\ jobs' = jobs /\ wake' = wake
         /\ Running' = Running /\ Pending' = Pending
         /\ o = "ok" => /\ op'.kind = kind /\ op'.phase = "written" /\ rec' = r
                        /\ faults' = faults
         /\ o # "ok" => /\ op'.kind = "none" /\ op'.phase = "idle"
                        /\ faults' = faults + 1
         /\ \/ disk' = disk
            \/ disk = Memory /\ disk' = Replay(Memory, r)
<1>1. Write(kind, r, o) /\ UNCHANGED <<proc, memory, wake>>
  BY DEF Update
<1>2. proc = "up" /\ op.phase = "idle" /\ jobs' = jobs
  BY <1>1 DEF Unlocked, memory
<1>3. TypeOK
  BY DEF JInv, IInv, TypeInv
<1>4. o = "ok" => op'.kind = kind /\ op'.phase = "written" /\ rec' = r
  BY <1>1, <1>3, WriteType
<1>5. o # "ok" => op'.kind = "none" /\ op'.phase = "idle"
  BY <1>1, <1>3, WriteType DEF Idle
<1>6. faults' = IF o = "ok" THEN faults ELSE faults + 1
  BY <1>1 DEF Write, Append2Journal
<1>7. \/ disk' = disk
      \/ disk = Memory /\ disk' = Replay(Memory, r)
  BY UpdateJournal
<1> QED
  BY <1>1, <1>2, <1>4, <1>5, <1>6, <1>7 DEF Running, Pending

\* What a commit does to the jobs and to the mutex.
LEMMA CommitEffect ==
  ASSUME Commit
  PROVE  /\ proc = "up" /\ proc' = "up" /\ op.phase = "written"
         /\ op'.kind = "none" /\ op'.phase = "idle"
         /\ disk' = disk /\ faults' = faults
         /\ wake' = (wake \/ Signalled)
         /\ \A j \in Ids : jobs'[j] = IF rec.jobs[j] = None THEN jobs[j] ELSE rec.jobs[j]
  BY DEF Commit, Staged, Replay, Override, Memory, Idle, journal

\* What a webhook handler may do: add pending jobs, with a wake-up.
Delivers ==
    /\ UNCHANGED workerVars
    /\ proc = "up" /\ proc' = "up"
    /\ op.kind \in {"none", "ingest"} /\ op'.kind \in {"none", "ingest"}
    /\ \A j \in Ids : \/ jobs'[j] = jobs[j]
                      \/ jobs[j] = None /\ jobs'[j].status = "pending"
    /\ wake => wake'
    /\ (\A j \in Ids : jobs'[j] = jobs[j]) \/ wake'
    /\ faults' = faults \/ faults' = faults + 1
    /\ \A j \in Ids : disk'.jobs[j] # None /\ disk'.jobs[j].status = "succeeded" =>
         disk'.jobs[j] = disk.jobs[j]

LEMMA HandlerEffect ==
  ASSUME JInv, Holding, HandlerStep
  PROVE  Delivers
<1>1. UNCHANGED workerVars
  BY DEF HandlerStep
<1>2. op.kind \in Kinds
  BY DEF JInv, IInv, TypeInv, TypeOK, Operations
<1>3. op.phase # "written" => op.kind \in {"none", "ingest"}
  BY <1>2 DEF Holding, Kinds
<1>4. ASSUME proc = "up" /\ proc' = "up",
             op.phase # "written", op'.kind \in {"none", "ingest"},
             jobs' = jobs, wake' = wake, faults' = faults, disk' = disk
      PROVE  Delivers
  BY <1>1, <1>3, <1>4 DEF Delivers
<1>5. ASSUME NEW b \in Batches, NEW t \in Times, BeginIngest(b, t)
      PROVE  Delivers
  <2>1. /\ proc = "up" /\ op.phase = "idle" /\ op'.kind = "ingest"
        /\ UNCHANGED <<proc, memory, wake, journal>>
    BY <1>5 DEF BeginIngest, Unlocked
  <2> QED
    BY <2>1, <1>4 DEF memory, journal
<1>6. CASE IngestInvalid
  <2>1. /\ proc = "up" /\ op.phase = "loop" /\ op'.kind = "none"
        /\ UNCHANGED <<proc, memory, wake, journal>>
    BY <1>6 DEF IngestInvalid, Looping, Locked, Idle
  <2> QED
    BY <2>1, <1>4 DEF memory, journal
<1>7. CASE IngestDuplicate \/ IngestNew
  <2>1. /\ proc = "up" /\ op.phase = "loop" /\ op.kind = "ingest"
        /\ UNCHANGED <<proc, memory, wake, journal>>
        /\ op' = [op EXCEPT !.todo = Tail(@)]
    BY <1>7 DEF IngestDuplicate, IngestNew, Looping, Locked
  <2>2. op \in Operations
    BY DEF JInv, IInv, TypeInv, TypeOK
  <2>3. op'.kind = "ingest"
    <3> HIDE DEF Kinds
    <3> QED
      BY <2>1, <2>2 DEF Operations
  <2> QED
    BY <2>1, <2>3, <1>4 DEF memory, journal
<1>8. ASSUME NEW o \in Outcomes, IngestAppend(o)
      PROVE  Delivers
  <2>1. /\ proc = "up" /\ op.phase = "loop" /\ op.kind = "ingest"
        /\ Write("ingest", rec, o) /\ UNCHANGED <<proc, memory, wake>>
    BY <1>8 DEF IngestAppend, Locked
  <2>2. op'.kind \in {"none", "ingest"}
    <3>1. TypeOK /\ rec \in Contents /\ "ingest" \in Kinds
      BY DEF JInv, IInv, TypeInv, TypeOK, Kinds
    <3>2. (o = "ok" => op'.kind = "ingest") /\ (o # "ok" => op' = Idle)
      BY <2>1, <3>1, WriteType
    <3> QED
      BY <3>2 DEF Idle
  <2>3. faults' = faults \/ faults' = faults + 1
    BY <2>1 DEF Write, Append2Journal
  <2>4. disk' = disk \/ disk' = Replay(disk, rec)
    BY <2>1 DEF Write, Append2Journal
  <2>5. \A j \in Ids : rec.jobs[j] # None => rec.jobs[j].status = "pending"
    BY <2>1 DEF JInv, Belong, RecordMoves
  <2>6. ASSUME NEW j \in Ids, disk'.jobs[j] # None, disk'.jobs[j].status = "succeeded"
        PROVE  disk'.jobs[j] = disk.jobs[j]
    <3>1. CASE disk' = Replay(disk, rec)
      <4>1. disk'.jobs[j] = IF rec.jobs[j] = None THEN disk.jobs[j] ELSE rec.jobs[j]
        BY <3>1, ReplayJob
      <4> QED
        BY <4>1, <2>5, <2>6
    <3> QED
      BY <3>1, <2>4
  <2>7. jobs' = jobs /\ wake' = wake /\ proc' = "up"
    BY <2>1 DEF memory
  <2> QED
    BY <1>1, <2>1, <2>2, <2>3, <2>6, <2>7 DEF Delivers
<1>9. CASE op.kind = "ingest" /\ Commit
  <2>1. /\ proc = "up" /\ proc' = "up" /\ op'.kind = "none"
        /\ disk' = disk /\ faults' = faults /\ wake' = (wake \/ Signalled)
        /\ \A j \in Ids : jobs'[j] = IF rec.jobs[j] = None THEN jobs[j] ELSE rec.jobs[j]
        /\ op.phase = "written"
    BY <1>9, CommitEffect
  <2>2. \A j \in Ids : rec.jobs[j] # None => jobs[j] = None /\ rec.jobs[j].status = "pending"
    BY <1>9, <2>1 DEF JInv, Belong, RecordMoves
  <2>3. (\A j \in Ids : jobs'[j] = jobs[j]) \/ wake'
    BY <2>1, <1>9 DEF Signalled, Blank
  <2>4. wake => wake'
    BY <2>1
  <2> QED
    BY <1>1, <1>9, <2>1, <2>2, <2>3, <2>4 DEF Delivers
<1> QED
  BY <1>5, <1>6, <1>7, <1>8, <1>9 DEF HandlerStep, IngestWork

\* The worker's steps that leave the store alone.
OwnStep ==
    \/ NothingToRecover \/ NothingPending \/ TimerFires \/ Stop
    \/ BeginRun \/ Investigate \/ Structure \/ Notify \/ RecordDeliveries
    \/ FinishRun \/ FailAudit \/ Return

\* None of them enters or leaves a commit or the start of a job, they keep the
\* job while there is one, and they wait only when nothing is pending.
Proceeds ==
    /\ UNCHANGED <<storeVars, cancelled, crashes>>
    /\ proc = "up"
    /\ worker.pc \notin {"off", "recovering", "claiming", "completing", "panic"}
    /\ worker'.pc \notin {"off", "boot", "recovering", "claiming", "completing",
                          "panic", "begin"}
    /\ worker.pc \in Processing <=> worker'.pc \in Processing
    /\ worker.pc \in Processing => worker'.job = worker.job
    /\ worker.pc = "boot" => Running = {}
    /\ worker'.pc = "wait" => Pending = {}
    /\ worker'.pc = "stopped" => cancelled

LEMMA OwnMove ==
  ASSUME WInv, OwnStep
  PROVE  Proceeds
<1>0. WorkerInv
  BY DEF WInv
<1> USE PlaceNames
<1>1. CASE NothingToRecover
  <2>1. worker'.pc = "claim" /\ worker.pc = "boot"
    BY <1>0, <1>1, MoveRecord DEF NothingToRecover, At
  <2> QED
    BY <1>1, <2>1 DEF NothingToRecover, At, Proceeds, Processing
<1>2. CASE NothingPending
  <2>1. worker'.pc = "wait" /\ worker.pc = "claim"
    BY <1>0, <1>2, MoveRecord DEF NothingPending, At
  <2> QED
    BY <1>2, <2>1 DEF NothingPending, At, Proceeds, Processing
<1>3. CASE TimerFires
  <2>1. worker'.pc = "claim" /\ worker.pc = "wait"
    BY <1>0, <1>3, MoveRecord DEF TimerFires, At
  <2> QED
    BY <1>3, <2>1 DEF TimerFires, At, Proceeds, Processing
<1>4. CASE Stop
  <2>1. worker'.pc = "stopped" /\ worker.pc = "wait"
    BY <1>0, <1>4, MoveRecord DEF Stop, At
  <2> QED
    BY <1>4, <2>1 DEF Stop, At, Proceeds, Processing
<1>5. CASE Return
  <2>1. worker' = [NoWorker EXCEPT !.pc = "claim"] /\ worker.pc = "return" /\ proc = "up"
    BY <1>5 DEF Return, FailIfRunning, At
  <2>2. worker'.pc = "claim"
    BY <2>1 DEF NoWorker
  <2> QED
    BY <1>5, <2>1, <2>2 DEF Return, FailIfRunning, Proceeds, Processing
<1>6. ASSUME UNCHANGED <<storeVars, cancelled, crashes>>, proc = "up",
             worker.pc \in {"begin", "investigate", "structure", "notify", "record",
                            "finish", "failaudit"},
             worker'.pc \in {"investigate", "structure", "notify", "record", "finish",
                             "failaudit", "complete", "failjob"},
             worker'.job = worker.job
      PROVE  Proceeds
  BY <1>6 DEF Proceeds, Processing
<1>7. CASE BeginRun
  <2>1. worker.pc = "begin" /\ proc = "up" /\ UNCHANGED <<storeVars, cancelled, crashes>>
    BY <1>7 DEF BeginRun, At
  <2>2. worker \in WorkerRecord
    BY <1>0 DEF WorkerInv, WorkerType
  <2>3. \/ Goto("failjob") \/ Goto("failaudit")
        \/ \E r \in Runs : \/ worker' = [worker EXCEPT !.pc = "investigate", !.run = r]
                           \/ worker' = [worker EXCEPT !.pc = "failaudit", !.run = r]
    BY <1>7 DEF BeginRun
  <2>4. worker'.pc \in {"investigate", "failaudit", "failjob"} /\ worker'.job = worker.job
    <3>1. CASE Goto("failjob") \/ Goto("failaudit")
      BY <1>0, <3>1, MoveRecord
    <3>2. ASSUME NEW r \in Runs, worker' = [worker EXCEPT !.pc = "investigate", !.run = r]
          PROVE  worker'.pc = "investigate" /\ worker'.job = worker.job
      BY <3>2, <2>2 DEF WorkerRecord
    <3>3. ASSUME NEW r \in Runs, worker' = [worker EXCEPT !.pc = "failaudit", !.run = r]
          PROVE  worker'.pc = "failaudit" /\ worker'.job = worker.job
      BY <3>3, <2>2 DEF WorkerRecord
    <3> QED
      BY <2>3, <3>1, <3>2, <3>3
  <2> QED
    BY <2>1, <2>4, <1>6
<1>8. CASE Investigate \/ Structure \/ Notify \/ RecordDeliveries \/ FinishRun \/ FailAudit
  <2>1. /\ UNCHANGED <<storeVars, cancelled, crashes>> /\ proc = "up"
        /\ worker.pc \in {"investigate", "structure", "notify", "record", "finish",
                          "failaudit"}
        /\ \E pc \in {"structure", "notify", "record", "finish", "failaudit",
                      "complete", "failjob"} : Goto(pc)
    BY <1>8 DEF Investigate, Structure, Notify, RecordDeliveries, FinishRun, FailAudit,
                FailIfRunning, At, Goto
  <2>2. PICK pc \in {"structure", "notify", "record", "finish", "failaudit",
                     "complete", "failjob"} : Goto(pc)
    BY <2>1
  <2>3. worker'.pc = pc /\ worker'.job = worker.job
    BY <1>0, <2>2, MoveRecord
  <2> QED
    BY <2>1, <2>2, <2>3, <1>6
<1> QED
  BY <1>1, <1>2, <1>3, <1>4, <1>5, <1>7, <1>8 DEF OwnStep
-----------------------------------------------------------------------------
(* Steps that leave a part of the invariant alone.                          *)

\* The running jobs are finitely many, and so are those left behind.
LEMMA LeftFinite ==
  /\ IsFiniteSet(Running) /\ IsFiniteSet(Running \ Own)
  /\ Cardinality(Running \ Own) \in Nat
<1>1. IsFiniteSet(Ids)
  BY ConstantsAssumption, FS_Interval DEF Ids
<1>2. Running \in SUBSET Ids /\ Running \ Own \in SUBSET Ids
  BY DEF Running
<1>3. IsFiniteSet(Running) /\ IsFiniteSet(Running \ Own)
  BY <1>1, <1>2, FS_Subset
<1> QED
  BY <1>3, FS_CardinalityType

\* No job is left behind, or the one in hand is and an append failed.
LEMMA ClaimsKept ==
  ASSUME Claims, Serving, faults \in Nat,
         faults' = faults \/ faults' = faults + 1, Own' \subseteq Running',
         Running' \ Own' \subseteq Running \ Own
  PROVE  Claims'
<1>1. Cardinality(Running \ Own) <= faults
  BY DEF Claims
<1>2. Running' \ Own' \in SUBSET (Running \ Own)
  OBVIOUS
<1>3. /\ Cardinality(Running' \ Own') <= Cardinality(Running \ Own)
      /\ IsFiniteSet(Running' \ Own')
  BY <1>2, LeftFinite, FS_Subset
<1>4. Cardinality(Running' \ Own') \in Nat /\ Cardinality(Running \ Own) \in Nat
  BY <1>3, LeftFinite, FS_CardinalityType
<1>5. Cardinality(Running' \ Own') <= faults'
  BY <1>1, <1>3, <1>4
<1> QED
  BY <1>5 DEF Claims

LEMMA ClaimsLeft ==
  ASSUME Claims, Serving, faults \in Nat, faults' = faults + 1, Own' = {},
         NEW x, Running' = (Running \ Own) \cup {x}
  PROVE  Claims'
<1>1. Cardinality(Running \ Own) <= faults /\ Cardinality(Running \ Own) \in Nat
  BY LeftFinite DEF Claims
<1>2. Cardinality((Running \ Own) \cup {x}) <= Cardinality(Running \ Own) + 1
  <2>1. Cardinality((Running \ Own) \cup {x}) =
          IF x \in Running \ Own THEN Cardinality(Running \ Own)
          ELSE Cardinality(Running \ Own) + 1
    BY LeftFinite, FS_AddElement
  <2> DEFINE left == Cardinality(Running \ Own)
  <2>2. left \in Nat
    BY <1>1
  <2> HIDE DEF left
  <2> QED
    BY <2>1, <2>2 DEF left
<1>3. IsFiniteSet((Running \ Own) \cup {x})
  BY LeftFinite, FS_AddElement
<1>4. Cardinality((Running \ Own) \cup {x}) \in Nat
  BY <1>3, FS_CardinalityType
<1>5. Running' \ Own' = (Running \ Own) \cup {x}
  OBVIOUS
<1>6. Cardinality(Running' \ Own') <= faults'
  BY <1>1, <1>2, <1>4, <1>5
<1> QED
  BY <1>6 DEF Claims

\* A step that neither touches the audit store nor moves the worker within a run.
LEMMA InRunKept ==
  ASSUME InRun, UNCHANGED <<auditVars, sent>>,
         \/ UNCHANGED worker
         \/ worker'.pc \notin {"investigate", "structure", "notify", "record",
                               "finish", "complete"}
  PROVE  InRun'
  BY DEF InRun, auditVars

\* Runs that succeeded stay as they are, and so do the jobs that name them.
LEMMA BackedKept ==
  ASSUME Backed,
         \A j \in Ids : disk'.jobs[j] # None /\ disk'.jobs[j].status = "succeeded" =>
           disk'.jobs[j] = disk.jobs[j],
         \A r \in Runs : auditStatus[r] = "succeeded" =>
           auditStatus'[r] = "succeeded" /\ auditJob'[r] = auditJob[r],
         auditResult \subseteq auditResult', sent \subseteq sent'
  PROVE  Backed'
  BY DEF Backed

LEMMA BackedSame ==
  ASSUME Backed, UNCHANGED <<auditVars, sent>>,
         \A j \in Ids : disk'.jobs[j] # None /\ disk'.jobs[j].status = "succeeded" =>
           disk'.jobs[j] = disk.jobs[j]
  PROVE  Backed'
  BY DEF Backed, auditVars

\* No run begins, and no turn is taken back.
LEMMA BudgetKept ==
  ASSUME WorkerInv, Budget, auditJob' = auditJob, crashes' = crashes,
         (Serving /\ cancelled)' => (Serving /\ cancelled),
         \A j \in Ids : Begun(j) => Begun(j)'
  PROVE  Budget'
<1>1. crashes \in Nat
  BY WorkerConstantsAssumption DEF WorkerInv, WorkerType
<1>2. Closing' <= Closing /\ Closing \in Nat /\ Closing' \in Nat
  BY DEF Closing
<1>3. ASSUME NEW j \in Ids
      PROVE  IsFiniteSet(RunsOf(j)') /\ Cardinality(RunsOf(j)') + Closing' <= crashes' + Turn(j)'
  <2>1. RunsOf(j)' = RunsOf(j)
    BY DEF RunsOf
  <2>2. Turn(j) <= Turn(j)' /\ Turn(j) \in Nat /\ Turn(j)' \in Nat
    BY DEF Turn
  <2>3. IsFiniteSet(RunsOf(j)) /\ Cardinality(RunsOf(j)) + Closing <= crashes + Turn(j)
    BY DEF Budget
  <2>4. Cardinality(RunsOf(j)) \in Nat
    BY <2>3, FS_CardinalityType
  <2>5. Cardinality(RunsOf(j)) + Closing' <= crashes' + Turn(j)'
    <3>1. crashes' = crashes
      OBVIOUS
    <3> HIDE DEF Closing, Turn, RunsOf
    <3> QED
      BY <1>1, <1>2, <2>2, <2>3, <2>4, <3>1
  <2> QED
    BY <2>1, <2>3, <2>5
<1> QED
  BY <1>3 DEF Budget

\* A crash pays for the turn it interrupts, and for a shutdown in progress.
LEMMA BudgetPaid ==
  ASSUME WorkerInv, Budget, auditJob' = auditJob, ~Serving',
         \/ crashes' = crashes + 1
         \/ crashes' = crashes /\ ~Serving
         \/ crashes' = crashes /\ cancelled
  PROVE  Budget'
<1>1. crashes \in Nat
  BY WorkerConstantsAssumption DEF WorkerInv, WorkerType
<1>2. ASSUME NEW j \in Ids
      PROVE  IsFiniteSet(RunsOf(j)') /\ Cardinality(RunsOf(j)') + Closing' <= crashes' + Turn(j)'
  <2>1. RunsOf(j)' = RunsOf(j)
    BY DEF RunsOf
  <2>2. Closing' = 0 /\ Turn(j)' = 0
    BY DEF Closing, Turn, Begun
  <2>3. IsFiniteSet(RunsOf(j)) /\ Cardinality(RunsOf(j)) + Closing <= crashes + Turn(j)
    BY DEF Budget
  <2>4. Cardinality(RunsOf(j)) \in Nat
    BY <2>3, FS_CardinalityType
  <2>5. /\ Turn(j) \in Nat /\ Turn(j) <= 1 /\ Closing \in Nat
        /\ crashes' = crashes + 1 \/ (crashes' = crashes /\ Turn(j) <= Closing)
    BY DEF Turn, Closing, Begun
  <2>6. Cardinality(RunsOf(j)) <= crashes'
    <3> HIDE DEF Closing, Turn, RunsOf
    <3> QED
      BY <1>1, <2>3, <2>4, <2>5
  <2>7. Cardinality(RunsOf(j)) + 0 <= crashes' + 0
    <3>1. crashes' \in Nat
      BY <1>1
    <3> HIDE DEF RunsOf
    <3> QED
      BY <2>6, <2>4, <3>1
  <2> QED
    BY <2>1, <2>2, <2>3, <2>7
<1> QED
  BY <1>2 DEF Budget
-----------------------------------------------------------------------------
(* Every step keeps the invariant.                                          *)

\* While the process is down, starts, or ends.
LEMMA StartKeeps ==
  ASSUME WInv, Start \/ StartRefused
  PROVE  Turns'
<1>0. /\ Holding /\ InRun /\ Backed /\ Budget /\ WorkerInv
  BY DEF WInv, Turns
<1>1. proc # "up" /\ worker.pc = "off" /\ ~Serving
  BY <1>0 DEF Start, StartRefused, OpenStore, OpenStoreRefused, Holding, Serving
<1>2. op.kind \notin {"recover", "claim", "complete"}
  BY <1>0, <1>1 DEF Holding
<1>3. /\ UNCHANGED <<op, crashes, auditVars, sent>> /\ disk' = disk
  BY DEF Start, StartRefused, OpenStore, OpenStoreRefused, work, journal, workerVars
<1>4. \/ worker'.pc = "boot" /\ ~cancelled' /\ proc' = "up"
      \/ worker' = worker /\ proc' # "up"
  BY DEF Start, StartRefused, OpenStore, OpenStoreRefused, NoWorker, workerVars
<1>5. ~Serving'
  BY <1>4 DEF Serving
<1>6. Holding'
  BY <1>0, <1>1, <1>2, <1>3, <1>4 DEF Holding
<1>7. Claims' /\ NoLostWakeup'
  BY <1>1, <1>4, <1>5 DEF Claims, NoLostWakeup, At
<1>8. InRun'
  BY <1>0, <1>3, <1>4, InRunKept
<1>9. Backed'
  BY <1>0, <1>3, BackedSame
<1>10. Budget'
  BY <1>0, <1>1, <1>3, <1>5, BudgetPaid DEF auditVars
<1> QED
  BY <1>6, <1>7, <1>8, <1>9, <1>10 DEF Turns

LEMMA EndKeeps ==
  ASSUME WInv, ProcessCrash \/ Exit
  PROVE  Turns'
<1>0. /\ Holding /\ InRun /\ Backed /\ Budget /\ WorkerInv
  BY DEF WInv, Turns
<1>1. /\ proc' = "down" /\ worker'.pc = "off" /\ op'.kind = "none"
      /\ UNCHANGED <<cancelled, auditVars, sent>> /\ disk' = disk
  BY DEF ProcessCrash, Exit, Die, Crash, NoWorker, Idle, journal
<1>2. ~Serving'
  BY <1>1 DEF Serving
<1>3. Holding'
  BY <1>1 DEF Holding
<1>4. Claims' /\ NoLostWakeup'
  BY <1>1, <1>2 DEF Claims, NoLostWakeup, At
<1>5. InRun'
  BY <1>0, <1>1, InRunKept
<1>6. Backed'
  BY <1>0, <1>1, BackedSame
<1>7. \/ crashes' = crashes + 1
      \/ crashes' = crashes /\ ~Serving
      \/ crashes' = crashes /\ cancelled
  <2>1. CASE ProcessCrash
    BY <2>1 DEF ProcessCrash
  <2>2. CASE Exit
    BY <1>0, <2>2 DEF Exit, Serving, Holding
  <2> QED
    BY <2>1, <2>2
<1>8. Budget'
  BY <1>0, <1>1, <1>2, <1>7, BudgetPaid DEF auditVars
<1> QED
  BY <1>3, <1>4, <1>5, <1>6, <1>8 DEF Turns

\* A shutdown pays for the turn it will not finish.
LEMMA ShutdownKeeps ==
  ASSUME WInv, Shutdown
  PROVE  Turns'
<1>0. /\ Holding /\ InRun /\ Backed /\ Budget /\ WorkerInv /\ Claims /\ NoLostWakeup
  BY DEF WInv, Turns
<1>1. /\ Serving /\ ~cancelled /\ cancelled' /\ crashes' = crashes + 1
      /\ UNCHANGED <<storeVars, worker, auditVars, sent>>
  BY DEF Shutdown
<1>2. Holding'
  BY <1>0, <1>1 DEF Holding, Serving, storeVars, memory, work, Pending, Requeued, Running
<1>3. Claims' /\ NoLostWakeup'
  BY <1>0, <1>1 DEF Claims, NoLostWakeup, At, Serving, Own, Running, Pending,
                    storeVars, memory, journal
<1>4. InRun'
  BY <1>0, <1>1, InRunKept
<1>5. Backed'
  BY <1>0, <1>1, BackedSame DEF storeVars, journal
<1>6. crashes \in Nat
  BY <1>0, WorkerConstantsAssumption DEF WorkerInv, WorkerType
<1>7. ASSUME NEW j \in Ids
      PROVE  IsFiniteSet(RunsOf(j)') /\ Cardinality(RunsOf(j)') + Closing' <= crashes' + Turn(j)'
  <2>1. RunsOf(j)' = RunsOf(j) /\ Turn(j)' = Turn(j)
    BY <1>1 DEF RunsOf, Turn, Begun, Serving, auditVars, storeVars, memory
  <2>2. Closing = 0 /\ Closing' = 1
    BY <1>1 DEF Closing, Serving, storeVars
  <2>3. IsFiniteSet(RunsOf(j)) /\ Cardinality(RunsOf(j)) + Closing <= crashes + Turn(j)
    BY <1>0 DEF Budget
  <2>4. Cardinality(RunsOf(j)) \in Nat /\ Turn(j) \in Nat
    BY <2>3, FS_CardinalityType DEF Turn
  <2>5. Cardinality(RunsOf(j)) + 1 <= (crashes + 1) + Turn(j)
    <3> HIDE DEF Turn, RunsOf
    <3> QED
      BY <1>6, <2>2, <2>3, <2>4
  <2> QED
    BY <1>1, <2>1, <2>2, <2>3, <2>5
<1>8. Budget'
  BY <1>7 DEF Budget
<1> QED
  BY <1>2, <1>3, <1>4, <1>5, <1>8 DEF Turns

\* A delivery adds pending jobs, and wakes the worker for them.
LEMMA HandlerKeeps ==
  ASSUME WInv, JInv', HandlerStep
  PROVE  Turns'
<1>0. /\ Holding /\ InRun /\ Backed /\ Budget /\ WorkerInv /\ Claims /\ NoLostWakeup
      /\ JInv
  BY DEF WInv, Turns
<1>1. Delivers /\ Serving
  BY <1>0, HandlerEffect DEF HandlerStep
<1>2. /\ UNCHANGED <<worker, cancelled, crashes, auditVars, sent>>
      /\ proc = "up" /\ proc' = "up"
  BY <1>1 DEF Delivers, workerVars
<1>3. Holding'
  BY <1>0, <1>1, <1>2 DEF Holding, Delivers, Serving
<1>4. Running' = Running /\ Own' = Own
  BY <1>1, <1>2 DEF Running, Own, Delivers
<1>5. faults \in Nat /\ faults' \in Nat
  BY <1>0 DEF JInv, IInv, TypeInv, TypeOK
<1>6. Claims'
  <2>1. faults' = faults \/ faults' = faults + 1
    BY <1>1 DEF Delivers
  <2>2. Own \subseteq Running
    BY <1>0, <1>1 DEF Claims
  <2> QED
    BY <1>0, <1>1, <1>4, <1>5, <2>1, <2>2, ClaimsKept
<1>7. NoLostWakeup'
  <2> SUFFICES ASSUME worker.pc = "wait", Pending' # {}, faults' = 0
               PROVE  wake'
    BY <1>2 DEF NoLostWakeup, At
  <2>1. faults = 0
    BY <1>1, <1>5 DEF Delivers
  <2>2. CASE \A j \in Ids : jobs'[j] = jobs[j]
    <3>1. Pending' = Pending
      BY <2>2 DEF Pending
    <3> QED
      BY <1>0, <1>1, <1>2, <2>1, <3>1 DEF NoLostWakeup, At, Delivers
  <2> QED
    BY <1>1, <2>2 DEF Delivers
<1>8. InRun'
  BY <1>0, <1>2, InRunKept
<1>9. Backed'
  BY <1>0, <1>1, <1>2, BackedSame DEF Delivers
<1>10. Budget'
  <2>1. \A j \in Ids : Begun(j) => Begun(j)'
    <3> SUFFICES ASSUME NEW j \in Ids, Begun(j) PROVE Begun(j)'
      OBVIOUS
    <3>1. jobs'[j] = jobs[j]
      BY <1>1 DEF Delivers, Begun
    <3> QED
      BY <1>2, <3>1 DEF Begun, Serving
  <2>2. (Serving /\ cancelled)' => (Serving /\ cancelled)
    BY <1>2 DEF Serving
  <2> QED
    BY <1>0, <1>2, <2>1, <2>2, BudgetKept DEF auditVars
<1> QED
  BY <1>3, <1>6, <1>7, <1>8, <1>9, <1>10 DEF Turns

\* A run begins: it was absent, so no job names it, and the turn has begun.
LEMMA BeginKeeps ==
  ASSUME WInv, BeginRun, Proceeds, WorkerInv'
  PROVE  InRun' /\ Backed' /\ Budget'
<1>0. /\ Holding /\ InRun /\ Backed /\ Budget /\ WorkerInv /\ Claims /\ JInv
  BY DEF WInv, Turns
<1>1. /\ worker.pc = "begin" /\ proc = "up" /\ Serving /\ Serving'
      /\ UNCHANGED <<storeVars, cancelled, crashes, sent>>
      /\ auditResult' = auditResult
      /\ worker'.pc # "begin" /\ worker'.job = worker.job
      /\ jobs' = jobs /\ disk' = disk
  BY DEF BeginRun, At, Serving, Proceeds, Processing, auditVars, storeVars, memory, journal
<1>2. /\ worker \in WorkerRecord /\ worker.job \in Ids
      /\ auditStatus \in [Runs -> {"absent", "running"} \cup Final]
      /\ auditJob \in [Runs -> Ids \cup {0}]
  <2>1. worker.job \in Running
    BY <1>0, <1>1 DEF Claims, Own, Processing
  <2> QED
    BY <1>0, <2>1 DEF WorkerInv, WorkerType, Running
<1>3. \/ /\ UNCHANGED <<auditStatus, auditJob>>
         /\ worker'.pc \in {"failjob", "failaudit"}
      \/ \E r \in Runs :
           /\ auditStatus[r] = "absent"
           /\ auditStatus' = [auditStatus EXCEPT ![r] = "running"]
           /\ auditJob' = [auditJob EXCEPT ![r] = worker.job]
           /\ worker'.pc = "failaudit" \/ (worker'.pc = "investigate" /\ worker'.run = r)
  <2>1. ASSUME NEW pc \in {"failjob", "failaudit"}, Goto(pc)
        PROVE  worker'.pc = pc
    BY <2>1, <1>0, MoveRecord, PlaceNames
  <2>2. ASSUME NEW r \in Runs, NEW pc \in {"investigate", "failaudit"},
               worker' = [worker EXCEPT !.pc = pc, !.run = r]
        PROVE  worker'.pc = pc /\ worker'.run = r
    BY <2>2, <1>2 DEF WorkerRecord
  <2>3. CASE UNCHANGED <<auditStatus, auditJob>> /\ (Goto("failjob") \/ Goto("failaudit"))
    BY <2>1, <2>3
  <2>4. ASSUME NEW r \in Runs, auditStatus[r] = "absent",
               auditStatus' = [auditStatus EXCEPT ![r] = "running"],
               auditJob' = [auditJob EXCEPT ![r] = worker.job],
               \/ worker' = [worker EXCEPT !.pc = "investigate", !.run = r]
               \/ worker' = [worker EXCEPT !.pc = "failaudit", !.run = r]
        PROVE  \E q \in Runs :
                 /\ auditStatus[q] = "absent"
                 /\ auditStatus' = [auditStatus EXCEPT ![q] = "running"]
                 /\ auditJob' = [auditJob EXCEPT ![q] = worker.job]
                 /\ worker'.pc = "failaudit" \/ (worker'.pc = "investigate" /\ worker'.run = q)
    <3>1. worker'.pc = "failaudit" \/ (worker'.pc = "investigate" /\ worker'.run = r)
      BY <2>2, <2>4
    <3> QED
      BY <2>4, <3>1
  <2> QED
    BY <2>3, <2>4 DEF BeginRun, auditVars
<1>4. Begun(worker.job)' /\ ~Begun(worker.job)
  <2>1. worker.job \in Running
    BY <1>0, <1>1 DEF Claims, Own, Processing
  <2> QED
    BY <1>1, <2>1 DEF Begun, Running
<1>5. \A j \in Ids : Begun(j) => Begun(j)'
  BY <1>1 DEF Begun
<1>6. (Serving /\ cancelled)' => (Serving /\ cancelled)
  BY <1>1
<1>7. CASE /\ UNCHANGED <<auditStatus, auditJob>>
           /\ worker'.pc \in {"failjob", "failaudit"}
  <2>1. InRun'
    BY <1>0, <1>1, <1>7 DEF InRun
  <2>2. Backed'
    BY <1>0, <1>1, <1>7, BackedKept
  <2> QED
    BY <1>0, <1>1, <1>5, <1>6, <1>7, <2>1, <2>2, BudgetKept
<1>8. ASSUME NEW r \in Runs, auditStatus[r] = "absent",
             auditStatus' = [auditStatus EXCEPT ![r] = "running"],
             auditJob' = [auditJob EXCEPT ![r] = worker.job],
             worker'.pc = "failaudit" \/ (worker'.pc = "investigate" /\ worker'.run = r)
      PROVE  InRun' /\ Backed' /\ Budget'
  <2>1. auditStatus'[r] = "running" /\ auditJob'[r] = worker.job
    BY <1>2, <1>8
  <2>2. \A q \in Runs : q # r => auditStatus'[q] = auditStatus[q] /\ auditJob'[q] = auditJob[q]
    BY <1>2, <1>8
  <2>3. InRun'
    BY <1>0, <1>1, <1>8, <2>1 DEF InRun
  <2>4. Backed'
    <3>1. \A q \in Runs : auditStatus[q] = "succeeded" =>
            auditStatus'[q] = "succeeded" /\ auditJob'[q] = auditJob[q]
      BY <2>2, <1>8
    <3> QED
      BY <1>0, <1>1, <3>1, BackedKept
  <2>5. ASSUME NEW j \in Ids
        PROVE  /\ IsFiniteSet(RunsOf(j)')
               /\ Cardinality(RunsOf(j)') + Closing' <= crashes' + Turn(j)'
    <3>1. crashes \in Nat /\ Closing' = Closing /\ Closing \in Nat /\ crashes' = crashes
      BY <1>0, <1>1, WorkerConstantsAssumption DEF WorkerInv, WorkerType, Closing
    <3>2. /\ IsFiniteSet(RunsOf(j)) /\ Cardinality(RunsOf(j)) \in Nat
          /\ Cardinality(RunsOf(j)) + Closing <= crashes + Turn(j)
      BY <1>0, FS_CardinalityType DEF Budget
    <3>3. CASE j = worker.job
      <4>1. RunsOf(j)' = RunsOf(j) \cup {r}
        BY <2>1, <2>2, <3>3 DEF RunsOf
      <4>2. /\ IsFiniteSet(RunsOf(j)') /\ Cardinality(RunsOf(j)') \in Nat
            /\ Cardinality(RunsOf(j)') = IF r \in RunsOf(j) THEN Cardinality(RunsOf(j))
                                         ELSE Cardinality(RunsOf(j)) + 1
        BY <3>2, <4>1, FS_AddElement, FS_CardinalityType
      <4>3. Turn(j) = 0 /\ Turn(j)' = 1
        BY <1>4, <3>3, <1>1 DEF Turn
      <4>4. Cardinality(RunsOf(j)') + Closing <= crashes + 1
        <5> HIDE DEF Closing, RunsOf, Turn
        <5> QED
          BY <3>1, <3>2, <4>2, <4>3
      <4> QED
        BY <3>1, <4>2, <4>3, <4>4
    <3>4. CASE j # worker.job
      <4>1. RunsOf(j)' \in SUBSET RunsOf(j)
        BY <2>1, <2>2, <3>4 DEF RunsOf
      <4>2. /\ IsFiniteSet(RunsOf(j)') /\ Cardinality(RunsOf(j)') \in Nat
            /\ Cardinality(RunsOf(j)') <= Cardinality(RunsOf(j))
        BY <3>2, <4>1, FS_Subset, FS_CardinalityType
      <4>3. Turn(j) \in Nat /\ Turn(j)' \in Nat /\ Turn(j) <= Turn(j)'
        BY <1>5 DEF Turn
      <4>4. Cardinality(RunsOf(j)') + Closing <= crashes + Turn(j)'
        <5> HIDE DEF Closing, RunsOf, Turn
        <5> QED
          BY <3>1, <3>2, <4>2, <4>3
      <4> QED
        BY <3>1, <4>2, <4>4
    <3> QED
      BY <3>3, <3>4
  <2>6. Budget'
    BY <2>5 DEF Budget
  <2> QED
    BY <2>3, <2>4, <2>6
<1> QED
  BY <1>3, <1>7, <1>8

\* What a later place of a run does to the audit store: it may end the run in
\* hand, record its result, or send it out, never before the result is there.
LEMMA RunKeeps ==
  ASSUME WInv, Proceeds,
         Investigate \/ Structure \/ Notify \/ RecordDeliveries \/ FinishRun
           \/ FailAudit \/ Return
  PROVE  InRun' /\ Backed' /\ auditJob' = auditJob
<1>0. InRun /\ Backed /\ WorkerInv
  BY DEF WInv, Turns
<1>1. /\ worker \in WorkerRecord
      /\ auditStatus \in [Runs -> {"absent", "running"} \cup Final]
  BY <1>0 DEF WorkerInv, WorkerType
<1>2. disk' = disk
  BY DEF Proceeds, storeVars, journal
<1>3. ASSUME NEW pc \in Places, Goto(pc)
      PROVE  worker'.pc = pc /\ worker'.job = worker.job /\ worker'.run = worker.run
  BY <1>3, <1>0, MoveRecord
<1> USE PlaceNames
<1>4. CASE Investigate
  <2>1. /\ worker.pc = "investigate" /\ UNCHANGED <<auditStatus, auditResult, auditJob, sent>>
        /\ Goto("structure") \/ Goto("failaudit")
    BY <1>4 DEF Investigate, At
  <2>2. /\ worker'.pc \in {"structure", "failaudit"}
        /\ worker'.job = worker.job /\ worker'.run = worker.run
    BY <2>1, <1>3
  <2>3. InRun'
    BY <1>0, <2>1, <2>2 DEF InRun
  <2> QED
    BY <1>0, <1>2, <2>1, <2>3, BackedKept
<1>5. CASE Structure
  <2>1. /\ worker.pc = "structure" /\ UNCHANGED <<auditStatus, auditJob, sent>>
        /\ auditResult \subseteq auditResult'
        /\ Goto("failaudit") \/ (Goto("notify") /\ worker.run \in auditResult')
    BY <1>5 DEF Structure, At
  <2>2. /\ worker'.pc = "failaudit" \/ (worker'.pc = "notify" /\ worker.run \in auditResult')
        /\ worker'.job = worker.job /\ worker'.run = worker.run
    BY <2>1, <1>3
  <2>3. InRun'
    BY <1>0, <2>1, <2>2 DEF InRun
  <2> QED
    BY <1>0, <1>2, <2>1, <2>3, BackedKept
<1>6. CASE Notify
  <2>1. /\ worker.pc = "notify" /\ UNCHANGED <<auditStatus, auditJob, auditResult>>
        /\ sent' = sent \cup {worker.run} /\ Goto("record")
    BY <1>6 DEF Notify, At, auditVars
  <2>2. /\ worker'.pc = "record"
        /\ worker'.job = worker.job /\ worker'.run = worker.run
    BY <2>1, <1>3
  <2>3. InRun'
    BY <1>0, <2>1, <2>2 DEF InRun
  <2> QED
    BY <1>0, <1>2, <2>1, <2>3, BackedKept
<1>7. CASE RecordDeliveries
  <2>1. /\ worker.pc = "record" /\ UNCHANGED <<auditStatus, auditResult, auditJob, sent>>
        /\ Goto("finish") \/ Goto("failaudit")
    BY <1>7 DEF RecordDeliveries, At
  <2>2. /\ worker'.pc \in {"finish", "failaudit"}
        /\ worker'.job = worker.job /\ worker'.run = worker.run
    BY <2>1, <1>3
  <2>3. InRun'
    BY <1>0, <2>1, <2>2 DEF InRun
  <2> QED
    BY <1>0, <1>2, <2>1, <2>3, BackedKept
<1>8. CASE FinishRun
  <2>1. /\ worker.pc = "finish" /\ UNCHANGED <<auditResult, auditJob, sent>>
        /\ \/ auditStatus' = [auditStatus EXCEPT ![worker.run] = "succeeded"]
              /\ Goto("complete")
           \/ Goto("failjob") /\ UNCHANGED auditStatus
    BY <1>8 DEF FinishRun, At
  <2>2. worker.run \in Runs
    BY <1>0, <2>1 DEF InRun
  <2>3. /\ worker'.job = worker.job /\ worker'.run = worker.run
        /\ \/ worker'.pc = "complete" /\ auditStatus'[worker.run] = "succeeded"
           \/ worker'.pc = "failjob"
    BY <1>1, <2>1, <2>2, <1>3
  <2>4. InRun'
    BY <1>0, <2>1, <2>3 DEF InRun
  <2>5. \A r \in Runs : auditStatus[r] = "succeeded" => auditStatus'[r] = "succeeded"
    BY <1>1, <2>1
  <2> QED
    BY <1>0, <1>2, <2>1, <2>4, <2>5, BackedKept
<1>9. CASE FailAudit \/ Return
  <2>1. /\ UNCHANGED <<auditResult, auditJob, sent>>
        /\ \/ UNCHANGED auditStatus
           \/ /\ auditStatus' = [auditStatus EXCEPT ![worker.run] = "failed"]
              /\ auditStatus[worker.run] = "running"
    BY <1>9 DEF FailAudit, Return, FailIfRunning
  <2>2. worker'.pc \in {"failjob", "claim"}
    BY <1>1, <1>9 DEF FailAudit, Return, FailIfRunning, NoWorker, WorkerRecord
  <2>3. InRun'
    BY <1>0, <2>1, <2>2 DEF InRun
  <2>4. \A r \in Runs : auditStatus[r] = "succeeded" => auditStatus'[r] = "succeeded"
    BY <1>1, <2>1
  <2> QED
    BY <1>0, <1>2, <2>1, <2>3, <2>4, BackedKept
<1> QED
  BY <1>4, <1>5, <1>6, <1>7, <1>8, <1>9

\* The worker's own steps.
LEMMA OwnKeeps ==
  ASSUME WInv, OwnStep, WorkerInv'
  PROVE  Turns'
<1>0. /\ Holding /\ InRun /\ Backed /\ Budget /\ WorkerInv /\ Claims /\ JInv
  BY DEF WInv, Turns
<1>1. Proceeds
  BY OwnMove
<1>2. /\ proc' = proc /\ op' = op /\ rec' = rec /\ jobs' = jobs /\ faults' = faults
      /\ disk' = disk /\ cancelled' = cancelled /\ crashes' = crashes
  BY <1>1 DEF Proceeds, storeVars, memory, work, journal
<1>3. Holding'
  BY <1>0, <1>1, <1>2 DEF Holding, Proceeds
<1>4. Serving' /\ (Serving \/ worker.pc = "boot")
  BY <1>1, <1>2 DEF Serving, Proceeds
<1>5. Running' = Running /\ Pending' = Pending /\ Own' = Own
  BY <1>1, <1>2 DEF Running, Pending, Own, Proceeds
<1>6. faults \in Nat
  BY <1>0 DEF JInv, IInv, TypeInv, TypeOK
<1>7. Claims'
  <2>1. CASE Serving
    <3>1. Own \subseteq Running
      BY <1>0, <2>1 DEF Claims
    <3> QED
      BY <1>0, <1>2, <1>5, <1>6, <2>1, <3>1, ClaimsKept
  <2>2. CASE worker.pc = "boot"
    <3>1. Running' \ Own' = {} /\ Own' = {}
      BY <1>1, <1>5, <2>2 DEF Proceeds, Own, Processing
    <3>2. 0 <= faults'
      BY <1>2, <1>6
    <3> QED
      BY <3>1, <3>2, FS_EmptySet DEF Claims
  <2> QED
    BY <1>4, <2>1, <2>2
<1>8. NoLostWakeup'
  BY <1>1, <1>5 DEF Proceeds, NoLostWakeup, At
<1>9. \A j \in Ids : Begun(j) => Begun(j)'
  BY <1>1, <1>2, <1>4 DEF Begun, Proceeds
<1>10. (Serving /\ cancelled)' => (Serving /\ cancelled)
  BY <1>0, <1>2, <1>4 DEF Holding
<1>11. CASE BeginRun
  BY <1>1, <1>3, <1>7, <1>8, <1>11, BeginKeeps DEF Turns
<1>12. CASE Investigate \/ Structure \/ Notify \/ RecordDeliveries \/ FinishRun
              \/ FailAudit \/ Return
  <2>1. InRun' /\ Backed' /\ auditJob' = auditJob
    BY <1>1, <1>12, RunKeeps
  <2>2. Budget'
    BY <1>0, <1>2, <1>9, <1>10, <2>1, BudgetKept
  <2> QED
    BY <1>3, <1>7, <1>8, <2>1, <2>2 DEF Turns
<1>13. CASE NothingToRecover \/ NothingPending \/ TimerFires \/ Stop
  <2>1. UNCHANGED <<auditVars, sent>>
    BY <1>13 DEF NothingToRecover, NothingPending, TimerFires, Stop
  <2>2. worker.pc \notin Processing
    BY <1>13 DEF NothingToRecover, NothingPending, TimerFires, Stop, At, Processing
  <2>3. InRun'
    BY <1>0, <1>1, <2>1, <2>2, InRunKept DEF Proceeds, Processing
  <2>4. Backed'
    BY <1>0, <1>2, <2>1, BackedSame
  <2>5. Budget'
    BY <1>0, <1>2, <1>9, <1>10, <2>1, BudgetKept DEF auditVars
  <2> QED
    BY <1>3, <1>7, <1>8, <2>3, <2>4, <2>5 DEF Turns
<1> QED
  BY <1>11, <1>12, <1>13 DEF OwnStep

\* A recovery is written, and puts every running job back.
LEMMA RecoverKeeps ==
  ASSUME WInv, NEW o \in Outcomes, Recover(o)
  PROVE  Turns'
<1>0. /\ Holding /\ InRun /\ Backed /\ Budget /\ WorkerInv /\ JInv
      /\ Memory \in Contents
  BY DEF WInv, Turns, JInv, IInv, TypeInv, TypeOK
<1>1. /\ worker.pc = "boot" /\ Unlocked /\ Update("recover", RecoverRecord, o)
      /\ UNCHANGED <<cancelled, crashes, auditVars, sent>>
  BY DEF Recover, At, RecoverRunning, RecoverRecord, Requeued
<1>2. worker'.pc = IF o = "ok" THEN "recovering" ELSE "panic"
  <2>1. Goto("recovering") => worker'.pc = "recovering"
    BY <1>0, MoveRecord, PlaceNames
  <2>2. Goto("panic") => worker'.pc = "panic"
    BY <1>0, MoveRecord, PlaceNames
  <2> QED
    BY <2>1, <2>2 DEF Recover
<1>3. /\ RecoverRecord \in Contents
      /\ \A i \in Ids : RecoverRecord.jobs[i] = Requeued(i)
  BY <1>0, RecoverMoves
<1>4. /\ proc = "up" /\ proc' = "up" /\ op.phase = "idle" /\ jobs' = jobs
      /\ o = "ok" => op'.kind = "recover" /\ op'.phase = "written" /\ rec' = RecoverRecord
      /\ o # "ok" => op'.kind = "none" /\ op'.phase = "idle"
      /\ disk' = disk \/ (disk = Memory /\ disk' = Replay(Memory, RecoverRecord))
  <2>1. "recover" \in Kinds
    BY DEF Kinds
  <2> QED
    BY <1>0, <1>1, <1>3, <2>1, UpdateEffect
<1>5. ~Serving /\ ~Serving'
  BY <1>1, <1>2 DEF Serving
<1>6. \A i \in Ids : Requeued(i)' = Requeued(i)
  BY <1>4 DEF Requeued, Running
<1>7. Holding'
  <2>1. CASE o = "ok"
    BY <1>0, <1>1, <1>2, <1>3, <1>4, <1>6, <2>1 DEF Holding
  <2>2. CASE o # "ok"
    BY <1>0, <1>1, <1>2, <1>4, <2>2 DEF Holding
  <2> QED
    BY <2>1, <2>2
<1>8. Claims' /\ NoLostWakeup'
  BY <1>2, <1>5 DEF Claims, NoLostWakeup, At
<1>9. InRun'
  BY <1>0, <1>1, <1>2, InRunKept
<1>10. Backed'
  <2>1. ASSUME NEW j \in Ids, disk'.jobs[j] # None, disk'.jobs[j].status = "succeeded"
        PROVE  disk'.jobs[j] = disk.jobs[j]
    <3>1. CASE disk = Memory /\ disk' = Replay(Memory, RecoverRecord)
      <4>1. disk'.jobs[j] = IF Requeued(j) = None THEN disk.jobs[j] ELSE Requeued(j)
        BY <3>1, <1>3, ReplayJob
      <4>2. Requeued(j) # None => Requeued(j).status = "pending"
        <5>1. jobs[j] \in Jobs \cup {None}
          BY <1>0 DEF Memory, Contents
        <5> QED
          BY <5>1 DEF Requeued, Running, Jobs
      <4> QED
        BY <2>1, <4>1, <4>2
    <3> QED
      BY <1>4, <3>1
  <2> QED
    BY <1>0, <1>1, <2>1, BackedSame
<1>11. Budget'
  BY <1>0, <1>1, <1>5, BudgetPaid DEF auditVars
<1> QED
  BY <1>7, <1>8, <1>9, <1>10, <1>11 DEF Turns

LEMMA RecoveredKeeps ==
  ASSUME WInv, JInv', Recovered
  PROVE  Turns'
<1>0. /\ Holding /\ InRun /\ Backed /\ Budget /\ WorkerInv /\ JInv
      /\ Memory \in Contents /\ faults' \in Nat
  BY DEF WInv, Turns, JInv, IInv, TypeInv, TypeOK
<1>1. /\ worker.pc = "recovering" /\ Commit /\ ~Serving
      /\ UNCHANGED <<cancelled, crashes, auditVars, sent>>
  BY DEF Recovered, At, Serving
<1>2. worker'.pc = "claim"
  BY <1>0, MoveRecord, PlaceNames DEF Recovered
<1>3. /\ proc' = "up" /\ op'.kind = "none" /\ op'.phase = "idle" /\ disk' = disk
      /\ \A j \in Ids : jobs'[j] = IF rec.jobs[j] = None THEN jobs[j] ELSE rec.jobs[j]
  BY <1>1, CommitEffect
<1>4. Running' = {}
  <2>1. \A j \in Ids : rec.jobs[j] = Requeued(j)
    BY <1>0, <1>1 DEF Holding
  <2>2. ASSUME NEW j \in Ids, jobs'[j] # None, jobs'[j].status = "running"
        PROVE  FALSE
    <3>1. jobs[j] \in Jobs \cup {None}
      BY <1>0 DEF Memory, Contents
    <3>2. CASE j \in Running
      <4>1. jobs[j] # None
        BY <3>2 DEF Running
      <4>2. rec.jobs[j] = [jobs[j] EXCEPT !.status = "pending", !.run = None]
        BY <2>1, <3>2 DEF Requeued
      <4>3. PICK jb \in Jobs : jb = jobs[j]
        BY <3>1, <4>1
      <4>4. [jb EXCEPT !.status = "pending", !.run = None] \in Jobs
        BY DEF Jobs
      <4>5. rec.jobs[j].status = "pending" /\ rec.jobs[j] # None
        BY <4>2, <4>3, <4>4, NoneAssumption DEF Jobs
      <4> QED
        BY <1>3, <2>2, <4>5
    <3>3. CASE j \notin Running
      <4>1. rec.jobs[j] = None
        BY <2>1, <3>3 DEF Requeued
      <4> QED
        BY <1>3, <2>2, <3>3, <4>1 DEF Running
    <3> QED
      BY <3>2, <3>3
  <2> QED
    BY <2>2 DEF Running
<1>5. Holding'
  BY <1>0, <1>2, <1>3 DEF Holding
<1>6. Claims'
  <2>1. Own' = {} /\ Running' \ Own' = {}
    BY <1>2, <1>4 DEF Own, Processing
  <2>2. 0 <= faults'
    BY <1>0
  <2> QED
    BY <2>1, <2>2, FS_EmptySet DEF Claims
<1>7. NoLostWakeup'
  BY <1>2 DEF NoLostWakeup, At
<1>8. InRun'
  BY <1>0, <1>1, <1>2, InRunKept
<1>9. Backed'
  BY <1>0, <1>1, <1>3, BackedSame
<1>10. Budget'
  <2>1. ~cancelled'
    BY <1>0, <1>1 DEF Holding
  <2> QED
    BY <1>0, <1>1, <2>1, BudgetKept DEF auditVars, Begun
<1> QED
  BY <1>5, <1>6, <1>7, <1>8, <1>9, <1>10 DEF Turns

\* A claim is written, and its job starts to run.
LEMMA ClaimKeeps ==
  ASSUME WInv, NEW j \in Ids, NEW o \in Outcomes, Claim(j, o)
  PROVE  Turns'
<1>0. /\ Holding /\ InRun /\ Backed /\ Budget /\ WorkerInv /\ Claims /\ JInv
      /\ Memory \in Contents /\ faults \in Nat
  BY DEF WInv, Turns, JInv, IInv, TypeInv, TypeOK
<1>1. /\ worker.pc = "claim" /\ Unlocked /\ Oldest(j)
      /\ Update("claim", ClaimRecord(j), o)
      /\ UNCHANGED <<cancelled, crashes, auditVars, sent>>
  BY DEF Claim, At, ClaimNext, ClaimRecord
<1>2. /\ o = "ok" => worker'.pc = "claiming" /\ worker'.job = j
      /\ o # "ok" => worker'.pc = "wait"
  <2>1. Goto("wait") => worker'.pc = "wait"
    BY <1>0, MoveRecord, PlaceNames
  <2> QED
    BY <2>1 DEF Claim, Goto
<1>3. /\ ClaimRecord(j) \in Contents
      /\ \A i \in Ids : ClaimRecord(j).jobs[i] =
           IF i = j THEN [jobs[j] EXCEPT !.status = "running"] ELSE None
  BY <1>0, <1>1, ClaimMoves
<1>4. /\ proc = "up" /\ proc' = "up" /\ op.phase = "idle" /\ jobs' = jobs
      /\ Running' = Running /\ Pending' = Pending
      /\ o = "ok" => /\ op'.kind = "claim" /\ op'.phase = "written"
                     /\ rec' = ClaimRecord(j) /\ faults' = faults
      /\ o # "ok" => /\ op'.kind = "none" /\ op'.phase = "idle"
                     /\ faults' = faults + 1
      /\ disk' = disk \/ (disk = Memory /\ disk' = Replay(Memory, ClaimRecord(j)))
  <2>1. "claim" \in Kinds
    BY DEF Kinds
  <2> QED
    BY <1>0, <1>1, <1>3, <2>1, UpdateEffect
<1>5. Serving /\ Serving'
  BY <1>1, <1>2, <1>4 DEF Serving
<1>6. /\ jobs[j] # None /\ j \in Pending
      /\ ClaimRecord(j).jobs[j].status = "running"
      /\ \A i \in Ids : ClaimRecord(j).jobs[i] # None <=> i = j
  <2>1. jobs[j] # None /\ j \in Pending /\ jobs[j] \in Jobs
    BY <1>0, <1>1 DEF Oldest, Pending, Memory, Contents
  <2>2. [jobs[j] EXCEPT !.status = "running"] \in Jobs
    BY <2>1 DEF Jobs
  <2>3. [jobs[j] EXCEPT !.status = "running"].status = "running"
    BY <2>1 DEF Jobs
  <2> QED
    BY <1>3, <2>1, <2>2, <2>3, NoneAssumption
<1>7. Holding'
  <2>1. CASE o = "ok"
    <3>1. worker'.pc = "claiming" /\ worker'.job = j
      BY <2>1, <1>2
    <3>2. op'.kind = "claim" /\ op'.phase = "written" /\ rec' = ClaimRecord(j)
      BY <2>1, <1>4
    <3> QED
      BY <1>4, <1>6, <3>1, <3>2 DEF Holding
  <2>2. CASE o # "ok"
    BY <1>2, <1>4, <2>2 DEF Holding
  <2> QED
    BY <2>1, <2>2
<1>8. Claims'
  <2>1. Own = {} /\ Own' = {}
    BY <1>1, <1>2 DEF Own, Processing
  <2> QED
    BY <1>0, <1>4, <1>5, <2>1, ClaimsKept
<1>9. NoLostWakeup'
  <2>1. worker'.pc = "wait" => faults' # 0
    BY <1>0, <1>2, <1>4
  <2> QED
    BY <2>1 DEF NoLostWakeup, At
<1>10. InRun'
  BY <1>0, <1>1, <1>2, InRunKept
<1>11. Backed'
  <2>1. ASSUME NEW i \in Ids, disk'.jobs[i] # None, disk'.jobs[i].status = "succeeded"
        PROVE  disk'.jobs[i] = disk.jobs[i]
    <3>1. CASE disk = Memory /\ disk' = Replay(Memory, ClaimRecord(j))
      <4>1. disk'.jobs[i] = IF ClaimRecord(j).jobs[i] = None THEN disk.jobs[i]
                            ELSE ClaimRecord(j).jobs[i]
        BY <3>1, ReplayJob
      <4> QED
        BY <2>1, <4>1, <1>6
    <3> QED
      BY <1>4, <3>1
  <2> QED
    BY <1>0, <1>1, <2>1, BackedSame
<1>12. Budget'
  <2>1. \A i \in Ids : Begun(i) => Begun(i)'
    BY <1>2, <1>4, <1>5 DEF Begun
  <2> QED
    BY <1>0, <1>1, <1>5, <2>1, BudgetKept DEF auditVars
<1> QED
  BY <1>7, <1>8, <1>9, <1>10, <1>11, <1>12 DEF Turns

LEMMA ClaimedKeeps ==
  ASSUME WInv, JInv', Claimed
  PROVE  Turns'
<1>0. /\ Holding /\ InRun /\ Backed /\ Budget /\ WorkerInv /\ Claims /\ JInv
      /\ faults \in Nat
  BY DEF WInv, Turns, JInv, IInv, TypeInv, TypeOK
<1>1. /\ worker.pc = "claiming" /\ Commit
      /\ UNCHANGED <<cancelled, crashes, auditVars, sent>>
  BY DEF Claimed, At
<1>2. worker'.pc = "begin" /\ worker'.job = worker.job
  BY <1>0, MoveRecord, PlaceNames DEF Claimed
<1>3. /\ proc = "up" /\ proc' = "up" /\ op'.kind = "none" /\ op'.phase = "idle"
      /\ disk' = disk /\ faults' = faults
      /\ \A j \in Ids : jobs'[j] = IF rec.jobs[j] = None THEN jobs[j] ELSE rec.jobs[j]
  BY <1>1, CommitEffect
<1>4. Serving /\ Serving'
  BY <1>1, <1>2, <1>3 DEF Serving
<1>5. /\ worker.job \in Ids /\ worker.job \in Pending
      /\ jobs'[worker.job] # None /\ jobs'[worker.job].status = "running"
      /\ \A i \in Ids : i # worker.job => jobs'[i] = jobs[i]
  <2>1. /\ worker.job \in Pending
        /\ \A i \in Ids : rec.jobs[i] # None <=> i = worker.job
        /\ rec.jobs[worker.job].status = "running"
    BY <1>0, <1>1 DEF Holding
  <2>2. worker.job \in Ids
    BY <2>1 DEF Pending
  <2> QED
    BY <1>3, <2>1, <2>2
<1>6. Running' = Running \cup {worker.job} /\ worker.job \notin Running
  BY <1>5 DEF Running, Pending
<1>7. Holding'
  BY <1>2, <1>3 DEF Holding
<1>8. Claims'
  <2>1. Own = {} /\ Own' = {worker.job}
    BY <1>1, <1>2 DEF Own, Processing
  <2>2. Own' \subseteq Running' /\ Running' \ Own' \subseteq Running \ Own
    BY <1>6, <2>1
  <2> QED
    BY <1>0, <1>3, <1>4, <2>2, ClaimsKept
<1>9. NoLostWakeup'
  BY <1>2 DEF NoLostWakeup, At
<1>10. InRun'
  BY <1>0, <1>1, <1>2, InRunKept
<1>11. Backed'
  BY <1>0, <1>1, <1>3, BackedSame
<1>12. Budget'
  <2>1. ASSUME NEW i \in Ids, Begun(i)
        PROVE  Begun(i)'
    <3>1. i # worker.job
      BY <2>1, <1>5 DEF Begun, Pending
    <3> QED
      BY <2>1, <3>1, <1>2, <1>4, <1>5 DEF Begun
  <2> QED
    BY <1>0, <1>1, <1>4, <2>1, BudgetKept DEF auditVars
<1> QED
  BY <1>7, <1>8, <1>9, <1>10, <1>11, <1>12 DEF Turns

\* The wake token is taken: the worker looks for pending jobs itself.
LEMMA WokenKeeps ==
  ASSUME WInv, Woken
  PROVE  Turns'
<1>0. /\ Holding /\ InRun /\ Backed /\ Budget /\ WorkerInv /\ Claims /\ JInv
      /\ faults \in Nat
  BY DEF WInv, Turns, JInv, IInv, TypeInv, TypeOK
<1>1. /\ worker.pc = "wait" /\ UNCHANGED <<cancelled, crashes, auditVars, sent>>
      /\ proc = "up" /\ proc' = "up" /\ op' = op /\ rec' = rec /\ jobs' = jobs
      /\ disk' = disk /\ faults' = faults
  BY DEF Woken, At, TakeWake, memory, work, journal
<1>2. worker'.pc = "claim"
  BY <1>0, MoveRecord, PlaceNames DEF Woken
<1>3. Serving /\ Serving'
  BY <1>1, <1>2 DEF Serving
<1>4. Holding'
  BY <1>0, <1>1, <1>2 DEF Holding
<1>5. Claims'
  <2>1. Own = {} /\ Own' = {} /\ Running' = Running
    BY <1>1, <1>2 DEF Own, Processing, Running
  <2> QED
    BY <1>0, <1>1, <1>3, <2>1, ClaimsKept
<1>6. NoLostWakeup'
  BY <1>2 DEF NoLostWakeup, At
<1>7. InRun'
  BY <1>0, <1>1, <1>2, InRunKept
<1>8. Backed'
  BY <1>0, <1>1, BackedSame
<1>9. Budget'
  <2>1. \A i \in Ids : Begun(i) => Begun(i)'
    BY <1>1, <1>2, <1>3 DEF Begun
  <2> QED
    BY <1>0, <1>1, <1>3, <2>1, BudgetKept DEF auditVars
<1> QED
  BY <1>4, <1>5, <1>6, <1>7, <1>8, <1>9 DEF Turns

\* A completion is written with the run in hand; one that the journal does not
\* take leaves its job behind.
LEMMA CompleteKeeps ==
  ASSUME WInv, NEW o \in Outcomes, Complete(o)
  PROVE  Turns'
<1>0. /\ Holding /\ InRun /\ Backed /\ Budget /\ WorkerInv /\ Claims /\ JInv
      /\ Memory \in Contents /\ faults \in Nat
      /\ worker.run \in Runs \cup {None}
  BY DEF WInv, Turns, JInv, IInv, TypeInv, TypeOK, WorkerInv, WorkerType, WorkerRecord
<1>1. PICK st \in Final :
        /\ worker.pc \in {"complete", "failjob"}
        /\ st = "succeeded" => worker.pc = "complete"
        /\ CompleteJob(worker.job, st, worker.run, o)
  BY DEF Complete, At, Final
<1>2. /\ Unlocked /\ worker.job \in Running
      /\ Update("complete", CompleteRecord(worker.job, st, worker.run), o)
      /\ UNCHANGED <<cancelled, crashes, auditVars, sent>>
  BY <1>1 DEF Complete, CompleteJob, CompleteRecord, Finished
<1>3. /\ worker'.pc = IF o = "ok" THEN "completing" ELSE "return"
      /\ worker'.job = worker.job
  <2>1. Goto("completing") => worker'.pc = "completing" /\ worker'.job = worker.job
    BY <1>0, MoveRecord, PlaceNames
  <2>2. Goto("return") => worker'.pc = "return" /\ worker'.job = worker.job
    BY <1>0, MoveRecord, PlaceNames
  <2> QED
    BY <2>1, <2>2 DEF Complete
<1> DEFINE r == CompleteRecord(worker.job, st, worker.run)
<1>4. /\ r \in Contents
      /\ \A i \in Ids : r.jobs[i] =
           IF i = worker.job THEN Finished(worker.job, st, worker.run) ELSE None
  <2>1. Sound(Memory)
    BY <1>0, <1>2 DEF Unlocked, JInv, Belong, Sounds
  <2> QED
    BY <1>0, <1>2, <2>1, CompleteMoves
<1>5. /\ proc = "up" /\ proc' = "up" /\ op.phase = "idle" /\ jobs' = jobs
      /\ Running' = Running
      /\ o = "ok" => /\ op'.kind = "complete" /\ op'.phase = "written"
                     /\ rec' = r /\ faults' = faults
      /\ o # "ok" => /\ op'.kind = "none" /\ op'.phase = "idle"
                     /\ faults' = faults + 1
      /\ disk' = disk \/ (disk = Memory /\ disk' = Replay(Memory, r))
  <2>1. "complete" \in Kinds
    BY DEF Kinds
  <2> HIDE DEF Kinds
  <2> QED
    BY <1>0, <1>2, <1>4, <2>1, UpdateEffect
<1> HIDE DEF r
<1>6. Serving /\ Serving'
  BY <1>1, <1>3, <1>5 DEF Serving
<1>7. /\ worker.job \in Ids
      /\ Finished(worker.job, st, worker.run) # None
      /\ Finished(worker.job, st, worker.run).status = st
      /\ Finished(worker.job, st, worker.run).run = worker.run
  <2>1. worker.job \in Ids /\ jobs[worker.job] \in Jobs
    BY <1>0, <1>2 DEF Running, Memory, Contents
  <2>2. PICK jb \in Jobs : jb = jobs[worker.job]
    BY <2>1
  <2>3. [jb EXCEPT !.status = st, !.run = worker.run] \in Jobs
    BY <1>0 DEF Jobs
  <2>4. PICK fin \in Jobs : fin = [jb EXCEPT !.status = st, !.run = worker.run]
    BY <2>3
  <2>5. fin.status = st /\ fin.run = worker.run
    BY <2>4 DEF Jobs
  <2> QED
    BY <2>1, <2>2, <2>4, <2>5, NoneAssumption DEF Finished
<1>8. \A i \in Ids : r.jobs[i] # None <=> i = worker.job
  BY <1>4, <1>7
<1>9. Holding'
  <2>1. CASE o = "ok"
    <3>1. worker'.pc = "completing"
      BY <2>1, <1>3
    <3>2. op'.kind = "complete" /\ op'.phase = "written" /\ rec' = r
      BY <2>1, <1>5
    <3> QED
      BY <1>3, <1>5, <1>8, <3>1, <3>2 DEF Holding
  <2>2. CASE o # "ok"
    BY <1>3, <1>5, <2>2 DEF Holding
  <2> QED
    BY <2>1, <2>2
<1>10. Claims'
  <2>1. Own = {worker.job}
    BY <1>1 DEF Own, Processing
  <2>2. CASE o = "ok"
    <3>1. Own' = Own
      BY <2>1, <2>2, <1>3 DEF Own, Processing
    <3>2. Own \subseteq Running
      BY <1>2, <2>1
    <3> QED
      BY <1>0, <1>5, <1>6, <2>2, <3>1, <3>2, ClaimsKept
  <2>3. CASE o # "ok"
    <3>1. Own' = {}
      BY <2>3, <1>3 DEF Own, Processing
    <3>2. Running' = (Running \ Own) \cup {worker.job}
      BY <1>2, <1>5, <2>1
    <3> QED
      BY <1>0, <1>5, <1>6, <2>3, <3>1, <3>2, ClaimsLeft
  <2> QED
    BY <2>2, <2>3
<1>11. NoLostWakeup'
  BY <1>3 DEF NoLostWakeup, At
<1>12. InRun'
  BY <1>0, <1>2, <1>3, InRunKept
<1>13. Backed'
  <2>1. CASE disk' = disk
    BY <1>0, <1>2, <2>1, BackedSame
  <2>2. CASE disk = Memory /\ disk' = Replay(Memory, r)
    <3>1. \A i \in Ids : disk'.jobs[i] =
            IF i = worker.job THEN Finished(worker.job, st, worker.run) ELSE disk.jobs[i]
      BY <2>2, <1>4, <1>7, ReplayJob
    <3>2. st = "succeeded" =>
            /\ worker.run \in Runs /\ auditStatus[worker.run] = "succeeded"
            /\ auditJob[worker.run] = worker.job
            /\ worker.run \in auditResult /\ worker.run \in sent
      BY <1>0, <1>1 DEF InRun
    <3>3. ASSUME NEW j \in Ids, disk'.jobs[j] # None, disk'.jobs[j].status = "succeeded"
          PROVE  /\ disk'.jobs[j].run \in Runs
                 /\ auditStatus[disk'.jobs[j].run] = "succeeded"
                 /\ auditJob[disk'.jobs[j].run] = j
                 /\ disk'.jobs[j].run \in auditResult /\ disk'.jobs[j].run \in sent
      <4>1. CASE j = worker.job
        BY <4>1, <3>1, <3>2, <3>3, <1>7
      <4>2. CASE j # worker.job
        BY <4>2, <3>1, <3>3, <1>0 DEF Backed
      <4> QED
        BY <4>1, <4>2
    <3> QED
      BY <1>2, <3>3 DEF Backed, auditVars
  <2> QED
    BY <1>5, <2>1, <2>2
<1>14. Budget'
  <2>1. \A i \in Ids : Begun(i) => Begun(i)'
    BY <1>3, <1>5, <1>6 DEF Begun
  <2> QED
    BY <1>0, <1>2, <1>6, <2>1, BudgetKept DEF auditVars
<1> QED
  BY <1>9, <1>10, <1>11, <1>12, <1>13, <1>14 DEF Turns

LEMMA CompletedKeeps ==
  ASSUME WInv, Completed
  PROVE  Turns'
<1>0. /\ Holding /\ InRun /\ Backed /\ Budget /\ WorkerInv /\ Claims /\ JInv
      /\ faults \in Nat
  BY DEF WInv, Turns, JInv, IInv, TypeInv, TypeOK
<1>1. /\ worker.pc = "completing" /\ Commit
      /\ UNCHANGED <<cancelled, crashes, auditVars, sent>>
  BY DEF Completed, At
<1>2. worker'.pc = "return"
  BY <1>0, MoveRecord, PlaceNames DEF Completed
<1>3. /\ proc = "up" /\ proc' = "up" /\ op'.kind = "none" /\ op'.phase = "idle"
      /\ disk' = disk /\ faults' = faults
      /\ \A j \in Ids : jobs'[j] = IF rec.jobs[j] = None THEN jobs[j] ELSE rec.jobs[j]
  BY <1>1, CommitEffect
<1>4. Serving /\ Serving'
  BY <1>1, <1>2, <1>3 DEF Serving
<1>5. \A i \in Ids : IF i = worker.job THEN jobs'[i] # None /\ jobs'[i].status \in Final
                     ELSE jobs'[i] = jobs[i]
  <2>1. op.kind = "complete" /\ \A i \in Ids : rec.jobs[i] # None <=> i = worker.job
    BY <1>0, <1>1 DEF Holding
  <2>2. Finals(rec)
    BY <1>0, <2>1 DEF JInv, IInv, TypeInv, CompletionOK
  <2> QED
    BY <1>3, <2>1, <2>2 DEF Finals
<1>6. Running' \subseteq Running \ {worker.job}
  BY <1>5 DEF Running, Final
<1>7. Holding'
  BY <1>2, <1>3 DEF Holding
<1>8. Claims'
  <2>1. Own = {worker.job} /\ Own' = {}
    BY <1>1, <1>2 DEF Own, Processing
  <2>2. Own' \subseteq Running' /\ Running' \ Own' \subseteq Running \ Own
    BY <1>6, <2>1
  <2> QED
    BY <1>0, <1>3, <1>4, <2>2, ClaimsKept
<1>9. NoLostWakeup'
  BY <1>2 DEF NoLostWakeup, At
<1>10. InRun'
  BY <1>0, <1>1, <1>2, InRunKept
<1>11. Backed'
  BY <1>0, <1>1, <1>3, BackedSame
<1>12. Budget'
  <2>1. ASSUME NEW i \in Ids, Begun(i)
        PROVE  Begun(i)'
    <3>1. jobs'[i] # None /\ jobs'[i].status # "pending"
      BY <2>1, <1>5 DEF Begun, Final
    <3> QED
      BY <3>1, <1>2, <1>4 DEF Begun
  <2> QED
    BY <1>0, <1>1, <1>4, <2>1, BudgetKept DEF auditVars
<1> QED
  BY <1>7, <1>8, <1>9, <1>10, <1>11, <1>12 DEF Turns

\* Every step of the pipeline keeps the invariant.
LEMMA TurnsStep == WInv /\ JInv' /\ WorkerInv' /\ [WorkerNext]_vars => WInv'
<1> SUFFICES ASSUME WInv, JInv', WorkerInv', [WorkerNext]_vars PROVE Turns'
  BY DEF WInv
<1>1. CASE UNCHANGED vars
  <2>1. UNCHANGED <<proc, jobs, wake, op, rec, disk, faults, worker, cancelled, crashes,
                    auditStatus, auditResult, auditJob, sent>>
    BY <1>1 DEF vars, storeVars, memory, work, journal, workerVars, auditVars
  <2>2. Holding' /\ Claims' /\ NoLostWakeup'
    BY <2>1 DEF WInv, Turns, Holding, Claims, NoLostWakeup, At, Serving, Own, Running,
                Pending, Requeued
  <2>3. InRun' /\ Backed' /\ Budget'
    BY <2>1 DEF WInv, Turns, InRun, Backed, Budget, RunsOf, Closing, Turn, Begun, Serving
  <2> QED
    BY <2>2, <2>3 DEF Turns
<1>2. CASE Start \/ StartRefused
  BY <1>2, StartKeeps
<1>3. CASE ProcessCrash \/ Exit
  BY <1>3, EndKeeps
<1>4. CASE Shutdown
  BY <1>4, ShutdownKeeps
<1>5. CASE HandlerStep
  BY <1>5, HandlerKeeps
<1>6. CASE WorkerStep
  <2>1. CASE OwnStep
    BY <2>1, OwnKeeps
  <2>2. CASE \/ Recovered \/ Claimed \/ Woken \/ Completed
             \/ \E o \in Outcomes : Recover(o) \/ Complete(o)
             \/ \E j \in Ids, o \in Outcomes : Claim(j, o)
    BY <2>2, RecoverKeeps, RecoveredKeeps, ClaimKeeps, ClaimedKeeps, WokenKeeps,
       CompleteKeeps, CompletedKeeps
  <2> QED
    BY <1>6, <2>1, <2>2 DEF WorkerStep, OwnStep
<1> QED
  BY <1>1, <1>2, <1>3, <1>4, <1>5, <1>6 DEF WorkerNext

\* Nothing runs, no run exists, and nobody owes anything.
LEMMA TurnsInit == WorkerInit => Turns
<1> SUFFICES ASSUME WorkerInit PROVE Turns
  OBVIOUS
<1>1. /\ proc = "down" /\ op.kind = "none" /\ worker.pc = "off" /\ ~Serving
  BY DEF WorkerInit, Init, Idle, NoWorker, Serving
<1>2. Holding /\ Claims /\ NoLostWakeup
  BY <1>1 DEF Holding, Claims, NoLostWakeup, At
<1>3. InRun /\ Backed
  BY <1>1 DEF InRun, Backed, WorkerInit, Init, BlankRecord, Blank
<1>4. ASSUME NEW j \in Ids
      PROVE  IsFiniteSet(RunsOf(j)) /\ Cardinality(RunsOf(j)) + Closing <= crashes + Turn(j)
  <2>1. 0 \notin Ids
    BY DEF Ids
  <2>2. RunsOf(j) = {}
    BY <2>1 DEF RunsOf, WorkerInit
  <2>3. Closing = 0 /\ Turn(j) = 0 /\ crashes = 0
    BY <1>1 DEF Closing, Turn, Begun, WorkerInit
  <2> QED
    BY <2>2, <2>3, FS_EmptySet
<1> QED
  BY <1>2, <1>3, <1>4 DEF Turns, Budget

\* The inductive invariant of the pipeline.
THEOREM PipelineTurns ==
  ASSUME "unsynced" \notin Faults
  PROVE  WorkerSpec => []WInv
<1>1. WorkerSpec => []JInv
  <2>1. Spec => []JInv
    BY StoreBelongs
  <2> QED
    BY <2>1, StoreInPipeline, PTL
<1>2. WorkerSpec => []WorkerInv
  BY WorkerInitType, WorkerTypeStep, PTL DEF WorkerSpec
<1>3. WorkerInit /\ JInv => WInv
  BY TurnsInit, WorkerInitType DEF WInv
<1> QED
  BY <1>1, <1>2, <1>3, TurnsStep, PTL DEF WorkerSpec

\* "The in-process worker claims pending jobs sequentially": the job in hand is
\* running, and another running job was left so by an append that failed.
THEOREM AlwaysOneJobAtATime ==
  ASSUME "unsynced" \notin Faults
  PROVE  WorkerSpec => []OneJobAtATime
<1>1. WInv => OneJobAtATime
  BY DEF WInv, Turns, Claims, Own, OneJobAtATime
<1>2. WorkerSpec => []WInv
  BY PipelineTurns
<1> QED
  BY <1>1, <1>2, PTL

\* No wake-up is lost, whatever the worker missed between its last look at the
\* pending jobs and the select; only after a failed append does it need the timer.
THEOREM WakeupNeverLost ==
  ASSUME "unsynced" \notin Faults
  PROVE  WorkerSpec => []NoLostWakeup
<1>1. WInv => NoLostWakeup
  BY DEF WInv, Turns
<1>2. WorkerSpec => []WInv
  BY PipelineTurns
<1> QED
  BY <1>1, <1>2, PTL

\* A job the journal holds as succeeded names a run of its own that succeeded,
\* has a result, and was sent out.
THEOREM SuccessHasRun ==
  ASSUME "unsynced" \notin Faults
  PROVE  WorkerSpec => []SucceededJobHasRun
<1>1. WInv => SucceededJobHasRun
  BY DEF WInv, Turns, Backed, SucceededJobHasRun
<1>2. WorkerSpec => []WInv
  BY PipelineTurns
<1> QED
  BY <1>1, <1>2, PTL

\* Nobody is told of a result the audit store does not hold, and the run a job
\* names is the last one of its incident.
THEOREM ResultAlwaysFirst ==
  ASSUME "unsynced" \notin Faults
  PROVE  WorkerSpec => []ResultBeforeNotice
<1>1. WInv => ResultBeforeNotice
  <2> SUFFICES ASSUME WInv PROVE ResultBeforeNotice
    OBVIOUS
  <2>1. sent \subseteq auditResult
    BY DEF WInv, Turns, InRun
  <2>2. Readable => Sound(disk)
    BY DEF WInv, JInv, Belong, Sounds
  <2>3. ASSUME NEW j \in Ids, Readable, disk.jobs[j] # None, disk.jobs[j].run # None
        PROVE  /\ disk.jobs[j].run \in disk.incidents[disk.jobs[j].incident].runs
               /\ disk.incidents[disk.jobs[j].incident].lastRun = disk.jobs[j].run
    BY <2>2, <2>3 DEF Sound
  <2> QED
    BY <2>1, <2>3 DEF ResultBeforeNotice
<1>2. WorkerSpec => []WInv
  BY PipelineTurns
<1> QED
  BY <1>1, <1>2, PTL

\* A job is investigated again only because a crash or a shutdown interrupted it.
THEOREM RetriesArePaid ==
  ASSUME "unsynced" \notin Faults
  PROVE  WorkerSpec => []RetriedOnlyAfterCrash
<1>1. WInv => RetriedOnlyAfterCrash
  <2> SUFFICES ASSUME WInv, NEW j \in Ids
               PROVE  Cardinality({r \in Runs : auditJob[r] = j}) <= 1 + crashes
    BY DEF RetriedOnlyAfterCrash
  <2>1. IsFiniteSet(RunsOf(j)) /\ Cardinality(RunsOf(j)) + Closing <= crashes + Turn(j)
    BY DEF WInv, Turns, Budget
  <2>2. /\ Cardinality(RunsOf(j)) \in Nat /\ crashes \in Nat
        /\ Closing \in Nat /\ Turn(j) \in Nat /\ Turn(j) <= 1
    BY <2>1, FS_CardinalityType, WorkerConstantsAssumption
       DEF WInv, WorkerInv, WorkerType, Closing, Turn
  <2>3. Cardinality(RunsOf(j)) <= 1 + crashes
    <3> HIDE DEF RunsOf, Closing, Turn
    <3> QED
      BY <2>1, <2>2
  <2> QED
    BY <2>3 DEF RunsOf
<1>2. WorkerSpec => []WInv
  BY PipelineTurns
<1> QED
  BY <1>1, <1>2, PTL

\* Events, incidents and jobs stay linked in the running pipeline, each incident
\* keeps its one job, and the journal moves as the contract says.
THEOREM PipelineKeepsLinks ==
  ASSUME "unsynced" \notin Faults
  PROVE  WorkerSpec => [](EventsLinked /\ OneJobPerIncident) /\ KeepsLedger
<1>1. (Spec => []EventsLinked) /\ (Spec => []OneJobPerIncident) /\ (Spec => KeepsLedger)
  BY AlwaysLinked, AlwaysOneJob, StoreKeepsLedger
<1> QED
  BY <1>1, StoreInPipeline, PTL
=============================================================================
