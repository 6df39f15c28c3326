------------------------------ MODULE AlertStore ------------------------------
(***************************************************************************)
(* The alert store: internal/alerts/store.go.                              *)
(*                                                                         *)
(* Canonical events arrive in batches, are deduplicated and correlated     *)
(* into incidents, and the first firing event of an incident queues an     *)
(* investigation job.  Every operation works under one mutex, writes one   *)
(* JSON line to an append-only journal, and only then updates the maps in  *)
(* memory.  OpenStore rebuilds the maps from the journal.                  *)
(*                                                                         *)
(* Representation.  An id (event, incident or job) is a number of Ids, and *)
(* 0 stands for the empty string a Go map returns for an absent key.  The  *)
(* n-th id drawn names the event, and, in their own name spaces, the       *)
(* incident and the job that event may create.  The journal is kept as     *)
(* what `load` would rebuild from it (`disk`: later lines override earlier *)
(* ones id by id) and the condition of its last line (`tail`).  The mutex  *)
(* is held exactly while op.phase # "idle".                                *)
(***************************************************************************)
EXTENDS Naturals, Sequences, FiniteSets

CONSTANTS
    Sources,    \* names of the configured alert sources
    DedupKeys,  \* deduplication keys a source may send
    CorrKeys,   \* correlation keys a source may send
    Batches,    \* batches of events a delivery may carry
    Times,      \* receive times, the CreatedAt of jobs
    Runs,       \* audit run ids a completed job may name
    Waiters,    \* callers of WaitJob
    MaxEvents,  \* bound: ids drawn in a behaviour
    Faults,     \* ways an append may fail
    MaxFaults,  \* bound: failed appends in a behaviour
    None        \* no such record; in a batch, an event Validate refuses

Ids == 1..MaxEvents
States == {"firing", "resolved"}
Final == {"succeeded", "failed"}

Events == [source: Sources, dedup: DedupKeys, corr: CorrKeys, state: States]

ASSUME ConstantsAssumption ==
    /\ MaxEvents \in Nat /\ MaxFaults \in Nat
    /\ Times \subseteq Nat
    /\ Faults \subseteq {"none", "unsynced", "bare", "torn"}
    /\ Batches \subseteq Seq(Events \cup {None})
    /\ \A b \in Batches : b # <<>>

StoredEvents == [source: Sources, dedup: DedupKeys, corr: CorrKeys,
                 state: States, incident: Ids]
Incidents == [source: Sources, corr: CorrKeys, state: States,
              events: SUBSET Ids, runs: SUBSET Runs, lastRun: Runs \cup {None}]
Jobs == [incident: Ids, event: Ids, status: {"pending", "running"} \cup Final,
         created: Times, run: Runs \cup {None}]

\* What the journal, or one record of it, holds: by id, what it stores.
Contents == [events : [Ids -> StoredEvents \cup {None}],
             incidents : [Ids -> Incidents \cup {None}],
             jobs : [Ids -> Jobs \cup {None}]]

\* The operation that holds the mutex, and how far it is.
Kinds == {"none", "ingest", "claim", "complete", "recover"}
Operations == [kind : Kinds, phase : {"idle", "loop", "written"},
               todo : Seq(Events \cup {None}), at : Times \cup {0}]

ASSUME NoneAssumption ==
    /\ None \notin Runs /\ None \notin Events
    /\ None \notin StoredEvents /\ None \notin Incidents /\ None \notin Jobs
    /\ None \notin Sources \X CorrKeys

VARIABLES
    proc,          \* "down", "up", or "refused": OpenStore failed
    events, incidents, jobs, dedupe, openIncident, \* Store's maps
    wake,          \* the one-slot wake channel holds a token
    waiters,       \* per WaitJob caller: the job waited for, the answer sent
    op,            \* the operation that holds the mutex
    rec,           \* the journal record that operation has built
    workDedupe,    \* Ingest's workingDedupe
    workOpen,      \* Ingest's workingOpen
    disk, tail,    \* what load would rebuild; the journal's last line
    next,          \* the next fresh id
    faults,        \* appends that failed so far
    acked          \* history: events a delivery answered as accepted

memory == <<events, incidents, jobs, dedupe, openIncident>>
work == <<op, rec, workDedupe, workOpen>>
journal == <<disk, tail, faults>>
storeVars == <<proc, memory, wake, waiters, work, journal, next, acked>>
-----------------------------------------------------------------------------
(* Keys, records, and the effect of a record on the maps. *)

DedupIndex == Sources \X DedupKeys
CorrIndex == Sources \X CorrKeys
DedupeKey(e) == <<e.source, e.dedup>>
CorrelationIndexAnySource(e) == <<CHOOSE s \in Sources : TRUE, e.corr>>  \* mutant
CorrelationIndex(e) == <<e.source, e.corr>>

Blank == [i \in Ids |-> None]
BlankRecord == [events |-> Blank, incidents |-> Blank, jobs |-> Blank]
NoDedupe == [k \in DedupIndex |-> 0]
NoOpen == [c \in CorrIndex |-> 0]
Idle == [kind |-> "none", phase |-> "idle", todo |-> <<>>, at |-> 0]
NoWait == [job |-> 0, got |-> "none"]

\* The map `f` after the entries of `changes` have been stored in it.
Override(f, changes) ==
    [i \in Ids |-> IF changes[i] = None THEN f[i] ELSE changes[i]]

\* Store.load line by line: every map overridden by the record's entries.
Replay(contents, r) ==
    [events    |-> Override(contents.events, r.events),
     incidents |-> Override(contents.incidents, r.incidents),
     jobs      |-> Override(contents.jobs, r.jobs)]

Memory == [events |-> events, incidents |-> incidents, jobs |-> jobs]
Staged == Replay(Memory, rec)   \* the maps once this record is applied

Init ==
    /\ proc = "down"
    /\ events = Blank /\ incidents = Blank /\ jobs = Blank
    /\ dedupe = NoDedupe /\ openIncident = NoOpen
    /\ wake = FALSE /\ waiters = [w \in Waiters |-> NoWait]
    /\ op = Idle /\ rec = BlankRecord
    /\ workDedupe = NoDedupe /\ workOpen = NoOpen
    /\ disk = BlankRecord /\ tail = "clean"
    /\ next = 1 /\ faults = 0 /\ acked = {}
-----------------------------------------------------------------------------
(* The process: OpenStore, and the loss of everything in memory.  No signal *)
(* handler runs, so a stop of the process is a crash at any point.          *)

\* The dedupe and openIncident indexes load may build: Go iterates a map in
\* any order, so among several candidates any may win.
DedupeIndexes(E) ==
    {d \in [DedupIndex -> Ids \cup {0}] : \A k \in DedupIndex :
        IF d[k] = 0 THEN \A i \in Ids : E[i] # None => DedupeKey(E[i]) # k
        ELSE E[d[k]] # None /\ DedupeKey(E[d[k]]) = k}

OpenIndexes(I) ==
    {o \in [CorrIndex -> Ids \cup {0}] : \A c \in CorrIndex :
        IF o[c] = 0
        THEN \A i \in Ids : I[i] # None /\ I[i].state = "firing"
                              => CorrelationIndex(I[i]) # c
        ELSE /\ I[o[c]] # None /\ I[o[c]].state = "firing"
             /\ CorrelationIndex(I[o[c]]) = c}

OpenStore ==
    /\ proc \in {"down", "refused"}
    /\ tail # "torn"
    /\ proc' = "up"
    /\ events' = disk.events /\ incidents' = disk.incidents
    /\ jobs' = disk.jobs
    /\ dedupe' \in DedupeIndexes(disk.events)
    /\ openIncident' \in OpenIndexes(disk.incidents)
    /\ UNCHANGED <<wake, waiters, work, journal, next, acked>>

\* A line that does not decode makes OpenStore fail, and `serve` panics.
OpenStoreRefused ==
    /\ proc \in {"down", "refused"} /\ tail = "torn"
    /\ proc' = "refused"
    /\ UNCHANGED <<memory, wake, waiters, work, journal, next, acked>>

Crash ==
    /\ proc = "up"
    /\ proc' = "down"
    /\ events' = Blank /\ incidents' = Blank /\ jobs' = Blank
    /\ dedupe' = NoDedupe /\ openIncident' = NoOpen
    /\ wake' = FALSE /\ waiters' = [w \in Waiters |-> NoWait]
    /\ op' = Idle /\ rec' = BlankRecord
    /\ workDedupe' = NoDedupe /\ workOpen' = NoOpen
    /\ UNCHANGED <<journal, next, acked>>
-----------------------------------------------------------------------------
(* Store.append.  "ok": the line is written and synced.  "none": nothing is *)
(* written.  "unsynced": the whole line is written and Sync fails.  "torn": *)
(* part of the line is written.  "bare": all of it but the newline is.  A   *)
(* record that follows an unfinished line shares its line, and the line no  *)
(* longer decodes.                                                          *)

Outcomes == {"ok"} \cup Faults

Append2Journal(r, outcome) ==
    LET whole == tail = "clean" /\ outcome \in {"ok", "unsynced", "bare"}
    IN  /\ outcome # "ok" => faults < MaxFaults
        /\ faults' = IF outcome = "ok" THEN faults ELSE faults + 1
        /\ disk' = IF whole THEN Replay(disk, r) ELSE disk
        /\ tail' = IF outcome = "none" THEN tail
                   ELSE IF ~whole THEN "torn"
                   ELSE IF outcome = "bare" THEN "bare" ELSE "clean"

WriteUnchecked(kind, r, outcome) ==   \* mutant: append's error is dropped
    /\ Append2Journal(r, outcome)
    /\ op' = [op EXCEPT !.kind = kind, !.phase = "written"] /\ rec' = r

\* The append of a record followed by the operation's error return, or, when
\* it succeeded, by the operation still holding the mutex.
Write(kind, r, outcome) ==
    /\ Append2Journal(r, outcome)
    /\ IF outcome = "ok"
       THEN op' = [op EXCEPT !.kind = kind, !.phase = "written"] /\ rec' = r
       ELSE op' = Idle /\ rec' = BlankRecord

Locked(kind, phase) == proc = "up" /\ op.kind = kind /\ op.phase = phase
Unlocked == proc = "up" /\ op.phase = "idle"

UpdateEagerly(kind, r, outcome) ==   \* mutant: the stored job changed in place
    /\ Write(kind, r, outcome)
    /\ workDedupe' = NoDedupe
    /\ workOpen' = IF outcome = "ok" THEN openIncident ELSE NoOpen
    /\ jobs' = Override(jobs, r.jobs)
    /\ UNCHANGED <<proc, events, incidents, dedupe, openIncident, wake, waiters,
                   next, acked>>

\* The record of an operation other than Ingest.
Update(kind, r, outcome) ==
    /\ Write(kind, r, outcome)
    /\ workDedupe' = NoDedupe
    /\ workOpen' = IF outcome = "ok" THEN openIncident ELSE NoOpen
    /\ UNCHANGED <<proc, memory, wake, waiters, next, acked>>
-----------------------------------------------------------------------------
(* Store.Ingest: one step per event of the batch, then the append. *)

BeginIngest(batch, at) ==
    /\ Unlocked
    /\ next + Len(batch) <= MaxEvents + 1   \* bound
    /\ op' = [kind |-> "ingest", phase |-> "loop", todo |-> batch, at |-> at]
    /\ rec' = BlankRecord
    /\ workDedupe' = NoDedupe /\ workOpen' = openIncident
    /\ UNCHANGED <<proc, memory, wake, waiters, journal, next, acked>>

NextEvent == Head(op.todo)
Looping == Locked("ingest", "loop") /\ op.todo # <<>>

KnownEventStored(e) == dedupe[DedupeKey(e)]   \* mutant: the batch is not looked at

\* The event already stored, or met earlier in this batch, with this key.
KnownEvent(e) ==
    IF workDedupe[DedupeKey(e)] # 0 THEN workDedupe[DedupeKey(e)]
    ELSE dedupe[DedupeKey(e)]

\* One invalid event makes Ingest return an error, the whole batch rejected.
IngestInvalid ==
    /\ Looping /\ NextEvent = None
    /\ op' = Idle /\ rec' = BlankRecord
    /\ workDedupe' = NoDedupe /\ workOpen' = NoOpen
    /\ UNCHANGED <<proc, memory, wake, waiters, journal, next, acked>>

IngestDuplicate ==
    /\ Looping /\ NextEvent # None /\ KnownEvent(NextEvent) # 0
    /\ op' = [op EXCEPT !.todo = Tail(@)]
    /\ UNCHANGED <<proc, memory, wake, waiters, rec, workDedupe, workOpen,
                   journal, next, acked>>

JoinedIncidentStored(e) == openIncident[CorrelationIndex(e)]   \* mutant

\* The open incident an event joins, 0 when it starts one.
JoinedIncident(e) ==
    LET id == workOpen[CorrelationIndex(e)]
    IN  IF id # 0 /\ Staged.incidents[id] # None THEN id ELSE 0

\* The incident after the event: a new one, or the open one updated.
IncidentAfter(e, id) ==
    IF JoinedIncident(e) = 0
    THEN [source |-> e.source, corr |-> e.corr, state |-> e.state,
          events |-> {id}, runs |-> {}, lastRun |-> None]
    ELSE [Staged.incidents[JoinedIncident(e)] EXCEPT
            !.state = e.state, !.events = @ \cup {id}]

NewJobPerFiring(e, id) ==   \* mutant: joined incidents get a job too
    IF e.state = "firing"
    THEN [incident |-> IF JoinedIncident(e) = 0 THEN id ELSE JoinedIncident(e),
          event |-> id, status |-> "pending", created |-> op.at, run |-> None]
    ELSE None

NewJob(e, id) ==
    IF e.state = "firing" /\ JoinedIncident(e) = 0
    THEN [incident |-> id, event |-> id, status |-> "pending",
          created |-> op.at, run |-> None]
    ELSE None

OpenAfterAlways(e, inc) == inc   \* mutant: no delete when the event resolves

\* The open incident of the event's correlation key, after the event.
OpenAfter(e, inc) == IF e.state = "firing" THEN inc ELSE 0

IngestNew ==
    /\ Looping /\ NextEvent # None /\ KnownEvent(NextEvent) = 0
    /\ LET e == NextEvent
           inc == IF JoinedIncident(e) = 0 THEN next ELSE JoinedIncident(e)
       IN  /\ rec' = [events |-> [rec.events EXCEPT ![next] =
                        [source |-> e.source, dedup |-> e.dedup,
                         corr |-> e.corr, state |-> e.state,
                         incident |-> inc]],
                      incidents |-> [rec.incidents EXCEPT ![inc] =
                        IncidentAfter(e, next)],
                      jobs |-> [rec.jobs EXCEPT ![next] = NewJob(e, next)]]
           /\ workDedupe' = [workDedupe EXCEPT ![DedupeKey(e)] = next]
           /\ workOpen' = [workOpen EXCEPT ![CorrelationIndex(e)] =
                             OpenAfter(e, inc)]
    /\ next' = next + 1
    /\ op' = [op EXCEPT !.todo = Tail(@)]
    /\ UNCHANGED <<proc, memory, wake, waiters, journal, acked>>

IngestAppend(outcome) ==
    /\ Locked("ingest", "loop") /\ op.todo = <<>>
    /\ Write("ingest", rec, outcome)
    /\ IF outcome = "ok" THEN UNCHANGED <<workDedupe, workOpen>>
       ELSE workDedupe' = NoDedupe /\ workOpen' = NoOpen
    /\ UNCHANGED <<proc, memory, wake, waiters, next, acked>>
-----------------------------------------------------------------------------
(* The job queue. *)

NotFinal == {j \in Ids : jobs[j] # None /\ jobs[j].status \notin Final}   \* mutant
Pending == {j \in Ids : jobs[j] # None /\ jobs[j].status = "pending"}
Running == {j \in Ids : jobs[j] # None /\ jobs[j].status = "running"}

\* ClaimNext takes a pending job with the least CreatedAt.
Oldest(j) == j \in Pending /\ \A k \in Pending : jobs[j].created <= jobs[k].created

ClaimNext(j, outcome) ==
    /\ Unlocked /\ Oldest(j)
    /\ Update("claim", [BlankRecord EXCEPT
                          !.jobs[j] = [jobs[j] EXCEPT !.status = "running"]],
              outcome)

LinkAnyRun(incident, run) ==   \* mutant: an absent run is linked too
    IF incident = None THEN None
    ELSE [incident EXCEPT !.runs = @ \cup {run}, !.lastRun = run]

\* The incident records the run of its completed job, if the job names one.
LinkRun(incident, run) ==
    IF run = None \/ incident = None THEN None
    ELSE [incident EXCEPT !.runs = @ \cup {run}, !.lastRun = run]

CompleteAnyJob(j, status, run, outcome) ==   \* mutant: a pending job completes
    /\ Unlocked /\ j \in Pending \cup Running
    /\ Update("complete",
         [BlankRecord EXCEPT
            !.jobs[j] = [jobs[j] EXCEPT !.status = status, !.run = run]],
         outcome)

CompleteJob(j, status, run, outcome) ==
    /\ Unlocked /\ j \in Running
    /\ LET i == jobs[j].incident
       IN  Update("complete",
             [BlankRecord EXCEPT
                !.jobs[j] = [jobs[j] EXCEPT !.status = status, !.run = run],
                !.incidents[i] = LinkRun(incidents[i], run)],
             outcome)

RecoverRunning(outcome) ==
    /\ Unlocked /\ Running # {}
    /\ Update("recover",
         [BlankRecord EXCEPT !.jobs =
            [j \in Ids |-> IF j \in Running
               THEN [jobs[j] EXCEPT !.status = "pending", !.run = None]
               ELSE None]],
         outcome)

NotifiedNobody == waiters   \* mutant

\* notifyWaiters: every caller waiting for a job this record completes.
Notified ==
    [w \in Waiters |->
       IF waiters[w].job # 0 /\ op.kind = "complete"
            /\ rec.jobs[waiters[w].job] # None
       THEN [waiters[w] EXCEPT !.got = rec.jobs[waiters[w].job].status]
       ELSE waiters[w]]

SignalledByRecovery == op.kind = "recover"   \* mutant

\* signal: Ingest with new jobs, and RecoverRunning.
Signalled ==
    \/ op.kind = "recover"
    \/ op.kind = "ingest" /\ rec.jobs # Blank

\* The part of every operation that follows a successful append.
Commit ==
    /\ proc = "up" /\ op.phase = "written"
    /\ events' = Staged.events /\ incidents' = Staged.incidents
    /\ jobs' = Staged.jobs
    /\ dedupe' = [k \in DedupIndex |->
                    IF workDedupe[k] = 0 THEN dedupe[k] ELSE workDedupe[k]]
    /\ openIncident' = workOpen
    /\ wake' = (wake \/ Signalled)
    /\ waiters' = Notified
    /\ acked' = acked \cup {e \in Ids : rec.events[e] # None}
    /\ op' = Idle /\ rec' = BlankRecord
    /\ workDedupe' = NoDedupe /\ workOpen' = NoOpen
    /\ UNCHANGED <<proc, journal, next>>
-----------------------------------------------------------------------------
(* Store.WaitJob: register under the mutex, then select on the answer and   *)
(* the caller's context.  A final job is answered at once, with no change.  *)

WaitJob(w, j) ==
    /\ Unlocked /\ waiters[w] = NoWait
    /\ j \in Pending \cup Running
    /\ waiters' = [waiters EXCEPT ![w].job = j]
    /\ UNCHANGED <<proc, memory, wake, work, journal, next, acked>>

\* The answer is received, or the context is done and the caller takes the
\* mutex to withdraw: it is gone.
WaitReturns(w) ==
    /\ proc = "up" /\ waiters[w].job # 0
    /\ Unlocked \/ waiters[w].got # "none"
    /\ waiters' = [waiters EXCEPT ![w] = NoWait]
    /\ UNCHANGED <<proc, memory, wake, work, journal, next, acked>>
-----------------------------------------------------------------------------
Ingest ==
    \/ \E b \in Batches, t \in Times : BeginIngest(b, t)
    \/ IngestInvalid
    \/ IngestDuplicate
    \/ IngestNew
    \/ \E o \in Outcomes : IngestAppend(o)

QueueStep ==
    \E j \in Ids, o \in Outcomes :
        \/ ClaimNext(j, o)
        \/ \E s \in Final, r \in Runs \cup {None} : CompleteJob(j, s, r, o)

Waiting == \E w \in Waiters : WaitReturns(w) \/ \E j \in Ids : WaitJob(w, j)

\* The worker receives the wake token.
TakeWake ==
    /\ proc = "up" /\ wake
    /\ wake' = FALSE
    /\ UNCHANGED <<proc, memory, waiters, work, journal, next, acked>>

Next ==
    \/ OpenStore \/ OpenStoreRefused \/ Crash
    \/ Ingest
    \/ QueueStep
    \/ \E o \in Outcomes : RecoverRunning(o)
    \/ Commit
    \/ Waiting
    \/ TakeWake

Spec == Init /\ [][Next]_storeVars
-----------------------------------------------------------------------------
(* What must hold of the maps, in memory and as the journal replays them. *)

StoredEvent(E, i) == i \in Ids /\ E[i] # None
OpenIncident(I, i) == i \in Ids /\ I[i] # None /\ I[i].state = "firing"

DedupUnique(E) ==
    \A i, k \in Ids : StoredEvent(E, i) /\ StoredEvent(E, k)
                       /\ DedupeKey(E[i]) = DedupeKey(E[k]) => i = k

OneOpen(I) ==
    \A i, k \in Ids : OpenIncident(I, i) /\ OpenIncident(I, k)
                       /\ CorrelationIndex(I[i]) = CorrelationIndex(I[k]) => i = k

Linked(E, I) ==
    /\ \A e \in Ids : E[e] # None =>
         LET i == E[e].incident
         IN  /\ I[i] # None /\ e \in I[i].events
             /\ I[i].source = E[e].source /\ I[i].corr = E[e].corr
    /\ \A i \in Ids : I[i] # None =>
         \A e \in I[i].events : E[e] # None /\ E[e].incident = i

OneJobEach(E, I, J) ==
    /\ \A j \in Ids : J[j] # None =>
         /\ E[J[j].event] # None /\ E[J[j].event].state = "firing"
         /\ E[J[j].event].incident = J[j].incident
    /\ \A j, k \in Ids : J[j] # None /\ J[k] # None
                          /\ J[j].incident = J[k].incident => j = k
    /\ \A e \in Ids : E[e] # None /\ E[e].state = "firing" =>
         \E j \in Ids : J[j] # None /\ J[j].incident = E[e].incident

Readable == tail # "torn"

TypeOK ==
    /\ proc \in {"down", "up", "refused"}
    /\ Memory \in Contents
    /\ dedupe \in [DedupIndex -> Ids \cup {0}]
    /\ openIncident \in [CorrIndex -> Ids \cup {0}]
    /\ wake \in BOOLEAN
    /\ waiters \in [Waiters -> [job : Ids \cup {0}, got : {"none"} \cup Final]]
    /\ op \in Operations
    /\ rec \in Contents
    /\ workDedupe \in [DedupIndex -> Ids \cup {0}]
    /\ workOpen \in [CorrIndex -> Ids \cup {0}]
    /\ disk \in Contents
    /\ tail \in {"clean", "bare", "torn"}
    /\ next \in 1..(MaxEvents + 1)
    /\ faults \in 0..MaxFaults
    /\ acked \subseteq Ids

\* A source's deduplication key is stored at most once, in memory and in what
\* a restart would load: two deliveries, or two events of one batch, with one
\* key never count twice (store.go:177-187).
NoDuplicateEvents ==
    /\ proc = "up" => DedupUnique(events)
    /\ Readable => DedupUnique(disk.events)

\* At most one incident is open per source and correlation key, whatever the
\* order of firing and resolved events across batches and restarts
\* (store.go:189-223, 532-536).
OneOpenIncident ==
    /\ proc = "up" => OneOpen(incidents)
    /\ Readable => OneOpen(disk.incidents)

\* Events and incidents point at each other, within one source and one
\* correlation key: no incident mixes alerts of two sources.
EventsLinked ==
    /\ proc = "up" => Linked(events, incidents)
    /\ Readable => Linked(disk.events, disk.incidents)

\* An incident that saw a firing event has exactly one job, queued for its
\* first firing event; one that only saw a resolved event has none
\* (store.go:209-219).
OneJobPerIncident ==
    /\ proc = "up" => OneJobEach(events, incidents, jobs)
    /\ Readable => OneJobEach(disk.events, disk.incidents, disk.jobs)

\* The two indexes, kept up to date by Ingest and rebuilt by load, answer
\* exactly for the events stored and the incidents that are open.
IndexesExact ==
    proc = "up" => /\ dedupe \in DedupeIndexes(events)
                   /\ openIncident \in OpenIndexes(incidents)

\* Between operations, memory is what a restart would load.
JournalMatchesMemory ==
    proc = "up" /\ op.phase # "written" /\ tail = "clean" => Memory = disk

\* An event answered as accepted is in the journal, and a restart reads it.
AckedSurvive == \A e \in acked : Readable /\ disk.events[e] # None

\* No lost notification: a caller of WaitJob is registered only for a job
\* that is not final, and the answer it is sent is the job's final status.
AnswersMatchJobs ==
    \A w \in Waiters : proc = "up" /\ waiters[w].job # 0 =>
        LET status == jobs[waiters[w].job].status
        IN  IF waiters[w].got = "none" THEN status \notin Final
            ELSE waiters[w].got = status
-----------------------------------------------------------------------------
(* What the documents say, and a failed append takes away. *)

\* "Repeated deduplication keys for the same source reference the first event
\* and do not create another job" (docs/operations/ALERT_CONTRACT.md:113-114).
RepeatedKeyOneJob ==
    \A j, k \in Pending \cup Running :
        DedupeKey(events[jobs[j].event]) = DedupeKey(events[jobs[k].event]) => j = k

\* "Deduplication and correlation survive restart"
\* (docs/operations/OPS_SERVER.md:558): a restart does not fail on the journal
\* the store itself wrote.
SurviveRestart == proc = "refused" => acked = {}
-----------------------------------------------------------------------------
(* The refinement: the ledger is what the journal replays. *)

LedgerAccepted ==
    {DedupeKey(disk.events[e]) : e \in {i \in Ids : disk.events[i] # None}}

LedgerIncident ==
    [i \in Ids |->
       IF disk.incidents[i] = None THEN [key |-> None, open |-> FALSE]
       ELSE [key |-> CorrelationIndex(disk.incidents[i]),
             open |-> disk.incidents[i].state = "firing"]]

LedgerJob ==
    [j \in Ids |->
       IF disk.jobs[j] = None THEN [status |-> "absent", of |-> 0]
       ELSE [status |-> disk.jobs[j].status, of |-> disk.jobs[j].incident]]

Ledger == INSTANCE AlertLedger WITH
    NoKey <- None, accepted <- LedgerAccepted,
    incident <- LedgerIncident, job <- LedgerJob

\* Whatever crashes and failed appends do, the journal only ever moves as the
\* contract says: incidents never reopen, jobs go from pending to running to
\* final and back only when recovered, one job per incident a delivery opens.
KeepsLedger == Ledger!Spec
=============================================================================
