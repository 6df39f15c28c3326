# A verification project for Akritas

Akritas is a Go service for operators: it receives alerts, investigates them
with a language model and read-only tools, notifies people, and prepares
changes to a workspace that a person approves. This directory holds TLA+ models
of its stateful parts, the TLC runs that check them, and TLAPS proofs.

Six parts are modelled: the **alert pipeline** (a journalled store and its
worker), the **audit trail** (a second journal and everybody who writes to it),
**changes** (from a preview to the files of a workspace), a **chat run** (slot,
budget, plan, tool loop), an **MCP session** (client, pipes, server process) and
the **bots** (intake, queue, sessions). They are the parts that keep state, run
concurrently or survive a restart. What is left out, and why, is in section 5.

Paths below are under `src/internal/` unless they start with `docs/`.

## 1. Inventory

| Component | State it keeps | Operations | Hard behaviours | What makes it correct |
|---|---|---|---|---|
| Alert store, `alerts/store.go` | maps of events, incidents, jobs; two indexes; journal; wake channel; waiters | OpenStore, Ingest, ClaimNext, CompleteJob, RecoverRunning, WaitJob | a journal that fails in four ways; crash between journal and maps; duplicates inside a batch | one event per key, one open incident and one job per incident, memory = journal |
| Alert pipeline, `web/alerts.go`, `web/audit.go` | worker goroutine, its context, audit handle | webhook, run, process, close | handlers against worker; failure at every write; shutdown and restart | one job at a time, no lost wake-up, a succeeded job has its run |
| Alert normalization, `alerts/model.go`, adapters | none | Normalize, Validate, key derivation | keys that collide or change | same alert, same keys |
| Audit store, `audit/store.go`, `web/audit.go` | runs, journal; a handle per request that keeps the first error | StartRun, AddEvent, SetInvestigationResult, FinishRun, replay | sequence numbers reused after a failed Sync; strict replay; follow-ups write to a running run | what was acknowledged can be replayed; an answer has its whole story recorded; a result cites its own calls |
| Chat runs, `web/server.go` | generation slot (capacity 1), per-run budget | completeChat: prefetch, plan, tool loop; follow-ups | waiting with a deadline; arithmetic of remaining calls | the slot is given back; calls offered are calls allowed |
| Run budget, `runbudget/budget.go` | counters, reservations | Begin/FinishModelCall, RecordToolCall... | reservation against reported usage | no counter passes its limit |
| OpenAI client, `clients/openai/tool_client.go` | shared token-parameter choice | complete, tool loop | a refused parameter is tried the other way, once, inside the budget of one call | a call ends in two attempts |
| Change simulation, `change/structured.go`, `change/validators.go` | attempts, diagnostics | discover, snapshot, simulate, validate, repair | second attempt with feedback; the workspace changes meanwhile | only effective, validated content is proposed |
| Change approval, `change/approval.go`, `web/server.go` | at most 64 pending changes; files | store, take, apply, roll back | concurrent applies; a crash between renames; failing rollback | single use; all files or none |
| MCP stdio client, `mcp/stdio.go` | pending requests, writer mutex, done channel | request, notify, readLoop, fail, Close | late answers; two full pipes | each request ends once; no answer to the wrong caller |
| MCP host and tool registry, `mcp/host.go`, `mcp/tool_registry.go` | clients, tools, policy | start, close, Execute | failure half-way through start | only allowed tools run |
| Bots, `web/bots.go`, `notifications/telegram_polling.go` | queue, remembered ids, sessions, offset | enqueue, process, poll | full queue; retries; eviction | a message is answered once, in order |
| Notification dispatcher, `notifications/dispatcher.go` | none | Deliver, Reply | receivers in parallel with timeouts | each receiver once, results in order |
| Skills, RAG, corpus, VictoriaMetrics, CLI, text helpers | read once, or none | pure functions and I/O | - | not state machines |

How they interact. A webhook handler decodes a payload into events and calls
`Ingest`; the store signals the worker through a one-slot channel. The worker
claims a job, starts an audit run, calls `completeChat` (which takes the
generation slot, the budget, the client and the tool registry over MCP), asks
the model for a structured result, records it, notifies through the dispatcher,
finishes the run and completes the job. Chat, bots and change requests share
the generation slot, the client and the audit store. The stores are shared by
goroutines under one mutex each; files are shared with later processes.

`PROJECT.json` lists each component with its status, and every hazard at the
line where it bites.

## 2. Modules

| Module | What it is |
|---|---|
| `AlertLedger` | the contract (`docs/operations/ALERT_CONTRACT.md`, "Durable Processing") as an abstract machine: accepted keys, incidents, jobs |
| `AlertStore` | the store, detailed; `KeepsLedger` says it implements `AlertLedger` |
| `AlertWorker` | one `serve` process: extends `AlertStore` with the handlers, the worker, the audit runs, shutdown and restarts |
| `AuditStore` | the audit store and its journal, with a strict replay |
| `AuditTrail` | extends `AuditStore` with chats, alert jobs and follow-ups |
| `ChangeProposal` | what the host makes of a model's edits: pure operators |
| `ChangeApproval` | extends `ChangeProposal` with previews, pending changes, concurrent applies, people and crashes |
| `ChatRun` | runs that share the generation slot and the model client |
| `McpSession` | one MCP server from start to end: callers, host, read loop, pipes, process |
| `BotGateway` | Telegram poller, Mattermost webhook, queue, worker, sessions |
| `MCAlertStore`, `MCAlertWorker`, `MCAuditTrail`, `MCChangeApproval`, `MCChatRun`, `MCMcpSession`, `MCBotGateway` | the instances for TLC |
| `AlertStoreProofs` | type correctness of the alert store and the facts about its operations |
| `AlertStoreSafety` | the alert store's inductive invariants, its safety theorems, and that it implements `AlertLedger` |
| `AlertWorkerProofs` | the pipeline inherits the store's theorems; the worker's own |
| `AuditTrailProofs` | the audit journal under all its writers, and the stories they leave in it |
| `ChangeApprovalProofs` | what `Materialize` returns; approvals and applies |
| `ChatRunProofs` | the budget of a chat run |
| `McpSessionProofs` | ids, answers and the handshake of a session |
| `BotGatewayProofs` | intake and sessions of the bots |

Each component's module is complete by itself. Two compositions are made
(`AlertWorker` over `AlertStore`, `AuditTrail` over `AuditStore`); a third,
`ChangeApproval` over `ChangeProposal`, composes a protocol with the function it
runs. The others meet only at a call that succeeds or fails: a bot's message
and an alert job each run one `ChatRun`, whose tool calls go to an `McpSession`,
and which writes an `AuditTrail`. Each of these outcomes is left open on the
caller's side, so nothing the callee may do is excluded.

### AlertStore

*State.* `events`, `incidents`, `jobs`, `dedupe`, `openIncident` are the maps of
`Store`. An id is a number, 0 the empty string; the n-th id drawn names an event
and, in their own name spaces, the incident and the job that event creates
(`newID` draws 128 random bits: ids are distinct). `op` is the operation that
holds the mutex and how far it is, `rec` the journal record it builds,
`workDedupe` and `workOpen` the working copies of `Ingest`. `disk` is what
`load` would rebuild from the journal and `tail` the condition of its last
line. `acked` is a history variable: events answered as accepted.

*Steps.* `Ingest` is one step for each event of the batch (`IngestInvalid`,
`IngestDuplicate`, `IngestNew`), one for the append (`IngestAppend`) and one for
the updates after it (`Commit`). The mutex is held in between, so the steps are
separated only by a crash, which is why they are. The other operations are an
append and the same `Commit`. A refused operation or a failed append returns
with the maps untouched. `WaitJob` registers and returns in separate steps.

*The journal.* An append has the outcomes of `Faults`:

| Outcome | In the file | Code |
|---|---|---|
| `"ok"` | the line, synced | `store.go:560` |
| `"none"` | nothing: too large, not encodable, or the write fails at once | 543-552 |
| `"torn"` | part of the line | 551-556 |
| `"bare"` | the line without its newline | 551-556 |
| `"unsynced"` | the whole line, but Sync fails | 557-559 |

In all but the first the operation returns an error. A bare last line still
decodes (`bufio.Scanner` does not need the final newline); a record appended
after a torn or bare line shares its line, and `load` fails (`OpenStoreRefused`).

*Abstractions.* The deliveries map, descriptive fields, attempts, error texts and
timestamps (but `CreatedAt`, which orders the queue) are dropped; getters change
nothing. Batches stand for `1..128` events of one source. Lists of event and run
ids are sets: they only grow by new elements.

### AlertWorker

`worker.pc` follows `run` and `process` (`web/alerts.go:193-299`):
`boot`/`recovering` is `setAlertRuntime`; `claim`, `wait` the two loops;
`begin`, `investigate`, `structure`, `notify`, `record`, `finish`, `complete`
the stages of `process`; `failaudit` and `failjob` its two error exits; `return`
the deferred `failIfRunning`. An operation of the store and its `Commit` are two
steps with a place of their own (`claiming`, `completing`, `recovering`), so that
a crash falls in between and a handler waits for the mutex.

Model, tools and receivers are outside: an action chooses success or failure,
and with the context cancelled only failure. The audit store is the status of
each run and whether it holds a result; a failed audit write changes nothing
(its journal is the subject of `AuditTrail`). The audit store is taken to be
configured.

`ProcessCrash` may happen at any step; no signal handler exists, so SIGTERM is a
crash too. `Shutdown` is `closeAlertWorker`, which runs in the program when
`ListenAndServe` fails (`cli/server.go:259, 281`).

### AuditStore and AuditTrail

*State.* `runs` is the map of `Store`; a run has a status, its events, and whether
it holds a result and which calls that cites. `disk` is what a replay would
rebuild, `tail` the condition of the file's end, with the outcomes of an append
as for `AlertStore`. An event's sequence number is its index, so "numbered from
1 without a gap" is the shape of a sequence, and what can go wrong is that a
record does not *fit*: `Write(fits, ...)` says what a replay will check of the
line (the next number, a running run, calls that exist), and a line that is
whole but does not fit breaks the file like a torn one.

A tool call may be refused before it is written: its arguments are what a model
sent and may not be JSON (`audit/store.go:219-224`), or its line is too long.

*Authors.* `todo` is what a goroutine has still to do. `Begin` is
`beginAuditRun`; `AuditEvent`, `AuditResult`, `AuditFinish`, `Settle` are the
methods of `opsAuditRun` (`web/audit.go`), which ignore writes without a run or
after a finish and keep the first error; `Checked` is where `process`
(`web/alerts.go:236-280`) looks at that error. An alert is delivered to as many
receivers as one of `Deliveries` says, each of which leaves an event. `unwritten`
is a history variable: requests whose start, or whose last finish (the deferred
`failIfRunning`, which tries again what an earlier finish could not write), failed.
`Ask`, `CompleteFollowUp`,
`FollowUpEvent`, `FollowUpReply` are `web/run_followup.go`, which stops at its
first failed write and may add to a run that is still running.

*Abstractions.* Metadata, durations and texts are dropped; selected skills and
retrieved documents are events like tool calls. An operation holds the mutex from
check to map, so it is one step: a crash inside leaves what a crash after a failed
append leaves.

### ChangeProposal and ChangeApproval

*ChangeProposal.* A text is a sequence of tokens, the `old` of an edit one token:
enough to tell absent, unique and repeated apart. `Materialize` applies edits in
order to a copy, formats Go files (which removes `Blank`), and refuses a
proposal unless every file touched really changes
(`change/structured.go:352-542`). `ValidationCopy` is the workspace *as it is now*
with the changed files written over it, as `validators.go` builds it.

*ChangeApproval.* A preview goes from `NameFiles` or `Discover` (chosen paths)
through `Snapshot` (each path read again), up to two attempts, `Validate` and
`StorePending`. Discovery, model and validators choose their results; `Passing` are
the trees the external tools have nothing against. An apply is `Take` (delete, then
look at the lifetime), `Verify` file by file, `Stage`, then per file `CreateFile`
and `Finalize` (`os.Link`, `os.Remove` of the other name) or `BackUp` and `Swap`
(two renames). `Undo` puts back the file that failed half-way, `UnlinkCreated`,
`UnlinkReplaced` and `RenameBack` the others, the last one first. `RemoveBackup`
removes the backups one by one, after a publication (`approval.go:171`) as in the
deferred cleanup (`approval.go:108`); then `Finish` is the response. Each call that
touches the workspace or a backup is a step, and each may fail, those of the
roll-back too, whose errors the code ignores. So two applies, people (`EditByHand`),
failures and a crash come in between. `before`, `after`, `disturbed` and
`unrestored` (the files whose own roll-back failed) are history variables: what a
property says of an apply's outcome, it says of an apply nobody else's write
crossed, because the code compares and renames in separate system calls and promises
no more.

### ChatRun

`run[r].stage` follows `completeChat`: `queued` (`acquireGeneration`), `prefetch`,
`choose`, then `ask`, `send`, `answered` for each model call, with its purpose in
`for`, and `tools`. `index` and `planner` say whether the two tools of the host are
registered and allowed; without `planner` no plan is asked for. `Ask` is
`BeginModelCall`, `CallAnswered` is `FinishModelCall`, `CountedCall` is
`RecordToolCall`. `loop` is the loop's `maxCalls` less the calls made; it is
computed by `Choose` and `NextTurn` at the places the code subtracts. `Rejected`
switches the token parameter; every run shares `preferred`. An alert run asks for
its structured result after `Answer` gave the slot back, as `web/alerts.go:252`
does. Sizes of context and results are dropped: their limits may be found exhausted
at any point (`Fail(r, "sizes")`).

### McpSession

A request is `Register` (id and channel under the mutex), `Lock`, `Write` (which
blocks on a full pipe with the writer lock held), and the `select` of
`stdio.go:209-236` as three actions in no order: `Answered`, `DeadlineSeen` (which
sends the cancellation) and `DoneSeen`. `Read` and `Send` are `readLoop`, which
removes the pending entry before it sends; `Fail` and `Close` as in the code. The
host registers tools page by page (`HostGoesOn`) and closes a server whose start
fails. The process is this program's own `ServeStdio`, one request at a time, or
somebody else's: it always reads, answers in any order or never, may send a line
twice, send requests of its own, write garbage, or die. A caller is
`ToolRegistry.Execute`, whose refusals (unknown tool, policy, arguments) end it
before the server hears of it. One server is modelled: the others of a host appear
only as a reason for `Refuse` to close this one.

### BotGateway

`queue`, `remembered` (`seen` and `seenOrder`), `sessions` are the gateway's;
`poller` is `PollTelegram`, whose offset acknowledges an update when the queue has
taken it; `worker` is `run`. An update is a chat message, a command, one the
access check ignores, or one too garbled to have an id (id -1, so below every
offset). Sessions are kept least recently updated first, `Pruned(n)` being what
the time to live removes. The limits in bytes are dropped: any longer trimming
may happen. `accepted`, `since` and `exchanges` are history variables.

## 3. Runs

| Run | Asks | Bounds | Result |
|---|---|---|---|
| `AlertStore` | `NoDuplicateEvents`, `OneOpenIncident`, `OneJobPerIncident`, `IndexesExact`, `KeepsLedger` | 1 source, 3 deduplication and 2 correlation keys, 3 ids, batches of 1-2, any number of crashes, one `"bare"` append | holds |
| `AlertStoreQueue` | `TypeOK`, `EventsLinked`, `JournalMatchesMemory`, `AckedSurvive`, `AnswersMatchJobs` | 2 sources, 2 deduplication keys, 1 correlation key, 2 ids, 2 receive times, 1 run, 1 waiter, refused events, one `"none"` append | holds |
| `AlertWorker` | `WorkerTypeOK`, `OneJobAtATime`, `NoLostWakeup`, `SucceededJobHasRun`, `ResultBeforeNotice`, `RetriedOnlyAfterCrash`, `JobsEventuallyFinal`, `PendingEventuallyClaimed` | 2 sources, 2 ids, 4 runs, one crash or shutdown, one failed append (`"none"` or `"torn"`), one failed audit write | holds |
| `AuditTrail` | `TypeOK`, `JournalMirrorsMemory`, `AnsweredIsRecorded`, `EvidenceIsItsOwn`, `ReturnedIsSettled` | a chat, an alert job with two receivers, a follow-up to either, one call id, completions of one call, refused calls, one append that fails with nothing written or after the write, one crash | holds |
| `ChangeApproval` | `TypeOK`, `ApprovalUsedOnce`, `EvictedOnlyByNewer` | 1 file, 3 previews, 2 applies, 3 proposals, room for 2 pending changes, lifetime 2, clock up to 2, one mishap (an edit by hand, a failed file operation, a crash) | holds |
| `ChangeApprovalFiles` | `AppliedAsPreviewed`, `RejectedLeavesTree`, `CrashKeepsOriginal` | 3 files, one of which may be created, 2 previews, 2 applies, 5 proposals, 3 mishaps, the clock stands still | holds |
| `ChatRun` | `TypeOK`, `BudgetSuffices`, `SlotReturned` | a chat and an alert run, 3 tool calls, plans of 2, 5 model calls, 5 tokens, with and without an index and a plan tool, 2 endpoints | holds |
| `McpSession` | `TypeOK`, `DispatchedByID`, `StartedOrStopped`, `EveryCallEnds` | 2 calls, pipes of one line, 2 requests of the host, one noise line or death of the server | holds |
| `BotGateway` | `TypeOK`, `AcceptedOnce`, `HistoryIsADialogue` | 3 Telegram updates, 1 post that may repeat, 1 conversation per messenger, queue of 1, memory of 2 events, 1 session, histories of 4 messages, 5 accepted messages, one restart | holds |
| `AlertStoreTorn` | `SurviveRestart` | one `"torn"` append | violated |
| `AlertStoreUnsynced` | `RepeatedKeyOneJob` | one `"unsynced"` append | violated |
| `AlertWorkerClose` | `InterruptedBecomesPending` | one shutdown | violated |

Why the bounds are enough.

*Alert store and worker.* A key invariant relates two events, two incidents or
two jobs: two ids show a violation, and the third lets an incident open, resolve
and open again. Two events in a batch give every relation inside a batch; a
third event is another batch, before or after a crash. Two correlation keys
with one source (`AlertStore`) separate keys, one with two sources
(`AlertStoreQueue`) separates sources. One failed
append is enough because each leaves the same kind of file; after it
everything else is explored. In the worker, two jobs queue behind each other,
and four runs serve both jobs twice: a completion that fails leaves a running
job that a restart recovers. Three runs would cut such behaviours short. The two
sources tell the two jobs apart, and no symmetry is used, because the run has
liveness properties.

*AuditTrail.* The properties relate one run to its two possible writers; a chat
and an alert job differ in how they treat the handle, and the follow-up may write
to either while it is running. Two writers with the same call id are what
`EvidenceIsItsOwn` is about; completions with no call or several only lengthen the
same stories, and the proofs take any number of calls. Two receivers are the least
that leave events between which a write may fail; the theorems take any number, none
included. One failed append per behaviour: `"none"` must do no
harm, and is what lets a finish fail and be tried again; `"unsynced"` leaves a line
memory does not know, after which the next event reuses its number and the file is
refused. A refused file is exempt from every claim about it: that the start then
fails is documented, and no property catches it. `"bare"` and `"torn"` break the
file for the same reason as in the alert store, and `AuditTrailProofs` covers them.

*ChangeApproval.* Approvals and files are separate questions, so they have separate
runs. For approvals one file is enough: two applies race for an approval, and the
third preview is the one that needs room. For the files, a change of three gives a
first, a middle and a last one, created and replaced, with a failure before, between
and after them; three mishaps are a failed publication, a failed step of the
roll-back it causes, and a crash or an edit in between. The proposals are
clarifications, a change with a redundant edit, a plain change of three files, one
edited back, one with a protected path. File 1 may exist or not. The clock only
matters to pending changes.

*ChatRun.* Two runs compete for the slot and the client's parameter. Three tool
calls are the least for prefetch, plan and a planned check together, and without an
index for a plan, a check and a turn, or without a plan tool for turns alone; zero
and one remaining call are reached on the way. `MaxIterations` is `MaxToolCalls +
2`, the least for which the budget is promised to suffice.

*McpSession.* With pipes of one line a write blocks as soon as the other side
lags. Two callers share the lock, the ids and the read loop. One noise line is an
answer sent twice, a request of the server, garbage, or its death. The two ids of the
host are spent on `initialize` and one page of `tools/list`: a second page is in the
model, and in the theorems, but not in this run, whose states a third id multiplies.

*BotGateway.* A queue of one is full at once; three updates and a repeated post
through a memory of two let an event be forgotten and come back. One session for
two keys evicts; four messages are two exchanges, so trimming happens.

Deadlock is not checked where the system may stop: requests end, the bounds stop
new ones, and so does a host, a bot or a journal that is refused.

The three violated properties are statements of the documentation.

* **Torn record.** After a short write (or a crash in the write) `load` refuses
  the file, `serve` panics, and does so until somebody edits the file.
  `docs/operations/OPS_SERVER.md:558` says deduplication and correlation survive
  restart.
* **Failed Sync.** The record is in the file, the caller is told it is not. The
  provider's retry is stored again; after a restart one deduplication key has
  two events, two open incidents and two jobs.
* **Close.** Closing the worker cancels the investigation in progress, whose job
  is then completed as failed. `docs/operations/ALERT_CONTRACT.md:128` says an
  interrupted job becomes pending at the next start (a crash does that).

Each run that holds stays within these outcomes: `AlertStore` uses `"bare"`,
the worst failed append that breaks neither claim (the line is read after a
restart although its sender was told otherwise, until a second record is joined
to it); the others use `"none"`, and `AlertWorker` also `"torn"`, after which
the process goes on and no start succeeds. With `"unsynced"` the key invariants are
false, which is the second finding.

### Fairness

`AlertWorker`'s `FairSpec` assumes, and nothing more:

* `WF(Start)`, `WF(Exit)`: the supervisor restarts the process and a stopped
  process ends. `compose.yaml` restarts the service.
* `WF` of a handler inside `Ingest`: its steps are computation and one write.
* `SF(WorkerStep)`: the worker goroutine runs. Its calls are bounded by
  `context.WithTimeout(worker.ctx, requestTimeout)` (`alerts.go:240`) and its
  wait by a 30 second timer. Strong fairness, because handlers may take the
  mutex again and again: `sync.Mutex` hands the lock to a waiter starved for a
  millisecond, so the worker gets it.

New deliveries, crashes, shutdowns and failures are never forced to happen.
`JobsEventuallyFinal` excuses behaviours with a failed append: the code then
leaves the job running until the next start, and no restart is promised.
`PendingEventuallyClaimed` excuses only a torn record, with which no later start
succeeds. An audit write that fails excuses nothing.

`ChatRun`'s `FairSpec`: a run's own steps happen, its deadline comes
(`context.WithTimeout`), and an HTTP request whose context has ended returns. The
endpoint may never answer, and nobody is promised the slot. `SlotReturned` needs
all three: without the deadline a silent endpoint keeps the slot. That `ToolCall`
happens assumes that `Execute` returns. Its deadline sees to that for a tool that
listens to its context, but a call whose MCP server stops reading may block in the
write (`mcp/stdio.go:247`), which no deadline bounds; such a run keeps the slot
(section 5).

`McpSession`'s `FairSpec` is one weak fairness of `SystemStep`: while a goroutine
can run, a tool's timeout is due, or the server has a line to read, something
happens. Every such step is made finitely often (ids, timeouts and lines are
bounded), so no thread's own share has to be assumed. Answers of somebody else's
server, noise, deaths and `Close` are never forced. That such a server reads its
input *is* assumed: see the deadlock in section 5.

## 4. Proofs

TLC checks the properties for the sets of section 3; the theorems hold for every
value of the constants: any keys, batches, times, runs, callers, files, limits.
Every safety invariant and action property of a passing run is now a theorem;
what is not is listed at the end. Each follows from an inductive invariant: the
property itself seldom is one, and what it lacks is told below.

### Alert store (`AlertStoreProofs`, `AlertStoreSafety`)

* `TypeCorrect`, `StoreTypeOK`. `TypeOK` alone is not inductive: that `Commit`
  keeps types needs to know what a record under construction may contain.
  `TypeInv` adds it: while `Ingest` loops, the record holds entries below `next`
  (`LoopOK`); a completed record only holds a job whose new status the waiters
  may be told (`CompletionOK`).
* `StoreExact` proves the invariant `IInv`. The idea: the same three facts (keys
  unique, at most one open incident per key, indexes exact) hold of *memory*
  (`MemoryExact`), of *memory with the record under construction applied*
  (`StagedExact`), and of *the journal* (`DiskExact`), and `JournalExact` says
  which of the first two the journal equals. `Fresh` keeps `next` above every
  stored id; `Merged` says the working index and the stored one together index
  the staged events. The indexes `load` builds are chosen among several by map
  iteration order; unique keys make the choice unique. `DuplicatesExcluded`,
  `OneOpenPerKey`, `IndexesAnswerExactly` and `JournalIsMemory` follow.
* `StoreBelongs` proves `JInv`, `IInv` with the links. `Sound` says of contents
  that events and incidents point at each other, that a job bears the number of
  the firing event that opened its incident, and that its run is its incident's
  last; `Sounds` says it of memory, of the staged maps and of the journal, because
  a crash moves the last of them into the first. `RecordMoves` and `ClosedForGood`
  say how the record in hand may differ from memory (new jobs for new incidents,
  moves of jobs that are not final, nothing reopened), without which a `Commit`
  could undo what was final. `WaitsExact` is the waiters' part. `AlwaysLinked`,
  `AlwaysOneJob`, `AlwaysAnswered` follow, and the refinement: in `StoreKeepsLedger`
  the journal of a readable file is the state of `AlertLedger`, each append is one
  of its steps or a stutter, and `JInv` supplies what its guards ask for.
* Assumptions. `"unsynced" \notin Faults`: with it the properties are false
  (section 3). `AcceptedEventsSurvive` assumes `Faults \subseteq {"none"}`: a torn
  line makes the journal unreadable. `None` is no element of `Sources \X CorrKeys`:
  a fact about the stand-in for "no key", not about the code.

### Alert pipeline (`AlertWorkerProofs`)

* The lemma `StoreInPipeline` carries the store's theorems over: each action is
  built from one of `AlertStore` or leaves its variables alone. `PipelineKeepsKeys`
  and `PipelineKeepsLinks` state its invariants and its refinement for the whole
  process. `WorkerTypeCorrect` needs, beyond types, that a worker past `BeginRun`
  names a run.
* `PipelineTurns` proves `WInv`. None of the worker's invariants is inductive by
  itself, because a claim, a success and a completion change the store, the worker
  and the audit store one after the other, and a crash changes two of them. `Turns`
  says for each place of the worker what the other two hold. `Holding`: the record
  the mutex is held for is the one the worker asked for. `Claims`: the job in hand
  is running, and each other running job cost a failed append. `InRun` and
  `Backed`: what the audit store holds of the run in hand, and of the run a
  succeeded job of the *journal* names. `Budget`: the runs of a job are at most the
  crashes and shutdowns so far plus the turn this process has begun at it, a sum
  whose terms change in different steps. `AlwaysOneJobAtATime`, `WakeupNeverLost`,
  `SuccessHasRun`, `ResultAlwaysFirst`, `RetriesArePaid` follow, under the store's
  assumption on `Faults`.

### Audit store (`AuditTrailProofs`)

* `TypesAlways`, `JournalAlwaysMirrorsMemory`, for any authors, answers, number of
  crashes, and *all* ways in which an append may fail. `WriteKeeps` is the heart:
  one append keeps the file ahead of memory if the record keeps it ahead when it is
  whole and fits, and if memory equals the file whenever only clean failures
  happened. Each operation then has to show this of its own record.
* `StoriesAlways` proves `TInv`, from which `AnsweredAlwaysRecorded`,
  `EvidenceAlwaysOwn` and `ReturnedAlwaysSettled` follow. The last exempts only a
  request whose start or last finish could not be written (`unwritten`): whatever
  else failed, the deferred `failIfRunning` still finds the run open and ends it.
  The properties speak of authors who are done; `TInv` says of those at work that
  the list of steps ahead and the story told so far belong together (`Before`,
  `Between`, `After`, `Following`), and that the file tells this story as long as
  the file is accepted and the handle has no error (`Sure`). An error once
  remembered stays, so an author that is not sure can only refuse. The proof has two
  halves. What one step may change in the file is `Touches`: one event of the
  author's own at the end of some run, or the author's own run, events apart; under
  it everything kept for the *other* authors stays (`OthersStay`). Then each action
  shows what is kept for its own author.

### Changes (`ChangeApprovalProofs`)

* `MaterializeSound` is about the operator, for any number of edits: a file of the
  change has a text that differs from the snapshot's, its original is the
  snapshot's, an allowed edit names it, and a file it creates is not in the
  workspace. The edits applied so far are a recursive function (`EditsDone`); the
  induction over their number is made first-order, as the least number at which
  the claim fails, from the library's fact that `<` is well founded on `Nat`.
* `ApprovalTypes`, `AlwaysUsedOnce`, `AlwaysEvictedByNewer`,
  `AlwaysAppliedAsPreviewed`, `AlwaysRejectedLeavesTree`, `AlwaysKeepsOriginal`, for
  any workspace, proposals, requests and limits. Where an apply ends is decided by
  where it was: `Underway` says, while nobody else wrote, what each stage holds.
  `Verifying`: nothing has changed. `Halfway`: what was there of the files published
  so far, and of the one in hand, is in a backup; every other file is as it was; a
  file whose own roll-back failed may be anything. Rolling back shrinks `done`, so
  the same statement read backwards gives `RejectedLeavesTree`. Once the loop is
  through, `InPlace`: every file has its new text, and only then do backups go, one
  by one. `Stored` (what is pending is a change of a preview that is over, and none
  from the future) is what `EvictedOnlyByNewer` rests on; `Taken` is what
  `ApprovalUsedOnce` rests on.

### MCP session (`McpSessionProofs`)

* `SessionTypes`, `AlwaysDispatchedByID`, `AlwaysStartedOrStopped` and the action
  property `AlwaysClosedForGood`, for any number of callers, size of the pipes and
  lines of the server. `Numbered`: an id is behind `lastID` and belongs to one
  requester at most, and the callers that have one leave room for the others.
  `Fitting`: every line in a pipe, every request a server holds, every answer in the
  reader's hand or in a channel fits the request that waits under its id, if one
  still does. A late answer to an id nobody waits under fits everything, which is
  why giving up at a deadline keeps the invariant. `Handshake`: before the host is
  up there is no call on its way, and `notifications/initialized` goes ahead of
  every line that needs it.
* Assumptions. Finitely many callers, and `MaxID >= 2`: a start takes two ids, and
  the bound on ids would otherwise end a session the code goes on with.

### Bots (`BotGatewayProofs`)

* `BotTypes`, `AlwaysAcceptedOnce`, `AlwaysADialogue`, for any conversations,
  updates, posts and limits. `IntakeInv`: the remembered events are the latest
  accepted by this process (`Latest`), events of the accepted list that are equal
  lie further apart than the memory reaches (`Sparse`), and the offset is above
  every update taken (`Above`): the memory excludes repeated posts, the offset
  repeated updates. `TalkInv`: a session is the end of its conversation's delivered
  exchanges, question and answer in turn, and so is the history in the worker's
  hand, but for the new question; trimming drops from the front in pairs.

### Chat run (`ChatRunProofs`)

* `RunTypes`, `BudgetAlwaysSuffices`, for any requests, limits and endpoints.
  `BudgetSuffices` says how a run may not *end*; why it cannot is said of a run
  under way. `IInv` adds it per run: `CallsFit` (what a plan or a turn may still
  make, plus what was made, stays within the tool calls), `IterationsFit` (every
  model call but the last two is followed by a tool call), `TokensFit` (a
  reservation is part of what is charged). Each action changes one run, so its
  proof is that `RunOK` of the new record follows from `RunOK` of the old one.

### What the proofs changed in the models

* `AuditTrail`. The list ahead of an investigation that notified nobody held two
  looks at the handle's error in a row; after the first, no action took the second,
  and the alert was stuck. The invariant could not be stated for that list. TLC had
  not objected, since a stuck alert violates no safety property, and deadlock is not
  checked where others may go on. `Conclusion` has one look in that case.
* `AuditTrail`. "The events by an author, in order" was a filter of the sequence,
  which the provers cannot unfold; `Tells` says the same by the places of the
  events: in the order of the story, all of it, and all of the author's.
  `BotGateway`'s filters became `Has`, `Position`, `Without` and `MessagesOf`, and
  the folds of `ChangeProposal` recursive functions, for the same reason.
* `ChangeApproval` had a stage no action entered; it is gone.

### Only model-checked

The liveness properties (`JobsEventuallyFinal`, `PendingEventuallyClaimed`,
`SlotReturned`, `EveryCallEnds`): the prover does not reason about fairness and
ENABLED. The three violated runs are counterexamples, which need no proof.

## 5. Not modelled

*Whole components.* RAG, corpus, skills, VictoriaMetrics, instructions, result
validation and flag parsing are pure functions or plain I/O with no protocol: what
could be said of them is what their text says. The notification dispatcher calls
each receiver once, in parallel, and collects by index: here a delivery succeeds
or fails. The read-only handlers change nothing. Alert keys are derived by
formatting and hashing; the alert store takes them as given.

*Inside modelled components*, with what it means for the results:

* A file whose own roll-back failed is in the model and exempt from
  `RejectedLeavesTree` and `CrashKeepsOriginal`: the code ignores the error and its
  deferred cleanup removes the backup (`change/approval.go:107-115, 178-185`), so the
  text of that file may be gone. The properties say that it is that file only.
* Writes by others between the comparison and the rename of an apply are in the
  model, and such an apply is excused by `disturbed`: it may overwrite them, and
  no property speaks against that.
* Discovery's scores, prompts, the unified diff, the parsing of model answers and
  validator preflight: choices or refusals.
* A server that stops reading until its own requests are answered. The read loop
  answers requests through the writer lock (`mcp/stdio.go:282`), so with both pipes
  full it would wait for ever, and no deadline bounds the lock or the write
  (`stdio.go:247`). The servers of the model always read.
* `serve` starts MCP servers without a deadline (`cli/server.go:149`): a silent
  server keeps it from starting. `HostGoesOn` waits for ever too; nothing promises
  otherwise, so no property says more.
* An update garbled beyond its id has the id -1 and is skipped as old
  (`telegram_polling.go:87`) before it would be reported; as the last of its batch
  it is fetched again and again. Modelled, promised nowhere.
* An alert's structured result is asked for without the generation slot
  (`web/alerts.go:252`), although `docs/operations/OPS_SERVER.md:432` says one
  generation runs at a time. The model does what the code does; a property would
  only restate this line.
* A run interrupted by a crash stays `running` in the audit journal: nothing
  finishes it, and nothing says that something should.

## 6. Plan

Done: `AlertLedger`, `AlertStore`, `AlertWorker`; `AuditStore`, `AuditTrail`;
`ChangeProposal`, `ChangeApproval`; `ChatRun`; `McpSession`; `BotGateway`; their
runs, and the proofs of section 4. Every module is written to be proved about:
constants with named assumptions, one action per operation, recursion by recursive
functions and never by RECURSIVE operators.

Proofs to add:

1. Action properties the invariants already carry: a final job of the journal stays
   final and a closed incident closed (`AlertStore`), an acknowledged event of a run
   is never changed (`AuditStore`), an accepted message never leaves the list of
   accepted ones (`BotGateway`).
2. `ChatRun`: the slot is held by at most one run and by a run that is inside
   `completeChat`, the safety half of `SlotReturned`.
3. `AlertStore` with `"unsynced"`: what still holds there (memory's own indexes,
   and the journal of a process that has not had such a failure).

Models to add: the derivation of alert keys as pure operators against their
reference, and a host of several MCP servers.
