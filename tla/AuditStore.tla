------------------------------ MODULE AuditStore ------------------------------
(***************************************************************************)
(* The audit store: internal/audit/store.go.                               *)
(*                                                                         *)
(* A run is started, collects events numbered from 1, may receive one      *)
(* structured result, and is finished.  Each operation holds the mutex,    *)
(* writes one JSON line, and only then changes the maps; a crash inside an *)
(* operation leaves what a crash after a failed one leaves, so an          *)
(* operation is one step.  Unlike the alert store's, the replay of this    *)
(* journal checks every line against those before it, and refuses the      *)
(* file at the first that does not fit.                                    *)
(*                                                                         *)
(* Representation.  The journal is kept as the runs a replay rebuilds      *)
(* (`disk`) and the condition of its end (`tail`): "broken" once Open      *)
(* refuses it.  Metadata, times, arguments and texts are dropped.          *)
(***************************************************************************)
EXTENDS Naturals, Sequences, FiniteSets

CONSTANTS
    Runs,       \* run ids
    Authors,    \* who writes: requests and follow-ups
    CallIds,    \* ids a model gives to its tool calls
    Faults,     \* ways an append may fail
    MaxFaults,  \* bound: appends that fail in a behaviour, each way once
    None        \* no run, no call, no result

Types == {"alert_received", "tool_call", "investigation_result",
          "notification_delivery", "started", "failed", "succeeded"}
Events == [by : Authors, type : Types, call : CallIds \cup {None}]
RunRecords == [status : {"running", "succeeded", "failed"},
               events : Seq(Events),
               concluded : BOOLEAN, evidence : SUBSET CallIds]

ASSUME AuditConstants ==
    /\ Faults \subseteq {"none", "unsynced", "bare", "torn"}
    /\ MaxFaults \in Nat
    /\ None \notin CallIds /\ None \notin RunRecords

VARIABLES
    up,      \* the process holds the store open
    runs,    \* Store.runs
    disk,    \* the runs a replay of the file rebuilds
    tail,    \* how the file ends: "clean", "bare" (no newline) or "broken"
    faults   \* the ways in which an append has failed

storeVars == <<up, runs, disk, tail, faults>>

NewRunNoStatus ==   \* mutant: the literal lacks its Status
    [status |-> "", events |-> <<>>, concluded |-> FALSE, evidence |-> {}]

NoRuns == [r \in Runs |-> None]
NewRun == [status |-> "running", events |-> <<>>,
           concluded |-> FALSE, evidence |-> {}]

StoreInit ==
    /\ up = TRUE /\ runs = NoRuns /\ disk = NoRuns /\ tail = "clean"
    /\ faults = {}
-----------------------------------------------------------------------------
(* Store.append.  "ok": written and synced.  "none": nothing is written.    *)
(* "unsynced": written, but Sync fails.  "torn": cut short.  "bare": all    *)
(* but the newline, which a scanner accepts, until the next line joins it.  *)

Outcomes == {"ok"} \cup Faults

Append2File(fits, contents, outcome) ==
    LET whole == tail = "clean" /\ fits /\ outcome # "torn"
    IN  /\ outcome # "ok" => outcome \notin faults /\ Cardinality(faults) < MaxFaults
        /\ faults' = faults \cup ({outcome} \ {"ok"})
        /\ disk' = IF whole /\ outcome # "none" THEN contents ELSE disk
        /\ tail' = CASE outcome = "none" -> tail
                     [] outcome # "none" /\ ~whole -> "broken"
                     [] outcome = "bare" /\ whole -> "bare"
                     [] OTHER -> "clean"

\* Mutant: the maps are changed although the append failed.
WriteFirst(fits, contents, changed, outcome) ==
    /\ up /\ UNCHANGED up
    /\ Append2File(fits, contents, outcome)
    /\ runs' = changed

\* One record: in the file, then, if that succeeded, in memory.
Write(fits, contents, changed, outcome) ==
    /\ up /\ UNCHANGED up
    /\ Append2File(fits, contents, outcome)
    /\ runs' = IF outcome = "ok" THEN changed ELSE runs

\* An operation whose precondition fails returns an error.
Refused(outcome) == outcome = "refused" /\ UNCHANGED storeVars

WithEvent(R, r, e) == [R EXCEPT ![r].events = @ \o <<e>>]
WithStatus(R, r, s) == [R EXCEPT ![r].status = s]
WithEvidence(R, r, x) == [R EXCEPT ![r].concluded = TRUE, ![r].evidence = x]
IsRunning(R, r) == R[r] # None /\ R[r].status = "running"

StartRun(r, outcome) ==
    /\ runs[r] = None
    /\ outcome \in Outcomes
    /\ Write(disk[r] = None, [disk EXCEPT ![r] = NewRun],
             [runs EXCEPT ![r] = NewRun], outcome)

\* addEvent; a replay wants the event's number to be the next one.  A tool call
\* is refused when its arguments are not JSON, which a model may send, or when
\* its line would be too long.
AddEvent(r, e, requireRunning, outcome) ==
    IF runs[r] = None \/ (requireRunning /\ ~IsRunning(runs, r))
    THEN Refused(outcome)
    ELSE \/ e.type = "tool_call" /\ Refused(outcome)
         \/ /\ outcome \in Outcomes
            /\ Write(disk[r] # None /\ Len(disk[r].events) = Len(runs[r].events),
                     WithEvent(disk, r, e), WithEvent(runs, r, e), outcome)

FinishRun(r, status, outcome) ==
    IF ~IsRunning(runs, r) THEN Refused(outcome)
    ELSE /\ outcome \in Outcomes
         /\ Write(IsRunning(disk, r), WithStatus(disk, r, status),
                  WithStatus(runs, r, status), outcome)

References(R, r) ==
    {R[r].events[i].call : i \in {j \in DOMAIN R[r].events :
                                    R[r].events[j].type = "tool_call"}}

Concludes(R, r, evidence) ==
    /\ IsRunning(R, r) /\ ~R[r].concluded
    /\ evidence \subseteq References(R, r)

SetInvestigationResult(r, evidence, outcome) ==
    IF ~Concludes(runs, r, evidence) THEN Refused(outcome)
    ELSE /\ outcome \in Outcomes
         /\ Write(Concludes(disk, r, evidence), WithEvidence(disk, r, evidence),
                  WithEvidence(runs, r, evidence), outcome)

\* Open replays the file; a run nobody finished comes back as running.
Open ==
    /\ ~up /\ tail # "broken"
    /\ up' = TRUE /\ runs' = disk
    /\ UNCHANGED <<disk, tail, faults>>

StopProcess ==
    /\ up
    /\ up' = FALSE /\ runs' = NoRuns
    /\ UNCHANGED <<disk, tail, faults>>
-----------------------------------------------------------------------------
StoreTypeOK ==
    /\ up \in BOOLEAN
    /\ runs \in [Runs -> RunRecords \cup {None}]
    /\ disk \in [Runs -> RunRecords \cup {None}]
    /\ tail \in {"clean", "bare", "broken"}
    /\ faults \subseteq Faults

\* The run `m` in memory and the run `d` in the file: the file knows at least
\* as much, and agrees on all that memory holds.
Recorded(m, d) ==
    /\ d # None
    /\ Len(m.events) <= Len(d.events)
    /\ \A i \in 1..Len(m.events) : m.events[i] = d.events[i]
    /\ m.status # "running" => d.status = m.status
    /\ m.concluded => d.concluded /\ d.evidence = m.evidence

\* What an operation acknowledged can be replayed: as long as Open accepts the
\* file, it holds all that memory holds, even after appends that failed
\* half-way and left in it a line memory does not know (store.go:233-236,
\* 258-263, 281-287).
AcknowledgedIsRecorded ==
    up /\ tail # "broken" =>
        \A r \in Runs : runs[r] # None => Recorded(runs[r], disk[r])
=============================================================================
