------------------------------ MODULE AuditTrail ------------------------------
(***************************************************************************)
(* Who writes to the audit store: web/audit.go, the handlers that audit a  *)
(* request, web/alerts.go's process, and web/run_followup.go.              *)
(*                                                                         *)
(* A request works on a run of its own through a handle that remembers the *)
(* first failed write instead of reporting it; a chat goes on regardless,  *)
(* an alert's investigation looks at the handle between its stages.  A     *)
(* follow-up adds to any stored run, one still running included, and stops *)
(* at its first failed write.                                              *)
(*                                                                         *)
(* `todo` is what the author's goroutine has still to do, a sequence of    *)
(* steps <<what, argument>>.  Model, tools and receivers are outside: a    *)
(* step chooses what they answer.  Selected skills and retrieved documents *)
(* are events like the tool calls and are left out.                        *)
(***************************************************************************)
EXTENDS AuditStore

CONSTANTS
    Chats,      \* chat requests, each the name of its run
    Alerts,     \* alert jobs, each the name of its run
    FollowUps,  \* follow-up requests
    Answers,    \* the sequences of tool calls a completion may make
    Deliveries, \* how many receivers an alert may be delivered to
    MaxCrashes  \* bound: crashes of the process

Requests == Chats \cup Alerts

ASSUME AuthorsAssumption ==
    /\ Runs = Requests /\ Authors = Requests \cup FollowUps
    /\ FollowUps \cap Requests = {} /\ Chats \cap Alerts = {}
    /\ Answers \subseteq Seq(CallIds)
    /\ Deliveries \subseteq Nat
    /\ MaxCrashes \in Nat

VARIABLES
    todo,     \* per author, the steps ahead
    stage,    \* "idle", "busy", "returned", or "lost" in a crash
    handle,   \* opsAuditRun, per request
    calls,    \* the tool calls of the author's completion
    target,   \* per follow-up, the run it is about
    answer,   \* what the author was told
    unwritten,  \* requests whose start, or last finish, could not be written
    crashes

authorVars == <<todo, stage, handle, calls, target, answer, unwritten, crashes>>
vars == <<storeVars, authorVars>>

NoHandle == [id |-> FALSE, finished |-> FALSE, err |-> FALSE]

Init ==
    /\ StoreInit
    /\ todo = [a \in Authors |-> <<>>]
    /\ stage = [a \in Authors |-> "idle"]
    /\ handle = [a \in Requests |-> NoHandle]
    /\ calls = [a \in Authors |-> <<>>]
    /\ target = [f \in FollowUps |-> None]
    /\ answer = [a \in Authors |-> "none"]
    /\ unwritten = {}
    /\ crashes = 0

Step(what) == <<what, None>>
Steps(whats) == [i \in DOMAIN whats |-> Step(whats[i])]
CallSteps(c) == [i \in DOMAIN c |-> <<"tool_call", c[i]>>]
Event(a, step) == [by |-> a, type |-> step[1], call |-> step[2]]

Comes(rest, what) == rest # <<>> /\ Head(rest)[1] = what
At(a, what) == up /\ Comes(todo[a], what)
Advance(a, rest) == todo' = [todo EXCEPT ![a] = rest]
-----------------------------------------------------------------------------
(* Requests. *)

\* beginAuditRun(As): without a run, the handle ignores every later write.
Begin(a, outcome) ==
    /\ stage[a] = "idle"
    /\ StartRun(a, outcome)
    /\ stage' = [stage EXCEPT ![a] = "busy"]
    /\ handle' = [handle EXCEPT ![a].id = outcome = "ok",
                                ![a].err = outcome # "ok"]
    /\ unwritten' = unwritten \cup (IF outcome = "ok" THEN {} ELSE {a})
    /\ Advance(a, IF a \in Alerts
                  THEN Steps(<<"alert_received", "check", "chat">>)
                  ELSE Steps(<<"chat">>))
    /\ UNCHANGED <<calls, target, answer, crashes>>

\* The error exits: failAuditJob; failJob; the error response of a chat.
\* The last step is the deferred failIfRunning.
FailAudit == Steps(<<"fail", "refuse", "settle">>)
FailJob == Steps(<<"refuse", "settle">>)

Unchecked(rest, err) ==   \* mutant: the handle's error is not looked at
    IF Comes(rest, "check") \/ Comes(rest, "recheck") THEN Tail(rest) ELSE rest

\* What follows: process looks at the handle's error between its stages.
Checked(rest, err) ==
    CASE Comes(rest, "check") -> IF err THEN FailAudit ELSE Tail(rest)
      [] Comes(rest, "recheck") -> IF err THEN FailJob ELSE Tail(rest)
      [] OTHER -> rest

\* completeChat, for a request.
Complete(a) ==
    /\ At(a, "chat") /\ a \in Requests
    /\ \/ /\ Advance(a, IF a \in Alerts THEN FailAudit ELSE FailJob)
          /\ UNCHANGED calls
       \/ \E c \in Answers :
            /\ calls' = [calls EXCEPT ![a] = c]
            /\ Advance(a, Checked(CallSteps(c) \o
                 IF a \in Alerts THEN Steps(<<"check", "structure">>)
                 ELSE Steps(<<"succeed", "answer", "settle">>), handle[a].err))
    /\ UNCHANGED <<storeVars, stage, handle, target, answer, unwritten, crashes>>

\* What follows a structured result: one event per receiver, and a second look
\* at the handle's error, which without a receiver sees what the first one saw.
Deliver(n) == [i \in 1..n |-> "notification_delivery"]
Succeed == <<"succeed", "recheck", "answer", "settle">>
Conclusion(n) ==
    Steps(<<"investigation_result", "check">> \o
          (IF n = 0 THEN Succeed ELSE Deliver(n) \o (<<"check">> \o Succeed)))

\* structureInvestigationResult: a result that cites other calls than those of
\* the completion is an error.
Structure(a) ==
    /\ At(a, "structure")
    /\ \/ Advance(a, FailAudit)
       \/ \E evidence \in SUBSET {calls[a][i] : i \in DOMAIN calls[a]},
             n \in Deliveries :
            Advance(a, <<<<"result", evidence>>>> \o Conclusion(n))
    /\ UNCHANGED <<storeVars, stage, handle, calls, target, answer, unwritten, crashes>>

\* A write through the handle: nothing without a run or after the finish, and
\* an error is only remembered.
Ignores(a) == ~handle[a].id \/ handle[a].finished
Remember(a, outcome) ==
    handle' = [handle EXCEPT ![a].err = @ \/ outcome # "ok"]

AuditEvent(a, outcome) ==
    /\ a \in Requests /\ up /\ todo[a] # <<>> /\ Head(todo[a])[1] \in Types
    /\ IF Ignores(a) THEN outcome = "ok" /\ UNCHANGED <<storeVars, handle>>
       ELSE /\ AddEvent(a, Event(a, Head(todo[a])), TRUE, outcome)
            /\ Remember(a, outcome)
    /\ Advance(a, Checked(Tail(todo[a]), handle'[a].err))
    /\ UNCHANGED <<stage, calls, target, answer, unwritten, crashes>>

AuditResult(a, outcome) ==
    /\ At(a, "result")
    /\ IF Ignores(a) THEN outcome = "ok" /\ UNCHANGED <<storeVars, handle>>
       ELSE /\ SetInvestigationResult(a, Head(todo[a])[2], outcome)
            /\ Remember(a, outcome)
    /\ Advance(a, Checked(Tail(todo[a]), handle'[a].err))
    /\ UNCHANGED <<stage, calls, target, answer, unwritten, crashes>>

\* finish: only a finish that succeeded stops the deferred one.
Finish(a, status, outcome) ==
    /\ IF Ignores(a) THEN outcome = "ok" /\ UNCHANGED <<storeVars, handle>>
       ELSE /\ FinishRun(a, status, outcome)
            /\ handle' = [handle EXCEPT ![a].err = @ \/ outcome # "ok",
                                        ![a].finished = outcome = "ok"]

AuditFinish(a, outcome) ==
    /\ \/ At(a, "succeed") /\ Finish(a, "succeeded", outcome)
       \/ At(a, "fail") /\ Finish(a, "failed", outcome)
    /\ Advance(a, Checked(Tail(todo[a]), handle'[a].err))
    /\ UNCHANGED <<stage, calls, target, answer, unwritten, crashes>>

SettleUnlessFailed(a, outcome) ==   \* mutant: failIfRunning gives up after an error
    /\ At(a, "settle")
    /\ IF handle[a].err THEN outcome = "ok" /\ UNCHANGED <<storeVars, handle>>
       ELSE Finish(a, "failed", outcome)
    /\ unwritten' = unwritten \cup (IF outcome = "ok" THEN {} ELSE {a})
    /\ Advance(a, <<>>)
    /\ stage' = [stage EXCEPT ![a] = "returned"]
    /\ UNCHANGED <<calls, target, answer, crashes>>

\* The deferred failIfRunning, which tries again what an earlier finish could
\* not write, and the return.
Settle(a, outcome) ==
    /\ At(a, "settle") /\ Finish(a, "failed", outcome)
    /\ unwritten' = unwritten \cup (IF outcome = "ok" THEN {} ELSE {a})
    /\ Advance(a, <<>>)
    /\ stage' = [stage EXCEPT ![a] = "returned"]
    /\ UNCHANGED <<calls, target, answer, crashes>>

\* The response, or the job's completion in the alert store.
Reply(a) ==
    /\ a \in Requests
    /\ \/ At(a, "answer") /\ answer' = [answer EXCEPT ![a] = "ok"]
       \/ At(a, "refuse") /\ answer' = [answer EXCEPT ![a] = "refused"]
    /\ Advance(a, Tail(todo[a]))
    /\ UNCHANGED <<storeVars, stage, handle, calls, target, unwritten, crashes>>
-----------------------------------------------------------------------------
(* Follow-ups. *)

Return(f, told) ==
    /\ Advance(f, <<>>)
    /\ stage' = [stage EXCEPT ![f] = "returned"]
    /\ answer' = [answer EXCEPT ![f] = told]

Ask(f, r) ==
    /\ up /\ stage[f] = "idle" /\ runs[r] # None
    /\ stage' = [stage EXCEPT ![f] = "busy"]
    /\ target' = [target EXCEPT ![f] = r]
    /\ Advance(f, Steps(<<"started", "chat">>))
    /\ UNCHANGED <<storeVars, handle, calls, answer, unwritten, crashes>>

\* completeChat, for a follow-up.
CompleteFollowUp(f) ==
    /\ At(f, "chat") /\ f \in FollowUps
    /\ \/ Advance(f, Steps(<<"failed">>)) /\ UNCHANGED calls
       \/ \E c \in Answers :
            /\ calls' = [calls EXCEPT ![f] = c]
            /\ Advance(f, CallSteps(c) \o Steps(<<"succeeded", "answer">>))
    /\ UNCHANGED <<storeVars, stage, handle, target, answer, unwritten, crashes>>

FollowUpEventGoesOn(f, outcome) ==   \* mutant: a failed write is skipped over
    /\ f \in FollowUps /\ up /\ todo[f] # <<>> /\ Head(todo[f])[1] \in Types
    /\ AddEvent(target[f], Event(f, Head(todo[f])), FALSE, outcome)
    /\ IF Tail(todo[f]) = <<>> THEN Return(f, "refused")
       ELSE Advance(f, Tail(todo[f])) /\ UNCHANGED <<stage, answer>>
    /\ UNCHANGED <<handle, calls, target, unwritten, crashes>>

\* The error of a write is a 503, but for the "failed" event, which comes
\* before an error response anyhow.
FollowUpEvent(f, outcome) ==
    /\ f \in FollowUps /\ up /\ todo[f] # <<>> /\ Head(todo[f])[1] \in Types
    /\ AddEvent(target[f], Event(f, Head(todo[f])), FALSE, outcome)
    /\ IF outcome # "ok" \/ Head(todo[f])[1] = "failed" THEN Return(f, "refused")
       ELSE Advance(f, Tail(todo[f])) /\ UNCHANGED <<stage, answer>>
    /\ UNCHANGED <<handle, calls, target, unwritten, crashes>>

FollowUpReply(f) ==
    /\ At(f, "answer") /\ f \in FollowUps
    /\ Return(f, "ok")
    /\ UNCHANGED <<storeVars, handle, calls, target, unwritten, crashes>>
-----------------------------------------------------------------------------
(* The process.  Every goroutine is lost with it; nobody resumes a run. *)

Crash ==
    /\ crashes < MaxCrashes /\ crashes' = crashes + 1
    /\ StopProcess
    /\ stage' = [a \in Authors |-> IF stage[a] = "busy" THEN "lost" ELSE stage[a]]
    /\ todo' = [a \in Authors |-> <<>>]
    /\ handle' = [a \in Requests |-> NoHandle]
    /\ UNCHANGED <<calls, target, answer, unwritten>>

Restart == Open /\ UNCHANGED authorVars

RequestStep(a) ==
    \/ Complete(a) \/ Structure(a) \/ Reply(a)
    \/ \E o \in Outcomes \cup {"refused"} :
         Begin(a, o) \/ AuditEvent(a, o) \/ AuditResult(a, o) \/ AuditFinish(a, o)
         \/ Settle(a, o)

FollowUpStep(f) ==
    \/ \E r \in Runs : Ask(f, r)
    \/ CompleteFollowUp(f) \/ FollowUpReply(f)
    \/ \E o \in Outcomes \cup {"refused"} : FollowUpEvent(f, o)

Next ==
    \/ \E a \in Requests : RequestStep(a)
    \/ \E f \in FollowUps : FollowUpStep(f)
    \/ Crash \/ Restart

Spec == Init /\ [][Next]_vars
-----------------------------------------------------------------------------
Whats == Types \cup {"check", "recheck", "chat", "structure", "result",
                     "succeed", "fail", "answer", "refuse", "settle"}

TypeOK ==
    /\ StoreTypeOK
    /\ todo \in [Authors -> Seq(Whats \X (CallIds \cup (SUBSET CallIds) \cup {None}))]
    /\ stage \in [Authors -> {"idle", "busy", "returned", "lost"}]
    /\ handle \in [Requests -> [id : BOOLEAN, finished : BOOLEAN, err : BOOLEAN]]
    /\ calls \in [Authors -> Seq(CallIds)]
    /\ target \in [FollowUps -> Runs \cup {None}]
    /\ answer \in [Authors -> {"none", "ok", "refused"}]
    /\ unwritten \subseteq Requests
    /\ crashes \in 0..MaxCrashes

\* Failures that leave nothing in the file do no harm: the file is accepted and
\* equals memory, so no sequence number was skipped or used twice.
CleanFailuresHarmless ==
    faults \subseteq {"none"} =>
        tail = "clean" /\ (up => runs = disk)

\* Memory against the file, after clean failures and after dirty ones.
JournalMirrorsMemory == CleanFailuresHarmless /\ AcknowledgedIsRecorded

\* The events by `a` are those of `story`, in its order.
Own(events, a) == {k \in DOMAIN events : events[k].by = a}
Tells(events, a, story) ==
    \E at \in [DOMAIN story -> Own(events, a)] :
        /\ \A i \in DOMAIN story : events[at[i]] = story[i]
        /\ \A i, j \in DOMAIN story : i < j => at[i] < at[j]
        /\ \A k \in Own(events, a) : \E i \in DOMAIN story : at[i] = k

Calling(a, c) == [i \in DOMAIN c |-> Event(a, <<"tool_call", c[i]>>)]
Lead(a, what) == <<Event(a, Step(what))>>
Notified(a, n) == [i \in 1..n |-> Event(a, Step("notification_delivery"))]

\* The story an author that was answered ok must have left in its run.
AlertStory(a) ==
    Lead(a, "alert_received") \o Calling(a, calls[a]) \o Lead(a, "investigation_result")
FollowUpStory(f) ==
    Lead(f, "started") \o Calling(f, calls[f]) \o Lead(f, "succeeded")

\* A job completed as succeeded, and a follow-up answered, have their whole
\* story in the file: every call once and in order, whatever other authors
\* wrote to the same run meanwhile, and whatever crashed since
\* (alerts.go:236-280, run_followup.go:54-75).
AnsweredIsRecorded ==
    tail # "broken" =>
        /\ \A a \in Alerts : answer[a] = "ok" =>
             /\ disk[a].status = "succeeded" /\ disk[a].concluded
             /\ \E n \in Deliveries :
                  Tells(disk[a].events, a, AlertStory(a) \o Notified(a, n))
        /\ \A f \in FollowUps : answer[f] = "ok" =>
             Tells(disk[target[f]].events, f, FollowUpStory(f))

\* A result cites only calls that the investigation itself recorded, never a
\* call of the same id that a follow-up added to the run meanwhile
\* (store.go:277, alerts.go:247-251).
EvidenceIsItsOwn ==
    \A a \in Alerts : disk[a] # None /\ disk[a].concluded =>
        disk[a].evidence \subseteq
            {disk[a].events[i].call : i \in {j \in DOMAIN disk[a].events :
                disk[a].events[j].by = a /\ disk[a].events[j].type = "tool_call"}}

\* A request that returned leaves no running run, in memory or in the file,
\* whatever else failed before: a finish that could not be written is tried
\* again by the deferred one.  Only a request whose start, or whose last finish,
\* could not be written is exempt (audit.go:116-130, server.go:379,
\* alerts.go:232).
ReturnedIsSettled ==
    \A a \in Requests : stage[a] = "returned" /\ a \notin unwritten =>
        /\ up => ~IsRunning(runs, a)
        /\ tail # "broken" => ~IsRunning(disk, a)
=============================================================================
