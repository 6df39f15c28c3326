------------------------------- MODULE ChatRun -------------------------------
(***************************************************************************)
(* Chat and alert investigations: completeChat of web/server.go with the   *)
(* generation slot, the tool loop and the client of                        *)
(* clients/openai/tool_client.go, the budget of runbudget/budget.go, and   *)
(* the structured result of web/investigation.go.                          *)
(*                                                                         *)
(* A run waits for the slot, searches the knowledge index, asks the model  *)
(* for a plan, makes the planned checks, and lets the model call tools     *)
(* until it answers; then it gives the slot back.  An alert run asks the   *)
(* model once more, without the slot.  All model calls share the client,   *)
(* which learns how the endpoint wants its token limit to be called.       *)
(*                                                                         *)
(* Left out: the texts, and with them the sizes of context and results,    *)
(* whose limits may be found exhausted at any time; the skills.            *)
(***************************************************************************)
EXTENDS Integers, FiniteSets

CONSTANTS
    Runs, Alerts,      \* requests; those that also structure their answer
    MaxToolCalls,      \* server.maxToolCalls
    MaxPlanItems,      \* maximumOpsPlanItems
    MaxIterations, MaxModelTokens,   \* runBudgetLimits
    MaxTokens,         \* what a request asks for
    Indexes, Planners, \* may there be a knowledge index, a tool to submit a plan?
    Endpoints,         \* sets of parameters an endpoint may accept
    None

Parameters == {"max_tokens", "max_completion_tokens"}

\* How a run ends: the request's own limits, the deadline, a limit of the
\* budget, the endpoint, what the model answered.
Errors == {"invalid", "deadline", "sizes", "tool_calls", "iterations", "model_tokens",
           "parameter", "upstream", "overrun", "bad_plan", "bad_call", "exceeded",
           "bad_structure"}
Ends == Errors \cup {"done", None}

ASSUME RunAssumption ==
    /\ Alerts \subseteq Runs /\ None \notin Runs /\ None \notin Errors
    /\ MaxToolCalls \in Nat /\ MaxPlanItems \in Nat /\ MaxTokens \in Nat \ {0}
    /\ MaxIterations \in Nat \ {0} /\ MaxModelTokens \in Nat \ {0}
    /\ Indexes \subseteq BOOLEAN /\ Planners \subseteq BOOLEAN
    /\ \A accepted \in Endpoints : accepted # {} /\ accepted \subseteq Parameters

VARIABLES
    slot,       \* the run that holds generationSlot, or None
    preferred,  \* client.tokenLimitParameter
    run,        \* per run, its state
    accepts,    \* parameters the endpoint accepts
    index,      \* whether the knowledge search tool exists and is allowed
    planner     \* the same of the tool that submits a plan

vars == <<slot, preferred, run, accepts, index, planner>>
world == <<accepts, index, planner>>

\* `stage` is what it does next, `for` the model call's purpose, `left` the
\* tool calls of the plan or the turn still to make, `made` the result's calls.
NewRun == [stage |-> "idle", for |-> None, left |-> 0, made |-> 0, loop |-> 0,
           iterations |-> 0, tokens |-> 0, counted |-> 0, reserved |-> 0,
           sent |-> None, attempt |-> 0, expired |-> FALSE, end |-> None]

Init ==
    /\ slot = None /\ preferred = "max_tokens"
    /\ run = [r \in Runs |-> NewRun]
    /\ accepts \in Endpoints /\ index \in Indexes /\ planner \in Planners

Over(r) == run[r].stage = "over"
End(how) == [NewRun EXCEPT !.stage = "over", !.end = how]
Release(r) == slot' = IF slot = r THEN None ELSE slot

FailKeeping(r, how) ==   \* mutant: an error path that keeps the slot
    /\ run' = [run EXCEPT ![r] = End(how)]
    /\ UNCHANGED <<slot, preferred, world>>

\* An error of any step ends the run; the slot is given back by a defer.
Fail(r, how) ==
    /\ run' = [run EXCEPT ![r] = End(how)]
    /\ Release(r)
    /\ UNCHANGED <<preferred, world>>

Go(r, next) ==
    /\ run' = [run EXCEPT ![r] = next]
    /\ UNCHANGED <<slot, preferred, world>>
-----------------------------------------------------------------------------
(* Tracker. *)

\* RecordToolCall.
MayCallTool(r) == run[r].counted < MaxToolCalls
CountedCall(r) == [run[r] EXCEPT !.counted = @ + 1]

\* BeginModelCall.
Remaining(r) == MaxModelTokens - run[r].tokens
Allowed(r) == IF MaxTokens > Remaining(r) THEN Remaining(r) ELSE MaxTokens

\* FinishModelCall, when the use of the reservation is known.
Unused(r, reported) == run[r].reserved - reported
-----------------------------------------------------------------------------
(* handleChatAPI, completeChat. *)

\* The limits and buildOpsChatHistory may refuse the request.
Arrive(r) ==
    /\ run[r].stage = "idle"
    /\ \/ Go(r, [NewRun EXCEPT !.stage = "queued"])
       \/ Fail(r, "invalid")

\* acquireGeneration: a select of the slot and the deadline.
Acquire(r) ==
    /\ run[r].stage = "queued" /\ slot = None
    /\ slot' = r
    /\ run' = [run EXCEPT ![r].stage = "prefetch"]
    /\ UNCHANGED <<preferred, world>>

GiveUp(r) ==
    /\ run[r].stage = "queued" /\ run[r].expired
    /\ Fail(r, "deadline")

\* prefetchRAG; the result's size may exhaust its limits.
Prefetch(r) ==
    /\ run[r].stage = "prefetch"
    /\ IF MaxToolCalls = 0 \/ ~index THEN Go(r, [run[r] EXCEPT !.stage = "choose"])
       ELSE IF ~MayCallTool(r) THEN Fail(r, "tool_calls")
       ELSE \/ Go(r, [CountedCall(r) EXCEPT !.stage = "choose", !.made = 1])
            \/ Fail(r, "sizes")

\* Whether there are calls left to plan, and a tool to submit the plan.
Choose(r) ==
    /\ run[r].stage = "choose"
    /\ Go(r, [run[r] EXCEPT !.stage = "ask",
                !.for = IF planner /\ run[r].made < MaxToolCalls
                        THEN "plan" ELSE "answer",
                !.loop = MaxToolCalls - run[r].made])

ChecksWithoutPlan(r) == MaxToolCalls - run[r].made   \* mutant: the plan's own call

\* maximumPlannedChecks: the submission of the plan is a tool call too.
MaximumChecks(r) == MaxToolCalls - run[r].made - 1
-----------------------------------------------------------------------------
(* completeWithToolChoiceBudgeted and completeWithToolChoicePrepared. *)

Ask(r) ==
    /\ run[r].stage = "ask"
    /\ \/ Fail(r, "sizes")
       \/ run[r].iterations >= MaxIterations /\ Fail(r, "iterations")
       \/ run[r].iterations < MaxIterations /\ Remaining(r) <= 0 /\ Fail(r, "model_tokens")
       \/ /\ run[r].iterations < MaxIterations /\ Remaining(r) > 0
          /\ Go(r, [run[r] EXCEPT !.stage = "send", !.iterations = @ + 1,
                      !.tokens = @ + Allowed(r), !.reserved = Allowed(r),
                      !.sent = preferred, !.attempt = 1])

Alternate(p) == CHOOSE q \in Parameters : q # p

\* The endpoint refuses the parameter: the other one is tried, once, and
\* remembered for every later call of the client.
Rejected(r) ==
    /\ run[r].stage = "send" /\ run[r].sent \notin accepts /\ ~run[r].expired
    /\ IF run[r].attempt = 2 THEN Fail(r, "parameter")
       ELSE /\ preferred' = Alternate(run[r].sent)
            /\ run' = [run EXCEPT ![r].sent = preferred', ![r].attempt = 2]
            /\ UNCHANGED <<slot, world>>

\* No usable answer: HTTP, decoding, the deadline.  The reservation stays.
CallFails(r) ==
    /\ run[r].stage = "send"
    /\ Fail(r, IF run[r].expired THEN "deadline" ELSE "upstream")

\* A reported use above the reservation is an error; no report charges it all.
CallAnswered(r) ==
    /\ run[r].stage = "send" /\ run[r].sent \in accepts /\ ~run[r].expired
    /\ \E reported \in {-1} \cup (0..MaxTokens + 1) :
         IF reported > run[r].reserved THEN Fail(r, "overrun")
         ELSE Go(r, [run[r] EXCEPT !.stage = "answered", !.reserved = 0, !.sent = None,
                       !.attempt = 0,
                       !.tokens = IF reported < 0 THEN @ ELSE @ - Unused(r, reported)])
-----------------------------------------------------------------------------
(* What the answer is used for. *)

\* decodeOpsInvestigationPlan takes a plan of so many checks ...
Decoded(checks) == checks <= MaxPlanItems

\* ... and refuses one whose checks or gaps lack a step, a tool or a reason, name
\* an invalid one, are too long or come twice.
PlanRefused(r) == Fail(r, "bad_plan")

\* planInvestigation: one call of the plan tool, with as many checks as the
\* budget allows.
Planned(r) ==
    /\ run[r].stage = "answered" /\ run[r].for = "plan"
    /\ \/ PlanRefused(r)
       \/ ~MayCallTool(r) /\ Fail(r, "tool_calls")
       \/ /\ MayCallTool(r)
          /\ \/ Fail(r, "sizes")
             \/ \E checks \in {n \in 0..MaximumChecks(r) : Decoded(n)} :
                  Go(r, [CountedCall(r) EXCEPT !.stage = "tools", !.left = checks,
                            !.made = @ + 1])

\* The same for each check of the plan and each call of a turn of the loop: the
\* call is counted, made, and counted again by the size of its result.
ToolCall(r) ==
    /\ run[r].stage = "tools" /\ run[r].left > 0
    /\ IF ~MayCallTool(r) THEN Fail(r, "tool_calls")
       ELSE \/ Go(r, [CountedCall(r) EXCEPT !.left = @ - 1, !.made = @ + 1])
            \/ Fail(r, "sizes")

\* Back to the model.  After the plan the loop gets what is left of the calls.
NextTurn(r) ==
    /\ run[r].stage = "tools" /\ run[r].left = 0
    /\ Go(r, [run[r] EXCEPT !.stage = "ask", !.for = "answer",
                !.loop = IF run[r].for = "plan" THEN MaxToolCalls - run[r].made ELSE @])

TurnUnchecked(r) ==   \* mutant: the loop trusts the model with the limit
    /\ run[r].stage = "answered" /\ run[r].for = "answer"
    /\ \E n \in 1..MaxToolCalls + 1 :
         Go(r, [run[r] EXCEPT !.stage = "tools", !.left = n, !.loop = @ - n])

\* runOpenAIToolLoop: tool calls, if the loop has calls left; `loop` is maxCalls
\* less the calls it made.
Turn(r) ==
    /\ run[r].stage = "answered" /\ run[r].for = "answer"
    /\ \/ \E n \in 1..MaxToolCalls + 1 :
            IF n > run[r].loop THEN Fail(r, "exceeded")
            ELSE Go(r, [run[r] EXCEPT !.stage = "tools", !.left = n, !.loop = @ - n])
       \/ Fail(r, "bad_call")

\* The answer.  completeChat returns and its defer gives the slot back.
Answer(r) ==
    /\ run[r].stage = "answered" /\ run[r].for = "answer"
    /\ run' = [run EXCEPT ![r] = IF r \notin Alerts THEN End("done")
                 ELSE [@ EXCEPT !.stage = "ask", !.for = "structure"]]
    /\ Release(r)
    /\ UNCHANGED <<preferred, world>>

\* structureInvestigationResult.
Structured(r) ==
    /\ run[r].stage = "answered" /\ run[r].for = "structure"
    /\ Fail(r, "bad_structure") \/ Fail(r, "done")

\* The context of the request: its timeout or the end of the client.
Deadline(r) ==
    /\ run[r].stage \notin {"idle", "over"} /\ ~run[r].expired
    /\ Go(r, [run[r] EXCEPT !.expired = TRUE])

RunStep(r) ==
    \/ GiveUp(r) \/ Prefetch(r) \/ Choose(r) \/ Ask(r) \/ Rejected(r)
    \/ Planned(r) \/ ToolCall(r) \/ NextTurn(r) \/ Turn(r) \/ Answer(r) \/ Structured(r)

Next == \E r \in Runs :
    \/ Arrive(r) \/ Acquire(r) \/ CallAnswered(r) \/ CallFails(r) \/ Deadline(r)
    \/ RunStep(r)

Spec == Init /\ [][Next]_vars

\* The run's own steps happen, its deadline comes, and an HTTP request whose
\* context has ended returns.  The endpoint need not answer.
FairSpec ==
    /\ Spec
    /\ \A r \in Runs : /\ WF_vars(RunStep(r)) /\ WF_vars(Deadline(r))
                       /\ WF_vars(run[r].expired /\ CallFails(r))
-----------------------------------------------------------------------------
RunStates ==
    [stage : {"idle", "queued", "prefetch", "choose", "ask", "send", "answered",
              "tools", "over"},
     for : {None, "plan", "answer", "structure"}, left : Nat, made : Nat,
     loop : Nat, iterations : Nat, tokens : Nat, counted : Nat,
     reserved : Nat, sent : Parameters \cup {None}, attempt : 0..2,
     expired : BOOLEAN, end : Ends]

TypeOK ==
    /\ slot \in Runs \cup {None}
    /\ preferred \in Parameters
    /\ accepts \subseteq Parameters /\ index \in BOOLEAN /\ planner \in BOOLEAN
    /\ run \in [Runs -> RunStates]

\* With two model calls more than tool calls (the defaults are 12 and 8, and
\* newOpsServer's own limit is three more), a run whose model keeps to the calls
\* it was offered never ends for want of tool calls or model calls; the calls of
\* its result are those the budget counted; and no use, no reservation and no
\* report takes the tokens past their limit (server.go:143-162, 704-736,
\* budget.go:86-141).
BudgetSuffices ==
    \A r \in Runs :
        /\ run[r].end # "tool_calls"
        /\ MaxIterations >= MaxToolCalls + 2 => run[r].end # "iterations"
        /\ run[r].made = run[r].counted /\ run[r].made <= MaxToolCalls
        /\ run[r].tokens <= MaxModelTokens /\ run[r].iterations <= MaxIterations
        /\ run[r].reserved <= run[r].tokens

\* A run that holds the generation slot gives it back, although the model may
\* never answer (server.go:682-688, 1078-1089; OPS_SERVER.md:432-434).
SlotReturned == \A r \in Runs : slot = r ~> slot # r
=============================================================================
