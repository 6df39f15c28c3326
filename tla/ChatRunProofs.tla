---------------------------- MODULE ChatRunProofs ----------------------------
(***************************************************************************)
(* ChatRun keeps its types and its budgets, for any number of requests,    *)
(* any limits and any endpoint.                                            *)
(***************************************************************************)
EXTENDS ChatRun, TLAPS

\* A model call is being prepared, made or used for the given purpose.
Calling(x, for) == x.stage \in {"ask", "send", "answered"} /\ x.for = for

\* Why the calls suffice: what a plan or a turn may still make is never more
\* than what the budget still allows.
CallsFit(x) ==
    /\ x.made = x.counted /\ x.made <= MaxToolCalls
    /\ x.stage \in {"idle", "queued", "prefetch"} => x.made = 0
    /\ x.stage \in {"ask", "send", "answered"} => x.for \in {"plan", "answer", "structure"}
    /\ x.stage = "tools" => x.for \in {"plan", "answer"} /\ x.made + x.left <= MaxToolCalls
    /\ Calling(x, "plan") => x.made < MaxToolCalls
    /\ Calling(x, "answer") => x.made + x.loop <= MaxToolCalls
    /\ x.stage = "tools" /\ x.for = "answer" => x.made + x.left + x.loop <= MaxToolCalls

\* Why the iterations suffice: every model call but the last two is followed by
\* a tool call.
IterationsFit(x) ==
    /\ x.iterations <= MaxIterations
    /\ x.stage \in {"idle", "queued", "prefetch", "choose"} => x.iterations = 0
    /\ x.stage = "ask" /\ x.for = "plan" => x.iterations = 0
    /\ x.stage = "ask" /\ x.for = "answer" => x.iterations <= x.made
    /\ x.stage = "ask" => x.iterations <= x.made + 1
    /\ x.stage \in {"send", "answered"} /\ x.for # "structure" => x.iterations <= x.made + 1
    /\ x.stage = "tools" => x.iterations <= x.made + x.left

TokensFit(x) == x.tokens <= MaxModelTokens /\ x.reserved <= x.tokens

EndFits(x) == 
    /\ x.end # "tool_calls"
    /\ MaxIterations >= MaxToolCalls + 2 => x.end # "iterations"

RunOK(x) == x \in RunStates /\ CallsFit(x) /\ IterationsFit(x) /\ TokensFit(x) /\ EndFits(x)

\* The inductive invariant.
IInv ==
    /\ slot \in Runs \cup {None} /\ preferred \in Parameters
    /\ accepts \subseteq Parameters /\ index \in BOOLEAN /\ planner \in BOOLEAN
    /\ run \in [Runs -> RunStates]
    /\ \A r \in Runs : RunOK(run[r])

USE DEF Parameters, Errors, Ends

LEMMA NewFits == RunOK(NewRun)
BY RunAssumption DEF RunOK, NewRun, RunStates, CallsFit, IterationsFit, TokensFit, EndFits, Calling

LEMMA EndFitsAll ==
    ASSUME NEW how \in Ends, how # "tool_calls",
           MaxIterations >= MaxToolCalls + 2 => how # "iterations"
    PROVE  RunOK(End(how))
<1>1. NewRun \in RunStates /\ NewRun.made = 0 /\ NewRun.counted = 0
      /\ NewRun.iterations = 0 /\ NewRun.tokens = 0 /\ NewRun.reserved = 0
  BY DEF NewRun, RunStates
<1>2. End(how) \in RunStates
  BY <1>1 DEF End, RunStates
<1>3. /\ End(how).stage = "over" /\ End(how).end = how
      /\ End(how).made = 0 /\ End(how).counted = 0 /\ End(how).iterations = 0
      /\ End(how).tokens = 0 /\ End(how).reserved = 0
  BY <1>1 DEF End, RunStates
<1>4. CallsFit(End(how)) /\ IterationsFit(End(how))
  BY <1>3, RunAssumption DEF CallsFit, IterationsFit, Calling
<1>5. TokensFit(End(how)) /\ EndFits(End(how))
  BY <1>3, RunAssumption DEF TokensFit, EndFits
<1> QED
  BY <1>2, <1>4, <1>5 DEF RunOK

\* A step of one run to a state that fits.
LEMMA StepKeeps ==
    ASSUME IInv, NEW r \in Runs, NEW next, RunOK(next),
           run' = [run EXCEPT ![r] = next],
           slot' \in Runs \cup {None}, preferred' \in Parameters, UNCHANGED world
    PROVE  IInv'
<1>1. next \in RunStates
  BY DEF RunOK
<1>2. run' \in [Runs -> RunStates]
  BY <1>1 DEF IInv
<1>3. \A q \in Runs : run'[q] = IF q = r THEN next ELSE run[q]
  BY DEF IInv
<1>4. \A q \in Runs : RunOK(run'[q])
  BY <1>3 DEF IInv
<1> QED
  BY <1>2, <1>4 DEF IInv, world, RunOK, CallsFit, IterationsFit, TokensFit, EndFits, Calling

LEMMA GoKeeps ==
    ASSUME IInv, NEW r \in Runs, NEW next, RunOK(next), Go(r, next)
    PROVE  IInv'
BY StepKeeps DEF Go, IInv

LEMMA FailKeeps ==
    ASSUME IInv, NEW r \in Runs, NEW how \in Ends, how # "tool_calls",
           MaxIterations >= MaxToolCalls + 2 => how # "iterations", Fail(r, how)
    PROVE  IInv'
<1>1. RunOK(End(how))
  BY EndFitsAll
<1>2. slot' \in Runs \cup {None}
  BY DEF Fail, Release, IInv
<1> QED
  BY <1>1, <1>2, StepKeeps DEF Fail, IInv
-----------------------------------------------------------------------------
(* What each action leaves of its run fits. *)

\* Arrive.
LEMMA QueuedFits ==
    ASSUME NEW x, RunOK(x), x.stage = "idle"
    PROVE  RunOK([x EXCEPT !.stage = "queued"])
<1> DEFINE y == [x EXCEPT !.stage = "queued"]
<1>1. x \in RunStates
  BY DEF RunOK
<1>2. y \in RunStates
  BY <1>1 DEF RunStates
<1>3. /\ y.stage = "queued" /\ y.for = x.for /\ y.left = x.left
      /\ y.made = x.made /\ y.loop = x.loop /\ y.iterations = x.iterations
      /\ y.tokens = x.tokens /\ y.counted = x.counted /\ y.reserved = x.reserved
      /\ y.end = x.end
  BY <1>1 DEF RunStates
<1> HIDE DEF y
<1>4. RunOK(y)
  BY <1>1, <1>2, <1>3, RunAssumption DEF RunStates, RunOK, CallsFit, IterationsFit, TokensFit, EndFits, Calling
<1> QED
  BY <1>4 DEF y

\* Acquire.
LEMMA AcquiredFits ==
    ASSUME NEW x, RunOK(x), x.stage = "queued"
    PROVE  RunOK([x EXCEPT !.stage = "prefetch"])
<1> DEFINE y == [x EXCEPT !.stage = "prefetch"]
<1>1. x \in RunStates
  BY DEF RunOK
<1>2. y \in RunStates
  BY <1>1 DEF RunStates
<1>3. /\ y.stage = "prefetch" /\ y.for = x.for /\ y.left = x.left
      /\ y.made = x.made /\ y.loop = x.loop /\ y.iterations = x.iterations
      /\ y.tokens = x.tokens /\ y.counted = x.counted /\ y.reserved = x.reserved
      /\ y.end = x.end
  BY <1>1 DEF RunStates
<1> HIDE DEF y
<1>4. RunOK(y)
  BY <1>1, <1>2, <1>3, RunAssumption DEF RunStates, RunOK, CallsFit, IterationsFit, TokensFit, EndFits, Calling
<1> QED
  BY <1>4 DEF y

\* Prefetch, without a search.
LEMMA UnsearchedFits ==
    ASSUME NEW x, RunOK(x), x.stage = "prefetch"
    PROVE  RunOK([x EXCEPT !.stage = "choose"])
<1> DEFINE y == [x EXCEPT !.stage = "choose"]
<1>1. x \in RunStates
  BY DEF RunOK
<1>2. y \in RunStates
  BY <1>1 DEF RunStates
<1>3. /\ y.stage = "choose" /\ y.for = x.for /\ y.left = x.left
      /\ y.made = x.made /\ y.loop = x.loop /\ y.iterations = x.iterations
      /\ y.tokens = x.tokens /\ y.counted = x.counted /\ y.reserved = x.reserved
      /\ y.end = x.end
  BY <1>1 DEF RunStates
<1> HIDE DEF y
<1>4. RunOK(y)
  BY <1>1, <1>2, <1>3, RunAssumption DEF RunStates, RunOK, CallsFit, IterationsFit, TokensFit, EndFits, Calling
<1> QED
  BY <1>4 DEF y

\* Prefetch, with one.
LEMMA SearchedFits ==
    ASSUME NEW x, RunOK(x), x.stage = "prefetch", MaxToolCalls > 0
    PROVE  RunOK([x EXCEPT !.counted = x.counted + 1, !.stage = "choose", !.made = 1])
<1> DEFINE y == [x EXCEPT !.counted = x.counted + 1, !.stage = "choose", !.made = 1]
<1>1. x \in RunStates
  BY DEF RunOK
<1>2. y \in RunStates
  <2>1. ASSUME NEW a \in Nat, NEW b \in Nat
        PROVE  [x EXCEPT !.counted = a, !.stage = "choose", !.made = b] \in RunStates
    BY <1>1 DEF RunStates
  <2>2. x.counted + 1 \in Nat /\ 1 \in Nat
    BY <1>1 DEF RunStates
  <2> QED
    BY <2>1, <2>2
<1>3. /\ y.stage = "choose" /\ y.for = x.for /\ y.left = x.left
      /\ y.made = 1 /\ y.loop = x.loop /\ y.iterations = x.iterations
      /\ y.tokens = x.tokens /\ y.counted = x.counted + 1 /\ y.reserved = x.reserved
      /\ y.end = x.end
  BY <1>1 DEF RunStates
<1> HIDE DEF y
<1>4. RunOK(y)
  BY <1>1, <1>2, <1>3, RunAssumption DEF RunStates, RunOK, CallsFit, IterationsFit, TokensFit, EndFits, Calling
<1> QED
  BY <1>4 DEF y

\* Choose.
LEMMA ChosenFits ==
    ASSUME NEW x, RunOK(x), x.stage = "choose", NEW for, NEW loop \in Nat,
           for \in {"plan", "answer"}, for = "plan" => x.made < MaxToolCalls, loop = MaxToolCalls - x.made
    PROVE  RunOK([x EXCEPT !.stage = "ask", !.for = for, !.loop = loop])
<1> DEFINE y == [x EXCEPT !.stage = "ask", !.for = for, !.loop = loop]
<1>1. x \in RunStates
  BY DEF RunOK
<1>2. y \in RunStates
  BY <1>1 DEF RunStates
<1>3. /\ y.stage = "ask" /\ y.for = for /\ y.left = x.left
      /\ y.made = x.made /\ y.loop = loop /\ y.iterations = x.iterations
      /\ y.tokens = x.tokens /\ y.counted = x.counted /\ y.reserved = x.reserved
      /\ y.end = x.end
  BY <1>1 DEF RunStates
<1> HIDE DEF y
<1>4. RunOK(y)
  BY <1>1, <1>2, <1>3, RunAssumption DEF RunStates, RunOK, CallsFit, IterationsFit, TokensFit, EndFits, Calling
<1> QED
  BY <1>4 DEF y

\* Ask.
LEMMA AskedFits ==
    ASSUME NEW x, RunOK(x), x.stage = "ask", x.iterations < MaxIterations, 
           NEW allowed \in Nat, x.tokens + allowed <= MaxModelTokens, NEW p \in Parameters
    PROVE  RunOK([x EXCEPT !.stage = "send", !.iterations = x.iterations + 1, !.tokens = x.tokens + allowed, !.reserved = allowed, !.sent = p, !.attempt = 1])
<1> DEFINE y == [x EXCEPT !.stage = "send", !.iterations = x.iterations + 1, !.tokens = x.tokens + allowed, !.reserved = allowed, !.sent = p, !.attempt = 1]
<1>1. x \in RunStates
  BY DEF RunOK
<1>2. y \in RunStates
  <2>1. ASSUME NEW a \in Nat, NEW b \in Nat, NEW c \in Nat, NEW q \in Parameters, NEW k \in 0..2
        PROVE  [x EXCEPT !.stage = "send", !.iterations = a, !.tokens = b, !.reserved = c,
                          !.sent = q, !.attempt = k] \in RunStates
    BY <1>1 DEF RunStates
  <2>2. x.iterations + 1 \in Nat /\ x.tokens + allowed \in Nat /\ 1 \in 0..2
    BY <1>1 DEF RunStates
  <2> QED
    BY <2>1, <2>2
<1>3. /\ y.stage = "send" /\ y.for = x.for /\ y.left = x.left
      /\ y.made = x.made /\ y.loop = x.loop /\ y.iterations = x.iterations + 1
      /\ y.tokens = x.tokens + allowed /\ y.counted = x.counted /\ y.reserved = allowed
      /\ y.end = x.end
  BY <1>1 DEF RunStates
<1> HIDE DEF y
<1>4. RunOK(y)
  BY <1>1, <1>2, <1>3, RunAssumption DEF RunStates, RunOK, CallsFit, IterationsFit, TokensFit, EndFits, Calling
<1> QED
  BY <1>4 DEF y

\* Rejected.
LEMMA RetriedFits ==
    ASSUME NEW x, RunOK(x), NEW p \in Parameters
    PROVE  RunOK([x EXCEPT !.sent = p, !.attempt = 2])
<1> DEFINE y == [x EXCEPT !.sent = p, !.attempt = 2]
<1>1. x \in RunStates
  BY DEF RunOK
<1>2. y \in RunStates
  <2>1. ASSUME NEW q \in Parameters, NEW k \in 0..2
        PROVE  [x EXCEPT !.sent = q, !.attempt = k] \in RunStates
    BY <1>1 DEF RunStates
  <2>2. 2 \in 0..2
    BY <1>1 DEF RunStates
  <2> QED
    BY <2>1, <2>2
<1>3. /\ y.stage = x.stage /\ y.for = x.for /\ y.left = x.left
      /\ y.made = x.made /\ y.loop = x.loop /\ y.iterations = x.iterations
      /\ y.tokens = x.tokens /\ y.counted = x.counted /\ y.reserved = x.reserved
      /\ y.end = x.end
  BY <1>1 DEF RunStates
<1> HIDE DEF y
<1>4. RunOK(y)
  BY <1>1, <1>2, <1>3, RunAssumption DEF RunStates, RunOK, CallsFit, IterationsFit, TokensFit, EndFits, Calling
<1> QED
  BY <1>4 DEF y

\* CallAnswered.
LEMMA AnsweredFits ==
    ASSUME NEW x, RunOK(x), x.stage = "send", NEW tokens \in Nat, tokens <= MaxModelTokens
    PROVE  RunOK([x EXCEPT !.stage = "answered", !.reserved = 0, !.sent = None, !.attempt = 0, !.tokens = tokens])
<1> DEFINE y == [x EXCEPT !.stage = "answered", !.reserved = 0, !.sent = None, !.attempt = 0, !.tokens = tokens]
<1>1. x \in RunStates
  BY DEF RunOK
<1>2. y \in RunStates
  <2>1. ASSUME NEW a \in Nat, NEW b \in Nat, NEW q \in Parameters \cup {None}, NEW k \in 0..2
        PROVE  [x EXCEPT !.stage = "answered", !.reserved = a, !.sent = q, !.attempt = k,
                          !.tokens = b] \in RunStates
    BY <1>1 DEF RunStates
  <2>2. 0 \in Nat /\ 0 \in 0..2 /\ None \in Parameters \cup {None}
    BY <1>1 DEF RunStates
  <2> QED
    BY <2>1, <2>2
<1>3. /\ y.stage = "answered" /\ y.for = x.for /\ y.left = x.left
      /\ y.made = x.made /\ y.loop = x.loop /\ y.iterations = x.iterations
      /\ y.tokens = tokens /\ y.counted = x.counted /\ y.reserved = 0
      /\ y.end = x.end
  BY <1>1 DEF RunStates
<1> HIDE DEF y
<1>4. RunOK(y)
  BY <1>1, <1>2, <1>3, RunAssumption DEF RunStates, RunOK, CallsFit, IterationsFit, TokensFit, EndFits, Calling
<1> QED
  BY <1>4 DEF y

\* Planned.
LEMMA PlannedFits ==
    ASSUME NEW x, RunOK(x), x.stage = "answered", x.for = "plan", 
           NEW checks \in Nat, x.made + 1 + checks <= MaxToolCalls
    PROVE  RunOK([x EXCEPT !.counted = x.counted + 1, !.stage = "tools", !.left = checks, !.made = x.made + 1])
<1> DEFINE y == [x EXCEPT !.counted = x.counted + 1, !.stage = "tools", !.left = checks, !.made = x.made + 1]
<1>1. x \in RunStates
  BY DEF RunOK
<1>2. y \in RunStates
  <2>1. ASSUME NEW a \in Nat, NEW b \in Nat, NEW c \in Nat
        PROVE  [x EXCEPT !.counted = a, !.stage = "tools", !.left = b, !.made = c] \in RunStates
    BY <1>1 DEF RunStates
  <2>2. x.counted + 1 \in Nat /\ x.made + 1 \in Nat
    BY <1>1 DEF RunStates
  <2> QED
    BY <2>1, <2>2
<1>3. /\ y.stage = "tools" /\ y.for = x.for /\ y.left = checks
      /\ y.made = x.made + 1 /\ y.loop = x.loop /\ y.iterations = x.iterations
      /\ y.tokens = x.tokens /\ y.counted = x.counted + 1 /\ y.reserved = x.reserved
      /\ y.end = x.end
  BY <1>1 DEF RunStates
<1> HIDE DEF y
<1>4. RunOK(y)
  BY <1>1, <1>2, <1>3, RunAssumption DEF RunStates, RunOK, CallsFit, IterationsFit, TokensFit, EndFits, Calling
<1> QED
  BY <1>4 DEF y

\* ToolCall.
LEMMA CalledFits ==
    ASSUME NEW x, RunOK(x), x.stage = "tools", x.left > 0
    PROVE  RunOK([x EXCEPT !.counted = x.counted + 1, !.left = x.left - 1, !.made = x.made + 1])
<1> DEFINE y == [x EXCEPT !.counted = x.counted + 1, !.left = x.left - 1, !.made = x.made + 1]
<1>1. x \in RunStates
  BY DEF RunOK
<1>2. y \in RunStates
  <2>1. ASSUME NEW a \in Nat, NEW b \in Nat, NEW c \in Nat
        PROVE  [x EXCEPT !.counted = a, !.left = b, !.made = c] \in RunStates
    BY <1>1 DEF RunStates
  <2>2. x.counted + 1 \in Nat /\ x.made + 1 \in Nat /\ x.left - 1 \in Nat
    BY <1>1 DEF RunStates
  <2> QED
    BY <2>1, <2>2
<1>3. /\ y.stage = x.stage /\ y.for = x.for /\ y.left = x.left - 1
      /\ y.made = x.made + 1 /\ y.loop = x.loop /\ y.iterations = x.iterations
      /\ y.tokens = x.tokens /\ y.counted = x.counted + 1 /\ y.reserved = x.reserved
      /\ y.end = x.end
  BY <1>1 DEF RunStates
<1> HIDE DEF y
<1>4. RunOK(y)
  BY <1>1, <1>2, <1>3, RunAssumption DEF RunStates, RunOK, CallsFit, IterationsFit, TokensFit, EndFits, Calling
<1> QED
  BY <1>4 DEF y

\* NextTurn.
LEMMA NextTurnFits ==
    ASSUME NEW x, RunOK(x), x.stage = "tools", x.left = 0, NEW loop \in Nat,
           loop = (IF x.for = "plan" THEN MaxToolCalls - x.made ELSE x.loop)
    PROVE  RunOK([x EXCEPT !.stage = "ask", !.for = "answer", !.loop = loop])
<1> DEFINE y == [x EXCEPT !.stage = "ask", !.for = "answer", !.loop = loop]
<1>1. x \in RunStates
  BY DEF RunOK
<1>2. y \in RunStates
  BY <1>1 DEF RunStates
<1>3. /\ y.stage = "ask" /\ y.for = "answer" /\ y.left = x.left
      /\ y.made = x.made /\ y.loop = loop /\ y.iterations = x.iterations
      /\ y.tokens = x.tokens /\ y.counted = x.counted /\ y.reserved = x.reserved
      /\ y.end = x.end
  BY <1>1 DEF RunStates
<1> HIDE DEF y
<1>4. RunOK(y)
  BY <1>1, <1>2, <1>3, RunAssumption DEF RunStates, RunOK, CallsFit, IterationsFit, TokensFit, EndFits, Calling
<1> QED
  BY <1>4 DEF y

\* Turn.
LEMMA TurnFits ==
    ASSUME NEW x, RunOK(x), x.stage = "answered", x.for = "answer", NEW n \in 1..x.loop
    PROVE  RunOK([x EXCEPT !.stage = "tools", !.left = n, !.loop = x.loop - n])
<1> DEFINE y == [x EXCEPT !.stage = "tools", !.left = n, !.loop = x.loop - n]
<1>1. x \in RunStates
  BY DEF RunOK
<1>2. y \in RunStates
  <2>1. ASSUME NEW a \in Nat, NEW b \in Nat
        PROVE  [x EXCEPT !.stage = "tools", !.left = a, !.loop = b] \in RunStates
    BY <1>1 DEF RunStates
  <2>2. n \in Nat /\ x.loop - n \in Nat
    BY <1>1 DEF RunStates
  <2> QED
    BY <2>1, <2>2
<1>3. /\ y.stage = "tools" /\ y.for = x.for /\ y.left = n
      /\ y.made = x.made /\ y.loop = x.loop - n /\ y.iterations = x.iterations
      /\ y.tokens = x.tokens /\ y.counted = x.counted /\ y.reserved = x.reserved
      /\ y.end = x.end
  BY <1>1 DEF RunStates
<1> HIDE DEF y
<1>4. RunOK(y)
  BY <1>1, <1>2, <1>3, RunAssumption DEF RunStates, RunOK, CallsFit, IterationsFit, TokensFit, EndFits, Calling
<1> QED
  BY <1>4 DEF y

\* Answer, of an alert.
LEMMA StructuringFits ==
    ASSUME NEW x, RunOK(x), x.stage = "answered", x.for = "answer"
    PROVE  RunOK([x EXCEPT !.stage = "ask", !.for = "structure"])
<1> DEFINE y == [x EXCEPT !.stage = "ask", !.for = "structure"]
<1>1. x \in RunStates
  BY DEF RunOK
<1>2. y \in RunStates
  BY <1>1 DEF RunStates
<1>3. /\ y.stage = "ask" /\ y.for = "structure" /\ y.left = x.left
      /\ y.made = x.made /\ y.loop = x.loop /\ y.iterations = x.iterations
      /\ y.tokens = x.tokens /\ y.counted = x.counted /\ y.reserved = x.reserved
      /\ y.end = x.end
  BY <1>1 DEF RunStates
<1> HIDE DEF y
<1>4. RunOK(y)
  BY <1>1, <1>2, <1>3, RunAssumption DEF RunStates, RunOK, CallsFit, IterationsFit, TokensFit, EndFits, Calling
<1> QED
  BY <1>4 DEF y

\* Deadline.
LEMMA ExpiredFits ==
    ASSUME NEW x, RunOK(x)
    PROVE  RunOK([x EXCEPT !.expired = TRUE])
<1> DEFINE y == [x EXCEPT !.expired = TRUE]
<1>1. x \in RunStates
  BY DEF RunOK
<1>2. y \in RunStates
  BY <1>1 DEF RunStates
<1>3. /\ y.stage = x.stage /\ y.for = x.for /\ y.left = x.left
      /\ y.made = x.made /\ y.loop = x.loop /\ y.iterations = x.iterations
      /\ y.tokens = x.tokens /\ y.counted = x.counted /\ y.reserved = x.reserved
      /\ y.end = x.end
  BY <1>1 DEF RunStates
<1> HIDE DEF y
<1>4. RunOK(y)
  BY <1>1, <1>2, <1>3, RunAssumption DEF RunStates, RunOK, CallsFit, IterationsFit, TokensFit, EndFits, Calling
<1> QED
  BY <1>4 DEF y

-----------------------------------------------------------------------------
LEMMA InitInv == Init => IInv
<1> SUFFICES ASSUME Init PROVE IInv
  OBVIOUS
<1>1. NewRun \in RunStates
  BY NewFits DEF RunOK
<1>2. run \in [Runs -> RunStates] /\ \A r \in Runs : RunOK(run[r])
  BY <1>1, NewFits DEF Init
<1> QED
  BY <1>2, RunAssumption DEF Init, IInv

\* A step of the inductive invariant has one case for each action.
LEMMA NextInv == IInv /\ [Next]_vars => IInv'
<1> SUFFICES ASSUME IInv, [Next]_vars PROVE IInv'
  OBVIOUS
<1>1. CASE UNCHANGED vars
  BY <1>1 DEF vars, world, IInv, RunOK, CallsFit, IterationsFit, TokensFit, EndFits, Calling
<1>2. ASSUME NEW r \in Runs,
             \/ Arrive(r) \/ Acquire(r) \/ CallAnswered(r) \/ CallFails(r) \/ Deadline(r)
             \/ RunStep(r)
      PROVE  IInv'
  <2> DEFINE x == run[r]
  <2>0. RunOK(x) /\ x \in RunStates
    BY DEF IInv, RunOK
  <2>1. CASE Arrive(r)
    <3>1. NewRun.stage = "idle"
      BY DEF NewRun
    <3>2. RunOK([NewRun EXCEPT !.stage = "queued"])
      BY <3>1, NewFits, QueuedFits
    <3> QED
      BY <2>1, <3>2, GoKeeps, FailKeeps DEF Arrive
  <2>2. CASE Acquire(r)
    <3>1. RunOK([x EXCEPT !.stage = "prefetch"])
      BY <2>0, <2>2, AcquiredFits DEF Acquire
    <3> QED
      BY <2>2, <3>1, StepKeeps DEF Acquire, IInv
  <2>3. CASE CallAnswered(r)
    <3>1. PICK reported \in {-1} \cup (0..MaxTokens + 1) :
            IF reported > x.reserved THEN Fail(r, "overrun")
            ELSE Go(r, [x EXCEPT !.stage = "answered", !.reserved = 0, !.sent = None,
                          !.attempt = 0,
                          !.tokens = IF reported < 0 THEN @ ELSE @ - Unused(r, reported)])
      BY <2>3 DEF CallAnswered
    <3>2. CASE reported > x.reserved
      BY <3>1, <3>2, FailKeeps
    <3>3. CASE ~(reported > x.reserved)
      <4> DEFINE tokens == IF reported < 0 THEN x.tokens ELSE x.tokens - Unused(r, reported)
      <4>1. reported < 0 \/ reported \in Nat
        BY RunAssumption
      <4>2. tokens \in Nat /\ tokens <= MaxModelTokens
        BY <2>0, <3>3, <4>1, RunAssumption DEF RunOK, TokensFit, RunStates, Unused
      <4>3. Go(r, [x EXCEPT !.stage = "answered", !.reserved = 0, !.sent = None,
                     !.attempt = 0, !.tokens = tokens])
        BY <3>1, <3>3
      <4> HIDE DEF tokens
      <4>4. RunOK([x EXCEPT !.stage = "answered", !.reserved = 0, !.sent = None,
                     !.attempt = 0, !.tokens = tokens])
        BY <2>0, <2>3, <4>2, AnsweredFits DEF CallAnswered
      <4> QED
        BY <4>3, <4>4, GoKeeps
    <3> QED
      BY <3>2, <3>3
  <2>4. CASE CallFails(r)
    <3>1. Fail(r, "deadline") \/ Fail(r, "upstream")
      BY <2>4 DEF CallFails
    <3> QED
      BY <3>1, FailKeeps
  <2>5. CASE Deadline(r)
    BY <2>0, <2>5, ExpiredFits, GoKeeps DEF Deadline
  <2>6. CASE GiveUp(r)
    BY <2>6, FailKeeps DEF GiveUp
  <2>7. CASE Prefetch(r)
    <3>1. CASE MaxToolCalls = 0 \/ ~index
      BY <2>0, <2>7, <3>1, UnsearchedFits, GoKeeps DEF Prefetch
    <3>2. CASE ~(MaxToolCalls = 0 \/ ~index)
      <4>1. MaxToolCalls > 0 /\ MayCallTool(r)
        BY <2>0, <2>7, <3>2, RunAssumption DEF Prefetch, MayCallTool, RunOK, CallsFit
      <4>2. RunOK([CountedCall(r) EXCEPT !.stage = "choose", !.made = 1])
        BY <2>0, <2>7, <4>1, SearchedFits DEF Prefetch, CountedCall
      <4> QED
        BY <2>7, <3>2, <4>1, <4>2, GoKeeps, FailKeeps DEF Prefetch
    <3> QED
      BY <3>1, <3>2
  <2>8. CASE Choose(r)
    <3> DEFINE for == IF planner /\ x.made < MaxToolCalls THEN "plan" ELSE "answer"
               loop == MaxToolCalls - x.made
    <3>1. loop \in Nat
      BY <2>0, RunAssumption DEF RunOK, CallsFit, RunStates
    <3>2. Go(r, [x EXCEPT !.stage = "ask", !.for = for, !.loop = loop])
      BY <2>8 DEF Choose
    <3>3. RunOK([x EXCEPT !.stage = "ask", !.for = for, !.loop = loop])
      BY <2>0, <2>8, <3>1, ChosenFits DEF Choose
    <3> HIDE DEF for, loop
    <3> QED
      BY <3>2, <3>3, GoKeeps
  <2>9. CASE Ask(r)
    <3>1. CASE Fail(r, "sizes") \/ Fail(r, "model_tokens")
      BY <3>1, FailKeeps
    <3>2. CASE x.iterations >= MaxIterations /\ Fail(r, "iterations")
      <4>1. x.iterations <= MaxToolCalls + 1
        BY <2>0, <2>9, RunAssumption DEF Ask, RunOK, RunStates, CallsFit, IterationsFit
      <4>2. ~(MaxIterations >= MaxToolCalls + 2)
        BY <2>0, <3>2, <4>1, RunAssumption DEF RunStates
      <4> QED
        BY <3>2, <4>2, FailKeeps
    <3>3. CASE x.iterations < MaxIterations /\ Remaining(r) > 0
      <4> DEFINE allowed == Allowed(r)
      <4>1. allowed \in Nat /\ x.tokens + allowed <= MaxModelTokens
        BY <2>0, <3>3, RunAssumption DEF Allowed, Remaining, RunStates
      <4>2. preferred \in Parameters
        BY DEF IInv
      <4>3. RunOK([x EXCEPT !.stage = "send", !.iterations = x.iterations + 1,
                     !.tokens = x.tokens + allowed, !.reserved = allowed,
                     !.sent = preferred, !.attempt = 1])
        <5> HIDE DEF allowed
        <5> QED
          BY <2>0, <2>9, <3>3, <4>1, <4>2, AskedFits DEF Ask
      <4>4. CASE Go(r, [x EXCEPT !.stage = "send", !.iterations = @ + 1,
                          !.tokens = @ + Allowed(r), !.reserved = Allowed(r),
                          !.sent = preferred, !.attempt = 1])
        BY <4>3, <4>4, GoKeeps
      <4>5. ~(x.iterations >= MaxIterations) /\ ~(Remaining(r) <= 0)
        BY <2>0, <3>3, RunAssumption DEF Remaining, RunStates
      <4> QED
        BY <2>9, <3>1, <4>4, <4>5 DEF Ask
    <3>4. (x.iterations < MaxIterations \/ x.iterations >= MaxIterations)
          /\ (Remaining(r) > 0 \/ Remaining(r) <= 0)
      BY <2>0, RunAssumption DEF Remaining, RunStates
    <3> QED
      BY <2>9, <3>1, <3>2, <3>3, <3>4 DEF Ask
  <2>10. CASE Rejected(r)
    <3>1. CASE x.attempt = 2
      BY <2>10, <3>1, FailKeeps DEF Rejected
    <3>2. CASE x.attempt # 2
      <4>1. \E q \in Parameters : q # x.sent
        OBVIOUS
      <4>2. Alternate(x.sent) \in Parameters
        BY <4>1 DEF Alternate
      <4>3. preferred' = Alternate(x.sent) /\ UNCHANGED <<slot, world>>
            /\ run' = [run EXCEPT ![r] = [x EXCEPT !.sent = preferred', !.attempt = 2]]
        BY <2>10, <3>2 DEF Rejected
      <4>4. RunOK([x EXCEPT !.sent = preferred', !.attempt = 2])
        BY <2>0, <4>2, <4>3, RetriedFits
      <4> QED
        BY <4>2, <4>3, <4>4, StepKeeps DEF IInv
    <3> QED
      BY <3>1, <3>2
  <2>11. CASE Planned(r)
    <3>1. MayCallTool(r)
      BY <2>0, <2>11, RunAssumption DEF Planned, MayCallTool, RunOK, CallsFit, Calling, RunStates
    <3>2. ASSUME NEW checks \in 0..MaximumChecks(r)
          PROVE  RunOK([CountedCall(r) EXCEPT !.stage = "tools", !.left = checks,
                          !.made = @ + 1])
      <4>1. checks \in Nat /\ x.made + 1 + checks <= MaxToolCalls
        BY <2>0, RunAssumption DEF MaximumChecks, RunStates
      <4>2. CountedCall(r).made = x.made
        BY <2>0 DEF CountedCall, RunStates
      <4> QED
        BY <2>0, <2>11, <4>1, <4>2, PlannedFits DEF Planned, CountedCall
    <3>3. CASE PlanRefused(r)
      BY <3>3, FailKeeps DEF PlanRefused, Ends
    <3>4. CASE Fail(r, "sizes")
      BY <3>4, FailKeeps DEF Ends
    <3>5. CASE \E checks \in {n \in 0..MaximumChecks(r) : Decoded(n)} :
                 Go(r, [CountedCall(r) EXCEPT !.stage = "tools", !.left = checks,
                          !.made = @ + 1])
      BY <3>2, <3>5, GoKeeps
    <3> QED
      BY <2>11, <3>1, <3>3, <3>4, <3>5 DEF Planned
  <2>12. CASE ToolCall(r)
    <3>1. MayCallTool(r)
      BY <2>0, <2>12, RunAssumption DEF ToolCall, MayCallTool, RunOK, CallsFit, RunStates
    <3>2. CountedCall(r).left = x.left /\ CountedCall(r).made = x.made
      BY <2>0 DEF CountedCall, RunStates
    <3>3. RunOK([CountedCall(r) EXCEPT !.left = @ - 1, !.made = @ + 1])
      BY <2>0, <2>12, <3>2, CalledFits DEF ToolCall, CountedCall
    <3> QED
      BY <2>12, <3>1, <3>3, GoKeeps, FailKeeps DEF ToolCall
  <2>13. CASE NextTurn(r)
    <3> DEFINE loop == IF x.for = "plan" THEN MaxToolCalls - x.made ELSE x.loop
    <3>1. loop \in Nat
      BY <2>0, RunAssumption DEF RunOK, CallsFit, RunStates
    <3>2. Go(r, [x EXCEPT !.stage = "ask", !.for = "answer", !.loop = loop])
      BY <2>13 DEF NextTurn
    <3>3. RunOK([x EXCEPT !.stage = "ask", !.for = "answer", !.loop = loop])
      BY <2>0, <2>13, <3>1, NextTurnFits DEF NextTurn
    <3> HIDE DEF loop
    <3> QED
      BY <3>2, <3>3, GoKeeps
  <2>14. CASE Turn(r)
    <3>1. CASE Fail(r, "exceeded") \/ Fail(r, "bad_call")
      BY <3>1, FailKeeps
    <3>2. ASSUME NEW n \in 1..MaxToolCalls + 1, ~(n > x.loop),
                 Go(r, [x EXCEPT !.stage = "tools", !.left = n, !.loop = @ - n])
          PROVE  IInv'
      <4> DEFINE next == [x EXCEPT !.stage = "tools", !.left = n, !.loop = x.loop - n]
      <4>1. n \in 1..x.loop
        BY <2>0, <3>2, RunAssumption DEF RunStates
      <4>2. RunOK(next)
        BY <2>0, <2>14, <4>1, TurnFits DEF Turn
      <4>3. Go(r, next)
        BY <3>2
      <4> HIDE DEF next
      <4> QED
        BY <4>2, <4>3, GoKeeps
    <3> QED
      BY <2>14, <3>1, <3>2 DEF Turn
  <2>15. CASE Answer(r)
    <3> DEFINE next == IF r \notin Alerts THEN End("done")
                       ELSE [x EXCEPT !.stage = "ask", !.for = "structure"]
    <3>1. RunOK(next)
      BY <2>0, <2>15, EndFitsAll, StructuringFits DEF Answer
    <3>2. run' = [run EXCEPT ![r] = next]
      BY <2>15 DEF Answer
    <3> HIDE DEF next
    <3> QED
      BY <2>15, <3>1, <3>2, StepKeeps DEF Answer, Release, IInv
  <2>16. CASE Structured(r)
    <3>1. Fail(r, "bad_structure") \/ Fail(r, "done")
      BY <2>16 DEF Structured
    <3> QED
      BY <3>1, FailKeeps
  <2> QED
    BY <1>2, <2>1, <2>2, <2>3, <2>4, <2>5, <2>6, <2>7, <2>8, <2>9, <2>10, <2>11, <2>12,
       <2>13, <2>14, <2>15, <2>16 DEF RunStep
<1> QED
  BY <1>1, <1>2 DEF Next
-----------------------------------------------------------------------------
\* Runs, slot, token parameter and endpoint keep their types, for any requests
\* and limits (server.go:664-743, tool_client.go:229-434, budget.go:86-141).
THEOREM RunTypes == Spec => []TypeOK
<1>1. IInv => TypeOK
  BY DEF IInv, TypeOK
<1> QED
  BY InitInv, NextInv, <1>1, PTL DEF Spec

\* Whatever the limits, the plan and the turns never overdraw the tool calls, no
\* reservation or report takes the tokens past their limit, and two model calls
\* more than tool calls are enough (server.go:143-162, 704-736, budget.go:86-141).
THEOREM BudgetAlwaysSuffices == Spec => []BudgetSuffices
<1>1. IInv => BudgetSuffices
  BY DEF IInv, BudgetSuffices, RunOK, CallsFit, IterationsFit, TokensFit, EndFits
<1> QED
  BY InitInv, NextInv, <1>1, PTL DEF Spec
=============================================================================
