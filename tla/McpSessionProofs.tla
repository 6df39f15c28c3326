--------------------------- MODULE McpSessionProofs ---------------------------
(***************************************************************************)
(* Responses reach the request they answer, and a server is used between   *)
(* its handshake and its end, for any number of callers, any size of the   *)
(* pipes, and any lines a server sends.                                    *)
(***************************************************************************)
EXTENDS McpSession, FiniteSetTheorems, TLAPS

Everyone == Requesters \cup {Reader}

CallerStages == {"idle", "register", "lock", "write", "wait", "return", "ended"}
HostStages == {"register", "lock", "write", "wait", "return", "closing", "up", "reap", "down"}
ReaderStages == {"read", "lock", "write", "send", "dead"}
Stages == {"idle", "register", "lock", "write", "wait", "return", "ended", "closing",
           "up", "reap", "down", "read", "send", "dead"}
Kinds == {"call", "cancelled", "initialize", "initialized", "list", "reply"}
ProcRecord ==
    [stage : Stages, kind : Kinds,
     id : IDs \cup {0}, late : BOOLEAN, outcome : Outcomes]
ProcTyped == proc \in [Everyone -> ProcRecord]

\* A caller is at one place of its call, the host of its start and end, the
\* reader of its loop.
StagesOf(p) == IF p = Host THEN HostStages ELSE IF p = Reader THEN ReaderStages ELSE CallerStages
KindsOf(p) == IF p = Host THEN {"initialize", "initialized", "list"}
              ELSE IF p = Reader THEN {"reply"} ELSE {"call", "cancelled"}
Roles == /\ \A p \in Everyone : proc[p].stage \in StagesOf(p) /\ proc[p].kind \in KindsOf(p)
         /\ ~proc[Host].late

\* The rest of the client's variables.
ClientTyped ==
    /\ pending \subseteq IDs /\ channel \in [IDs -> Outcomes]
    /\ closed \in BOOLEAN /\ stdin \in BOOLEAN
    /\ lastID \in 0..(MaxID + Cardinality(Callers))
    /\ noise \in 0..MaxNoise

WriterTyped ==
    /\ writer \in Everyone \cup {None}
    /\ writer # None => proc[writer].stage = "write"

\* The lines of a request, the other lines of the client, the answers.
AskLines == [kind : {"initialize", "list", "call"}, id : IDs, of : Requesters]
OtherLines == [kind : {"initialized", "cancelled", "reply"}, id : IDs \cup {0},
               of : Everyone]
Responses == [kind : {"response"}, id : IDs, of : Outcomes]

ServerTyped ==
    server \in [loop : BOOLEAN, alive : BOOLEAN, initialized : BOOLEAN,
                asked : SUBSET AskLines, answer : Responses \cup {None},
                served : SUBSET AskLines]

\* Who has an id and may yet be answered under it.
Awaits(P, p) == P[p].stage \in {"lock", "write", "wait"} /\ Asks(P[p].kind)

\* Ids are given out once: those in use are behind lastID, and the callers that
\* took one leave room for the others.
Registered == {c \in Callers : proc[c].stage \notin {"idle", "register"}}
Numbered ==
    /\ lastID <= MaxID + Cardinality(Registered)
    /\ pending \subseteq 1..lastID
    /\ proc[Reader].id <= lastID
    /\ \A p \in Requesters : Awaits(proc, p) => proc[p].id \in 1..lastID
    /\ \A p, q \in Requesters :
         Awaits(proc, p) /\ Awaits(proc, q) /\ proc[p].id = proc[q].id => p = q

\* What may be said under an id: the result of the request that waits under it,
\* or an error.
Fits(P, id, of) ==
    \A p \in Requesters : Awaits(P, p) /\ P[p].id = id =>
        of \in {<<p, P[p].kind>>, Plain("error")}
FittingAsks(P, n) == {l \in AskLines : l.id <= n /\ Fits(P, l.id, <<l.of, l.kind>>)}
FittingResponses(P, n) == {l \in Responses : l.id <= n /\ Fits(P, l.id, l.of)}

\* Every line on its way, and every answer in hand, fits.
LinesFit ==
    /\ toServer \in Seq(FittingAsks(proc, lastID) \cup OtherLines)
    /\ Len(toServer) <= PipeSize
    /\ toClient \in Seq(FittingResponses(proc, lastID) \cup Garbage)
    /\ Len(toClient) <= PipeSize
ServerFits ==
    /\ server.asked \subseteq FittingAsks(proc, lastID)
    /\ server.served \subseteq FittingAsks(proc, lastID)
    /\ server.answer \in FittingResponses(proc, lastID) \cup {None}
ClientFits ==
    /\ proc[Reader].stage = "send" =>
         proc[Reader].id \in IDs /\ Fits(proc, proc[Reader].id, proc[Reader].outcome)
    /\ \A i \in IDs : channel[i] # None => i <= lastID /\ Fits(proc, i, channel[i])

\* A caller waits for its call, or gave it up at its deadline.
Calling ==
    \A c \in Callers :
        /\ proc[c].stage \in {"idle", "register", "wait"} => proc[c].kind = "call"
        /\ proc[c].kind = "cancelled" /\ proc[c].stage \in {"lock", "write"} =>
             proc[c].outcome = Plain("deadline")

\* The host's start: no caller before its end, no id but the host's.
Starting ==
    /\ ~Up => /\ \A c \in Callers : proc[c].stage = "idle"
              /\ lastID <= MaxID
    /\ Up => proc[Host].kind = "list"
    /\ proc[Host].stage = "up" => Up
    /\ proc[Host].stage = "wait" => Asks(proc[Host].kind)
    /\ ~Up /\ proc[Host].kind \in {"initialize", "initialized"} => lastID <= 1
    /\ proc[Host].stage = "register" =>
         proc[Host].kind # "initialized" /\ lastID < MaxID
         /\ (proc[Host].kind = "initialize" => lastID = 0)
    /\ proc[Host].stage \in {"reap", "down"} => closed
    /\ proc[Host].stage = "down" => ~server.alive

\* No line of a call before the host is up.
NoCallYet ==
    ~Up => /\ \A l \in server.served \cup server.asked : l.kind # "call"
           /\ \A k \in 1..Len(toServer) : toServer[k].kind # "call"

\* notifications/initialized goes ahead of what needs it.
Sent(n) == server.initialized \/ \E k \in 1..n : toServer[k].kind = "initialized"
InOrder ==
    server.loop =>
        /\ \A k \in 1..Len(toServer) :
             toServer[k].kind \in {"list", "call"} => Sent(k - 1)
        /\ proc[Host].kind = "list" => Sent(Len(toServer))
        /\ proc[Host].kind = "initialized" /\ proc[Host].stage = "return"
             /\ proc[Host].outcome = None => Sent(Len(toServer))
        /\ (\E l \in server.served : l.kind # "initialize") => server.initialized

Typed == ProcTyped /\ Roles /\ WriterTyped /\ ClientTyped /\ ServerTyped
Fitting == LinesFit /\ ServerFits /\ ClientFits
Handshake == Starting /\ NoCallYet /\ InOrder
IInv == Typed /\ Numbered /\ Fitting /\ DispatchedByID /\ Calling /\ Handshake
-----------------------------------------------------------------------------
LEMMA Constants ==
    /\ Cardinality(Callers) \in Nat /\ MaxID \in Nat /\ MaxID > 1
    /\ IDs = 1..(MaxID + Cardinality(Callers))
    /\ PipeSize \in Nat \ {0} /\ MaxNoise \in Nat
    /\ Host # Reader /\ Host \notin Callers /\ Reader \notin Callers
    /\ None # Plain("up") /\ None # Plain("error")
  BY SessionAssumption, FS_CardinalityType DEF IDs, Plain

LEMMA OutcomeNames ==
    /\ None \in Outcomes
    /\ \A w \in {"error", "deadline", "timeout", "refused", "up"} : Plain(w) \in Outcomes
  BY DEF Outcomes

LEMMA Names ==
    /\ "idle" \in Stages /\ "register" \in Stages /\ "lock" \in Stages /\ "write" \in Stages
    /\ "wait" \in Stages /\ "return" \in Stages /\ "ended" \in Stages
    /\ "closing" \in Stages /\ "up" \in Stages /\ "reap" \in Stages /\ "down" \in Stages
    /\ "read" \in Stages /\ "send" \in Stages /\ "dead" \in Stages
    /\ "call" \in Kinds /\ "cancelled" \in Kinds /\ "initialize" \in Kinds
    /\ "initialized" \in Kinds /\ "list" \in Kinds /\ "reply" \in Kinds
    /\ None \in Outcomes /\ Plain("error") \in Outcomes /\ Plain("deadline") \in Outcomes
    /\ Plain("timeout") \in Outcomes /\ Plain("refused") \in Outcomes /\ Plain("up") \in Outcomes
  BY OutcomeNames DEF Stages, Kinds

LEMMA RoleNames ==
    /\ \A p \in Requesters :
         /\ "register" \in StagesOf(p) /\ "lock" \in StagesOf(p) /\ "write" \in StagesOf(p)
         /\ "wait" \in StagesOf(p) /\ "return" \in StagesOf(p)
    /\ \A c \in Callers :
         /\ "idle" \in StagesOf(c) /\ "ended" \in StagesOf(c)
         /\ "call" \in KindsOf(c) /\ "cancelled" \in KindsOf(c)
    /\ "closing" \in StagesOf(Host) /\ "up" \in StagesOf(Host) /\ "reap" \in StagesOf(Host)
    /\ "down" \in StagesOf(Host)
    /\ "initialize" \in KindsOf(Host) /\ "initialized" \in KindsOf(Host) /\ "list" \in KindsOf(Host)
    /\ "read" \in StagesOf(Reader) /\ "lock" \in StagesOf(Reader) /\ "write" \in StagesOf(Reader)
    /\ "send" \in StagesOf(Reader) /\ "dead" \in StagesOf(Reader) /\ "reply" \in KindsOf(Reader)
  BY Constants DEF StagesOf, KindsOf, CallerStages, HostStages, ReaderStages, Requesters

LEMMA People ==
    /\ Requesters \subseteq Everyone /\ Callers \subseteq Everyone
    /\ Host \in Everyone /\ Reader \in Everyone
    /\ Callers \subseteq Requesters /\ Host \in Requesters /\ Reader \notin Requesters
    /\ Host # Reader /\ Host \notin Callers /\ Reader \notin Callers
  BY Constants DEF Everyone, Requesters

LEMMA SeqMono ==
    ASSUME NEW S, NEW T, S \subseteq T, NEW s \in Seq(S)
    PROVE  s \in Seq(T)
OBVIOUS

LEMMA InitInv == Init => IInv
<1> SUFFICES ASSUME Init PROVE IInv
  OBVIOUS
<1>1. /\ \A c \in Callers : proc[c] = NewProc("idle", "call")
      /\ proc[Host] = NewProc("register", "initialize")
      /\ proc[Reader] = NewProc("read", "reply")
  BY Constants DEF Init, Requesters
<1>11. /\ pending = {} /\ channel = [i \in IDs |-> None] /\ closed = FALSE /\ stdin = TRUE
       /\ writer = None /\ lastID = 0 /\ noise = 0
  BY DEF Init
<1>2. Typed
  <2>1. \A p \in Everyone : proc[p] \in ProcRecord
    <3>1. /\ NewProc("idle", "call") \in ProcRecord
          /\ NewProc("register", "initialize") \in ProcRecord
          /\ NewProc("read", "reply") \in ProcRecord
      BY Names DEF NewProc, ProcRecord
    <3> QED
      BY <1>1, <3>1 DEF Everyone, Requesters
  <2>2. ProcTyped
    BY <2>1 DEF Init, ProcTyped, Everyone
  <2>3. Roles
    BY <1>1, Constants DEF Roles, NewProc, StagesOf, KindsOf, CallerStages, HostStages, ReaderStages,
       Everyone, Requesters
  <2>4. ClientTyped
    <3>1. channel \in [IDs -> Outcomes]
      BY <1>11, OutcomeNames
    <3>2. lastID \in 0..(MaxID + Cardinality(Callers)) /\ noise \in 0..MaxNoise
      BY <1>11, Constants
    <3> QED
      BY <1>11, <3>1, <3>2, Zenon DEF ClientTyped
  <2>6. WriterTyped
    BY <1>11 DEF WriterTyped
  <2>5. ServerTyped
    BY DEF Init, ServerTyped
  <2> QED
    BY <2>2, <2>3, <2>4, <2>5, <2>6 DEF Typed
<1>3. Numbered
  <2>1. Registered = {}
    BY <1>1 DEF Registered, NewProc
  <2>2. \A p \in Requesters : ~Awaits(proc, p)
    BY <1>1 DEF Awaits, NewProc, Requesters
  <2> QED
    BY <1>1, <1>11, <2>1, <2>2, Constants, FS_EmptySet DEF Numbered, NewProc
<1>4. Fitting
  <2>1. toServer = <<>> /\ toClient = <<>> /\ server.asked = {} /\ server.served = {}
        /\ server.answer = None
    BY DEF Init
  <2>2. LinesFit /\ ServerFits
    BY <2>1, Constants DEF LinesFit, ServerFits
  <2>3. ClientFits
    BY <1>1, <1>11 DEF ClientFits, NewProc
  <2> QED
    BY <2>2, <2>3 DEF Fitting
<1>5. DispatchedByID /\ Calling
  BY <1>1, <1>11 DEF DispatchedByID, Calling, NewProc
<1>6. Handshake
  <2>1. toServer = <<>> /\ server.served = {} /\ server.asked = {} /\ lastID = 0
    BY DEF Init
  <2> QED
    BY <1>1, <2>1, Constants DEF Handshake, Starting, NoCallYet, InOrder, NewProc, Up, Asks
<1> QED
  BY <1>2, <1>3, <1>4, <1>5, <1>6 DEF IInv
-----------------------------------------------------------------------------
(* Types. *)

\* An id is left for whoever asks.
LEMMA FreshID ==
    ASSUME Typed, Numbered, Starting, NEW p \in Requesters, proc[p].stage = "register"
    PROVE  NextID \in IDs /\ lastID \in Nat
<1> USE Constants
<1>1. lastID \in Nat
  BY DEF Typed, ClientTyped
<1>2. CASE p = Host
  BY <1>1, <1>2 DEF Starting, NextID, Up
<1>3. CASE p \in Callers
  <2>1. Registered \subseteq Callers \ {p}
    BY <1>3 DEF Registered
  <2>2. IsFiniteSet(Callers) /\ IsFiniteSet(Callers \ {p})
    BY SessionAssumption, FS_RemoveElement
  <2>3. Cardinality(Callers \ {p}) = Cardinality(Callers) - 1
    BY <1>3, <2>2, FS_RemoveElement
  <2>4. Cardinality(Registered) \in Nat /\ Cardinality(Registered) <= Cardinality(Callers) - 1
    BY <2>1, <2>2, <2>3, FS_Subset, FS_CardinalityType
  <2> QED
    BY <1>1, <2>4 DEF Numbered, NextID
<1> QED
  BY <1>2, <1>3 DEF Requesters

LEMMA ProcUpdate ==
    ASSUME ProcTyped, NEW p \in Everyone, NEW r \in ProcRecord, proc' = [proc EXCEPT ![p] = r]
    PROVE  ProcTyped'
  BY DEF ProcTyped

\* What a waiting process takes from its channel is an outcome.
LEMMA WaitsUnderID ==
    ASSUME IInv, NEW p \in Requesters, proc[p].stage = "wait"
    PROVE  Awaits(proc, p) /\ proc[p].id \in IDs /\ channel[proc[p].id] \in Outcomes
<1> USE Constants
<1>1. Asks(proc[p].kind)
  BY DEF IInv, Calling, Handshake, Starting, Requesters, Asks
<1>2. proc[p].id \in 1..lastID /\ lastID \in 0..(MaxID + Cardinality(Callers))
  BY <1>1 DEF IInv, Numbered, Awaits, Typed, ClientTyped
<1> QED
  BY <1>1, <1>2 DEF Awaits, IInv, Typed, ClientTyped

LEMMA ProcTypedStep ==
    ASSUME IInv, Next
    PROVE  ProcTyped'
<1> USE Names
<1>0. proc \in [Everyone -> ProcRecord]
  BY DEF IInv, Typed, ProcTyped
<1>1. ASSUME NEW p \in Requesters, Register(p) PROVE ProcTyped'
  <2>1. NextID \in IDs
    BY <1>1, FreshID DEF Register, IInv, Handshake
  <2> QED
    BY <1>0, <1>1, <2>1 DEF Register, ProcTyped, ProcRecord, Everyone
<1>2. ASSUME NEW p \in Everyone, Lock(p) PROVE ProcTyped'
  BY <1>0, <1>2 DEF Lock, ProcTyped, ProcRecord
<1>3. ASSUME NEW p \in Everyone, Write(p) PROVE ProcTyped'
  BY <1>0, <1>3 DEF Write, Written, ProcTyped, ProcRecord
<1>4. ASSUME NEW p \in Everyone, WriteFails(p) PROVE ProcTyped'
  BY <1>0, <1>4 DEF WriteFails, ProcTyped, ProcRecord
<1>5. ASSUME NEW p \in Requesters, Answered(p) PROVE ProcTyped'
  <2>1. channel[proc[p].id] \in Outcomes
    BY <1>5, WaitsUnderID DEF Answered
  <2> QED
    BY <1>0, <1>5, <2>1 DEF Answered, ProcTyped, ProcRecord, Everyone
<1>6. ASSUME NEW p \in Requesters, DeadlineSeen(p) PROVE ProcTyped'
  <2> DEFINE r == [proc[p] EXCEPT !.stage = "lock", !.kind = "cancelled",
                     !.outcome = Plain("deadline")]
  <2>1. r \in ProcRecord
    BY <1>0 DEF ProcRecord, Everyone
  <2>2. proc' = [proc EXCEPT ![p] = r]
    BY <1>0, <1>6 DEF DeadlineSeen, ProcRecord, Everyone
  <2> QED
    BY <1>0, <2>1, <2>2 DEF ProcTyped
<1>7. ASSUME NEW p \in Requesters, DoneSeen(p) PROVE ProcTyped'
  BY <1>0, <1>7 DEF DoneSeen, ProcTyped, ProcRecord, Everyone
<1>8. ASSUME NEW c \in Callers, Call(c) PROVE ProcTyped'
  BY <1>0, <1>8 DEF Call, ProcTyped, ProcRecord, Everyone, Requesters
<1>9. ASSUME NEW c \in Callers, Deadline(c) PROVE ProcTyped'
  BY <1>0, <1>9 DEF Deadline, ProcTyped, ProcRecord, Everyone, Requesters
<1>10. ASSUME NEW c \in Callers, CallReturns(c) PROVE ProcTyped'
  <2> DEFINE r == [NewProc("ended", "call") EXCEPT
                     !.outcome = IF proc[c].late THEN Plain("timeout") ELSE proc[c].outcome]
  <2>1. proc[c].outcome \in Outcomes
    BY <1>0 DEF ProcRecord, Everyone, Requesters
  <2>2. r \in ProcRecord
    BY <2>1 DEF NewProc, ProcRecord
  <2> QED
    BY <1>0, <1>10, <2>2 DEF CallReturns, ProcTyped
<1>11. CASE HostGoesOn
  BY <1>0, <1>11 DEF HostGoesOn, Continue, Refuse, ProcTyped, ProcRecord,
     Everyone, Requesters
<1>12. CASE Close \/ Reap
  BY <1>0, <1>12 DEF Close, Reap, ProcTyped, ProcRecord, Everyone, Requesters
<1>13. CASE Fail
  BY <1>0, <1>13 DEF Fail, ProcTyped, ProcRecord, Everyone
<1>14. CASE Read
  <2> DEFINE line == Head(toClient)
  <2>1. line \in Responses \cup Garbage
    BY <1>14 DEF Read, IInv, Fitting, LinesFit, FittingResponses
  <2>2. CASE line.kind = "garbage"
    BY <1>13, <1>14, <2>2 DEF Read
  <2>3. CASE line.kind = "request"
    BY <1>0, <1>14, <2>3 DEF Read, ProcTyped, ProcRecord, Everyone
  <2>4. CASE line.kind = "response" /\ line.id \in pending
    <3>1. line.id \in IDs /\ line.of \in Outcomes
      BY <2>1, <2>4 DEF Responses, Garbage, Line
    <3>2. proc' = [proc EXCEPT ![Reader].stage = "send", ![Reader].id = line.id,
                               ![Reader].outcome = line.of]
      BY <1>14, <2>4 DEF Read
    <3> DEFINE r == [proc[Reader] EXCEPT !.stage = "send", !.id = line.id,
                       !.outcome = line.of]
    <3> HIDE DEF line
    <3>3. proc[Reader] \in ProcRecord
      BY <1>0 DEF Everyone
    <3>4. r \in ProcRecord
      BY <3>1, <3>3 DEF ProcRecord
    <3>5. proc' = [proc EXCEPT ![Reader] = r]
      BY <1>0, <3>2, <3>3 DEF Everyone
    <3> HIDE DEF r
    <3> QED
      BY <1>0, <3>4, <3>5 DEF ProcTyped, Everyone
  <2>5. CASE UNCHANGED proc
    BY <1>0, <2>5 DEF ProcTyped
  <2> QED
    BY <1>14, <2>2, <2>3, <2>4, <2>5 DEF Read
<1>15. CASE Send
  <2>1. NewProc("read", "reply") \in ProcRecord
    BY DEF NewProc, ProcRecord
  <2> QED
    BY <1>0, <1>15, <2>1 DEF Send, ProcTyped
<1>16. CASE StdoutEnds
  BY <1>13, <1>16 DEF StdoutEnds
<1>17. CASE UNCHANGED proc
  BY <1>0, <1>17 DEF ProcTyped
<1> QED
  BY <1>1, <1>2, <1>3, <1>4, <1>5, <1>6, <1>7, <1>8, <1>9, <1>10, <1>11, <1>12, <1>14,
     <1>15, <1>16, <1>17
     DEF Next, CallerStep, RequestStep, ReaderStep, ServerStep, ServeLine, ServeAnswer,
         ServeEnd, OtherReads, OtherAnswers, OtherNoise, ServerDies, clientVars, Everyone,
         Requesters

LEMMA RolesStep ==
    ASSUME IInv, Next
    PROVE  Roles'
<1> USE People, RoleNames
<1>0. proc \in [Everyone -> ProcRecord] /\ Roles
  BY DEF IInv, Typed, ProcTyped
<1>1. ASSUME NEW p \in Requesters, Register(p) PROVE Roles'
  <2>1. CASE proc' = [proc EXCEPT ![p].stage = "return", ![p].outcome = Plain("error")]
    BY <1>0, <2>1 DEF Roles
  <2>2. CASE proc' = [proc EXCEPT ![p].stage = "lock", ![p].id = NextID]
    BY <1>0, <2>2 DEF Roles
  <2> QED
    BY <1>1, <2>1, <2>2 DEF Register
<1>2. ASSUME NEW p \in Everyone, Lock(p) PROVE Roles'
  BY <1>0, <1>2 DEF Lock, Roles, Everyone
<1>3. ASSUME NEW p \in Everyone, Write(p) PROVE Roles'
  <2>1. Written(p) \in StagesOf(p)
    BY DEF Written, Everyone
  <2> QED
    BY <1>0, <1>3, <2>1 DEF Write, Roles
<1>4. ASSUME NEW p \in Everyone, WriteFails(p) PROVE Roles'
  <2>1. CASE proc' = [proc EXCEPT ![Reader].stage = "read"]
    BY <1>0, <2>1 DEF Roles
  <2>2. ASSUME NEW o, p \in Requesters,
               proc' = [proc EXCEPT ![p].stage = "return", ![p].outcome = o]
        PROVE  Roles'
    BY <1>0, <2>2 DEF Roles
  <2> QED
    BY <1>4, <2>1, <2>2 DEF WriteFails, Everyone
<1>5. ASSUME NEW p \in Requesters, Answered(p) PROVE Roles'
  BY <1>0, <1>5 DEF Answered, Roles
<1>51. ASSUME NEW p \in Requesters, DoneSeen(p) PROVE Roles'
  BY <1>0, <1>51 DEF DoneSeen, Roles
<1>6. ASSUME NEW p \in Requesters, DeadlineSeen(p) PROVE Roles'
  <2>1. p \in Callers
    BY <1>0, <1>6 DEF DeadlineSeen, Roles, Requesters
  <2> QED
    BY <1>0, <1>6, <2>1 DEF DeadlineSeen, Roles
<1>7. ASSUME NEW c \in Callers, Call(c) PROVE Roles'
  <2>1. CASE proc' = [proc EXCEPT ![c].stage = "register"]
    BY <1>0, <2>1 DEF Roles
  <2>2. CASE proc' = [proc EXCEPT ![c].stage = "ended", ![c].outcome = Plain("refused")]
    BY <1>0, <2>2 DEF Roles
  <2> QED
    BY <1>7, <2>1, <2>2 DEF Call
<1>71. ASSUME NEW c \in Callers, Deadline(c) PROVE Roles'
  BY <1>0, <1>71 DEF Deadline, Roles
<1>8. ASSUME NEW c \in Callers, CallReturns(c) PROVE Roles'
  BY <1>0, <1>8 DEF CallReturns, NewProc, Roles
<1>9. CASE HostGoesOn
  <2>1. ASSUME NEW stage \in {"register", "lock"}, NEW kind \in {"initialized", "list"},
               Continue(stage, kind)
        PROVE  Roles'
    BY <1>0, <2>1 DEF Continue, Roles
  <2>2. CASE Refuse
    BY <1>0, <2>2 DEF Refuse, Roles
  <2>3. CASE proc' = [proc EXCEPT ![Host].stage = "up", ![Host].outcome = Plain("up")]
    BY <1>0, <2>3 DEF Roles
  <2> QED
    BY <1>9, <2>1, <2>2, <2>3 DEF HostGoesOn
<1>10. CASE Close \/ Reap
  <2>1. CASE proc' = [proc EXCEPT ![Host].stage = "reap"]
    BY <1>0, <2>1 DEF Roles
  <2>2. CASE proc' = [proc EXCEPT ![Host].stage = "down"]
    BY <1>0, <2>2 DEF Roles
  <2> QED
    BY <1>10, <2>1, <2>2 DEF Close, Reap
<1>11. CASE Read \/ StdoutEnds
  <2>1. CASE Fail
    BY <1>0, <2>1 DEF Fail, Roles
  <2>2. CASE proc' = [proc EXCEPT ![Reader].stage = "lock"]
    BY <1>0, <2>2 DEF Roles
  <2>3. ASSUME NEW i, NEW o,
               proc' = [proc EXCEPT ![Reader].stage = "send", ![Reader].id = i,
                                    ![Reader].outcome = o]
        PROVE  Roles'
    BY <1>0, <2>3 DEF Roles
  <2>4. CASE UNCHANGED proc
    BY <1>0, <2>4 DEF Roles
  <2> QED
    BY <1>11, <2>1, <2>2, <2>3, <2>4 DEF Read, StdoutEnds
<1>12. CASE Send
  BY <1>0, <1>12 DEF Send, NewProc, Roles
<1>13. CASE UNCHANGED proc
  BY <1>0, <1>13 DEF Roles
<1> QED
  BY <1>1, <1>2, <1>3, <1>4, <1>5, <1>51, <1>6, <1>7, <1>71, <1>8, <1>9, <1>10, <1>11,
     <1>12, <1>13
     DEF Next, CallerStep, RequestStep, ReaderStep, ServerStep, ServeLine, ServeAnswer,
         ServeEnd, OtherReads, OtherAnswers, OtherNoise, ServerDies, clientVars

\* The lock is with a process that writes.
LEMMA WriterTypedStep ==
    ASSUME IInv, Next
    PROVE  WriterTyped'
<1> USE People DEF WriterTyped
<1>0. proc \in [Everyone -> ProcRecord] /\ WriterTyped
  BY DEF IInv, Typed, ProcTyped
<1>1. ASSUME NEW p \in Requesters, Register(p) PROVE WriterTyped'
  BY <1>0, <1>1 DEF Register
<1>2. ASSUME NEW p \in Everyone, Lock(p) PROVE WriterTyped'
  BY <1>0, <1>2 DEF Lock
<1>3. ASSUME NEW p \in Everyone, Write(p) \/ WriteFails(p) PROVE WriterTyped'
  BY <1>3 DEF Write, WriteFails
<1>4. ASSUME NEW p \in Requesters, Answered(p) \/ DeadlineSeen(p) \/ DoneSeen(p)
      PROVE  WriterTyped'
  BY <1>0, <1>4 DEF Answered, DeadlineSeen, DoneSeen
<1>5. ASSUME NEW c \in Callers, Call(c) \/ Deadline(c) \/ CallReturns(c) PROVE WriterTyped'
  <2>1. CASE proc[c].stage # "write"
    BY <1>0, <1>5, <2>1 DEF Call, Deadline, CallReturns
  <2>2. CASE Deadline(c)
    BY <1>0, <2>2 DEF Deadline
  <2> QED
    BY <1>5, <2>1, <2>2 DEF Call, CallReturns
<1>6. CASE HostGoesOn
  BY <1>0, <1>6 DEF HostGoesOn, Continue, Refuse
<1>7. CASE Close \/ Reap
  BY <1>0, <1>7 DEF Close, Reap
<1>8. CASE Read \/ StdoutEnds
  <2>1. proc[Reader].stage = "read" /\ writer' = writer
    BY <1>8 DEF Read, StdoutEnds
  <2>2. \A p \in Everyone \ {Reader} : proc'[p] = proc[p]
    BY <1>0, <1>8 DEF Read, StdoutEnds, Fail
  <2> QED
    BY <1>0, <2>1, <2>2
<1>9. CASE Send
  BY <1>0, <1>9 DEF Send
<1>10. CASE UNCHANGED clientVars
  BY <1>0, <1>10 DEF clientVars
<1> QED
  BY <1>1, <1>2, <1>3, <1>4, <1>5, <1>6, <1>7, <1>8, <1>9, <1>10
     DEF Next, CallerStep, RequestStep, ReaderStep, ServerStep, ServeLine, ServeAnswer,
         ServeEnd, OtherReads, OtherAnswers, OtherNoise, ServerDies

LEMMA ClientTypedStep ==
    ASSUME IInv, Next
    PROVE  ClientTyped'
<1> USE People, OutcomeNames DEF ClientTyped
<1>0. ClientTyped
  BY DEF IInv, Typed
<1>1. ASSUME NEW p \in Requesters, Register(p) PROVE ClientTyped'
  <2>1. NextID \in IDs /\ lastID' \in 0..(MaxID + Cardinality(Callers))
    BY <1>1, FreshID, Constants DEF Register, IInv, Handshake, NextID
  <2> QED
    BY <1>0, <1>1, <2>1 DEF Register, serverVars
<1>2. ASSUME NEW p \in Everyone, WriteFails(p) PROVE ClientTyped'
  BY <1>0, <1>2 DEF WriteFails, serverVars
<1>3. ASSUME NEW p \in Requesters, Answered(p) \/ DeadlineSeen(p) \/ DoneSeen(p)
      PROVE  ClientTyped'
  BY <1>0, <1>3 DEF Answered, DeadlineSeen, DoneSeen, serverVars
<1>4. CASE Close
  BY <1>0, <1>4 DEF Close, serverVars
<1>5. CASE Read \/ StdoutEnds
  <2>1. closed' \in BOOLEAN /\ pending' \subseteq IDs
        /\ UNCHANGED <<stdin, lastID, noise>>
    BY <1>0, <1>5 DEF Read, StdoutEnds, Fail, serverVars
  <2>2. channel' \in [IDs -> Outcomes]
    BY <1>0, <1>5 DEF Read, StdoutEnds, Fail
  <2> QED
    BY <1>0, <2>1, <2>2
<1>6. CASE Send
  <2>1. proc[Reader].outcome \in Outcomes
    BY DEF IInv, Typed, ProcTyped, ProcRecord
  <2> QED
    BY <1>0, <1>6, <2>1 DEF Send, serverVars
<1>7. CASE OtherNoise \/ ServerDies
  <2>1. noise' \in 0..MaxNoise
    <3>1. noise \in 0..MaxNoise /\ noise < MaxNoise /\ noise' = noise + 1
      BY <1>0, <1>7 DEF OtherNoise, ServerDies
    <3> QED
      BY <3>1, Constants
  <2> QED
    BY <1>0, <1>7, <2>1 DEF OtherNoise, ServerDies, clientVars
<1>8. CASE UNCHANGED <<pending, channel, closed, stdin, lastID, noise>>
  BY <1>0, <1>8
<1> QED
  BY <1>1, <1>2, <1>3, <1>4, <1>5, <1>6, <1>7, <1>8
     DEF Next, CallerStep, RequestStep, ReaderStep, ServerStep, ServeLine, ServeAnswer,
         ServeEnd, OtherReads, OtherAnswers, Lock, Write, Deadline, Call, CallReturns,
         HostGoesOn, Reap, clientVars, serverVars

\* What the server reads off its pipe.
LEMMA ReadsLine ==
    ASSUME IInv, toServer # <<>>
    PROVE  /\ Head(toServer) \in FittingAsks(proc, lastID) \cup OtherLines
           /\ Asks(Head(toServer).kind) => Head(toServer) \in FittingAsks(proc, lastID)
           /\ Tail(toServer) \in Seq(FittingAsks(proc, lastID) \cup OtherLines)
           /\ Len(Tail(toServer)) <= PipeSize
<1>1. toServer \in Seq(FittingAsks(proc, lastID) \cup OtherLines) /\ Len(toServer) <= PipeSize
  BY DEF IInv, Fitting, LinesFit
<1>2. Head(toServer) \in FittingAsks(proc, lastID) \cup OtherLines
  BY <1>1
<1>3. Tail(toServer) \in Seq(FittingAsks(proc, lastID) \cup OtherLines)
      /\ Len(Tail(toServer)) <= PipeSize
  BY <1>1, Constants
<1> QED
  BY <1>2, <1>3 DEF OtherLines, Asks

\* Every answer of the server's fits.
LEMMA ResponseFits ==
    ASSUME NEW P, NEW n, NEW line \in FittingAsks(P, n), NEW ok \in BOOLEAN
    PROVE  Response(line, ok) \in FittingResponses(P, n)
<1>1. line \in AskLines /\ <<line.of, line.kind>> \in Outcomes /\ Plain("error") \in Outcomes
  BY DEF FittingAsks, AskLines, Outcomes
<1>2. Response(line, ok) \in Responses
  BY <1>1 DEF Response, Line, Responses, AskLines
<1>3. Response(line, ok).id = line.id
      /\ Response(line, ok).of \in {<<line.of, line.kind>>, Plain("error")}
  BY DEF Response, Line
<1>4. line.id <= n /\ Fits(P, line.id, <<line.of, line.kind>>) /\ Fits(P, line.id, Plain("error"))
  BY DEF FittingAsks, Fits
<1> QED
  BY <1>2, <1>3, <1>4 DEF FittingResponses

\* The server's variables hold lines that fit, whatever the client does meanwhile.
LEMMA ServerStepFits ==
    ASSUME IInv, Next
    PROVE  /\ ServerTyped'
           /\ server'.asked \subseteq FittingAsks(proc, lastID)
           /\ server'.served \subseteq FittingAsks(proc, lastID)
           /\ server'.answer \in FittingResponses(proc, lastID) \cup {None}
<1> DEFINE G == /\ ServerTyped'
                /\ server'.asked \subseteq FittingAsks(proc, lastID)
                /\ server'.served \subseteq FittingAsks(proc, lastID)
                /\ server'.answer \in FittingResponses(proc, lastID) \cup {None}
<1>0. /\ server \in [loop : BOOLEAN, alive : BOOLEAN, initialized : BOOLEAN,
                     asked : SUBSET AskLines, answer : Responses \cup {None},
                     served : SUBSET AskLines]
      /\ server.asked \subseteq FittingAsks(proc, lastID)
      /\ server.served \subseteq FittingAsks(proc, lastID)
      /\ server.answer \in FittingResponses(proc, lastID) \cup {None}
  BY DEF IInv, Typed, ServerTyped, Fitting, ServerFits
<1>1. FittingAsks(proc, lastID) \subseteq AskLines
      /\ FittingResponses(proc, lastID) \subseteq Responses
  BY DEF FittingAsks, FittingResponses
<1>2. CASE UNCHANGED server
  BY <1>0, <1>2 DEF ServerTyped
<1>3. CASE Reap \/ ServeEnd \/ ServerDies
  BY <1>0, <1>3 DEF Reap, ServeEnd, ServerDies, ServerTyped
<1>4. CASE ServeLine
  <2> DEFINE line == Head(toServer)
  <2>1. Asks(line.kind) => line \in FittingAsks(proc, lastID)
    BY <1>4, ReadsLine DEF ServeLine
  <2>2. CASE server' = [server EXCEPT !.initialized = TRUE]
    BY <1>0, <2>2 DEF ServerTyped
  <2>3. ASSUME NEW ok \in BOOLEAN, Asks(line.kind),
               server' = [server EXCEPT !.served = @ \cup {line}, !.answer = Response(line, ok)]
        PROVE  G
    <3>1. line \in FittingAsks(proc, lastID) /\ Response(line, ok) \in FittingResponses(proc, lastID)
      BY <2>1, <2>3, ResponseFits
    <3> HIDE DEF line
    <3> QED
      BY <1>0, <1>1, <2>3, <3>1 DEF ServerTyped
  <2>4. (line.kind = "initialize" \/ server.initialized) \in BOOLEAN
    OBVIOUS
  <2>5. CASE line.kind = "initialized"
    <3>1. server' = [server EXCEPT !.initialized = TRUE]
      BY <1>4, <2>5, Zenon DEF ServeLine, Asks
    <3> QED
      BY <2>2, <3>1
  <2>6. CASE Asks(line.kind)
    <3>1. line.kind # "initialized"
      BY <2>6 DEF Asks
    <3>2. server' = [server EXCEPT !.served = @ \cup {line},
                       !.answer = Response(line, line.kind = "initialize" \/ server.initialized)]
      BY <1>4, <2>6, <3>1 DEF ServeLine
    <3> QED
      BY <2>3, <2>4, <2>6, <3>2
  <2>7. CASE line.kind # "initialized" /\ ~Asks(line.kind)
    BY <1>2, <1>4, <2>7 DEF ServeLine
  <2> QED
    BY <2>5, <2>6, <2>7
<1>5. CASE ServeAnswer
  BY <1>0, <1>5 DEF ServeAnswer, ServerTyped
<1>6. CASE OtherReads
  <2>1. Asks(Head(toServer).kind) => Head(toServer) \in FittingAsks(proc, lastID)
    BY <1>6, ReadsLine DEF OtherReads
  <2> QED
    BY <1>0, <1>1, <1>6, <2>1 DEF OtherReads, ServerTyped
<1>7. CASE OtherAnswers
  <2>1. PICK line \in server.asked : server' = [server EXCEPT !.asked = @ \ {line},
                                                           !.served = @ \cup {line}]
    BY <1>7 DEF OtherAnswers
  <2>2. line \in FittingAsks(proc, lastID)
    BY <1>0
  <2> QED
    BY <1>0, <1>1, <2>1, <2>2 DEF ServerTyped
<1> QED
  BY <1>2, <1>3, <1>4, <1>5, <1>6, <1>7
     DEF Next, CallerStep, RequestStep, ReaderStep, ServerStep, OtherNoise, serverVars,
         Register, Lock, Write, WriteFails, Answered, DeadlineSeen, DoneSeen, Deadline, Call,
         CallReturns, HostGoesOn, Close, Read, Send, StdoutEnds
-----------------------------------------------------------------------------
(* What each action does to the processes, field by field. *)

Others(p) == \A q \in Everyone \ {p} : proc'[q] = proc[q]
SameRequest(p) == proc'[p].id = proc[p].id /\ proc'[p].kind = proc[p].kind

LEMMA RegisterEffect ==
    ASSUME ProcTyped, NEW p \in Requesters, Register(p)
    PROVE  /\ proc[p].stage = "register" /\ lastID' = NextID /\ Others(p)
           /\ proc'[p].kind = proc[p].kind
           /\ \/ proc'[p].stage = "return" /\ proc'[p].outcome = Plain("error")
                 /\ UNCHANGED <<pending, channel>>
              \/ proc'[p].stage = "lock" /\ proc'[p].id = NextID
                 /\ proc'[p].outcome = proc[p].outcome
                 /\ pending' = pending \cup {NextID}
                 /\ channel' = [channel EXCEPT ![NextID] = None]
<1>1. CASE proc' = [proc EXCEPT ![p].stage = "return", ![p].outcome = Plain("error")]
           /\ UNCHANGED <<pending, channel>>
  BY <1>1, People DEF ProcTyped, ProcRecord, Others, Register, NextID
<1>2. CASE /\ proc' = [proc EXCEPT ![p].stage = "lock", ![p].id = NextID]
           /\ pending' = pending \cup {NextID} /\ channel' = [channel EXCEPT ![NextID] = None]
  BY <1>2, People DEF ProcTyped, ProcRecord, Others, Register, NextID
<1> QED
  BY <1>1, <1>2 DEF Register

LEMMA LockEffect ==
    ASSUME ProcTyped, NEW p \in Everyone, Lock(p)
    PROVE  /\ proc[p].stage = "lock" /\ proc'[p].stage = "write"
           /\ Others(p) /\ SameRequest(p) /\ proc'[p].outcome = proc[p].outcome
  BY DEF Lock, ProcTyped, ProcRecord, Others, SameRequest

LEMMA WriteEffect ==
    ASSUME ProcTyped, NEW p \in Everyone, Write(p)
    PROVE  /\ proc[p].stage = "write" /\ proc'[p].stage = Written(p)
           /\ Others(p) /\ SameRequest(p) /\ proc'[p].outcome = proc[p].outcome
  BY DEF Write, ProcTyped, ProcRecord, Others, SameRequest

LEMMA WriteFailsEffect ==
    ASSUME ProcTyped, NEW p \in Everyone, WriteFails(p)
    PROVE  /\ proc[p].stage = "write" /\ Others(p) /\ SameRequest(p)
           /\ p = Reader => proc'[p].stage = "read"
           /\ p # Reader => /\ proc'[p].stage = "return"
                            /\ proc'[p].outcome = IF proc[p].kind = "cancelled"
                                                  THEN proc[p].outcome ELSE Plain("error")
           /\ pending' \subseteq pending
<1>1. CASE p = Reader
  BY <1>1 DEF WriteFails, ProcTyped, ProcRecord, Others, SameRequest
<1>2. CASE p # Reader
  <2> DEFINE o == IF proc[p].kind = "cancelled" THEN proc[p].outcome ELSE Plain("error")
  <2>1. proc' = [proc EXCEPT ![p].stage = "return", ![p].outcome = o]
    BY <1>2 DEF WriteFails
  <2> HIDE DEF o
  <2>2. /\ Others(p) /\ SameRequest(p) /\ proc'[p].stage = "return" /\ proc'[p].outcome = o
    BY <2>1 DEF ProcTyped, ProcRecord, Others, SameRequest
  <2> QED
    BY <1>2, <2>2 DEF o, WriteFails
<1> QED
  BY <1>1, <1>2

LEMMA AnsweredEffect ==
    ASSUME ProcTyped, NEW p \in Requesters, Answered(p)
    PROVE  /\ proc[p].stage = "wait" /\ proc'[p].stage = "return"
           /\ channel[proc[p].id] # None /\ proc'[p].outcome = channel[proc[p].id]
           /\ Others(p) /\ SameRequest(p)
  BY People DEF Answered, ProcTyped, ProcRecord, Others, SameRequest

LEMMA DeadlineSeenEffect ==
    ASSUME ProcTyped, NEW p \in Requesters, DeadlineSeen(p)
    PROVE  /\ proc[p].stage = "wait" /\ proc'[p].stage = "lock" /\ proc[p].late
           /\ proc'[p].kind = "cancelled" /\ proc'[p].outcome = Plain("deadline")
           /\ Others(p)
  BY People DEF DeadlineSeen, ProcTyped, ProcRecord, Others

LEMMA DoneSeenEffect ==
    ASSUME ProcTyped, NEW p \in Requesters, DoneSeen(p)
    PROVE  /\ proc[p].stage = "wait" /\ proc'[p].stage = "return"
           /\ proc'[p].outcome = Plain("error") /\ Others(p) /\ SameRequest(p)
  BY People DEF DoneSeen, ProcTyped, ProcRecord, Others, SameRequest

LEMMA CallEffect ==
    ASSUME ProcTyped, NEW c \in Callers, Call(c)
    PROVE  /\ proc[c].stage = "idle" /\ Up /\ Others(c) /\ SameRequest(c)
           /\ \/ proc'[c].stage = "register"
              \/ proc'[c].stage = "ended" /\ proc'[c].outcome = Plain("refused")
<1>1. CASE proc' = [proc EXCEPT ![c].stage = "register"]
  BY <1>1, People DEF Call, ProcTyped, ProcRecord, Others, SameRequest
<1>2. CASE proc' = [proc EXCEPT ![c].stage = "ended", ![c].outcome = Plain("refused")]
  BY <1>2, People DEF Call, ProcTyped, ProcRecord, Others, SameRequest
<1> QED
  BY <1>1, <1>2 DEF Call

LEMMA DeadlineEffect ==
    ASSUME ProcTyped, NEW c \in Callers, Deadline(c)
    PROVE  /\ proc'[c].stage = proc[c].stage /\ proc'[c].outcome = proc[c].outcome
           /\ Others(c) /\ SameRequest(c)
  BY People DEF Deadline, ProcTyped, ProcRecord, Others, SameRequest

LEMMA CallReturnsEffect ==
    ASSUME ProcTyped, NEW c \in Callers, CallReturns(c)
    PROVE  /\ proc[c].stage = "return" /\ proc'[c].stage = "ended" /\ proc'[c].kind = "call"
           /\ proc'[c].outcome \in {proc[c].outcome, Plain("timeout")} /\ Others(c)
  BY People DEF CallReturns, NewProc, ProcTyped, ProcRecord, Others

\* The host goes on to its next request, gives up, or is up.
LEMMA HostGoesOnEffect ==
    ASSUME ProcTyped, HostGoesOn
    PROVE  /\ proc[Host].stage = "return" /\ Others(Host)
           /\ \/ /\ proc[Host].kind = "initialize" /\ proc'[Host].stage = "lock"
                 /\ proc'[Host].kind = "initialized"
              \/ /\ proc[Host].kind = "initialized" /\ proc[Host].outcome = None
                 /\ proc'[Host].stage = "register" /\ proc'[Host].kind = "list"
              \/ /\ proc[Host].kind = "list" /\ lastID < MaxID
                 /\ proc'[Host].stage = "register" /\ proc'[Host].kind = "list"
              \/ /\ proc[Host].kind = "list" /\ proc'[Host].kind = "list"
                 /\ proc'[Host].stage = "up" /\ proc'[Host].outcome = Plain("up")
              \/ /\ proc'[Host].stage = "closing" /\ proc'[Host].kind = proc[Host].kind
                 /\ proc'[Host].outcome = None
<1> USE People DEF ProcTyped, ProcRecord, Others
<1>1. ASSUME NEW stage, NEW kind, Continue(stage, kind)
      PROVE  /\ Others(Host) /\ proc'[Host].stage = stage /\ proc'[Host].kind = kind
             /\ proc'[Host].outcome = None
  BY <1>1 DEF Continue
<1>2. Refuse => /\ Others(Host) /\ proc'[Host].stage = "closing" /\ proc'[Host].outcome = None
                /\ proc'[Host].kind = proc[Host].kind
  BY DEF Refuse
<1>3. ASSUME proc' = [proc EXCEPT ![Host].stage = "up", ![Host].outcome = Plain("up")]
      PROVE  /\ Others(Host) /\ proc'[Host].stage = "up" /\ proc'[Host].outcome = Plain("up")
             /\ proc'[Host].kind = proc[Host].kind
  BY <1>3
<1> HIDE DEF ProcTyped, ProcRecord, Others
<1>4. proc[Host].stage = "return"
  BY DEF HostGoesOn
<1>5. CASE proc[Host].kind = "initialize" /\ Continue("lock", "initialized")
  BY <1>1, <1>4, <1>5
<1>6. CASE proc[Host].kind = "initialized" /\ proc[Host].outcome = None
           /\ Continue("register", "list")
  BY <1>1, <1>4, <1>6
<1>7. CASE proc[Host].kind = "list" /\ lastID < MaxID /\ Continue("register", "list")
  BY <1>1, <1>4, <1>7
<1>8. CASE proc[Host].kind = "list"
           /\ proc' = [proc EXCEPT ![Host].stage = "up", ![Host].outcome = Plain("up")]
  BY <1>3, <1>4, <1>8
<1>9. CASE Refuse
  BY <1>2, <1>4, <1>9
<1> QED
  BY <1>5, <1>6, <1>7, <1>8, <1>9 DEF HostGoesOn

LEMMA CloseEffect ==
    ASSUME ProcTyped, Close \/ Reap
    PROVE  /\ Others(Host) /\ SameRequest(Host) /\ proc'[Host].outcome = proc[Host].outcome
           /\ \/ Close /\ proc[Host].stage \in {"closing", "up"} /\ proc'[Host].stage = "reap"
                 /\ closed'
              \/ Reap /\ proc[Host].stage = "reap" /\ proc'[Host].stage = "down"
                 /\ closed' = closed
<1> USE People DEF ProcTyped, ProcRecord, Others, SameRequest
<1>1. CASE Close
  BY <1>1 DEF Close
<1>2. CASE Reap
  BY <1>2 DEF Reap
<1> QED
  BY <1>1, <1>2

\* The read loop fails, answers the server, takes a channel, or drops the line.
LEMMA ReadEffect ==
    ASSUME ProcTyped, Read \/ StdoutEnds
    PROVE  /\ Others(Reader) /\ proc[Reader].stage = "read"
           /\ \/ /\ proc'[Reader].stage = "dead" /\ SameRequest(Reader) /\ closed' = TRUE
                 /\ \/ UNCHANGED <<pending, channel>>
                    \/ pending' = {} /\ channel' = [i \in IDs |->
                            IF i \in pending THEN Plain("error") ELSE channel[i]]
              \/ /\ proc'[Reader].stage = "lock" /\ SameRequest(Reader)
                 /\ UNCHANGED <<closed, pending, channel>>
              \/ /\ toClient # <<>> /\ Head(toClient).kind = "response"
                 /\ Head(toClient).id \in pending /\ pending' = pending \ {Head(toClient).id}
                 /\ proc'[Reader].stage = "send" /\ proc'[Reader].id = Head(toClient).id
                 /\ proc'[Reader].outcome = Head(toClient).of
                 /\ proc'[Reader].kind = proc[Reader].kind
                 /\ UNCHANGED <<closed, channel>>
              \/ UNCHANGED <<closed, pending, channel, proc>>
<1> USE People
<1>1. proc[Reader].stage = "read"
  BY DEF Read, StdoutEnds
<1>2. CASE Fail
  <2>1. Others(Reader) /\ proc'[Reader].stage = "dead" /\ SameRequest(Reader)
    BY <1>2 DEF Fail, ProcTyped, ProcRecord, Others, SameRequest
  <2> QED
    BY <1>1, <1>2, <2>1 DEF Fail
<1>3. CASE proc' = [proc EXCEPT ![Reader].stage = "lock"] /\ UNCHANGED <<closed, pending, channel>>
  <2>1. Others(Reader) /\ proc'[Reader].stage = "lock" /\ SameRequest(Reader)
    BY <1>3 DEF ProcTyped, ProcRecord, Others, SameRequest
  <2> QED
    BY <1>1, <1>3, <2>1
<1>4. ASSUME NEW i, NEW o,
             proc' = [proc EXCEPT ![Reader].stage = "send", ![Reader].id = i, ![Reader].outcome = o]
      PROVE  /\ Others(Reader) /\ proc'[Reader].stage = "send" /\ proc'[Reader].id = i
             /\ proc'[Reader].outcome = o /\ proc'[Reader].kind = proc[Reader].kind
  BY <1>4 DEF ProcTyped, ProcRecord, Others
<1>5. CASE UNCHANGED <<closed, pending, channel, proc>>
  BY <1>1, <1>5 DEF Others
<1> QED
  BY <1>1, <1>2, <1>3, <1>4, <1>5 DEF Read, StdoutEnds

LEMMA SendEffect ==
    ASSUME ProcTyped, Send
    PROVE  /\ Others(Reader) /\ proc[Reader].stage = "send" /\ proc'[Reader] = NewProc("read", "reply")
           /\ channel[proc[Reader].id] = None
           /\ channel' = [channel EXCEPT ![proc[Reader].id] = proc[Reader].outcome]
  BY People DEF Send, ProcTyped, Others

\* Nobody else moves a process.
LEMMA NextSplit ==
    ASSUME Next
    PROVE  \/ \E p \in Requesters : \/ Register(p) \/ Answered(p) \/ DeadlineSeen(p) \/ DoneSeen(p)
           \/ \E p \in Everyone : Lock(p) \/ Write(p) \/ WriteFails(p)
           \/ \E c \in Callers : Call(c) \/ Deadline(c) \/ CallReturns(c)
           \/ HostGoesOn \/ Close \/ Reap
           \/ Read \/ StdoutEnds \/ Send
           \/ ServerStep \/ OtherAnswers \/ OtherNoise \/ ServerDies
  BY People DEF Next, CallerStep, RequestStep, ReaderStep

LEMMA ServerEffect ==
    ASSUME ServerStep \/ OtherAnswers \/ OtherNoise \/ ServerDies
    PROVE  UNCHANGED <<pending, channel, closed, stdin, writer, lastID, proc>>
  BY DEF ServerStep, ServeLine, ServeAnswer, ServeEnd, OtherReads, OtherAnswers, OtherNoise,
         ServerDies, clientVars

-----------------------------------------------------------------------------
(* Ids. *)

\* A process that waits under an id waited under it before.
Kept(p) == Awaits(proc', p) => Awaits(proc, p) /\ SameRequest(p)

LEMMA AwaitsStep ==
    ASSUME IInv, Next
    PROVE  \/ lastID' = lastID /\ \A p \in Requesters : Kept(p)
           \/ \E p \in Requesters :
                /\ proc[p].stage = "register" /\ lastID' = NextID
                /\ proc'[p].stage \in {"lock", "return"}
                /\ proc'[p].kind = proc[p].kind
                /\ proc'[p].stage = "lock" => proc'[p].id = NextID
                /\ \A q \in Requesters \ {p} : proc'[q] = proc[q]
<1> DEFINE Same == lastID' = lastID /\ \A p \in Requesters : Kept(p)
<1> USE People
<1>0. ProcTyped
  BY DEF IInv, Typed
<1>1. ASSUME NEW p \in Everyone, Others(p), lastID' = lastID,
             \/ proc'[p].stage \notin {"lock", "write", "wait"}
             \/ ~Asks(proc'[p].kind)
             \/ proc[p].stage \in {"lock", "write", "wait"} /\ SameRequest(p)
             \/ p = Reader
             \/ proc'[p].stage = proc[p].stage /\ SameRequest(p)
      PROVE  Same
  <2>1. ASSUME NEW q \in Requesters PROVE Kept(q)
    <3>1. CASE q = p
      BY <1>1, <3>1 DEF Kept, Awaits, SameRequest
    <3>2. CASE q # p
      <4>1. proc'[q] = proc[q]
        BY <1>1, <3>2 DEF Others
      <4> QED
        BY <4>1 DEF Kept, Awaits, SameRequest
    <3> QED
      BY <3>1, <3>2
  <2> QED
    BY <1>1, <2>1
<1>2. ASSUME NEW p \in Requesters, Register(p)
      PROVE  /\ proc[p].stage = "register" /\ lastID' = NextID
             /\ proc'[p].stage \in {"lock", "return"}
             /\ proc'[p].kind = proc[p].kind
             /\ proc'[p].stage = "lock" => proc'[p].id = NextID
             /\ \A q \in Requesters \ {p} : proc'[q] = proc[q]
  BY <1>0, <1>2, RegisterEffect DEF Others
<1>3. ASSUME NEW p \in Requesters, Answered(p) PROVE Same
  BY <1>0, <1>1, <1>3, AnsweredEffect DEF Answered
<1>4. ASSUME NEW p \in Requesters, DeadlineSeen(p) PROVE Same
  BY <1>0, <1>1, <1>4, DeadlineSeenEffect DEF DeadlineSeen, Asks
<1>5. ASSUME NEW p \in Requesters, DoneSeen(p) PROVE Same
  BY <1>0, <1>1, <1>5, DoneSeenEffect DEF DoneSeen
<1>6. ASSUME NEW p \in Everyone, Lock(p) PROVE Same
  BY <1>0, <1>1, <1>6, LockEffect DEF Lock
<1>7. ASSUME NEW p \in Everyone, Write(p) PROVE Same
  BY <1>0, <1>1, <1>7, WriteEffect DEF Write
<1>8. ASSUME NEW p \in Everyone, WriteFails(p) PROVE Same
  BY <1>0, <1>1, <1>8, WriteFailsEffect DEF WriteFails
<1>9. ASSUME NEW c \in Callers, Call(c) PROVE Same
  BY <1>0, <1>1, <1>9, CallEffect DEF Call
<1>10. ASSUME NEW c \in Callers, Deadline(c) PROVE Same
  BY <1>0, <1>1, <1>10, DeadlineEffect DEF Deadline
<1>11. ASSUME NEW c \in Callers, CallReturns(c) PROVE Same
  BY <1>0, <1>1, <1>11, CallReturnsEffect DEF CallReturns
<1>12. CASE HostGoesOn
  BY <1>0, <1>1, <1>12, HostGoesOnEffect DEF HostGoesOn, Asks
<1>13. CASE Close \/ Reap
  BY <1>0, <1>1, <1>13, CloseEffect DEF Close, Reap
<1>14. CASE Read \/ StdoutEnds
  BY <1>0, <1>1, <1>14, ReadEffect DEF Read, StdoutEnds
<1>15. CASE Send
  BY <1>0, <1>1, <1>15, SendEffect DEF Send
<1>16. CASE UNCHANGED <<proc, lastID>>
  BY <1>16 DEF Kept, Awaits, SameRequest
<1> QED
  BY <1>2, <1>3, <1>4, <1>5, <1>6, <1>7, <1>8, <1>9, <1>10, <1>11, <1>12, <1>13, <1>14,
     <1>15, <1>16, NextSplit, ServerEffect

\* Whoever registered stays so.
LEMMA RegisteredStep ==
    ASSUME IInv, Next
    PROVE  Registered \subseteq Registered'
<1> USE People
<1>0. ProcTyped /\ Roles
  BY DEF IInv, Typed
<1>1. ASSUME NEW p \in Everyone, Others(p),
             \/ p \notin Callers
             \/ proc'[p].stage \notin {"idle", "register"}
             \/ proc'[p].stage = proc[p].stage
             \/ proc[p].stage = "idle"
      PROVE  Registered \subseteq Registered'
  BY <1>1 DEF Others, Registered
<1>2. ASSUME NEW p \in Requesters, Register(p) PROVE Registered \subseteq Registered'
  BY <1>0, <1>1, <1>2, RegisterEffect
<1>3. ASSUME NEW p \in Requesters, Answered(p) PROVE Registered \subseteq Registered'
  BY <1>0, <1>1, <1>3, AnsweredEffect
<1>4. ASSUME NEW p \in Requesters, DeadlineSeen(p) PROVE Registered \subseteq Registered'
  BY <1>0, <1>1, <1>4, DeadlineSeenEffect
<1>5. ASSUME NEW p \in Requesters, DoneSeen(p) PROVE Registered \subseteq Registered'
  BY <1>0, <1>1, <1>5, DoneSeenEffect
<1>6. ASSUME NEW p \in Everyone, Lock(p) PROVE Registered \subseteq Registered'
  BY <1>0, <1>1, <1>6, LockEffect
<1>7. ASSUME NEW p \in Everyone, Write(p) PROVE Registered \subseteq Registered'
  <2>1. Written(p) \in {"read", "wait", "return"}
    BY DEF Written
  <2> QED
    BY <1>0, <1>1, <1>7, <2>1, WriteEffect
<1>8. ASSUME NEW p \in Everyone, WriteFails(p) PROVE Registered \subseteq Registered'
  BY <1>0, <1>1, <1>8, WriteFailsEffect
<1>9. ASSUME NEW c \in Callers, Call(c) PROVE Registered \subseteq Registered'
  BY <1>0, <1>1, <1>9, CallEffect
<1>10. ASSUME NEW c \in Callers, Deadline(c) PROVE Registered \subseteq Registered'
  BY <1>0, <1>1, <1>10, DeadlineEffect
<1>11. ASSUME NEW c \in Callers, CallReturns(c) PROVE Registered \subseteq Registered'
  BY <1>0, <1>1, <1>11, CallReturnsEffect
<1>12. CASE HostGoesOn
  BY <1>0, <1>1, <1>12, HostGoesOnEffect
<1>13. CASE Close \/ Reap
  BY <1>0, <1>1, <1>13, CloseEffect
<1>14. CASE Read \/ StdoutEnds
  BY <1>0, <1>1, <1>14, ReadEffect
<1>15. CASE Send
  BY <1>0, <1>1, <1>15, SendEffect
<1>16. CASE UNCHANGED proc
  BY <1>16 DEF Registered
<1> QED
  BY <1>2, <1>3, <1>4, <1>5, <1>6, <1>7, <1>8, <1>9, <1>10, <1>11, <1>12, <1>13, <1>14,
     <1>15, <1>16, NextSplit, ServerEffect

\* The read loop's id is that of a line it read; an id that waits was given out.
LEMMA PendingStep ==
    ASSUME IInv, Next
    PROVE  /\ pending' \subseteq pending \cup {lastID'}
           /\ lastID' = lastID => pending' \subseteq pending
           /\ proc'[Reader].id <= lastID
<1> DEFINE Quiet == pending' \subseteq pending /\ proc'[Reader].id <= lastID
<1> USE People
<1>0. ProcTyped /\ proc[Reader].id <= lastID /\ lastID \in Nat
  BY Constants DEF IInv, Typed, ClientTyped, Numbered
<1>1. ASSUME NEW p \in Everyone, Others(p), p # Reader \/ SameRequest(p), pending' \subseteq pending
      PROVE  Quiet
  BY <1>0, <1>1 DEF Others, SameRequest
<1>2. ASSUME NEW p \in Requesters, Register(p)
      PROVE  /\ pending' \subseteq pending \cup {lastID'}
             /\ lastID' # lastID
             /\ proc'[Reader].id <= lastID
  <2>1. lastID' = NextID /\ proc'[Reader] = proc[Reader] /\ pending' \subseteq pending \cup {NextID}
    BY <1>0, <1>2, RegisterEffect DEF Others
  <2> QED
    BY <1>0, <2>1 DEF NextID
<1>3. ASSUME NEW p \in Requesters, Answered(p) PROVE Quiet
  BY <1>0, <1>1, <1>3, AnsweredEffect DEF Answered
<1>4. ASSUME NEW p \in Requesters, DeadlineSeen(p) PROVE Quiet
  BY <1>0, <1>1, <1>4, DeadlineSeenEffect DEF DeadlineSeen
<1>5. ASSUME NEW p \in Requesters, DoneSeen(p) PROVE Quiet
  BY <1>0, <1>1, <1>5, DoneSeenEffect DEF DoneSeen
<1>6. ASSUME NEW p \in Everyone, Lock(p) PROVE Quiet
  BY <1>0, <1>1, <1>6, LockEffect DEF Lock
<1>7. ASSUME NEW p \in Everyone, Write(p) PROVE Quiet
  BY <1>0, <1>1, <1>7, WriteEffect DEF Write
<1>8. ASSUME NEW p \in Everyone, WriteFails(p) PROVE Quiet
  BY <1>0, <1>1, <1>8, WriteFailsEffect
<1>9. ASSUME NEW c \in Callers, Call(c) PROVE Quiet
  BY <1>0, <1>1, <1>9, CallEffect DEF Call
<1>10. ASSUME NEW c \in Callers, Deadline(c) PROVE Quiet
  BY <1>0, <1>1, <1>10, DeadlineEffect DEF Deadline
<1>11. ASSUME NEW c \in Callers, CallReturns(c) PROVE Quiet
  BY <1>0, <1>1, <1>11, CallReturnsEffect DEF CallReturns
<1>12. CASE HostGoesOn
  BY <1>0, <1>1, <1>12, HostGoesOnEffect DEF HostGoesOn
<1>13. CASE Close \/ Reap
  BY <1>0, <1>1, <1>13, CloseEffect DEF Close, Reap
<1>14. CASE Read \/ StdoutEnds
  <2>1. \A i \in pending : i <= lastID
    <3>1. pending \subseteq 1..lastID
      BY DEF IInv, Numbered
    <3> QED
      BY <1>0, <3>1
  <2> QED
    BY <1>0, <1>14, <2>1, ReadEffect DEF SameRequest
<1>15. CASE Send
  <2>1. NewProc("read", "reply").id = 0
    BY DEF NewProc
  <2> QED
    BY <1>0, <1>15, <2>1, SendEffect DEF Send
<1>16. CASE UNCHANGED <<proc, pending>>
  BY <1>0, <1>16
<1> QED
  BY <1>2, <1>3, <1>4, <1>5, <1>6, <1>7, <1>8, <1>9, <1>10, <1>11, <1>12, <1>13, <1>14,
     <1>15, <1>16, NextSplit, ServerEffect

LEMMA NumberedStep ==
    ASSUME IInv, Next
    PROVE  Numbered'
<1> USE People
<1>0. Numbered /\ lastID \in Nat /\ pending' \subseteq pending \cup {lastID'}
      /\ proc'[Reader].id <= lastID /\ proc'[Reader].id \in Nat
  <2>1. proc' \in [Everyone -> ProcRecord'] /\ IDs \cup {0} \subseteq Nat
    BY ProcTypedStep, Constants DEF ProcTyped
  <2>2. proc'[Reader].id \in Nat
    BY <2>1 DEF ProcRecord
  <2> QED
    BY <2>2, PendingStep, Constants DEF IInv, Typed, ClientTyped
<1>1. IsFiniteSet(Registered') /\ Cardinality(Registered') \in Nat
      /\ Cardinality(Registered) \in Nat
      /\ Cardinality(Registered) <= Cardinality(Registered')
  <2>1. Registered' \subseteq Callers /\ Registered \subseteq Registered'
    BY RegisteredStep DEF Registered
  <2> QED
    BY <2>1, SessionAssumption, FS_Subset, FS_CardinalityType
<1>2. CASE lastID' = lastID /\ \A p \in Requesters : Kept(p)
  <2>1. lastID' <= MaxID + Cardinality(Registered')
    BY <1>0, <1>1, <1>2, Constants DEF Numbered
  <2>2. pending' \subseteq 1..lastID'
    BY <1>0, <1>2, PendingStep DEF Numbered
  <2>3. \A p \in Requesters : Awaits(proc', p) =>
          proc'[p].id \in 1..lastID' /\ Awaits(proc, p) /\ proc'[p].id = proc[p].id
    BY <1>0, <1>2 DEF Kept, Numbered, SameRequest
  <2> QED
    BY <1>0, <1>2, <2>1, <2>2, <2>3 DEF Numbered, Registered
<1>3. ASSUME NEW p \in Requesters, lastID' = NextID,
             proc[p].stage = "register",
             proc'[p].stage \in {"lock", "return"},
             proc'[p].stage = "lock" => proc'[p].id = NextID,
             \A q \in Requesters \ {p} : proc'[q] = proc[q]
      PROVE  Numbered'
  <2>1. lastID' <= MaxID + Cardinality(Registered')
    <3>1. CASE p = Host
      BY <1>0, <1>1, <1>3, <3>1, Constants DEF IInv, Handshake, Starting, NextID
    <3>2. CASE p \in Callers
      <4>1. p \notin Registered /\ p \in Registered' /\ Registered \cup {p} \subseteq Registered'
        BY <1>3, <3>2, RegisteredStep DEF Registered
      <4>2. IsFiniteSet(Registered)
        BY SessionAssumption, FS_Subset DEF Registered
      <4>3. Cardinality(Registered \cup {p}) = Cardinality(Registered) + 1
        BY <4>1, <4>2, FS_AddElement
      <4>4. Cardinality(Registered \cup {p}) <= Cardinality(Registered')
        BY <1>1, <4>1, FS_Subset
      <4> QED
        BY <1>0, <1>1, <1>3, <4>3, <4>4, Constants DEF Numbered, NextID
    <3> QED
      BY <3>1, <3>2 DEF Requesters
  <2>2. pending' \subseteq 1..lastID'
    BY <1>0, <1>3 DEF Numbered, NextID
  <2>3. \A q \in Requesters : Awaits(proc', q) =>
          \/ q = p /\ proc'[q].id = lastID + 1
          \/ q # p /\ proc'[q].id = proc[q].id /\ Awaits(proc, q) /\ proc'[q].id \in 1..lastID
    BY <1>0, <1>3 DEF Numbered, NextID, Awaits
  <2>4. proc'[Reader].id <= lastID'
    BY <1>0, <1>3 DEF NextID
  <2>5. \A q \in Requesters : Awaits(proc', q) => proc'[q].id \in 1..lastID'
    BY <1>0, <1>3, <2>3 DEF NextID
  <2>6. \A q, r \in Requesters :
          Awaits(proc', q) /\ Awaits(proc', r) /\ proc'[q].id = proc'[r].id => q = r
    BY <1>0, <2>3 DEF Numbered
  <2> QED
    BY <2>1, <2>2, <2>4, <2>5, <2>6 DEF Numbered, Registered
<1> QED
  BY <1>2, <1>3, AwaitsStep
-----------------------------------------------------------------------------
(* What is said under an id. *)

\* Nobody waits under an id up to n in Q who did not in P.
Since(P, Q, n) ==
    \A p \in Requesters : Awaits(Q, p) /\ Q[p].id <= n =>
        Awaits(P, p) /\ Q[p].id = P[p].id /\ Q[p].kind = P[p].kind

LEMMA StillFits ==
    ASSUME NEW P, NEW Q, NEW n, Since(P, Q, n), NEW id, id <= n, NEW of, Fits(P, id, of)
    PROVE  Fits(Q, id, of)
  BY DEF Since, Fits

LEMMA SinceStep ==
    ASSUME IInv, Next
    PROVE  /\ Since(proc, proc', lastID)
           /\ lastID \in Nat /\ lastID' \in Nat /\ lastID <= lastID'
<1>0. lastID \in Nat
  BY Constants DEF IInv, Typed, ClientTyped
<1>1. CASE lastID' = lastID /\ \A p \in Requesters : Kept(p)
  BY <1>0, <1>1 DEF Since, Kept, SameRequest
<1>2. ASSUME NEW p \in Requesters, lastID' = NextID, proc'[p].stage \in {"lock", "return"},
             proc'[p].stage = "lock" => proc'[p].id = NextID,
             \A q \in Requesters \ {p} : proc'[q] = proc[q]
      PROVE  Since(proc, proc', lastID) /\ lastID' \in Nat /\ lastID <= lastID'
  <2>1. ~(Awaits(proc', p) /\ proc'[p].id <= lastID)
    BY <1>0, <1>2 DEF Awaits, NextID
  <2> QED
    BY <1>0, <1>2, <2>1 DEF Since, Awaits, NextID
<1> QED
  BY <1>0, <1>1, <1>2, AwaitsStep

LEMMA LinesStillFit ==
    ASSUME IInv, Next
    PROVE  /\ FittingAsks(proc, lastID) \subseteq FittingAsks(proc', lastID')
           /\ FittingResponses(proc, lastID) \subseteq FittingResponses(proc', lastID')
<1>0. /\ Since(proc, proc', lastID)
      /\ lastID \in Nat /\ lastID' \in Nat /\ lastID <= lastID'
  BY SinceStep
<1>1. \A id \in IDs : id \in Nat
  BY Constants
<1>2. ASSUME NEW l \in FittingAsks(proc, lastID) PROVE l \in FittingAsks(proc', lastID')
  <2>1. l \in AskLines /\ l.id \in Nat /\ l.id <= lastID /\ Fits(proc, l.id, <<l.of, l.kind>>)
    BY <1>1 DEF FittingAsks, AskLines
  <2>2. Fits(proc', l.id, <<l.of, l.kind>>)
    BY <1>0, <2>1, StillFits
  <2> QED
    BY <1>0, <2>1, <2>2 DEF FittingAsks
<1>3. ASSUME NEW l \in FittingResponses(proc, lastID) PROVE l \in FittingResponses(proc', lastID')
  <2>1. l \in Responses /\ l.id \in Nat /\ l.id <= lastID /\ Fits(proc, l.id, l.of)
    BY <1>1 DEF FittingResponses, Responses
  <2>2. Fits(proc', l.id, l.of)
    BY <1>0, <2>1, StillFits
  <2> QED
    BY <1>0, <2>1, <2>2 DEF FittingResponses
<1> QED
  BY <1>2, <1>3

\* The line a process writes is the request it waits with.
LEMMA WriteFits ==
    ASSUME IInv, NEW p \in Everyone, Write(p)
    PROVE  Line(proc[p].kind, proc[p].id, p) \in FittingAsks(proc', lastID') \cup OtherLines
<1> DEFINE line == Line(proc[p].kind, proc[p].id, p)
<1>0. /\ ProcTyped /\ proc[p] \in ProcRecord /\ proc[p].stage = "write" /\ lastID' = lastID
      /\ lastID \in Nat /\ proc[p].kind \in KindsOf(p) /\ proc[p].kind \in Kinds
  BY Constants DEF IInv, Typed, ProcTyped, ClientTyped, Roles, Write, ProcRecord
<1>1. CASE ~Asks(proc[p].kind)
  <2>1. proc[p].kind \in {"initialized", "cancelled", "reply"} /\ proc[p].id \in IDs \cup {0}
    BY <1>0, <1>1 DEF ProcRecord, Asks, Kinds
  <2> QED
    BY <2>1 DEF Line, OtherLines
<1>2. CASE Asks(proc[p].kind)
  <2>1. p \in Requesters
    BY <1>0, <1>2, People DEF Everyone, KindsOf, Asks
  <2>2. Awaits(proc, p) /\ proc[p].id \in 1..lastID
    BY <1>0, <1>2, <2>1 DEF Awaits, IInv, Numbered
  <2>3. line \in AskLines
    <3>1. proc[p].kind \in {"initialize", "list", "call"}
      BY <1>2 DEF Asks
    <3>2. lastID <= MaxID + Cardinality(Callers)
      BY Constants DEF IInv, Typed, ClientTyped
    <3>3. proc[p].id \in IDs
      BY <1>0, <2>2, <3>2, Constants
    <3> QED
      BY <2>1, <3>1, <3>3 DEF Line, AskLines
  <2>4. line.id = proc[p].id /\ line.of = p /\ line.kind = proc[p].kind
    BY DEF Line
  <2>5. Fits(proc, line.id, <<line.of, line.kind>>)
    <3> SUFFICES ASSUME NEW q \in Requesters, Awaits(proc, q), proc[q].id = proc[p].id
                 PROVE  <<p, proc[p].kind>> = <<q, proc[q].kind>>
      BY <2>4 DEF Fits
    <3>1. q = p
      BY <2>1, <2>2 DEF IInv, Numbered
    <3> QED
      BY <3>1
  <2>6. Others(p) /\ SameRequest(p)
    BY <1>0, WriteEffect
  <2>7. Since(proc, proc', lastID)
    <3> SUFFICES ASSUME NEW q \in Requesters, Awaits(proc', q)
                 PROVE  Awaits(proc, q) /\ proc'[q].id = proc[q].id /\ proc'[q].kind = proc[q].kind
      BY DEF Since
    <3>1. CASE q = p
      BY <2>2, <2>6, <3>1 DEF SameRequest
    <3>2. CASE q # p
      BY <2>6, <3>2, People DEF Others, Awaits
    <3> QED
      BY <3>1, <3>2
  <2>8. line.id <= lastID
    BY <1>0, <2>2, <2>4
  <2> HIDE DEF line
  <2>9. Fits(proc', line.id, <<line.of, line.kind>>)
    BY <2>5, <2>7, <2>8, StillFits
  <2>10. line \in FittingAsks(proc', lastID)
    BY <2>3, <2>8, <2>9 DEF FittingAsks
  <2> QED
    BY <1>0, <2>10 DEF line
<1> QED
  BY <1>1, <1>2

LEMMA LinesFitStep ==
    ASSUME IInv, Next
    PROVE  LinesFit'
<1> DEFINE A == FittingAsks(proc, lastID) \cup OtherLines
           B == FittingAsks(proc', lastID') \cup OtherLines
           C == FittingResponses(proc, lastID) \cup Garbage
           D == FittingResponses(proc', lastID') \cup Garbage
<1>0. A \subseteq B /\ C \subseteq D
  BY LinesStillFit
<1>1. /\ toServer \in Seq(A) /\ Len(toServer) <= PipeSize
      /\ toClient \in Seq(C) /\ Len(toClient) <= PipeSize
  BY DEF IInv, Fitting, LinesFit
<1>2. SUFFICES /\ toServer' \in Seq(B) /\ Len(toServer') <= PipeSize
               /\ toClient' \in Seq(D) /\ Len(toClient') <= PipeSize
  BY DEF LinesFit, OtherLines, Garbage
<1>3. toServer' = toServer \/ (toServer' = Tail(toServer) /\ toServer # <<>>)
      \/ \E p \in Everyone : Write(p)
  BY NextSplit DEF Register, Answered, DeadlineSeen, DoneSeen, Lock, WriteFails, Call, Deadline,
     CallReturns, HostGoesOn, Close, Reap, Read, StdoutEnds, Send, ServerStep, ServeLine,
     ServeAnswer, ServeEnd, OtherReads, OtherAnswers, OtherNoise, ServerDies
<1>4. toClient' = toClient \/ (toClient' = Tail(toClient) /\ toClient # <<>>)
      \/ ServeAnswer \/ OtherAnswers \/ OtherNoise
  BY NextSplit DEF Register, Answered, DeadlineSeen, DoneSeen, Lock, Write, WriteFails, Call,
     Deadline, CallReturns, HostGoesOn, Close, Reap, Read, StdoutEnds, Send, ServerStep,
     ServeLine, ServeEnd, OtherReads, ServerDies
<1>5. ASSUME NEW S, NEW T, S \subseteq T, NEW s \in Seq(S), s # <<>>, Len(s) <= PipeSize
      PROVE  Tail(s) \in Seq(T) /\ Len(Tail(s)) <= PipeSize
  <2>1. Tail(s) \in Seq(S) /\ Len(Tail(s)) = Len(s) - 1
    BY <1>5
  <2> QED
    BY <1>5, <2>1, SeqMono, Constants
<1>6. ASSUME NEW S, NEW T, S \subseteq T, NEW s \in Seq(S), Len(s) < PipeSize, NEW e \in T
      PROVE  Append(s, e) \in Seq(T) /\ Len(Append(s, e)) <= PipeSize
  <2>1. s \in Seq(T)
    BY <1>6, SeqMono
  <2> QED
    BY <1>6, <2>1, Constants
<1> HIDE DEF A, B, C, D
<1>7. toServer' \in Seq(B) /\ Len(toServer') <= PipeSize
  <2>1. CASE toServer' = toServer
    BY <1>0, <1>1, <2>1, SeqMono
  <2>2. CASE toServer' = Tail(toServer) /\ toServer # <<>>
    BY <1>0, <1>1, <1>5, <2>2
  <2>3. ASSUME NEW p \in Everyone, Write(p)
        PROVE  toServer' \in Seq(B) /\ Len(toServer') <= PipeSize
    <3>1. Line(proc[p].kind, proc[p].id, p) \in B
      BY <2>3, WriteFits DEF B
    <3>2. Len(toServer) < PipeSize
          /\ toServer' = Append(toServer, Line(proc[p].kind, proc[p].id, p))
      BY <2>3 DEF Write
    <3> QED
      BY <1>0, <1>1, <1>6, <3>1, <3>2
  <2> QED
    BY <1>3, <2>1, <2>2, <2>3
<1>8. ASSUME NEW e \in D, Len(toClient) < PipeSize, toClient' = Append(toClient, e)
      PROVE  toClient' \in Seq(D) /\ Len(toClient') <= PipeSize
  BY <1>0, <1>1, <1>6, <1>8
<1>9. toClient' \in Seq(D) /\ Len(toClient') <= PipeSize
  <2>0. /\ server.asked \subseteq FittingAsks(proc, lastID)
        /\ server.served \subseteq FittingAsks(proc, lastID)
        /\ server.answer \in FittingResponses(proc, lastID) \cup {None}
    BY DEF IInv, Fitting, ServerFits
  <2>1. CASE toClient' = toClient
    BY <1>0, <1>1, <2>1, SeqMono
  <2>2. CASE toClient' = Tail(toClient) /\ toClient # <<>>
    BY <1>0, <1>1, <1>5, <2>2
  <2>3. CASE ServeAnswer
    <3>1. server.answer \in D
      BY <1>0, <2>0, <2>3 DEF C, D, ServeAnswer
    <3> QED
      BY <1>8, <2>3, <3>1 DEF ServeAnswer
  <2>4. CASE OtherAnswers
    <3>1. PICK line \in server.asked, ok \in BOOLEAN :
            toClient' = Append(toClient, Response(line, ok))
      BY <2>4 DEF OtherAnswers
    <3>2. Response(line, ok) \in D
      BY <1>0, <2>0, <3>1, ResponseFits DEF C, D
    <3> QED
      BY <1>8, <2>4, <3>1, <3>2 DEF OtherAnswers
  <2>5. CASE OtherNoise
    <3>1. PICK line \in Garbage \cup {Response(l, TRUE) : l \in server.served} :
            toClient' = Append(toClient, line)
      BY <2>5 DEF OtherNoise
    <3>2. line \in D
      BY <1>0, <2>0, <3>1, ResponseFits DEF C, D
    <3> QED
      BY <1>8, <2>5, <3>1, <3>2 DEF OtherNoise
  <2> QED
    BY <1>4, <2>1, <2>2, <2>3, <2>4, <2>5
<1> QED
  BY <1>2, <1>7, <1>9 DEF B, D

LEMMA ServerFitsStep ==
    ASSUME IInv, Next
    PROVE  ServerFits'
  BY ServerStepFits, LinesStillFit DEF ServerFits

\* Every channel holds what fits, and so does the hand of the read loop.
LEMMA ClientFitsStep ==
    ASSUME IInv, Next
    PROVE  ClientFits'
<1> USE People
<1>0. /\ ProcTyped /\ ClientFits /\ Since(proc, proc', lastID)
      /\ lastID \in Nat /\ lastID' \in Nat /\ lastID <= lastID'
      /\ channel \in [IDs -> Outcomes] /\ proc[Reader].id <= lastID
      /\ \A id \in IDs : id \in Nat
  BY SinceStep, Constants DEF IInv, Typed, Fitting, Numbered, ClientTyped
<1>1. \A i \in IDs : channel[i] # None => i <= lastID' /\ Fits(proc', i, channel[i])
  BY <1>0, StillFits DEF ClientFits
<1>2. proc[Reader].stage = "send" =>
        proc[Reader].id \in IDs /\ Fits(proc', proc[Reader].id, proc[Reader].outcome)
  BY <1>0, StillFits DEF ClientFits
<1>3. ASSUME NEW p \in Everyone, Others(p), p # Reader, UNCHANGED channel
      PROVE  ClientFits'
  BY <1>1, <1>2, <1>3 DEF Others, ClientFits
<1>4. ASSUME Others(Reader), UNCHANGED channel, proc'[Reader].stage # "send"
      PROVE  ClientFits'
  BY <1>1, <1>4 DEF ClientFits
<1>5. ASSUME NEW p \in Requesters, Register(p) PROVE ClientFits'
  <2>1. UNCHANGED channel \/ channel' = [channel EXCEPT ![NextID] = None]
    BY <1>0, <1>5, RegisterEffect
  <2>2. \A i \in IDs : channel'[i] # None => channel'[i] = channel[i]
    BY <1>0, <2>1
  <2>3. proc'[Reader] = proc[Reader]
    BY <1>0, <1>5, RegisterEffect DEF Others
  <2> QED
    BY <1>1, <1>2, <2>2, <2>3 DEF ClientFits
<1>6. ASSUME NEW p \in Requesters, Answered(p) PROVE ClientFits'
  <2>1. \A i \in IDs : channel'[i] # None => channel'[i] = channel[i]
    BY <1>0, <1>6 DEF Answered
  <2>2. proc'[Reader] = proc[Reader]
    BY <1>0, <1>6, AnsweredEffect DEF Others
  <2> QED
    BY <1>1, <1>2, <2>1, <2>2 DEF ClientFits
<1>7. ASSUME NEW p \in Requesters, DeadlineSeen(p) PROVE ClientFits'
  BY <1>0, <1>3, <1>7, DeadlineSeenEffect DEF DeadlineSeen
<1>8. ASSUME NEW p \in Requesters, DoneSeen(p) PROVE ClientFits'
  BY <1>0, <1>3, <1>8, DoneSeenEffect DEF DoneSeen
<1>9. ASSUME NEW p \in Everyone, Lock(p) PROVE ClientFits'
  BY <1>0, <1>3, <1>4, <1>9, LockEffect DEF Lock
<1>10. ASSUME NEW p \in Everyone, Write(p) PROVE ClientFits'
  <2>1. Written(p) # "send"
    BY DEF Written
  <2> QED
    BY <1>0, <1>3, <1>4, <1>10, <2>1, WriteEffect DEF Write
<1>11. ASSUME NEW p \in Everyone, WriteFails(p) PROVE ClientFits'
  BY <1>0, <1>3, <1>4, <1>11, WriteFailsEffect DEF WriteFails
<1>12. ASSUME NEW c \in Callers, Call(c) PROVE ClientFits'
  BY <1>0, <1>3, <1>12, CallEffect DEF Call
<1>13. ASSUME NEW c \in Callers, Deadline(c) PROVE ClientFits'
  BY <1>0, <1>3, <1>13, DeadlineEffect DEF Deadline
<1>14. ASSUME NEW c \in Callers, CallReturns(c) PROVE ClientFits'
  BY <1>0, <1>3, <1>14, CallReturnsEffect DEF CallReturns
<1>15. CASE HostGoesOn
  BY <1>0, <1>3, <1>15, HostGoesOnEffect DEF HostGoesOn
<1>16. CASE Close \/ Reap
  BY <1>0, <1>3, <1>16, CloseEffect DEF Close, Reap
<1>17. CASE Read \/ StdoutEnds
  <2>1. \A i \in IDs : channel'[i] # None =>
          channel'[i] = channel[i] \/ (channel'[i] = Plain("error") /\ i \in pending)
    BY <1>0, <1>17, ReadEffect
  <2>2. \A i \in IDs : channel'[i] # None => i <= lastID' /\ Fits(proc', i, channel'[i])
    <3>1. \A i \in pending : i <= lastID
      <4>1. pending \subseteq 1..lastID
        BY DEF IInv, Numbered
      <4> QED
        BY <1>0, <4>1
    <3>2. \A i \in IDs : Fits(proc', i, Plain("error"))
      BY DEF Fits
    <3> QED
      BY <1>0, <1>1, <2>1, <3>1, <3>2
  <2>3. proc'[Reader].stage = "send" =>
          proc'[Reader].id \in IDs /\ Fits(proc', proc'[Reader].id, proc'[Reader].outcome)
    <3> SUFFICES ASSUME proc'[Reader].stage = "send"
                 PROVE  proc'[Reader].id \in IDs
                        /\ Fits(proc', proc'[Reader].id, proc'[Reader].outcome)
      OBVIOUS
    <3> DEFINE line == Head(toClient)
    <3>1. /\ toClient # <<>> /\ line.kind = "response" /\ proc'[Reader].id = line.id
          /\ proc'[Reader].outcome = line.of
      <4>1. proc[Reader].stage = "read"
        BY <1>17 DEF Read, StdoutEnds
      <4> QED
        BY <1>0, <1>17, <4>1, ReadEffect
    <3>2. line \in FittingResponses(proc, lastID) \cup Garbage
      <4>1. toClient \in Seq(FittingResponses(proc, lastID) \cup Garbage)
        BY DEF IInv, Fitting, LinesFit
      <4> QED
        BY <3>1, <4>1
    <3>3. line \in FittingResponses(proc', lastID')
      <4>1. line \in FittingResponses(proc, lastID)
        BY <3>1, <3>2 DEF Garbage, Line
      <4> QED
        BY <4>1, LinesStillFit
    <3> QED
      BY <3>1, <3>3 DEF FittingResponses, Responses
  <2> QED
    BY <2>2, <2>3 DEF ClientFits
<1>18. CASE Send
  <2>1. proc'[Reader].stage = "read"
    BY <1>0, <1>18, SendEffect DEF NewProc
  <2>2. \A i \in IDs : channel'[i] = channel[i]
                       \/ (i = proc[Reader].id /\ channel'[i] = proc[Reader].outcome)
    BY <1>0, <1>18, SendEffect
  <2>3. \A i \in IDs : channel'[i] # None => i <= lastID' /\ Fits(proc', i, channel'[i])
    BY <1>0, <1>1, <1>2, <1>18, <2>2, SendEffect
  <2> QED
    BY <2>1, <2>3 DEF ClientFits
<1>19. CASE UNCHANGED <<proc, channel>>
  BY <1>1, <1>2, <1>19 DEF ClientFits
<1> QED
  BY <1>5, <1>6, <1>7, <1>8, <1>9, <1>10, <1>11, <1>12, <1>13, <1>14, <1>15, <1>16, <1>17,
     <1>18, <1>19, NextSplit, ServerEffect
-----------------------------------------------------------------------------
(* A caller's own result. *)

LEMMA CallingStep ==
    ASSUME IInv, Next
    PROVE  Calling'
<1> USE People
<1>0. ProcTyped /\ Calling
  BY DEF IInv, Typed
<1>1. ASSUME NEW p \in Everyone, Others(p),
             \/ p \notin Callers
             \/ proc'[p].stage = "register" /\ proc'[p].kind = "call"
             \/ proc'[p].stage = "wait" /\ proc'[p].kind = "call"
             \/ proc'[p].stage \in {"lock", "write"}
                /\ (proc'[p].kind = "cancelled" => proc'[p].outcome = Plain("deadline"))
             \/ proc'[p].stage \notin {"idle", "register", "wait", "lock", "write"}
      PROVE  Calling'
  BY <1>0, <1>1 DEF Others, Calling
<1>2. ASSUME NEW p \in Requesters, Register(p) PROVE Calling'
  <2>1. p \in Callers => proc[p].kind = "call"
    BY <1>0, <1>2 DEF Register, Calling
  <2> QED
    BY <1>0, <1>1, <1>2, <2>1, RegisterEffect
<1>3. ASSUME NEW p \in Requesters, Answered(p) PROVE Calling'
  BY <1>0, <1>1, <1>3, AnsweredEffect
<1>4. ASSUME NEW p \in Requesters, DeadlineSeen(p) PROVE Calling'
  BY <1>0, <1>1, <1>4, DeadlineSeenEffect
<1>5. ASSUME NEW p \in Requesters, DoneSeen(p) PROVE Calling'
  BY <1>0, <1>1, <1>5, DoneSeenEffect
<1>6. ASSUME NEW p \in Everyone, Lock(p) PROVE Calling'
  <2>1. p \in Callers /\ proc[p].kind = "cancelled" => proc[p].outcome = Plain("deadline")
    BY <1>0, <1>6 DEF Lock, Calling
  <2> QED
    BY <1>0, <1>1, <1>6, <2>1, LockEffect DEF SameRequest
<1>7. ASSUME NEW p \in Everyone, Write(p) PROVE Calling'
  <2>1. p \in Callers => proc[p].kind \in {"call", "cancelled"}
    BY DEF IInv, Typed, Roles, KindsOf
  <2>2. Written(p) \in {"read", "return"} \/ (Written(p) = "wait" /\ Asks(proc[p].kind))
    BY DEF Written
  <2>3. Asks(proc[p].kind) /\ p \in Callers => proc[p].kind = "call"
    BY <2>1 DEF Asks
  <2> QED
    BY <1>0, <1>1, <1>7, <2>2, <2>3, WriteEffect DEF SameRequest
<1>8. ASSUME NEW p \in Everyone, WriteFails(p) PROVE Calling'
  BY <1>0, <1>1, <1>8, WriteFailsEffect
<1>9. ASSUME NEW c \in Callers, Call(c) PROVE Calling'
  <2>1. proc[c].kind = "call"
    BY <1>0, <1>9 DEF Calling, Call
  <2> QED
    BY <1>0, <1>1, <1>9, <2>1, CallEffect DEF SameRequest
<1>10. ASSUME NEW c \in Callers, Deadline(c) PROVE Calling'
  BY <1>0, <1>10, DeadlineEffect DEF SameRequest, Others, Calling
<1>11. ASSUME NEW c \in Callers, CallReturns(c) PROVE Calling'
  BY <1>0, <1>1, <1>11, CallReturnsEffect
<1>12. CASE HostGoesOn
  BY <1>0, <1>1, <1>12, HostGoesOnEffect
<1>13. CASE Close \/ Reap
  BY <1>0, <1>1, <1>13, CloseEffect
<1>14. CASE Read \/ StdoutEnds
  BY <1>0, <1>1, <1>14, ReadEffect
<1>15. CASE Send
  BY <1>0, <1>1, <1>15, SendEffect
<1>16. CASE UNCHANGED proc
  BY <1>0, <1>16 DEF Calling
<1> QED
  BY <1>2, <1>3, <1>4, <1>5, <1>6, <1>7, <1>8, <1>9, <1>10, <1>11, <1>12, <1>13, <1>14,
     <1>15, <1>16, NextSplit, ServerEffect
\* Nothing waits in the channel of an id that is pending.
ChannelsFree == \A i \in pending : channel[i] = None
ReaderFree ==
    proc[Reader].stage = "send" =>
        channel[proc[Reader].id] = None /\ proc[Reader].id \notin pending
Errors == {Plain(w) : w \in {"error", "deadline", "timeout", "refused"}}
OwnResult ==
    \A c \in Callers : proc[c].stage \in {"return", "ended"} =>
        proc[c].outcome \in {<<c, "call">>} \cup Errors

LEMMA ErrorNames ==
    /\ Plain("error") \in Errors /\ Plain("deadline") \in Errors
    /\ Plain("timeout") \in Errors /\ Plain("refused") \in Errors
  BY DEF Errors

LEMMA DispatchedParts == DispatchedByID <=> ChannelsFree /\ ReaderFree /\ OwnResult
  BY DEF DispatchedByID, ChannelsFree, ReaderFree, OwnResult, Errors

LEMMA ChannelsFreeStep ==
    ASSUME IInv, Next
    PROVE  ChannelsFree'
<1> USE People
<1>0. /\ ProcTyped /\ ChannelsFree /\ ReaderFree /\ pending \subseteq IDs
      /\ channel \in [IDs -> Outcomes]
  BY DispatchedParts DEF IInv, Typed, ClientTyped
<1>1. ASSUME pending' \subseteq pending, UNCHANGED channel PROVE ChannelsFree'
  BY <1>0, <1>1 DEF ChannelsFree
<1>2. ASSUME NEW p \in Requesters, Register(p) PROVE ChannelsFree'
  <2>1. NextID \in IDs
    BY <1>2, FreshID DEF Register, IInv, Handshake
  <2>2. CASE pending' = pending \cup {NextID} /\ channel' = [channel EXCEPT ![NextID] = None]
    BY <1>0, <2>1, <2>2 DEF ChannelsFree
  <2> QED
    BY <1>0, <1>1, <1>2, <2>2, RegisterEffect
<1>3. ASSUME NEW p \in Requesters, Answered(p) PROVE ChannelsFree'
  BY <1>0, <1>3 DEF Answered, ChannelsFree
<1>4. ASSUME NEW p \in Requesters, DeadlineSeen(p) \/ DoneSeen(p) PROVE ChannelsFree'
  BY <1>0, <1>1, <1>4 DEF DeadlineSeen, DoneSeen
<1>5. ASSUME NEW p \in Everyone, WriteFails(p) PROVE ChannelsFree'
  BY <1>0, <1>1, <1>5, WriteFailsEffect DEF WriteFails
<1>6. CASE Read \/ StdoutEnds
  BY <1>0, <1>1, <1>6, ReadEffect DEF ChannelsFree
<1>7. CASE Send
  BY <1>0, <1>7 DEF Send, ChannelsFree, ReaderFree
<1>8. CASE UNCHANGED <<pending, channel>>
  BY <1>1, <1>8
<1> QED
  BY <1>2, <1>3, <1>4, <1>5, <1>6, <1>7, <1>8, NextSplit, ServerEffect
     DEF Lock, Write, Call, Deadline, CallReturns, HostGoesOn, Close, Reap

\* The read loop holds what it alone may send.
LEMMA ReaderFreeStep ==
    ASSUME IInv, Next
    PROVE  ReaderFree'
<1> USE People
<1>0. /\ ProcTyped /\ ChannelsFree /\ ReaderFree /\ channel \in [IDs -> Outcomes]
      /\ pending \subseteq IDs /\ lastID \in Nat
      /\ proc[Reader].id \in Nat /\ proc[Reader].id <= lastID
  <2>1. proc[Reader].id \in Nat
    BY Constants DEF IInv, Typed, ProcTyped, ProcRecord
  <2> QED
    BY <2>1, DispatchedParts, Constants DEF IInv, Typed, ClientTyped, Numbered
<1>1. ASSUME NEW p \in Everyone, Others(p), p # Reader \/ proc'[p].stage # "send",
             pending' \subseteq pending, UNCHANGED channel
      PROVE  ReaderFree'
  BY <1>0, <1>1 DEF Others, ReaderFree
<1>2. ASSUME NEW p \in Requesters, Register(p) PROVE ReaderFree'
  <2>1. proc'[Reader] = proc[Reader]
    BY <1>0, <1>2, RegisterEffect DEF Others
  <2>2. NextID # proc[Reader].id
    BY <1>0 DEF NextID
  <2>3. CASE pending' = pending \cup {NextID} /\ channel' = [channel EXCEPT ![NextID] = None]
    <3>1. \A i : i # NextID => channel'[i] = channel[i]
      BY <1>0, <2>3
    <3> QED
      BY <1>0, <2>1, <2>2, <2>3, <3>1 DEF ReaderFree
  <2>4. CASE UNCHANGED <<pending, channel>>
    BY <1>0, <2>1, <2>4 DEF ReaderFree
  <2> QED
    BY <1>0, <1>2, <2>3, <2>4, RegisterEffect
<1>3. ASSUME NEW p \in Requesters, Answered(p) PROVE ReaderFree'
  <2>1. proc'[Reader] = proc[Reader] /\ pending' = pending
    BY <1>0, <1>3, AnsweredEffect DEF Others, Answered
  <2>2. channel' = [channel EXCEPT ![proc[p].id] = None]
    BY <1>3 DEF Answered
  <2>3. proc[p].id \in IDs
    BY <1>3, WaitsUnderID DEF Answered
  <2>4. \A i : channel[i] = None => channel'[i] = None
    BY <1>0, <2>2, <2>3
  <2> QED
    BY <1>0, <2>1, <2>4 DEF ReaderFree
<1>4. ASSUME NEW p \in Requesters, DeadlineSeen(p) PROVE ReaderFree'
  BY <1>0, <1>1, <1>4, DeadlineSeenEffect DEF DeadlineSeen
<1>5. ASSUME NEW p \in Requesters, DoneSeen(p) PROVE ReaderFree'
  BY <1>0, <1>1, <1>5, DoneSeenEffect DEF DoneSeen
<1>6. ASSUME NEW p \in Everyone, Lock(p) PROVE ReaderFree'
  BY <1>0, <1>1, <1>6, LockEffect DEF Lock
<1>7. ASSUME NEW p \in Everyone, Write(p) PROVE ReaderFree'
  <2>1. Written(p) # "send"
    BY DEF Written
  <2> QED
    BY <1>0, <1>1, <1>7, <2>1, WriteEffect DEF Write
<1>8. ASSUME NEW p \in Everyone, WriteFails(p) PROVE ReaderFree'
  BY <1>0, <1>1, <1>8, WriteFailsEffect DEF WriteFails
<1>9. ASSUME NEW c \in Callers, Call(c) PROVE ReaderFree'
  BY <1>0, <1>1, <1>9, CallEffect DEF Call
<1>10. ASSUME NEW c \in Callers, Deadline(c) PROVE ReaderFree'
  BY <1>0, <1>1, <1>10, DeadlineEffect DEF Deadline
<1>11. ASSUME NEW c \in Callers, CallReturns(c) PROVE ReaderFree'
  BY <1>0, <1>1, <1>11, CallReturnsEffect DEF CallReturns
<1>12. CASE HostGoesOn
  BY <1>0, <1>1, <1>12, HostGoesOnEffect DEF HostGoesOn
<1>13. CASE Close \/ Reap
  BY <1>0, <1>1, <1>13, CloseEffect DEF Close, Reap
<1>14. CASE Read \/ StdoutEnds
  BY <1>0, <1>14, ReadEffect DEF ReaderFree, ChannelsFree, SameRequest
<1>15. CASE Send
  <2>1. proc'[Reader].stage = "read"
    BY <1>0, <1>15, SendEffect DEF NewProc
  <2> QED
    BY <2>1 DEF ReaderFree
<1>16. CASE UNCHANGED <<proc, pending, channel>>
  BY <1>0, <1>16 DEF ReaderFree
<1> QED
  BY <1>2, <1>3, <1>4, <1>5, <1>6, <1>7, <1>8, <1>9, <1>10, <1>11, <1>12, <1>13, <1>14,
     <1>15, <1>16, NextSplit, ServerEffect

LEMMA OwnResultStep ==
    ASSUME IInv, Next
    PROVE  OwnResult'
<1> USE People, ErrorNames
<1>0. ProcTyped /\ OwnResult /\ Calling
  BY DispatchedParts DEF IInv, Typed
<1>1. ASSUME NEW p \in Everyone, Others(p),
             \/ p \notin Callers
             \/ proc'[p].stage \notin {"return", "ended"}
             \/ proc'[p].outcome \in {<<p, "call">>} \cup Errors
      PROVE  OwnResult'
  BY <1>0, <1>1 DEF Others, OwnResult
<1>2. ASSUME NEW p \in Requesters, Register(p) PROVE OwnResult'
  BY <1>0, <1>1, <1>2, RegisterEffect
<1>3. ASSUME NEW p \in Requesters, Answered(p) PROVE OwnResult'
  <2>1. Awaits(proc, p) /\ proc[p].id \in IDs /\ channel[proc[p].id] # None
    BY <1>0, <1>3, WaitsUnderID, AnsweredEffect
  <2>2. channel[proc[p].id] \in {<<p, proc[p].kind>>, Plain("error")}
    BY <2>1 DEF IInv, Fitting, ClientFits, Fits
  <2>3. p \in Callers => proc[p].kind = "call"
    BY <1>0, <1>3 DEF Calling, Answered
  <2> QED
    BY <1>0, <1>1, <1>3, <2>2, <2>3, AnsweredEffect
<1>4. ASSUME NEW p \in Requesters, DeadlineSeen(p) PROVE OwnResult'
  BY <1>0, <1>1, <1>4, DeadlineSeenEffect
<1>5. ASSUME NEW p \in Requesters, DoneSeen(p) PROVE OwnResult'
  BY <1>0, <1>1, <1>5, DoneSeenEffect
<1>6. ASSUME NEW p \in Everyone, Lock(p) PROVE OwnResult'
  BY <1>0, <1>1, <1>6, LockEffect
<1>7. ASSUME NEW p \in Everyone, Write(p) PROVE OwnResult'
  <2>1. p \in Callers => proc[p].kind \in {"call", "cancelled"}
    BY DEF IInv, Typed, Roles, KindsOf
  <2>2. Written(p) \in {"read", "wait"} \/ (Written(p) = "return" /\ ~Asks(proc[p].kind))
    BY DEF Written
  <2>3. ~Asks(proc[p].kind) /\ p \in Callers /\ proc[p].stage = "write"
        => proc[p].outcome = Plain("deadline")
    BY <1>0, <2>1 DEF Asks, Calling
  <2> QED
    BY <1>0, <1>1, <1>7, <2>2, <2>3, WriteEffect
<1>8. ASSUME NEW p \in Everyone, WriteFails(p) PROVE OwnResult'
  <2>1. p \in Callers /\ proc[p].kind = "cancelled" => proc[p].outcome = Plain("deadline")
    BY <1>0, <1>8 DEF WriteFails, Calling
  <2> QED
    BY <1>0, <1>1, <1>8, <2>1, WriteFailsEffect
<1>9. ASSUME NEW c \in Callers, Call(c) PROVE OwnResult'
  BY <1>0, <1>1, <1>9, CallEffect
<1>10. ASSUME NEW c \in Callers, Deadline(c) PROVE OwnResult'
  BY <1>0, <1>10, DeadlineEffect DEF Others, OwnResult
<1>11. ASSUME NEW c \in Callers, CallReturns(c) PROVE OwnResult'
  <2>1. proc[c].outcome \in {<<c, "call">>} \cup Errors
    BY <1>0, <1>11 DEF OwnResult, CallReturns
  <2> QED
    BY <1>0, <1>1, <1>11, <2>1, CallReturnsEffect
<1>12. CASE HostGoesOn
  BY <1>0, <1>1, <1>12, HostGoesOnEffect
<1>13. CASE Close \/ Reap
  BY <1>0, <1>1, <1>13, CloseEffect
<1>14. CASE Read \/ StdoutEnds
  BY <1>0, <1>1, <1>14, ReadEffect
<1>15. CASE Send
  BY <1>0, <1>1, <1>15, SendEffect
<1>16. CASE UNCHANGED proc
  BY <1>0, <1>16 DEF OwnResult
<1> QED
  BY <1>2, <1>3, <1>4, <1>5, <1>6, <1>7, <1>8, <1>9, <1>10, <1>11, <1>12, <1>13, <1>14,
     <1>15, <1>16, NextSplit, ServerEffect
-----------------------------------------------------------------------------
(* The host's start and end. *)

\* What is closed, dead or somebody else's stays so.
LEMMA OneWay ==
    ASSUME IInv, Next
    PROVE  /\ closed => closed'
           /\ ~server.alive => ~server'.alive
           /\ server'.loop = server.loop
<1>0. server \in [loop : BOOLEAN, alive : BOOLEAN, initialized : BOOLEAN,
                  asked : SUBSET AskLines, answer : Responses \cup {None},
                  served : SUBSET AskLines]
      /\ closed \in BOOLEAN
  BY DEF IInv, Typed, ServerTyped, ClientTyped
<1>1. closed => closed'
  BY <1>0, NextSplit, ServerEffect
     DEF Register, Answered, DeadlineSeen, DoneSeen, Lock, Write, WriteFails, Call, Deadline,
         CallReturns, HostGoesOn, Close, Reap, Read, StdoutEnds, Fail, Send
<1>2. CASE UNCHANGED server
  BY <1>1, <1>2
<1>3. CASE Reap \/ ServeEnd \/ ServerDies
  BY <1>0, <1>1, <1>3 DEF Reap, ServeEnd, ServerDies
<1>4. CASE ServeLine
  <2> DEFINE line == Head(toServer)
  <2>1. CASE server' = [server EXCEPT !.initialized = TRUE]
    BY <1>0, <1>1, <2>1
  <2>2. ASSUME NEW e, server' = [server EXCEPT !.served = @ \cup {line}, !.answer = e]
        PROVE  server'.alive = server.alive /\ server'.loop = server.loop
    BY <1>0, <2>2
  <2>3. CASE line.kind = "initialized"
    BY <1>4, <2>1, <2>3, Zenon DEF ServeLine, Asks
  <2>4. CASE Asks(line.kind)
    <3>1. line.kind # "initialized"
      BY <2>4 DEF Asks
    <3>2. server' = [server EXCEPT !.served = @ \cup {line},
                       !.answer = Response(line, line.kind = "initialize" \/ server.initialized)]
      BY <1>4, <2>4, <3>1 DEF ServeLine
    <3> QED
      BY <1>1, <2>2, <3>2
  <2>5. CASE line.kind # "initialized" /\ ~Asks(line.kind)
    BY <1>2, <1>4, <2>5 DEF ServeLine
  <2> QED
    BY <1>1, <2>1, <2>3, <2>4, <2>5
<1>5. CASE ServeAnswer \/ OtherReads \/ OtherAnswers
  BY <1>0, <1>1, <1>5 DEF ServeAnswer, OtherReads, OtherAnswers
<1> QED
  BY <1>1, <1>2, <1>3, <1>4, <1>5, NextSplit
     DEF ServerStep, OtherNoise, serverVars, Register, Answered, DeadlineSeen, DoneSeen, Lock,
         Write, WriteFails, Call, Deadline, CallReturns, HostGoesOn, Close, Read, StdoutEnds, Send

\* A caller that acts acts on a host that is up.
LEMMA CallersAct ==
    ASSUME IInv, NEW c \in Callers, proc[c].stage # "idle"
    PROVE  Up
  BY DEF IInv, Handshake, Starting

LEMMA StartingStep ==
    ASSUME IInv, Next
    PROVE  Starting'
<1> USE People
<1>0. /\ ProcTyped /\ Starting /\ (closed => closed') /\ (~server.alive => ~server'.alive)
      /\ proc[Host].kind \in {"initialize", "initialized", "list"} /\ lastID \in Nat
  BY OneWay, Constants DEF IInv, Typed, Handshake, Roles, KindsOf, ClientTyped
\* Somebody else's step.
<1>1. ASSUME NEW p \in Everyone, p # Host, Others(p), p = Reader \/ Up,
             lastID' = lastID \/ Up
      PROVE  Starting'
  <2>1. proc'[Host] = proc[Host] /\ Up' = Up
    BY <1>1 DEF Others, Up
  <2>2. CASE Up
    BY <1>0, <2>1, <2>2 DEF Starting, Up
  <2>3. CASE ~Up
    <3>1. lastID' = lastID /\ \A c \in Callers : proc'[c] = proc[c]
      BY <1>1, <2>3 DEF Others
    <3> QED
      BY <1>0, <2>1, <2>3, <3>1 DEF Starting
  <2> QED
    BY <2>2, <2>3
\* A request of the host's while it starts.
<1>2. ASSUME Others(Host), SameRequest(Host) \/ proc'[Host].kind = proc[Host].kind,
             proc[Host].stage \in {"lock", "write", "wait"},
             proc'[Host].stage \in {"write", "wait", "return"}, lastID' = lastID,
             proc'[Host].stage = "wait" => Asks(proc[Host].kind)
      PROVE  Starting'
  <2>1. ~Up /\ ~Up'
    BY <1>2 DEF Up
  <2>2. \A c \in Callers : proc'[c] = proc[c]
    BY <1>2 DEF Others
  <2>3. proc'[Host].kind = proc[Host].kind
    BY <1>2 DEF SameRequest
  <2> QED
    BY <1>0, <1>2, <2>1, <2>2, <2>3 DEF Starting
<1>3. ASSUME NEW p \in Requesters, Register(p) PROVE Starting'
  <2>1. CASE p = Host
    <3>1. /\ proc[Host].stage = "register" /\ proc'[Host].stage \in {"return", "lock"}
          /\ lastID' = lastID + 1 /\ Others(Host) /\ proc'[Host].kind = proc[Host].kind
      BY <1>0, <1>3, <2>1, RegisterEffect DEF NextID
    <3>2. ~Up /\ ~Up' /\ \A c \in Callers : proc'[c] = proc[c]
      BY <3>1 DEF Up, Others
    <3>3. /\ proc[Host].kind # "initialized" /\ lastID < MaxID
          /\ (proc[Host].kind = "initialize" => lastID = 0)
      BY <1>0, <3>1 DEF Starting
    <3>4. lastID' <= MaxID /\ (proc[Host].kind = "initialize" => lastID' <= 1)
      BY <1>0, <3>1, <3>3, Constants
    <3> QED
      BY <1>0, <3>1, <3>2, <3>3, <3>4 DEF Starting
  <2>2. CASE p \in Callers
    BY <1>0, <1>1, <1>3, <2>2, CallersAct, RegisterEffect
  <2> QED
    BY <2>1, <2>2 DEF Requesters
<1>4. ASSUME NEW p \in Requesters, Answered(p) PROVE Starting'
  <2>1. CASE p = Host
    BY <1>0, <1>2, <1>4, <2>1, AnsweredEffect DEF Answered
  <2>2. CASE p \in Callers
    BY <1>0, <1>1, <1>4, <2>2, CallersAct, AnsweredEffect
  <2> QED
    BY <2>1, <2>2 DEF Requesters
<1>5. ASSUME NEW p \in Requesters, DeadlineSeen(p) PROVE Starting'
  <2>1. p \in Callers
    BY <1>5 DEF DeadlineSeen, Requesters, IInv, Typed, Roles
  <2> QED
    BY <1>0, <1>1, <1>5, <2>1, CallersAct, DeadlineSeenEffect
<1>6. ASSUME NEW p \in Requesters, DoneSeen(p) PROVE Starting'
  <2>1. CASE p = Host
    BY <1>0, <1>2, <1>6, <2>1, DoneSeenEffect DEF DoneSeen
  <2>2. CASE p \in Callers
    BY <1>0, <1>1, <1>6, <2>2, CallersAct, DoneSeenEffect
  <2> QED
    BY <2>1, <2>2 DEF Requesters
<1>7. ASSUME NEW p \in Everyone, Lock(p) PROVE Starting'
  <2>1. CASE p = Host
    BY <1>0, <1>2, <1>7, <2>1, LockEffect DEF Lock
  <2>2. CASE p \in Callers
    BY <1>0, <1>1, <1>7, <2>2, CallersAct, LockEffect
  <2>3. CASE p = Reader
    BY <1>0, <1>1, <1>7, <2>3, LockEffect DEF Lock
  <2> QED
    BY <2>1, <2>2, <2>3 DEF Everyone, Requesters
<1>8. ASSUME NEW p \in Everyone, Write(p) PROVE Starting'
  <2>1. CASE p = Host
    <3>1. Written(p) \in {"wait", "return"} /\ (Written(p) = "wait" => Asks(proc[p].kind))
      BY <2>1 DEF Written
    <3> QED
      BY <1>0, <1>2, <1>8, <2>1, <3>1, WriteEffect DEF Write
  <2>2. CASE p \in Callers
    BY <1>0, <1>1, <1>8, <2>2, CallersAct, WriteEffect
  <2>3. CASE p = Reader
    BY <1>0, <1>1, <1>8, <2>3, WriteEffect DEF Write
  <2> QED
    BY <2>1, <2>2, <2>3 DEF Everyone, Requesters
<1>9. ASSUME NEW p \in Everyone, WriteFails(p) PROVE Starting'
  <2>1. CASE p = Host
    BY <1>0, <1>2, <1>9, <2>1, WriteFailsEffect DEF WriteFails
  <2>2. CASE p \in Callers
    BY <1>0, <1>1, <1>9, <2>2, CallersAct, WriteFailsEffect
  <2>3. CASE p = Reader
    BY <1>0, <1>1, <1>9, <2>3, WriteFailsEffect DEF WriteFails
  <2> QED
    BY <2>1, <2>2, <2>3 DEF Everyone, Requesters
<1>10. ASSUME NEW c \in Callers, Call(c) PROVE Starting'
  BY <1>0, <1>1, <1>10, CallEffect
<1>11. ASSUME NEW c \in Callers, CallReturns(c) PROVE Starting'
  BY <1>0, <1>1, <1>11, CallersAct, CallReturnsEffect
<1>12. ASSUME NEW c \in Callers, Deadline(c) PROVE Starting'
  BY <1>0, <1>1, <1>12, CallersAct, DeadlineEffect DEF Deadline
<1>13. CASE HostGoesOn
  <2>1. lastID' = lastID /\ proc[Host].stage = "return" /\ ~Up
        /\ \A c \in Callers : proc'[c] = proc[c]
    BY <1>0, <1>13, HostGoesOnEffect DEF HostGoesOn, Up, Others
  <2>2. CASE proc'[Host].stage = "up"
    <3>1. Up' /\ proc'[Host].kind = "list"
      BY <1>0, <1>13, <2>2, HostGoesOnEffect DEF Up
    <3> QED
      BY <2>2, <3>1 DEF Starting
  <2>3. CASE proc'[Host].stage = "closing"
    <3>1. ~Up' /\ proc'[Host].kind = proc[Host].kind
      BY <1>0, <1>13, <2>3, HostGoesOnEffect, Constants DEF Up
    <3> QED
      BY <1>0, <2>1, <2>3, <3>1 DEF Starting
  <2>4. CASE proc'[Host].stage = "lock"
    <3>1. ~Up' /\ proc'[Host].kind = "initialized" /\ proc[Host].kind = "initialize"
      BY <1>0, <1>13, <2>4, HostGoesOnEffect DEF Up
    <3> QED
      BY <1>0, <2>1, <2>4, <3>1 DEF Starting
  <2>5. CASE proc'[Host].stage = "register"
    <3>1. ~Up' /\ proc'[Host].kind = "list" /\ (proc[Host].kind = "initialized" \/ lastID < MaxID)
      BY <1>0, <1>13, <2>5, HostGoesOnEffect DEF Up
    <3>2. lastID < MaxID
      BY <1>0, <2>1, <3>1, Constants DEF Starting
    <3> QED
      BY <1>0, <2>1, <2>5, <3>1, <3>2 DEF Starting
  <2> QED
    BY <1>0, <1>13, <2>2, <2>3, <2>4, <2>5, HostGoesOnEffect
<1>14. CASE Close \/ Reap
  <2>1. /\ lastID' = lastID /\ proc'[Host].kind = proc[Host].kind /\ Up' = Up
        /\ \A c \in Callers : proc'[c] = proc[c]
    BY <1>0, <1>14, CloseEffect DEF Close, Reap, Up, Others, SameRequest
  <2>2. CASE Close
    <3>1. proc'[Host].stage = "reap" /\ closed'
      BY <1>0, <2>2, CloseEffect DEF Close
    <3> QED
      BY <1>0, <2>1, <3>1 DEF Starting
  <2>3. CASE Reap
    <3>1. proc[Host].stage = "reap" /\ proc'[Host].stage = "down" /\ ~server'.alive
      BY <1>0, <2>3, CloseEffect DEF Reap, IInv, Typed, ServerTyped
    <3> QED
      BY <1>0, <2>1, <3>1 DEF Starting
  <2> QED
    BY <1>14, <2>2, <2>3
<1>15. CASE Read \/ StdoutEnds
  BY <1>0, <1>1, <1>15, ReadEffect DEF Read, StdoutEnds
<1>16. CASE Send
  BY <1>0, <1>1, <1>16, SendEffect DEF Send
<1>17. CASE UNCHANGED <<proc, lastID>>
  BY <1>0, <1>17 DEF Starting, Up
<1> QED
  BY <1>3, <1>4, <1>5, <1>6, <1>7, <1>8, <1>9, <1>10, <1>11, <1>12, <1>13, <1>14,
     <1>15, <1>16, <1>17, NextSplit, ServerEffect
\* Once up, a host is not started again.
LEMMA UpStays ==
    ASSUME IInv, Next, Up
    PROVE  Up'
<1> USE People
<1>0. ProcTyped /\ proc[Host].stage \in {"up", "closing", "reap", "down"}
      /\ proc[Host].outcome = Plain("up")
  BY DEF IInv, Typed, Up
<1>1. CASE proc'[Host] = proc[Host]
  BY <1>0, <1>1 DEF Up
<1>2. CASE Close \/ Reap
  BY <1>0, <1>2, CloseEffect DEF Up
<1>3. ASSUME NEW p \in Everyone, Others(p), p # Host
      PROVE  Up'
  BY <1>1, <1>3 DEF Others
<1>4. ASSUME NEW p \in Requesters, Register(p) \/ Answered(p) \/ DeadlineSeen(p) \/ DoneSeen(p)
      PROVE  Up'
  <2>1. p # Host
    BY <1>0, <1>4 DEF Register, Answered, DeadlineSeen, DoneSeen
  <2>2. Others(p)
    BY <1>0, <1>4, RegisterEffect, AnsweredEffect, DeadlineSeenEffect, DoneSeenEffect
  <2> QED
    BY <1>3, <2>1, <2>2
<1>5. ASSUME NEW p \in Everyone, Lock(p) \/ Write(p) \/ WriteFails(p)
      PROVE  Up'
  <2>1. p # Host
    BY <1>0, <1>5 DEF Lock, Write, WriteFails
  <2>2. Others(p)
    BY <1>0, <1>5, LockEffect, WriteEffect, WriteFailsEffect
  <2> QED
    BY <1>3, <2>1, <2>2
<1>6. ASSUME NEW c \in Callers, Call(c) \/ Deadline(c) \/ CallReturns(c)
      PROVE  Up'
  <2>1. Others(c)
    BY <1>0, <1>6, CallEffect, DeadlineEffect, CallReturnsEffect
  <2> QED
    BY <1>3, <2>1
<1>7. CASE HostGoesOn
  BY <1>0, <1>7 DEF HostGoesOn
<1>8. CASE Read \/ StdoutEnds \/ Send
  BY <1>0, <1>3, <1>8, ReadEffect, SendEffect
<1>9. CASE UNCHANGED proc
  BY <1>1, <1>9
<1> QED
  BY <1>2, <1>4, <1>5, <1>6, <1>7, <1>8, <1>9, NextSplit, ServerEffect

\* The pipe to the server: as it was, one line less, or one line more.
LEMMA PipeEffect ==
    ASSUME Next
    PROVE  \/ UNCHANGED <<toServer, server>>
           \/ Reap \/ ServeAnswer \/ ServeEnd \/ ServerDies \/ OtherAnswers
           \/ ServeLine \/ OtherReads
           \/ \E p \in Everyone : Write(p)
  BY NextSplit DEF Register, Answered, DeadlineSeen, DoneSeen, Lock, WriteFails, Call, Deadline,
     CallReturns, HostGoesOn, Close, Read, StdoutEnds, Send, ServerStep, OtherNoise, serverVars

\* What a step of the loop of mcp/server.go does with a line.
LEMMA ServeLineEffect ==
    ASSUME ServerTyped, ServeLine
    PROVE  LET line == Head(toServer)
           IN  /\ toServer # <<>> /\ toServer' = Tail(toServer)
               /\ server'.asked = server.asked
               /\ \/ /\ line.kind = "initialized" /\ server'.initialized
                     /\ server'.served = server.served
                  \/ /\ line.kind # "initialized" /\ server'.initialized = server.initialized
                     /\ server'.served \subseteq server.served \cup {line}
<1>0. server \in [loop : BOOLEAN, alive : BOOLEAN, initialized : BOOLEAN,
                  asked : SUBSET AskLines, answer : Responses \cup {None},
                  served : SUBSET AskLines]
  BY DEF ServerTyped
<1> DEFINE line == Head(toServer)
<1>1. toServer # <<>> /\ toServer' = Tail(toServer)
  BY DEF ServeLine
<1>2. CASE line.kind = "initialized"
  <2>1. server' = [server EXCEPT !.initialized = TRUE]
    BY <1>2, Zenon DEF ServeLine, Asks
  <2> QED
    BY <1>0, <1>1, <1>2, <2>1
<1>3. CASE Asks(line.kind)
  <2>1. line.kind # "initialized"
    BY <1>3 DEF Asks
  <2>2. PICK e : server' = [server EXCEPT !.served = @ \cup {line}, !.answer = e]
    BY <1>3, <2>1 DEF ServeLine
  <2>3. /\ server'.initialized = server.initialized /\ server'.asked = server.asked
        /\ server'.served \subseteq server.served \cup {line}
    BY <1>0, <2>2
  <2> QED
    BY <1>1, <2>1, <2>3
<1>4. CASE line.kind # "initialized" /\ ~Asks(line.kind)
  <2>1. server' = server
    BY <1>4 DEF ServeLine
  <2> QED
    BY <1>1, <1>4, <2>1
<1> QED
  BY <1>2, <1>3, <1>4

LEMMA OtherReadsEffect ==
    ASSUME ServerTyped, OtherReads
    PROVE  /\ toServer # <<>> /\ toServer' = Tail(toServer)
           /\ server'.asked \subseteq server.asked \cup {Head(toServer)}
           /\ server'.served = server.served
  BY DEF ServerTyped, OtherReads

LEMMA ServerKeeps ==
    ASSUME ServerTyped, Reap \/ ServeAnswer \/ ServeEnd \/ ServerDies \/ OtherAnswers
    PROVE  /\ toServer' = toServer /\ server'.initialized = server.initialized
           /\ server'.asked \subseteq server.asked
           /\ server'.served \subseteq server.served \cup server.asked
           /\ server.loop => server'.served = server.served
<1>1. CASE Reap \/ ServeEnd \/ ServerDies
  BY <1>1 DEF ServerTyped, Reap, ServeEnd, ServerDies
<1>2. CASE ServeAnswer
  BY <1>2 DEF ServerTyped, ServeAnswer
<1>3. CASE OtherAnswers
  <2>1. PICK line \in server.asked : server' = [server EXCEPT !.asked = @ \ {line},
                                                           !.served = @ \cup {line}]
    BY <1>3 DEF OtherAnswers
  <2>2. toServer' = toServer /\ ~server.loop
    BY <1>3 DEF OtherAnswers
  <2> QED
    BY <2>1, <2>2 DEF ServerTyped
<1> QED
  BY <1>1, <1>2, <1>3

LEMMA PipeIsSeq ==
    ASSUME IInv
    PROVE  /\ toServer \in Seq(AskLines \cup OtherLines) /\ Len(toServer) \in Nat
           /\ ServerTyped
<1>1. FittingAsks(proc, lastID) \cup OtherLines \subseteq AskLines \cup OtherLines
  BY DEF FittingAsks
<1>2. toServer \in Seq(FittingAsks(proc, lastID) \cup OtherLines)
  BY DEF IInv, Fitting, LinesFit
<1>3. toServer \in Seq(AskLines \cup OtherLines)
  BY <1>1, <1>2, SeqMono
<1> QED
  BY <1>3 DEF IInv, Typed

LEMMA NoCallYetStep ==
    ASSUME IInv, Next
    PROVE  NoCallYet'
<1> USE People
<1> SUFFICES ASSUME ~Up'
             PROVE  /\ \A l \in server'.served \cup server'.asked : l.kind # "call"
                    /\ \A k \in 1..Len(toServer') : toServer'[k].kind # "call"
  BY DEF NoCallYet
<1>0. /\ ~Up /\ \A c \in Callers : proc[c].stage = "idle"
      /\ ProcTyped /\ toServer \in Seq(AskLines \cup OtherLines) /\ Len(toServer) \in Nat
      /\ ServerTyped
      /\ \A l \in server.served \cup server.asked : l.kind # "call"
      /\ \A k \in 1..Len(toServer) : toServer[k].kind # "call"
  BY UpStays, PipeIsSeq DEF IInv, Typed, Handshake, Starting, NoCallYet
<1>1. CASE UNCHANGED <<toServer, server>>
  BY <1>0, <1>1
<1>2. CASE Reap \/ ServeAnswer \/ ServeEnd \/ ServerDies \/ OtherAnswers
  BY <1>0, <1>2, ServerKeeps
<1>3. ASSUME toServer # <<>>, toServer' = Tail(toServer)
      PROVE  /\ Head(toServer).kind # "call"
             /\ \A k \in 1..Len(toServer') : toServer'[k].kind # "call"
  <2>1. /\ Head(toServer) = toServer[1] /\ 1 \in 1..Len(toServer)
        /\ Len(toServer') = Len(toServer) - 1
        /\ \A k \in 1..Len(toServer') : toServer'[k] = toServer[k + 1] /\ k + 1 \in 1..Len(toServer)
    BY <1>0, <1>3
  <2> QED
    BY <1>0, <2>1
<1>4. CASE ServeLine
  BY <1>0, <1>3, <1>4, ServeLineEffect
<1>5. CASE OtherReads
  BY <1>0, <1>3, <1>5, OtherReadsEffect
<1>6. ASSUME NEW p \in Everyone, Write(p)
      PROVE  /\ \A l \in server'.served \cup server'.asked : l.kind # "call"
             /\ \A k \in 1..Len(toServer') : toServer'[k].kind # "call"
  <2> DEFINE line == Line(proc[p].kind, proc[p].id, p)
  <2>1. p \notin Callers
    BY <1>0, <1>6 DEF Write
  <2>2. proc[p].kind # "call"
    BY <2>1 DEF IInv, Typed, Roles, KindsOf, Everyone, Requesters
  <2>3. line.kind # "call"
    BY <2>2 DEF Line
  <2>4. toServer' = Append(toServer, line) /\ server' = server
    BY <1>6 DEF Write, serverVars
  <2> HIDE DEF line
  <2> QED
    BY <1>0, <2>3, <2>4
<1> QED
  BY <1>1, <1>2, <1>4, <1>5, <1>6, PipeEffect
\* Nothing that needs the handshake is ahead of it in the pipe.
LEMMA InOrderStep ==
    ASSUME IInv, Next
    PROVE  InOrder'
<1> USE People
<1> SUFFICES ASSUME server.loop PROVE InOrder'
  BY OneWay DEF InOrder
<1>00. PICK N \in Nat : N = Len(toServer)
  BY PipeIsSeq
<1>0. /\ ProcTyped /\ toServer \in Seq(AskLines \cup OtherLines)
      /\ N \in Nat /\ N = Len(toServer)
      /\ ServerTyped
      /\ \A k \in 1..N : toServer[k].kind \in {"list", "call"} => Sent(k - 1)
      /\ proc[Host].kind = "list" => Sent(N)
      /\ (proc[Host].kind = "initialized" /\ proc[Host].stage = "return"
           /\ proc[Host].outcome = None) => Sent(N)
      /\ (\E l \in server.served : l.kind # "initialize") => server.initialized
  BY <1>00, PipeIsSeq DEF IInv, Typed, Handshake, InOrder
\* Where the host is: at a list only if it was, or if it has sent its notification.
<1> DEFINE HostReady == \/ proc'[Host].kind = "list"
                        \/ /\ proc'[Host].kind = "initialized" /\ proc'[Host].stage = "return"
                           /\ proc'[Host].outcome = None
<1>1. ASSUME Sent(Len(toServer))' \/ ~HostReady,
             \A k \in 1..Len(toServer') : toServer'[k].kind \in {"list", "call"} => Sent(k - 1)',
             (\E l \in server'.served : l.kind # "initialize") => server'.initialized
      PROVE  InOrder'
  BY <1>1 DEF InOrder
<1>2. ASSUME toServer' = toServer, server'.initialized = server.initialized,
             server'.served = server.served, HostReady => Sent(N)
      PROVE  InOrder'
  <2>1. \A k : Sent(k)' <=> Sent(k)
    BY <1>2 DEF Sent
  <2>2. Sent(Len(toServer))' \/ ~HostReady
    BY <1>0, <1>2, <2>1
  <2> QED
    BY <1>0, <1>1, <1>2, <2>1, <2>2
<1>3. ASSUME UNCHANGED <<toServer, server>>, proc'[Host] = proc[Host]
      PROVE  InOrder'
  BY <1>0, <1>2, <1>3
<1>4. ASSUME UNCHANGED <<toServer, server>>, SameRequest(Host),
             proc'[Host].stage # "return" \/ proc[Host].kind # "initialized"
             \/ proc'[Host].outcome # None
      PROVE  InOrder'
  BY <1>0, <1>2, <1>4 DEF SameRequest
<1>5. ASSUME NEW p \in Requesters, Register(p) PROVE InOrder'
  <2>1. UNCHANGED <<toServer, server>>
    BY <1>5 DEF Register, serverVars
  <2>2. proc[p].stage = "register" /\ proc'[p].kind = proc[p].kind /\ Others(p)
    BY <1>0, <1>5, RegisterEffect
  <2>3. CASE p = Host
    <3>1. proc[Host].kind # "initialized"
      BY <2>2, <2>3 DEF IInv, Handshake, Starting
    <3> QED
      BY <1>0, <1>2, <2>1, <2>2, <2>3, <3>1
  <2>4. CASE p # Host
    BY <1>3, <2>1, <2>2, <2>4 DEF Others
  <2> QED
    BY <2>3, <2>4
<1>6. ASSUME NEW p \in Requesters, Answered(p) \/ DoneSeen(p) PROVE InOrder'
  <2>1. UNCHANGED <<toServer, server>>
    BY <1>6 DEF Answered, DoneSeen, serverVars
  <2>2. proc[p].stage = "wait" /\ SameRequest(p) /\ Others(p)
    BY <1>0, <1>6, AnsweredEffect, DoneSeenEffect
  <2>3. CASE p = Host
    <3>1. proc[Host].kind # "initialized"
      BY <2>2, <2>3 DEF IInv, Handshake, Starting, Asks
    <3> QED
      BY <1>4, <2>1, <2>2, <2>3, <3>1
  <2>4. CASE p # Host
    BY <1>3, <2>1, <2>2, <2>4 DEF Others
  <2> QED
    BY <2>3, <2>4
<1>7. ASSUME NEW p \in Requesters, DeadlineSeen(p) PROVE InOrder'
  <2>1. UNCHANGED <<toServer, server>>
    BY <1>7 DEF DeadlineSeen, serverVars
  <2>2. p # Host
    BY <1>7 DEF DeadlineSeen, IInv, Typed, Roles
  <2> QED
    BY <1>0, <1>3, <1>7, <2>1, <2>2, DeadlineSeenEffect DEF Others
<1>8. ASSUME NEW p \in Everyone, Lock(p) PROVE InOrder'
  <2>1. UNCHANGED <<toServer, server>>
    BY <1>8 DEF Lock, serverVars
  <2>2. CASE p = Host
    BY <1>0, <1>4, <1>8, <2>1, <2>2, LockEffect
  <2>3. CASE p # Host
    BY <1>0, <1>3, <1>8, <2>1, <2>3, LockEffect DEF Others
  <2> QED
    BY <2>2, <2>3
<1>9. ASSUME NEW p \in Everyone, WriteFails(p) PROVE InOrder'
  <2>1. UNCHANGED <<toServer, server>>
    BY <1>9 DEF WriteFails, serverVars
  <2>2. CASE p = Host
    <3>1. SameRequest(Host) /\ (proc[Host].kind = "initialized" => proc'[Host].outcome # None)
      BY <1>0, <1>9, <2>2, WriteFailsEffect, Constants
    <3> QED
      BY <1>4, <2>1, <3>1
  <2>3. CASE p # Host
    BY <1>0, <1>3, <1>9, <2>1, <2>3, WriteFailsEffect DEF Others
  <2> QED
    BY <2>2, <2>3
<1>10. ASSUME NEW c \in Callers, Call(c) \/ Deadline(c) \/ CallReturns(c) PROVE InOrder'
  <2>1. UNCHANGED <<toServer, server>>
    BY <1>10 DEF Call, Deadline, CallReturns, serverVars
  <2>2. Others(c)
    BY <1>0, <1>10, CallEffect, DeadlineEffect, CallReturnsEffect
  <2> QED
    BY <1>3, <2>1, <2>2 DEF Others
<1>11. CASE HostGoesOn
  <2>1. UNCHANGED <<toServer, server>>
    BY <1>11 DEF HostGoesOn, serverVars
  <2>2. HostReady => Sent(N)
    BY <1>0, <1>11, HostGoesOnEffect
  <2> QED
    BY <1>2, <2>1, <2>2
<1>12. CASE Close
  <2>1. UNCHANGED <<toServer, server>>
    BY <1>12 DEF Close, serverVars
  <2>2. SameRequest(Host) /\ proc'[Host].stage # "return"
    BY <1>0, <1>12, CloseEffect
  <2> QED
    BY <1>4, <2>1, <2>2
<1>13. CASE Reap
  <2>1. toServer' = toServer /\ server'.initialized = server.initialized
        /\ server'.served = server.served
    BY <1>0, <1>13, ServerKeeps
  <2>2. SameRequest(Host) /\ proc'[Host].stage # "return"
    BY <1>0, <1>13, CloseEffect
  <2> QED
    BY <1>0, <1>2, <2>1, <2>2 DEF SameRequest
<1>14. CASE Read \/ StdoutEnds \/ Send
  <2>1. UNCHANGED <<toServer, server>>
    BY <1>14 DEF Read, StdoutEnds, Send, serverVars
  <2>2. Others(Reader)
    BY <1>0, <1>14, ReadEffect, SendEffect
  <2> QED
    BY <1>3, <2>1, <2>2 DEF Others
<1>15. CASE ServeAnswer \/ ServeEnd \/ ServerDies
  <2>1. toServer' = toServer /\ server'.initialized = server.initialized
        /\ server'.served = server.served
    BY <1>0, <1>15, ServerKeeps
  <2>2. proc' = proc
    BY <1>15, ServerEffect DEF ServerStep
  <2> QED
    BY <1>0, <1>2, <2>1, <2>2
<1>16. CASE OtherReads \/ OtherAnswers \/ OtherNoise
  BY <1>16 DEF OtherReads, OtherAnswers, OtherNoise
<1>17. CASE ServeLine
  <2> DEFINE line == Head(toServer)
  <2>1. proc' = proc
    BY <1>17, ServerEffect DEF ServerStep
  <2>2. /\ toServer # <<>> /\ toServer' = Tail(toServer)
        /\ \/ line.kind = "initialized" /\ server'.initialized
           \/ /\ line.kind # "initialized" /\ server'.initialized = server.initialized
              /\ server'.served \subseteq server.served \cup {line}
    BY <1>0, <1>17, ServeLineEffect
  <2>3. /\ line = toServer[1] /\ 1 \in 1..N /\ Len(toServer') = N - 1
        /\ \A k \in 1..(N - 1) : toServer'[k] = toServer[k + 1]
    BY <1>0, <2>2
  <2>4. CASE server'.initialized
    BY <1>1, <2>4 DEF Sent
  <2>5. CASE line.kind # "initialized" /\ server'.initialized = server.initialized
              /\ server'.served \subseteq server.served \cup {line}
    <3>1. ASSUME NEW n \in 0..(N - 1), Sent(n + 1) PROVE Sent(n)'
      <4>1. CASE server.initialized
        BY <2>5, <4>1 DEF Sent
      <4>2. CASE ~server.initialized
        <5>1. PICK k \in 1..(n + 1) : toServer[k].kind = "initialized"
          BY <3>1, <4>2 DEF Sent
        <5>2. k # 1
          BY <2>3, <2>5, <5>1
        <5>3. k - 1 \in 1..n /\ k - 1 \in 1..(N - 1) /\ (k - 1) + 1 = k
          BY <1>0, <3>1, <5>1, <5>2
        <5>4. toServer'[k - 1].kind = "initialized"
          BY <2>3, <5>1, <5>3
        <5> QED
          BY <5>3, <5>4 DEF Sent
      <4> QED
        BY <4>1, <4>2
    <3>2. ASSUME NEW k \in 1..Len(toServer'), toServer'[k].kind \in {"list", "call"}
          PROVE  Sent(k - 1)'
      <4>1. k \in 1..(N - 1) /\ k + 1 \in 1..N /\ k - 1 \in 0..(N - 1) /\ (k - 1) + 1 = k
            /\ (k + 1) - 1 = k
        BY <1>0, <2>3, <3>2
      <4>2. toServer[k + 1].kind \in {"list", "call"}
        BY <2>3, <3>2, <4>1
      <4>3. Sent(k)
        BY <1>0, <4>1, <4>2
      <4> QED
        BY <3>1, <4>1, <4>3
    <3>3. HostReady => Sent(N - 1)'
      <4>1. N - 1 \in 0..(N - 1) /\ (N - 1) + 1 = N
        BY <1>0, <2>3
      <4>2. HostReady => Sent(N)
        BY <1>0, <2>1
      <4> QED
        BY <3>1, <4>1, <4>2
    <3>4. (\E l \in server'.served : l.kind # "initialize") => server'.initialized
      <4>1. line.kind \in {"list", "call"} => server.initialized
        <5>1. 1 - 1 = 0 /\ 1..0 = {}
          OBVIOUS
        <5>2. line.kind \in {"list", "call"} => Sent(0)
          BY <1>0, <2>3, <5>1
        <5> QED
          BY <5>1, <5>2 DEF Sent
      <4>2. server'.served \subseteq AskLines
        BY ServerStepFits DEF ServerTyped
      <4> QED
        BY <1>0, <2>5, <4>1, <4>2 DEF AskLines
    <3> QED
      BY <1>1, <2>3, <3>2, <3>3, <3>4
  <2> QED
    BY <2>2, <2>4, <2>5
<1>18. ASSUME NEW p \in Everyone, Write(p) PROVE InOrder'
  <2> DEFINE line == Line(proc[p].kind, proc[p].id, p)
  <2>1. /\ toServer' = Append(toServer, line) /\ server' = server
        /\ proc[p].stage = "write" /\ Others(p) /\ SameRequest(p)
    BY <1>0, <1>18, WriteEffect DEF Write, serverVars
  <2>2. line.kind = proc[p].kind
    BY DEF Line
  <2>3. line.kind \in {"list", "call"} => Sent(N)
    <3>1. CASE p = Host
      BY <1>0, <2>2, <3>1 DEF IInv, Typed, Roles, KindsOf
    <3>2. CASE p \in Callers
      <4>1. proc[Host].kind = "list"
        BY <2>1, <3>2, CallersAct DEF IInv, Handshake, Starting
      <4> QED
        BY <1>0, <4>1
    <3>3. CASE p = Reader
      BY <2>2, <3>3 DEF IInv, Typed, Roles, KindsOf
    <3> QED
      BY <3>1, <3>2, <3>3 DEF Everyone, Requesters
  <2>4. HostReady => Sent(N) \/ line.kind = "initialized"
    BY <1>0, <2>1, <2>2 DEF Others, SameRequest
  <2> HIDE DEF line, HostReady
  <2>5. /\ Len(toServer') = N + 1 /\ toServer'[N + 1] = line
        /\ \A k \in 1..N : toServer'[k] = toServer[k]
    BY <1>0, <2>1
  <2>6. \A n \in 0..N : Sent(n) => Sent(n)'
    BY <1>0, <2>1, <2>5 DEF Sent
  <2>7. Sent(N) => Sent(N + 1)'
    BY <1>0, <2>1, <2>5 DEF Sent
  <2>8. HostReady => Sent(N + 1)'
    <3>1. CASE line.kind = "initialized"
      BY <1>0, <2>5, <3>1 DEF Sent
    <3> QED
      BY <2>4, <2>7, <3>1
  <2>9. ASSUME NEW k \in 1..Len(toServer'), toServer'[k].kind \in {"list", "call"}
        PROVE  Sent(k - 1)'
    <3>1. CASE k = N + 1
      <4>1. k - 1 = N /\ N \in 0..N
        BY <1>0, <3>1
      <4> QED
        BY <2>3, <2>5, <2>6, <2>9, <3>1, <4>1
    <3>2. CASE k \in 1..N
      <4>1. k - 1 \in 0..N
        BY <1>0, <3>2
      <4> QED
        BY <1>0, <2>5, <2>6, <2>9, <3>2, <4>1
    <3> QED
      BY <1>0, <2>5, <2>9, <3>1, <3>2
  <2> QED
    BY <1>0, <1>1, <2>1, <2>5, <2>8, <2>9
<1> QED
  BY <1>5, <1>6, <1>7, <1>8, <1>9, <1>10, <1>11, <1>12, <1>13, <1>14, <1>15, <1>16, <1>17,
     <1>18, NextSplit DEF ServerStep
-----------------------------------------------------------------------------
(* The theorems. *)

LEMMA InvStep == IInv /\ [Next]_vars => IInv'
<1>1. ASSUME IInv, Next PROVE IInv'
  <2>1. Typed'
    BY <1>1, ProcTypedStep, RolesStep, WriterTypedStep, ClientTypedStep, ServerStepFits DEF Typed
  <2>2. Fitting'
    BY <1>1, LinesFitStep, ServerFitsStep, ClientFitsStep DEF Fitting
  <2>3. DispatchedByID'
    <3>1. (ChannelsFree /\ ReaderFree /\ OwnResult)'
      BY <1>1, ChannelsFreeStep, ReaderFreeStep, OwnResultStep
    <3> QED
      BY <3>1 DEF DispatchedByID, ChannelsFree, ReaderFree, OwnResult, Errors
  <2>4. Handshake'
    BY <1>1, StartingStep, NoCallYetStep, InOrderStep DEF Handshake
  <2>5. Numbered' /\ Calling'
    BY <1>1, NumberedStep, CallingStep
  <2> QED
    BY <2>1, <2>2, <2>3, <2>4, <2>5 DEF IInv
<1>2. ASSUME IInv, UNCHANGED vars PROVE IInv'
  <2> USE <1>2 DEF vars
  <2>1. Typed'
    BY DEF IInv, Typed, ProcTyped, Roles, WriterTyped, ClientTyped, ServerTyped
  <2>2. Numbered'
    BY DEF IInv, Numbered, Registered
  <2>3. Fitting'
    BY DEF IInv, Fitting, LinesFit, ServerFits, ClientFits
  <2>4. DispatchedByID' /\ Calling'
    BY DEF IInv, DispatchedByID, Calling
  <2>5. Starting'
    BY DEF IInv, Handshake, Starting, Up
  <2>6. NoCallYet'
    BY DEF IInv, Handshake, NoCallYet, Up
  <2>7. InOrder'
    BY DEF IInv, Handshake, InOrder, Sent
  <2> QED
    BY <2>1, <2>2, <2>3, <2>4, <2>5, <2>6, <2>7 DEF IInv, Handshake
<1> QED
  BY <1>1, <1>2

LEMMA InvIsTyped == IInv => TypeOK
<1> SUFFICES ASSUME IInv PROVE TypeOK
  OBVIOUS
<1>1. /\ AskLines \cup OtherLines \subseteq Lines
      /\ Responses \cup Garbage \subseteq Lines /\ AskLines \subseteq Lines
  <2>1. AskLines \subseteq Lines
    BY DEF AskLines, Lines
  <2>2. OtherLines \subseteq Lines
    BY DEF OtherLines, Lines, Everyone
  <2>3. Responses \subseteq Lines
    BY DEF Responses, Lines
  <2>4. Garbage \subseteq Lines
    BY OutcomeNames DEF Garbage, Line, Lines
  <2> QED
    BY <2>1, <2>2, <2>3, <2>4
<1>2. toServer \in Seq(Lines) /\ Len(toServer) <= PipeSize
  <2>1. toServer \in Seq(AskLines \cup OtherLines)
    BY PipeIsSeq
  <2> QED
    BY <1>1, <2>1, SeqMono DEF IInv, Fitting, LinesFit
<1>3. toClient \in Seq(Lines) /\ Len(toClient) <= PipeSize
  <2>1. FittingResponses(proc, lastID) \cup Garbage \subseteq Lines
    BY <1>1 DEF FittingResponses
  <2>2. toClient \in Seq(FittingResponses(proc, lastID) \cup Garbage) /\ Len(toClient) <= PipeSize
    BY DEF IInv, Fitting, LinesFit
  <2> QED
    BY <2>1, <2>2, SeqMono
<1>4. server.asked \subseteq Lines /\ server.served \subseteq Lines
  BY <1>1 DEF IInv, Typed, ServerTyped
<1>5. \A p \in Requesters \cup {Reader} : proc[p].id \in IDs \cup {0} /\ proc[p].outcome \in Outcomes
  BY DEF IInv, Typed, ProcTyped, ProcRecord, Everyone
<1>6. writer \in Requesters \cup {Reader, None} /\ (writer # None => proc[writer].stage = "write")
  BY DEF IInv, Typed, WriterTyped, Everyone
<1>7. /\ pending \subseteq IDs /\ channel \in [IDs -> Outcomes]
      /\ closed \in BOOLEAN /\ stdin \in BOOLEAN
      /\ lastID \in 0..(MaxID + Cardinality(Callers)) /\ noise \in 0..MaxNoise
  BY DEF IInv, Typed, ClientTyped
<1> QED
  BY <1>2, <1>3, <1>4, <1>5, <1>6, <1>7, Zenon DEF TypeOK

LEMMA InvHandshake == IInv => StartedOrStopped
  BY DEF IInv, Handshake, Starting, NoCallYet, InOrder, StartedOrStopped

\* Every variable of the client, its callers and its server keeps its type: in
\* particular the ids of request (stdio.go:176-236) stay within what a start and
\* one call of each caller take, and who holds writeMu is writing.
THEOREM SessionTypes == Spec => []TypeOK
<1>1. Spec => []IInv
  BY InitInv, InvStep, PTL DEF Spec
<1> QED
  BY <1>1, InvIsTyped, PTL

\* "responses are dispatched by ID": however many callers ask at once, whatever
\* the server answers, twice, late or in another order, and whenever the host
\* closes it, a caller that returns has the result of its own request or an
\* error, and readLoop never waits for a caller to empty its channel.
THEOREM AlwaysDispatchedByID == Spec => []DispatchedByID
<1>1. Spec => []IInv
  BY InitInv, InvStep, PTL DEF Spec
<1>2. IInv => DispatchedByID
  BY DEF IInv
<1> QED
  BY <1>1, <1>2, PTL

\* No tool is called on a server whose start did not get through, and Close
\* leaves neither a process nor an open client behind; the loop of mcp/server.go
\* serves nothing but initialize before it has the client's notification.
THEOREM AlwaysStartedOrStopped == Spec => []StartedOrStopped
<1>1. Spec => []IInv
  BY InitInv, InvStep, PTL DEF Spec
<1> QED
  BY <1>1, InvHandshake, PTL

\* What a step never undoes.
ClosedForGood ==
    /\ closed => closed'
    /\ ~server.alive => ~server'.alive
    /\ Up => Up'

\* A client closed by Close or by the read loop's fail, and a server that is
\* dead, stay so, and a host that is up does not start again: nothing resets
\* client.closed or starts the command a second time (stdio.go, host.go).
THEOREM AlwaysClosedForGood == Spec => [][ClosedForGood]_vars
<1>1. Spec => []IInv
  BY InitInv, InvStep, PTL DEF Spec
<1>2. IInv /\ [Next]_vars => [ClosedForGood]_vars
  BY OneWay, UpStays DEF ClosedForGood
<1> QED
  BY <1>1, <1>2, PTL DEF Spec
==============================================================================
