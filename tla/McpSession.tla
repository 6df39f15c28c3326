------------------------------ MODULE McpSession ------------------------------
(***************************************************************************)
(* One MCP server of the host, from its start to its end: the client of    *)
(* mcp/stdio.go with its callers, its read loop and its two locks, the     *)
(* host's use of it (mcp/host.go, mcp/tools.go, mcp/tool_registry.go), and *)
(* the process at the other end of the pipes.                              *)
(*                                                                         *)
(* That process is either the loop of mcp/server.go, which reads a line,   *)
(* handles it and writes the answer, or a program of somebody else's that  *)
(* always reads, answers what it likes when it likes, and may write noise. *)
(*                                                                         *)
(* Representation.  A pipe is a bounded queue of lines; a caller's own     *)
(* response channel, of capacity one, is channel[id].  A response carries  *)
(* the request it is about in `of`, so that a wrong delivery shows.        *)
(***************************************************************************)
EXTENDS Naturals, Sequences, FiniteSets

CONSTANTS
    Callers,     \* one Execute of a tool of this server each
    Host, Reader,
    PipeSize,    \* lines a pipe takes before a write blocks
    MaxID,       \* bound: requests of the host while it starts
    MaxNoise,    \* bound: lines nobody asked for, crashes of the server
    None

ASSUME SessionAssumption ==
    /\ PipeSize \in Nat \ {0} /\ MaxNoise \in Nat
    /\ MaxID \in Nat \ {0, 1}   \* a start takes two: initialize and tools/list
    /\ IsFiniteSet(Callers)
    /\ Host # Reader /\ Callers \cap {Host, Reader} = {}
    /\ None \notin Callers \cup {Host, Reader} /\ \A w \in {"up", "error"} : None # <<None, w>>

Requesters == Callers \cup {Host}
IDs == 1..(MaxID + Cardinality(Callers))

VARIABLES
    pending,   \* ids with a channel that waits
    channel,   \* per id, what its channel holds, or None
    closed,    \* client.closed, and the done channel with it
    stdin,     \* TRUE until the client closes it
    writer,    \* who holds writeMu, or None
    lastID,    \* nextID
    proc,      \* the callers, the host and the read loop
    toServer, toClient,
    server,
    noise      \* how much of it so far

vars == <<pending, channel, closed, stdin, writer, lastID, proc, toServer,
          toClient, server, noise>>
serverVars == <<server, noise>>

\* An outcome: the request whose result it is, or what it is instead.
Plain(what) == <<None, what>>

NewProc(stage, kind) ==
    [stage |-> stage, kind |-> kind, id |-> 0, late |-> FALSE, outcome |-> None]

Init ==
    /\ pending = {} /\ channel = [i \in IDs |-> None]
    /\ closed = FALSE /\ stdin = TRUE /\ writer = None /\ lastID = 0
    /\ proc = [p \in Requesters \cup {Reader} |->
                 CASE p = Host -> NewProc("register", "initialize")
                   [] p = Reader -> NewProc("read", "reply")
                   [] OTHER -> NewProc("idle", "call")]
    /\ toServer = <<>> /\ toClient = <<>>
    /\ \E loop \in BOOLEAN :   \* mcp/server.go, or somebody else's program
         server = [loop |-> loop, alive |-> TRUE, initialized |-> FALSE,
                   asked |-> {}, answer |-> None, served |-> {}]
    /\ noise = 0

Line(kind, id, of) == [kind |-> kind, id |-> id, of |-> of]
Asks(kind) == kind \in {"initialize", "list", "call"}
-----------------------------------------------------------------------------
(* request, notify and writeMessage. *)

FreeID ==   \* mutant: the id of a request that ended is used again
    CHOOSE i \in IDs \ pending : \A j \in IDs \ pending : i <= j

NextID == lastID + 1

Register(c) ==
    /\ proc[c].stage = "register"
    /\ lastID' = lastID + 1
    /\ IF closed
       THEN /\ proc' = [proc EXCEPT ![c].stage = "return", ![c].outcome = Plain("error")]
            /\ UNCHANGED <<pending, channel>>
       ELSE /\ pending' = pending \cup {NextID}
            /\ channel' = [channel EXCEPT ![NextID] = None]
            /\ proc' = [proc EXCEPT ![c].stage = "lock", ![c].id = NextID]
    /\ UNCHANGED <<closed, stdin, writer, toServer, toClient, serverVars>>

Lock(p) ==
    /\ proc[p].stage = "lock" /\ writer = None
    /\ writer' = p
    /\ proc' = [proc EXCEPT ![p].stage = "write"]
    /\ UNCHANGED <<pending, channel, closed, stdin, lastID, toServer, toClient, serverVars>>

\* Where a process goes when its write is over.
Written(p) ==
    CASE p = Reader -> "read"
      [] p # Reader /\ Asks(proc[p].kind) -> "wait"
      [] OTHER -> "return"

\* A full pipe blocks the writer with the lock in its hands; no deadline of the
\* caller ends that.
Write(p) ==
    /\ proc[p].stage = "write"
    /\ stdin /\ server.alive /\ Len(toServer) < PipeSize
    /\ toServer' = Append(toServer, Line(proc[p].kind, proc[p].id, p))
    /\ writer' = None
    /\ proc' = [proc EXCEPT ![p].stage = Written(p)]
    /\ UNCHANGED <<pending, channel, closed, stdin, lastID, toClient, serverVars>>

FailHolding(p) ==   \* mutant: the error return leaves the lock taken
    /\ proc[p].stage = "write" /\ ~(stdin /\ server.alive)
    /\ proc' = [proc EXCEPT ![p].stage = IF p = Reader THEN "read" ELSE "return"]
    /\ pending' = pending \ {proc[p].id}
    /\ UNCHANGED <<channel, closed, stdin, writer, lastID, toServer, toClient, serverVars>>

\* An error of the write: closed here, or nobody left to read it.
WriteFails(p) ==
    /\ proc[p].stage = "write" /\ ~(stdin /\ server.alive)
    /\ writer' = None
    /\ IF p = Reader
       THEN proc' = [proc EXCEPT ![p].stage = "read"] /\ UNCHANGED pending
       ELSE /\ proc' = [proc EXCEPT ![p].stage = "return",
                  ![p].outcome = IF proc[p].kind = "cancelled" THEN @ ELSE Plain("error")]
            /\ pending' = IF Asks(proc[p].kind) THEN pending \ {proc[p].id} ELSE pending
    /\ UNCHANGED <<channel, closed, stdin, lastID, toServer, toClient, serverVars>>

\* The select of request: whatever of the three is ready, in no order.
Answered(c) ==
    /\ proc[c].stage = "wait" /\ channel[proc[c].id] # None
    /\ channel' = [channel EXCEPT ![proc[c].id] = None]
    /\ proc' = [proc EXCEPT ![c].stage = "return", ![c].outcome = channel[proc[c].id]]
    /\ UNCHANGED <<pending, closed, stdin, writer, lastID, toServer, toClient, serverVars>>

DeadlineForgotten(c) == FALSE   \* mutant: the select without ctx.Done

DeadlineSeen(c) ==
    /\ proc[c].stage = "wait" /\ proc[c].late
    /\ pending' = pending \ {proc[c].id}
    /\ proc' = [proc EXCEPT ![c].stage = "lock", ![c].kind = "cancelled",
                            ![c].outcome = Plain("deadline")]
    /\ UNCHANGED <<channel, closed, stdin, writer, lastID, toServer, toClient, serverVars>>

DoneSeen(c) ==
    /\ proc[c].stage = "wait" /\ closed
    /\ pending' = pending \ {proc[c].id}
    /\ proc' = [proc EXCEPT ![c].stage = "return", ![c].outcome = Plain("error")]
    /\ UNCHANGED <<channel, closed, stdin, writer, lastID, toServer, toClient, serverVars>>

\* The timeout of the tool.  The host starts with a context that has none.
Deadline(c) ==
    /\ proc[c].stage \in {"register", "lock", "write", "wait"} /\ ~proc[c].late
    /\ proc' = [proc EXCEPT ![c].late = TRUE]
    /\ UNCHANGED <<pending, channel, closed, stdin, writer, lastID, toServer,
                   toClient, serverVars>>
-----------------------------------------------------------------------------
(* readLoop, fail. *)

Fail ==
    /\ proc' = [proc EXCEPT ![Reader].stage = "dead"]
    /\ closed' = TRUE
    /\ IF closed THEN UNCHANGED <<pending, channel>>
       ELSE /\ pending' = {}
            /\ channel' = [i \in IDs |-> IF i \in pending THEN Plain("error") ELSE channel[i]]

Read ==
    /\ proc[Reader].stage = "read" /\ toClient # <<>>
    /\ toClient' = Tail(toClient)
    /\ LET line == Head(toClient)
       IN  CASE line.kind = "garbage" -> Fail
             [] line.kind = "request" ->   \* replyMethodNotFound
                  /\ proc' = [proc EXCEPT ![Reader].stage = "lock"]
                  /\ UNCHANGED <<closed, pending, channel>>
             [] line.kind = "response" /\ line.id \in pending ->
                  /\ pending' = pending \ {line.id}
                  /\ proc' = [proc EXCEPT ![Reader].stage = "send",
                        ![Reader].id = line.id, ![Reader].outcome = line.of]
                  /\ UNCHANGED <<closed, channel>>
             [] OTHER -> UNCHANGED <<closed, pending, channel, proc>>
    /\ UNCHANGED <<stdin, writer, lastID, toServer, serverVars>>

\* The capacity is one: a second send to the same channel would block here.
Send ==
    /\ proc[Reader].stage = "send" /\ channel[proc[Reader].id] = None
    /\ channel' = [channel EXCEPT ![proc[Reader].id] = proc[Reader].outcome]
    /\ proc' = [proc EXCEPT ![Reader] = NewProc("read", "reply")]
    /\ UNCHANGED <<pending, closed, stdin, writer, lastID, toServer, toClient, serverVars>>

StdoutEnds ==
    /\ proc[Reader].stage = "read" /\ toClient = <<>> /\ ~server.alive
    /\ Fail
    /\ UNCHANGED <<stdin, writer, lastID, toServer, toClient, serverVars>>
-----------------------------------------------------------------------------
(* StartMCPStdioClient and StartMCPHost; ToolRegistry.Execute; Close. *)

Up == proc[Host].stage \in {"up", "closing", "reap", "down"} /\ proc[Host].outcome = Plain("up")

\* Some check of the host's fails: the protocol version, a tool's name, the
\* start of another server.
Continue(stage, kind) ==
    proc' = [proc EXCEPT ![Host].stage = stage, ![Host].kind = kind, ![Host].outcome = None]
Refuse == proc' = [proc EXCEPT ![Host].stage = "closing", ![Host].outcome = None]

\* StartMCPStdioClient, then RegisterMCPTools with the pages of tools/list.
HostGoesOn ==
    LET h == proc[Host]
        answered == h.outcome = <<Host, h.kind>>
    IN  /\ h.stage = "return"
        /\ CASE h.kind = "initialize" /\ answered -> Continue("lock", "initialized") \/ Refuse
             [] h.kind = "initialized" /\ h.outcome = None -> Continue("register", "list")
             [] h.kind = "list" /\ answered ->
                  \/ lastID < MaxID /\ Continue("register", "list")
                  \/ proc' = [proc EXCEPT ![Host].stage = "up", ![Host].outcome = Plain("up")]
                  \/ Refuse
             [] OTHER -> Refuse
        /\ UNCHANGED <<pending, channel, closed, stdin, writer, lastID, toServer,
                       toClient, serverVars>>

\* Execute: an unknown tool, a denied permission or bad arguments end the call
\* before the server hears of it.
Call(c) ==
    /\ Up /\ proc[c].stage = "idle"
    /\ \/ proc' = [proc EXCEPT ![c].stage = "register"]
       \/ proc' = [proc EXCEPT ![c].stage = "ended", ![c].outcome = Plain("refused")]
    /\ UNCHANGED <<pending, channel, closed, stdin, writer, lastID, toServer,
                   toClient, serverVars>>

\* The handler returned; a deadline that has passed by now overrides it.
CallReturns(c) ==
    /\ proc[c].stage = "return"
    /\ proc' = [proc EXCEPT ![c] = [NewProc("ended", "call") EXCEPT
                   !.outcome = IF proc[c].late THEN Plain("timeout") ELSE proc[c].outcome]]
    /\ UNCHANGED <<pending, channel, closed, stdin, writer, lastID, toServer,
                   toClient, serverVars>>

LeaveRunning ==   \* mutant: a server that failed to start is not closed
    /\ proc[Host].stage = "closing"
    /\ proc' = [proc EXCEPT ![Host].stage = "down"]
    /\ UNCHANGED <<closed, stdin, pending, channel, writer, lastID, toServer,
                   toClient, serverVars>>

\* Close: of a failed start, or of the host at the end of the program.
Close ==
    /\ proc[Host].stage \in {"closing", "up"}
    /\ closed' = TRUE /\ stdin' = FALSE
    /\ proc' = [proc EXCEPT ![Host].stage = "reap"]
    /\ UNCHANGED <<pending, channel, writer, lastID, toServer, toClient, serverVars>>

\* The process ended, or was killed after two seconds.
Reap ==
    /\ proc[Host].stage = "reap"
    /\ server' = [server EXCEPT !.alive = FALSE]
    /\ proc' = [proc EXCEPT ![Host].stage = "down"]
    /\ UNCHANGED <<pending, channel, closed, stdin, writer, lastID, toServer,
                   toClient, noise>>
-----------------------------------------------------------------------------
(* ServeStdio and handleServerRequest. *)

clientVars == <<pending, channel, closed, stdin, writer, lastID, proc>>
Response(line, ok) ==
    Line("response", line.id, IF ok THEN <<line.of, line.kind>> ELSE Plain("error"))

ServeLine ==
    LET line == Head(toServer)
    IN  /\ server.loop /\ server.alive /\ server.answer = None /\ toServer # <<>>
        /\ toServer' = Tail(toServer)
        /\ server' = CASE line.kind = "initialized" -> [server EXCEPT !.initialized = TRUE]
                       [] Asks(line.kind) ->
                            [server EXCEPT !.served = @ \cup {line},
                               !.answer = Response(line,
                                  line.kind = "initialize" \/ server.initialized)]
                       [] OTHER -> server
        /\ UNCHANGED <<clientVars, toClient, noise>>

ServeAnswer ==
    /\ server.loop /\ server.alive /\ server.answer # None /\ Len(toClient) < PipeSize
    /\ toClient' = Append(toClient, server.answer)
    /\ server' = [server EXCEPT !.answer = None]
    /\ UNCHANGED <<clientVars, toServer, noise>>

ServeEnd ==
    /\ server.loop /\ server.alive /\ server.answer = None
    /\ ~stdin /\ toServer = <<>>
    /\ server' = [server EXCEPT !.alive = FALSE]
    /\ UNCHANGED <<clientVars, toServer, toClient, noise>>
-----------------------------------------------------------------------------
(* Somebody else's server. *)

OtherReads ==
    LET line == Head(toServer)
    IN  /\ ~server.loop /\ server.alive /\ toServer # <<>>
        /\ toServer' = Tail(toServer)
        /\ server' = IF Asks(line.kind) THEN [server EXCEPT !.asked = @ \cup {line}] ELSE server
        /\ UNCHANGED <<clientVars, toClient, noise>>

\* In any order, at any time, perhaps never.
OtherAnswers ==
    /\ ~server.loop /\ server.alive /\ Len(toClient) < PipeSize
    /\ \E line \in server.asked, ok \in BOOLEAN :
        /\ toClient' = Append(toClient, Response(line, ok))
        /\ server' = [server EXCEPT !.asked = @ \ {line}, !.served = @ \cup {line}]
    /\ UNCHANGED <<clientVars, toServer, noise>>

Garbage == {Line("garbage", 0, None), Line("request", 0, None),
            Line("notification", 0, None)}

\* Lines that break the protocol, its own requests, an answer sent twice.
OtherNoise ==
    /\ ~server.loop /\ server.alive /\ Len(toClient) < PipeSize
    /\ noise < MaxNoise /\ noise' = noise + 1
    /\ \E line \in Garbage \cup {Response(l, TRUE) : l \in server.served} :
         toClient' = Append(toClient, line)
    /\ UNCHANGED <<clientVars, toServer, server>>

ServerDies ==
    /\ server.alive /\ noise < MaxNoise /\ noise' = noise + 1
    /\ server' = [server EXCEPT !.alive = FALSE]
    /\ UNCHANGED <<clientVars, toServer, toClient>>

RequestStep(c) ==
    \/ Register(c) \/ Lock(c) \/ Write(c) \/ WriteFails(c)
    \/ Answered(c) \/ DeadlineSeen(c) \/ DoneSeen(c)
CallerStep(c) == RequestStep(c) \/ CallReturns(c)
ReaderStep == Lock(Reader) \/ Write(Reader) \/ WriteFails(Reader) \/ Read \/ Send \/ StdoutEnds
ServerStep == ServeLine \/ ServeAnswer \/ ServeEnd \/ OtherReads

Next ==
    \/ \E c \in Callers : Call(c) \/ CallerStep(c) \/ Deadline(c)
    \/ RequestStep(Host) \/ HostGoesOn \/ Close \/ Reap
    \/ ReaderStep
    \/ ServerStep \/ OtherAnswers \/ OtherNoise \/ ServerDies

Spec == Init /\ [][Next]_vars

\* While a goroutine can run, a tool's timeout is due or the server has input to
\* read, something happens.  Nobody's share is needed: each of them does finitely
\* much.  Nothing makes somebody else's server answer.
SystemStep ==
    \/ \E c \in Callers : CallerStep(c) \/ Deadline(c)
    \/ RequestStep(Host) \/ ReaderStep \/ ServerStep

FairSpec == Spec /\ WF_vars(SystemStep)
-----------------------------------------------------------------------------
Outcomes == (Requesters \X {"initialize", "list", "call"})
            \cup {Plain(w) : w \in {"error", "deadline", "timeout", "refused", "up"}}
            \cup {None}

Lines == [kind : {"initialize", "initialized", "list", "call", "cancelled", "reply",
                  "response", "request", "notification", "garbage"},
          id : IDs \cup {0}, of : Outcomes \cup Requesters \cup {Reader}]

TypeOK ==
    /\ pending \subseteq IDs
    /\ channel \in [IDs -> Outcomes]
    /\ closed \in BOOLEAN /\ stdin \in BOOLEAN
    /\ writer \in Requesters \cup {Reader, None}
    /\ writer # None => proc[writer].stage = "write"
    /\ lastID \in 0..(MaxID + Cardinality(Callers))
    /\ \A p \in Requesters \cup {Reader} :
         proc[p].id \in IDs \cup {0} /\ proc[p].outcome \in Outcomes
    /\ toServer \in Seq(Lines) /\ Len(toServer) <= PipeSize
    /\ toClient \in Seq(Lines) /\ Len(toClient) <= PipeSize
    /\ server.asked \subseteq Lines /\ server.served \subseteq Lines
    /\ noise \in 0..MaxNoise

\* "responses are dispatched by ID" (stdio.go:70-71): the read loop never finds
\* a channel already full, and so never blocks on a caller, whatever is sent
\* twice or late; and a caller that returns a result returns that of its own
\* request (stdio.go:285-302).
DispatchedByID ==
    /\ \A i \in pending : channel[i] = None
    /\ proc[Reader].stage = "send" =>
         channel[proc[Reader].id] = None /\ proc[Reader].id \notin pending
    /\ \A c \in Callers : proc[c].stage \in {"return", "ended"} =>
         proc[c].outcome \in {<<c, "call">>}
            \cup {Plain(w) : w \in {"error", "deadline", "timeout", "refused"}}

\* A server is used only after the whole handshake, and a start that fails, at
\* this server or a later one, leaves no process behind (stdio.go:136-139,
\* host.go:190-211).
StartedOrStopped ==
    /\ proc[Host].stage = "down" => ~server.alive /\ closed
    /\ (\E line \in server.served : line.kind = "call") => Up
    /\ server.loop /\ server.served # {} /\ (\E line \in server.served : line.kind # "initialize")
         => server.initialized

\* Every tool call ends, although the server may stay silent, die, or be closed
\* under it: by its answer, an error or its timeout (stdio.go:209-236).
EveryCallEnds == \A c \in Callers : proc[c].stage = "register" ~> proc[c].stage = "ended"
=============================================================================
