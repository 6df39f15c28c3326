------------------------------ MODULE BotGateway ------------------------------
(***************************************************************************)
(* The chat bots: the gateway of web/bots.go with its bounded queue, its   *)
(* one worker, its sessions and its memory of events; the Telegram poller  *)
(* of notifications/telegram_polling.go, which retries what the queue      *)
(* refuses and acknowledges by its offset; and the Mattermost webhook,     *)
(* whose sender may repeat a post.                                         *)
(*                                                                         *)
(* Telegram, the senders of posts and the readers of replies are outside.  *)
(* The chat run (module ChatRun) and its audit (AuditTrail) succeed or     *)
(* fail.  Texts are left out: a message is the event that brought it, and  *)
(* a history may always be too long for the limits in bytes.               *)
(***************************************************************************)
EXTENDS Integers, Sequences, SequencesExt

CONSTANTS
    Conversations,    \* ids of chats and channels
    Kinds,            \* kinds of update Telegram may hold, see Eligible
    PostKinds,        \* kinds of post
    Posts,            \* event ids of Mattermost posts
    MaxUpdates,       \* Telegram's updates are 1..MaxUpdates
    QueueSize, HistoryMessages, MaxSessions,   \* BotSettings
    MaxRequestMessages,   \* maximumOpsChatMessages
    MaxRemembered,    \* maximumRememberedBotEvents
    MaxAccepted,      \* bound on accepted messages
    MaxRestarts       \* bound on restarts

Commands == {"chat", "new", "status", "help"}

ASSUME BotAssumption ==
    /\ Kinds \subseteq Commands \cup {"ignored", "garbled"} /\ PostKinds \subseteq Commands
    /\ {MaxUpdates, MaxAccepted, MaxRestarts, MaxRequestMessages} \subseteq Nat
    /\ Posts \cap (1..MaxUpdates) = {}
    /\ QueueSize \in Nat \ {0} /\ MaxSessions \in Nat \ {0} /\ MaxRemembered \in Nat \ {0}
    /\ HistoryMessages \in Nat \ {0, 1} /\ MaxRequestMessages >= HistoryMessages

VARIABLES
    updates,     \* Telegram's updates: kind and conversation
    posts,       \* the same of each post
    confirmed,   \* Telegram has dropped the updates below it
    told,        \* posts answered as accepted
    queue,       \* gateway.queue
    remembered,  \* gateway.seenOrder, whose elements are gateway.seen
    sessions,    \* gateway.sessions, least recently updated first
    worker,      \* run and process: stage, message, history
    poller,      \* PollTelegram: offset, what is left of its batch
    closing,     \* gateway.ctx is cancelled
    accepted,    \* history: events queued, by this and earlier processes
    since,       \* history: how many of them by earlier ones
    exchanges,   \* history: per session key, answers delivered since a reset
    restarts

outside == <<updates, posts>>
intake == <<queue, remembered, accepted>>
history == <<sessions, exchanges>>
process == <<since, restarts, closing>>
vars == <<outside, confirmed, told, intake, history, worker, poller, process>>

Ids == 1..MaxUpdates
Events == Ids \cup Posts
Content(kinds) == [kind : kinds, conversation : Conversations]

\* decodeTelegramUpdate and access: updates that make a message.  "ignored" is
\* any update refused by them with its id known, "garbled" one without: too
\* large, not JSON, reported under the id -1.
Eligible(id) == updates[id].kind \in Commands

Message(e) == LET from == IF e \in Ids THEN "telegram" ELSE "mattermost"
                  content == IF e \in Ids THEN updates[e] ELSE posts[e]
              IN  [event |-> e, kind |-> content.kind, key |-> <<from, content.conversation>>]

Keys == {"telegram", "mattermost"} \X Conversations
Idle == [stage |-> "idle", message |-> <<>>, history |-> <<>>]
NewPoller == [stage |-> "running", offset |-> 0, batch |-> <<>>]

Init ==
    /\ updates \in [Ids -> Content(Kinds)]
    /\ posts \in [Posts -> Content(PostKinds)]
    /\ confirmed = 1 /\ told = {}
    /\ queue = <<>> /\ remembered = <<>> /\ sessions = <<>>
    /\ worker = Idle /\ poller = NewPoller /\ closing = FALSE
    /\ accepted = <<>> /\ since = 0 /\ restarts = 0
    /\ exchanges = [k \in Keys |-> <<>>]
-----------------------------------------------------------------------------
(* enqueue. *)

Known(e) == e \in Range(remembered)

RememberAll(e) == Append(remembered, e)   \* mutant: the memory has no limit

\* The oldest event is forgotten beyond the limit.
Remember(e) ==
    IF Len(remembered) < MaxRemembered THEN Append(remembered, e)
    ELSE Append(Tail(remembered), e)

\* mutant: the event is remembered before the queue has taken it
EnqueueRemembersFirst(e) ==
    /\ ~Known(e) /\ Len(accepted) < MaxAccepted
    /\ remembered' = Remember(e)
    /\ IF Len(queue) < QueueSize
       THEN queue' = Append(queue, Message(e)) /\ accepted' = Append(accepted, e)
       ELSE UNCHANGED <<queue, accepted>>

\* A message not seen lately, and room for it.
Enqueue(e) ==
    /\ ~Known(e) /\ Len(queue) < QueueSize /\ Len(accepted) < MaxAccepted
    /\ queue' = Append(queue, Message(e))
    /\ remembered' = Remember(e)
    /\ accepted' = Append(accepted, e)

\* handleMattermostBotWebhook, accepted or a duplicate.  With the queue full the
\* answer is 503 and nothing changes.
Webhook(p) ==
    /\ Enqueue(p) \/ (Known(p) /\ UNCHANGED intake)
    /\ told' = told \cup {p}
    /\ UNCHANGED <<outside, confirmed, history, worker, poller, process>>
-----------------------------------------------------------------------------
(* PollTelegram. *)

Running == poller.stage = "running"
Acknowledged(id) == [poller EXCEPT !.offset = id + 1, !.batch = Tail(@)]
Reading == Running /\ poller.batch # <<>>

\* getUpdates answers with some of the updates it still has, oldest first; it
\* may repeat the one just acknowledged.  Errors and empty answers are retried.
GetUpdates ==
    /\ Running /\ poller.batch = <<>>
    /\ confirmed' = IF poller.offset > confirmed THEN poller.offset ELSE confirmed
    /\ \E first \in {confirmed' - 1, confirmed'}, last \in confirmed'..MaxUpdates :
         /\ first \in Ids
         /\ poller' = [poller EXCEPT !.batch = [i \in 1..(last - first + 1) |-> first + i - 1]]
    /\ UNCHANGED <<outside, told, intake, history, worker, process>>

\* A garbled update has the id -1, which is below every offset.
SkipUpdate ==
    /\ Reading
    /\ Head(poller.batch) < poller.offset \/ updates[Head(poller.batch)].kind = "garbled"
    /\ poller' = [poller EXCEPT !.batch = Tail(@)]
    /\ UNCHANGED <<outside, confirmed, told, intake, history, worker, process>>

IgnoreUpdate ==
    /\ Reading
    /\ LET id == Head(poller.batch) IN
         /\ id >= poller.offset /\ updates[id].kind = "ignored"
         /\ poller' = Acknowledged(id)
    /\ UNCHANGED <<outside, confirmed, told, intake, history, worker, process>>

\* accept is repeated until it succeeds: while the queue is full this waits.
AcceptUpdate ==
    /\ Reading
    /\ LET id == Head(poller.batch) IN
         /\ id >= poller.offset /\ Eligible(id)
         /\ Enqueue(id) \/ (Known(id) /\ UNCHANGED intake)
         /\ poller' = Acknowledged(id)
    /\ UNCHANGED <<outside, confirmed, told, history, worker, process>>

\* The context ends getUpdates and the wait for the queue.
PollerStops ==
    /\ Running /\ closing
    /\ \/ poller.batch = <<>>
       \/ /\ Reading /\ Len(queue) = QueueSize
          /\ LET id == Head(poller.batch)
             IN  Eligible(id) /\ id >= poller.offset /\ ~Known(id)
    /\ poller' = [poller EXCEPT !.stage = "stopped", !.batch = <<>>]
    /\ UNCHANGED <<outside, confirmed, told, intake, history, worker, process>>
-----------------------------------------------------------------------------
(* run, process. *)

\* pruneSessionsLocked: the sessions not updated for SessionTTL.
Pruned(n) == SubSeq(sessions, n + 1, Len(sessions))
Prunes == 0..Len(sessions)

\* gateway.sessions is a map: a key has one session at most.
Has(list, key) == \E i \in DOMAIN list : list[i].key = key
Position(list, key) == CHOOSE i \in DOMAIN list : list[i].key = key
Without(list, key) == IF Has(list, key) THEN RemoveAt(list, Position(list, key)) ELSE list
MessagesOf(list, key) == IF Has(list, key) THEN list[Position(list, key)].messages ELSE <<>>

Said(role, e) == [role |-> role, event |-> e]
DropPairs(messages, n) == SubSeq(messages, 2 * n + 1, Len(messages))

\* trimBotRequestHistory: pairs are dropped while there are too many messages or
\* bytes, and more than two messages.
RequestHistories(messages) ==
    {h \in {DropPairs(messages, n) : n \in 0..(Len(messages) - 1) \div 2} :
        Len(h) <= MaxRequestMessages \/ Len(h) <= 2}

\* The same in storeSession, down to nothing.
StoredHistories(messages) ==
    {h \in {DropPairs(messages, n) : n \in 0..Len(messages) \div 2} :
        Len(h) <= HistoryMessages}

Doing(stage, m) == [Idle EXCEPT !.stage = stage, !.message = m]

\* The next message of the queue.  After a close the select may still choose it.
TakeCommand ==
    /\ worker.stage = "idle" /\ queue # <<>> /\ Head(queue).kind # "chat"
    /\ queue' = Tail(queue)
    /\ LET m == Head(queue) IN
         /\ worker' = Doing("fixed", m)
         /\ CASE m.kind = "new" ->
                   /\ sessions' = Without(sessions, m.key)
                   /\ exchanges' = [exchanges EXCEPT ![m.key] = <<>>]
              [] m.kind = "status" ->
                   \E n \in Prunes : sessions' = Pruned(n) /\ UNCHANGED exchanges
              [] OTHER -> UNCHANGED history
    /\ UNCHANGED <<outside, confirmed, told, remembered, accepted, poller, process>>

TakeChat ==
    /\ worker.stage = "idle" /\ queue # <<>> /\ Head(queue).kind = "chat"
    /\ queue' = Tail(queue)
    /\ LET m == Head(queue) IN \E n \in Prunes :
         /\ sessions' = Pruned(n)
         /\ \E h \in RequestHistories(Append(MessagesOf(sessions', m.key),
                                             Said("user", m.event))) :
              worker' = [stage |-> "chat", message |-> m, history |-> h]
    /\ UNCHANGED <<outside, confirmed, told, remembered, accepted, exchanges, poller, process>>

\* completeChat returns an answer or an error.
ChatReturns ==
    /\ worker.stage = "chat"
    /\ \/ worker' = [worker EXCEPT !.stage = "reply"]
       \/ worker' = Doing("fixed", worker.message)
    /\ UNCHANGED <<outside, confirmed, told, intake, history, poller, process>>

\* A command's reply or the apology for an error, delivered or not.
FixedReply ==
    /\ worker.stage = "fixed"
    /\ worker' = Idle
    /\ UNCHANGED <<outside, confirmed, told, intake, history, poller, process>>

\* storeSession: the oldest session gives way to a new one at the limit.
StoreSession(key, messages) ==
    \E n \in Prunes, h \in StoredHistories(messages) :
      LET kept == Pruned(n)
          room == IF Has(kept, key) \/ Len(kept) < MaxSessions THEN kept ELSE Tail(kept)
      IN  sessions' = Append(Without(room, key), [key |-> key, messages |-> h])

\* mutant: an exchange is stored whether or not it was delivered
StoredUnseen ==
    /\ worker.stage = "reply"
    /\ StoreSession(worker.message.key,
                    Append(worker.history, Said("assistant", worker.message.event)))
    /\ worker' = Idle
    /\ UNCHANGED <<outside, confirmed, told, intake, exchanges, poller, process>>

ReplyFails ==
    /\ worker.stage = "reply"
    /\ worker' = Idle
    /\ UNCHANGED <<outside, confirmed, told, intake, history, poller, process>>

\* Only an exchange the user has seen becomes history.
Delivered ==
    /\ worker.stage = "reply"
    /\ StoreSession(worker.message.key,
                    Append(worker.history, Said("assistant", worker.message.event)))
    /\ exchanges' = [exchanges EXCEPT ![worker.message.key] = Append(@, worker.message.event)]
    /\ worker' = Idle
    /\ UNCHANGED <<outside, confirmed, told, intake, poller, process>>

WorkerStops ==
    /\ worker.stage = "idle" /\ closing
    /\ worker' = [Idle EXCEPT !.stage = "stopped"]
    /\ UNCHANGED <<outside, confirmed, told, intake, history, poller, process>>
-----------------------------------------------------------------------------
Close ==
    /\ ~closing /\ closing' = TRUE
    /\ UNCHANGED <<outside, confirmed, told, intake, history, worker, poller, since, restarts>>

\* The process ends, by Close or at any other moment, and the next one starts:
\* everything in memory is gone, Telegram keeps what was not acknowledged.
Restart ==
    /\ restarts < MaxRestarts /\ restarts' = restarts + 1
    /\ queue' = <<>> /\ remembered' = <<>> /\ sessions' = <<>>
    /\ worker' = Idle /\ poller' = NewPoller /\ closing' = FALSE
    /\ since' = Len(accepted)
    /\ exchanges' = [k \in Keys |-> <<>>]
    /\ UNCHANGED <<outside, confirmed, told, accepted>>

PollerStep == GetUpdates \/ SkipUpdate \/ IgnoreUpdate \/ AcceptUpdate \/ PollerStops
WorkerStep == TakeCommand \/ TakeChat \/ ChatReturns \/ FixedReply \/ ReplyFails
              \/ Delivered \/ WorkerStops

Next == (\E p \in Posts : Webhook(p)) \/ PollerStep \/ WorkerStep \/ Close \/ Restart

Spec == Init /\ [][Next]_vars
-----------------------------------------------------------------------------
Messages == [event : Events, kind : Commands, key : Keys]
Sayings == [role : {"user", "assistant"}, event : Events]

TypeOK ==
    /\ updates \in [Ids -> Content(Kinds)] /\ posts \in [Posts -> Content(PostKinds)]
    /\ confirmed \in 1..MaxUpdates + 1 /\ told \subseteq Posts
    /\ queue \in Seq(Messages) /\ Len(queue) <= QueueSize
    /\ remembered \in Seq(Events) /\ Len(remembered) <= MaxRemembered
    /\ sessions \in Seq([key : Keys, messages : Seq(Sayings)])
    /\ Len(sessions) <= MaxSessions
    /\ worker.stage \in {"idle", "fixed", "chat", "reply", "stopped"}
    /\ worker.message \in Messages \cup {<<>>} /\ worker.history \in Seq(Sayings)
    /\ poller \in [stage : {"running", "stopped"}, offset : 0..MaxUpdates + 1,
                   batch : Seq(Ids)]
    /\ closing \in BOOLEAN /\ restarts \in 0..MaxRestarts
    /\ accepted \in Seq(Events) /\ since \in 0..Len(accepted)
    /\ exchanges \in [Keys -> Seq(Events)]

\* What was answered or acknowledged as accepted was queued, each message once
\* in a process as long as its event is among the latest MaxRemembered, and
\* Telegram's in order: the poller neither passes an update the queue refused
\* nor takes one twice (bots.go:88-110, telegram_polling.go:41-43, 100-112,
\* OPS_SERVER.md, "latest 4096 event IDs").
AcceptedOnce ==
    /\ told \subseteq Range(accepted)
    /\ \A id \in Ids :
         Eligible(id) /\ (id < poller.offset \/ id < confirmed) => id \in Range(accepted)
    /\ \A i, j \in since + 1..Len(accepted) : i < j =>
         /\ accepted[i] = accepted[j] => j - i > MaxRemembered
         /\ {accepted[i], accepted[j]} \subseteq Ids => accepted[i] < accepted[j]

Turns(events) ==
    [i \in 1..2 * Len(events) |->
        Said(IF i % 2 = 1 THEN "user" ELSE "assistant", events[(i + 1) \div 2])]
LastOf(events, n) == SubSeq(events, Len(events) - n + 1, Len(events))
DialogueOf(key, messages) ==
    \E n \in 0..Len(exchanges[key]) : messages = Turns(LastOf(exchanges[key], n))

\* A session holds the latest exchanges of its own conversation whose answer
\* reached it since it was reset, question and answer in turn, whatever was
\* trimmed, pruned, evicted or lost on the way; the model is shown such a history
\* and the new question (bots.go:147-170, 229-289, dialogue.go:115-142).
HistoryIsADialogue ==
    /\ \A i \in DOMAIN sessions :
         /\ DialogueOf(sessions[i].key, sessions[i].messages)
         /\ Len(sessions[i].messages) <= HistoryMessages
         /\ \A j \in DOMAIN sessions : sessions[i].key = sessions[j].key => i = j
    /\ worker.stage \in {"chat", "reply"} =>
         /\ Len(worker.history) <= MaxRequestMessages
         /\ DialogueOf(worker.message.key, Front(worker.history))
         /\ Last(worker.history) = Said("user", worker.message.event)
=============================================================================
