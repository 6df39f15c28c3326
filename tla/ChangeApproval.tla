---------------------------- MODULE ChangeApproval ----------------------------
(***************************************************************************)
(* Changes to a workspace, from the preview to the files: the handlers of  *)
(* web/server.go, change/approval.go and the two attempts of               *)
(* change/structured.go.                                                   *)
(*                                                                         *)
(* A preview reads a snapshot, lets the model propose edits, and keeps the *)
(* outcome as a pending change that one apply request may take.  Previews  *)
(* hold the generation slot; applies do not, and run beside each other and *)
(* beside the people who edit the workspace.  An apply verifies its files, *)
(* stages them, publishes them one by one, and rolls back on an error.     *)
(*                                                                         *)
(* Each call that touches a file of the workspace or its backup is a step, *)
(* and each of them may fail, those of a rollback too.  Staged files and   *)
(* backups have names of their own; a staged file is the updated text of   *)
(* its change and is not kept.                                             *)
(***************************************************************************)
EXTENDS ChangeProposal

CONSTANTS
    Previews,    \* preview requests, each the id of its approval
    Applies,     \* apply requests
    Proposals,   \* sequences of edits a model may propose
    Disk,        \* workspaces as the process may find them
    Passing,     \* workspaces the external validators have nothing against
    MaxPending,  \* maximumPendingChanges
    TTL,         \* changeApprovalTTL
    MaxTime,     \* bound: the clock
    MaxMishaps,  \* bound: edits by people, failed file operations, crashes
    None

Attempts == 2    \* changeSimulationAttempts

ASSUME ApprovalAssumption ==
    /\ MaxPending \in Nat \ {0} /\ TTL \in Nat \ {0}
    /\ MaxTime \in Nat /\ MaxMishaps \in Nat
    /\ None \notin Previews \cup Applies \cup Nat
    /\ Proposals \subseteq Seq(Edits)
    /\ Disk \subseteq [Paths -> Texts \cup {Absent}]

VARIABLES
    files,     \* the workspace
    slot,      \* the preview that holds the generation slot, or None
    preview,   \* per preview: stage, attempt, chosen paths, snapshot, result
    pending,   \* ids of pending changes
    created,   \* per stored id, its CreatedAt, or None
    apply,     \* per apply request, its state
    backup,    \* per apply request and path, what was renamed away
    clock,
    mishaps,   \* how many so far
    restarted  \* some mishap was a crash

vars == <<files, slot, preview, pending, created, apply, backup, clock, mishaps,
          restarted>>
applyVars == <<apply, backup>>
epoch == <<clock, restarted>>
previewVars == <<slot, preview, pending, created>>

NewPreview == [stage |-> "idle", attempt |-> 0, chosen |-> {},
               snapshot |-> Nothing, result |-> NoChange]
Ended == [NewPreview EXCEPT !.stage = "ended"]   \* without an approval

\* `left` and `done` are the paths a loop has before and behind it.  `before`
\* and `after` are the workspace at the start and the end of the apply,
\* `unrestored` the paths whose roll-back failed, `disturbed` whether somebody
\* else changed the workspace in between: history, the trees of undisturbed
\* applies only.
NewApply == [stage |-> "idle", id |-> None, left |-> {}, done |-> {},
             unrestored |-> {}, before |-> Nothing, after |-> Nothing,
             disturbed |-> FALSE]

Init ==
    /\ files \in Disk
    /\ slot = None /\ preview = [q \in Previews |-> NewPreview]
    /\ pending = {} /\ created = [q \in Previews |-> None]
    /\ apply = [a \in Applies |-> NewApply]
    /\ backup = [a \in Applies |-> Nothing]
    /\ clock = 0 /\ mishaps = 0 /\ restarted = FALSE

Busy == {"verify", "publish", "linked", "swap", "undo", "rollback", "restore",
         "discard", "cleanup"}
Disturb(but) ==
    [a \in Applies |-> IF a # but /\ apply[a].stage \in Busy \cup {"lost"}
                       THEN [apply[a] EXCEPT !.disturbed = TRUE, !.before = Nothing]
                       ELSE apply[a]]

Mishap == mishaps < MaxMishaps /\ mishaps' = mishaps + 1
-----------------------------------------------------------------------------
(* handleChangeAPI. *)

\* A failure on the way to the snapshot is an error response; the defer gives
\* the slot back.
Error(q) ==
    /\ preview' = [preview EXCEPT ![q] = Ended]
    /\ slot' = IF slot = q THEN None ELSE slot

Load(q, chosen) ==
    /\ slot' = q
    /\ preview' = [preview EXCEPT ![q].stage = "load", ![q].chosen = chosen]

\* acquireGeneration, and the files the request names.
NameFiles(q) ==
    /\ slot = None /\ preview[q].stage = "idle"
    /\ \/ Error(q)
       \/ \E chosen \in SUBSET Paths \ {{}} : Load(q, chosen)
    /\ UNCHANGED <<files, pending, created, applyVars, epoch, mishaps>>

\* What scanning and ranking may come to: some of the files there are.
Ranked == SUBSET {p \in Paths : files[p] # Absent} \ {{}}

\* The model plans queries and the host chooses the files they find.  The texts
\* it scanned are forgotten: Snapshot reads the files again.
Discover(q) ==
    /\ slot = None /\ preview[q].stage = "idle"
    /\ \/ Error(q)
       \/ \E chosen \in Ranked : Load(q, chosen)
    /\ UNCHANGED <<files, pending, created, applyVars, epoch, mishaps>>

\* loadChangeSimulationFile: a regular text file of the workspace.
Readable(p) == files[p] # Absent

Snapshot(q) ==
    /\ preview[q].stage = "load"
    /\ IF \E p \in preview[q].chosen : ~Readable(p) THEN Error(q)
       ELSE /\ preview' = [preview EXCEPT ![q] = [NewPreview EXCEPT
                 !.stage = "attempt", !.attempt = 1,
                 !.snapshot = [p \in Paths |->
                     IF p \in preview[q].chosen THEN files[p] ELSE Absent]]]
            /\ UNCHANGED slot
    /\ UNCHANGED <<files, pending, created, applyVars, epoch, mishaps>>

OnceMore(q) ==   \* mutant: one attempt too many
    IF preview[q].attempt <= Attempts
    THEN preview' = [preview EXCEPT ![q].attempt = @ + 1, ![q].stage = "attempt",
                                    ![q].result = NoChange]
         /\ UNCHANGED slot
    ELSE Error(q)

\* Another attempt, with the error in its prompt, or the end.
NextAttempt(q) ==
    IF preview[q].attempt < Attempts
    THEN preview' = [preview EXCEPT ![q].attempt = @ + 1, ![q].stage = "attempt",
                                    ![q].result = NoChange]
         /\ UNCHANGED slot
    ELSE Error(q)

\* requestChangeSimulationProposal and materializeChangeSimulation may refuse.
AttemptRefused(q) ==
    /\ preview[q].stage = "attempt" /\ NextAttempt(q)
    /\ UNCHANGED <<files, pending, created, applyVars, epoch, mishaps>>

AttemptAccepted(q) ==
    /\ preview[q].stage = "attempt"
    /\ \E edits \in Proposals :
         \E result \in Materialize(preview[q].snapshot, files, edits) :
            IF ChangedFiles(result) = {} THEN Error(q)
            ELSE /\ preview' = [preview EXCEPT ![q].stage = "validate",
                                               ![q].result = result]
                 /\ UNCHANGED slot
    /\ UNCHANGED <<files, pending, created, applyVars, epoch, mishaps>>

\* runExternalChangeValidator, for every profile: a tool may also be missing or
\* run out of time.
Verdicts(tree) == {FALSE} \cup {tree \in Passing}

Validate(q) ==
    LET result == preview[q].result
    IN  /\ preview[q].stage = "validate"
        /\ \E passed \in Verdicts(ValidationCopy(files, result)) :
             IF passed /\ WellFormed(result)
             THEN /\ preview' = [preview EXCEPT ![q].stage = "store",
                                                ![q].snapshot = Nothing]
                  /\ UNCHANGED slot
             ELSE NextAttempt(q)
        /\ UNCHANGED <<files, pending, created, applyVars, epoch, mishaps>>

Expired(q) == clock >= created[q] + TTL

OldestAmong(Q) == {q \in Q : \A r \in Q : created[q] <= created[r]}
NewestAmong(Q) == {q \in Q : \A r \in Q : created[r] <= created[q]}

EvictNewest(live) ==   \* mutant: the comparison is the wrong way round
    IF Cardinality(live) < MaxPending THEN {live}
    ELSE {live \ {q} : q \in NewestAmong(live)}

\* The pending changes left when room is made: any of the oldest goes.
Evict(live) ==
    IF Cardinality(live) < MaxPending THEN {live}
    ELSE {live \ {q} : q \in OldestAmong(live)}

\* newPendingChange and storePendingChange, under pendingMu.
StorePending(q) ==
    /\ preview[q].stage = "store"
    /\ \E kept \in Evict({r \in pending : ~Expired(r)}) : pending' = kept \cup {q}
    /\ created' = [created EXCEPT ![q] = clock]
    /\ preview' = [preview EXCEPT ![q].stage = "ended"] /\ slot' = None
    /\ UNCHANGED <<files, applyVars, epoch, mishaps>>
-----------------------------------------------------------------------------
(* handleApplyChangeAPI and applyPendingChange. *)

Change(a) == preview[apply[a].id].result
NextPath(a) == Min(apply[a].left)

TakeKeeping(a) ==   \* mutant: the change is deleted once it is applied
    /\ apply[a].stage = "idle"
    /\ \E q \in Previews :
        /\ created[q] # None /\ q \in pending
        /\ pending' = IF \E b \in Applies : apply[b].id = q /\ apply[b].stage = "applied"
                      THEN pending \ {q} ELSE pending
        /\ apply' = [apply EXCEPT ![a] = [@ EXCEPT
                !.stage = "verify", !.id = q, !.left = ChangedFiles(preview[q].result),
                !.before = files]]
    /\ UNCHANGED <<files, slot, preview, created, backup, epoch, mishaps>>

\* takePendingChange: deleted before anything else is known of it.
Take(a) ==
    /\ apply[a].stage = "idle"
    /\ \E q \in Previews :
        /\ created[q] # None   \* an id somebody was given
        /\ pending' = pending \ {q}
        /\ apply' = [apply EXCEPT ![a] =
             IF q \notin pending \/ Expired(q) THEN [@ EXCEPT !.stage = "refused"]
             ELSE [@ EXCEPT !.stage = "verify", !.id = q,
                            !.left = ChangedFiles(preview[q].result), !.before = files]]
    /\ UNCHANGED <<files, slot, preview, created, backup, epoch, mishaps>>

Finished(a, stage, tree) ==
    [apply[a] EXCEPT !.stage = stage, !.left = {}, !.done = {},
                     !.after = IF apply[a].disturbed THEN Nothing ELSE tree]

\* The first loop: a created file must still be absent, a replaced one the
\* same byte for byte.
Verify(a) ==
    /\ apply[a].stage = "verify" /\ apply[a].left # {}
    /\ LET p == NextPath(a)
       IN  IF files[p] = Change(a).original[p]
           THEN apply' = [apply EXCEPT ![a].left = @ \ {p}]
           ELSE apply' = [apply EXCEPT ![a] = Finished(a, "conflict", files)]
    /\ UNCHANGED <<files, previewVars, backup, epoch, mishaps>>

\* The second loop writes temporary files; the workspace's own are untouched.
Stage(a) ==
    /\ apply[a].stage = "verify" /\ apply[a].left = {}
    /\ \/ apply' = [apply EXCEPT ![a].stage = "publish",
                                 ![a].left = ChangedFiles(Change(a))]
          /\ UNCHANGED mishaps
       \/ Mishap /\ apply' = [apply EXCEPT ![a] = Finished(a, "conflict", files)]
    /\ UNCHANGED <<files, previewVars, backup, epoch>>

RollBack(a) == [apply[a] EXCEPT !.stage = "rollback", !.left = {}]
Published(a, p) ==
    [apply[a] EXCEPT !.stage = "publish", !.left = @ \ {p}, !.done = @ \cup {p}]

\* os.Link: it never replaces a file.
CreateFile(a) ==
    LET p == NextPath(a)
    IN  /\ apply[a].stage = "publish" /\ apply[a].left # {} /\ Created(Change(a), p)
        /\ \/ /\ files[p] = Absent
              /\ files' = [files EXCEPT ![p] = Change(a).updated[p]]
              /\ apply' = [Disturb(a) EXCEPT ![a].stage = "linked"]
              /\ UNCHANGED mishaps
           \/ /\ files[p] # Absent
              /\ apply' = [apply EXCEPT ![a] = RollBack(a)]
              /\ UNCHANGED <<files, mishaps>>
           \/ /\ files[p] = Absent /\ Mishap
              /\ apply' = [apply EXCEPT ![a] = RollBack(a)]
              /\ UNCHANGED files
        /\ UNCHANGED <<previewVars, backup, epoch>>

\* os.Remove(temporary), the other name of the created file.
Finalize(a) ==
    /\ apply[a].stage = "linked"
    /\ \/ apply' = [apply EXCEPT ![a] = Published(a, NextPath(a))] /\ UNCHANGED mishaps
       \/ Mishap /\ apply' = [apply EXCEPT ![a].stage = "undo"]
    /\ UNCHANGED <<files, backup, previewVars, epoch>>

CopyAside(a) ==   \* mutant: no backup is made
    LET p == NextPath(a)
    IN  /\ apply[a].stage = "publish" /\ apply[a].left # {} /\ ~Created(Change(a), p)
        /\ files[p] # Absent
        /\ apply' = [apply EXCEPT ![a].stage = "swap"]
        /\ UNCHANGED <<files, backup, mishaps, previewVars, epoch>>

\* os.Rename(target, backup): from here the file is missing.
BackUp(a) ==
    LET p == NextPath(a)
    IN  /\ apply[a].stage = "publish" /\ apply[a].left # {} /\ ~Created(Change(a), p)
        /\ \/ /\ files[p] # Absent
              /\ backup' = [backup EXCEPT ![a][p] = files[p]]
              /\ files' = [files EXCEPT ![p] = Absent]
              /\ apply' = [Disturb(a) EXCEPT ![a].stage = "swap"]
              /\ UNCHANGED mishaps
           \/ /\ files[p] = Absent
              /\ apply' = [apply EXCEPT ![a] = RollBack(a)]
              /\ UNCHANGED <<files, backup, mishaps>>
           \/ /\ files[p] # Absent /\ Mishap
              /\ apply' = [apply EXCEPT ![a] = RollBack(a)]
              /\ UNCHANGED <<files, backup>>
        /\ UNCHANGED <<previewVars, epoch>>

\* os.Rename(temporary, target), which replaces whatever is there by now.
Swap(a) ==
    LET p == NextPath(a)
    IN  /\ apply[a].stage = "swap"
        /\ \/ /\ files' = [files EXCEPT ![p] = Change(a).updated[p]]
              /\ apply' = [Disturb(a) EXCEPT ![a] = Published(a, p)]
              /\ UNCHANGED mishaps
           \/ /\ Mishap
              /\ apply' = [apply EXCEPT ![a].stage = "undo"]
              /\ UNCHANGED files
        /\ UNCHANGED <<backup, previewVars, epoch>>

\* The file p as it was: a created one is removed, a replaced one renamed back.
\* The request goes on in any case, nobody looks at the error.
PutBack(a, p, onwards) ==
    \/ /\ files' = [files EXCEPT ![p] = backup[a][p]]
       /\ backup' = [backup EXCEPT ![a][p] = Absent]
       /\ apply' = [Disturb(a) EXCEPT ![a] = onwards]
       /\ UNCHANGED mishaps
    \/ /\ Mishap
       /\ apply' = [apply EXCEPT ![a] = [onwards EXCEPT !.unrestored = @ \cup {p}]]
       /\ UNCHANGED <<files, backup>>

\* The file whose publication failed half-way.
Undo(a) ==
    /\ apply[a].stage = "undo" /\ PutBack(a, NextPath(a), RollBack(a))
    /\ UNCHANGED <<previewVars, epoch>>

\* rollbackAppliedChanges, the last published file first.
LastDone(a) == Max(apply[a].done)
Undone(a) == [apply[a] EXCEPT !.stage = "rollback", !.done = @ \ {LastDone(a)}]

UnlinkCreated(a) ==
    /\ apply[a].stage = "rollback" /\ apply[a].done # {}
    /\ Created(Change(a), LastDone(a)) /\ PutBack(a, LastDone(a), Undone(a))
    /\ UNCHANGED <<previewVars, epoch>>

UnlinkReplaced(a) ==
    /\ apply[a].stage = "rollback" /\ apply[a].done # {}
    /\ ~Created(Change(a), LastDone(a))
    /\ \/ /\ files' = [files EXCEPT ![LastDone(a)] = Absent]
          /\ apply' = [Disturb(a) EXCEPT ![a].stage = "restore"]
          /\ UNCHANGED mishaps
       \/ Mishap /\ apply' = [apply EXCEPT ![a].stage = "restore"] /\ UNCHANGED files
    /\ UNCHANGED <<backup, previewVars, epoch>>

RenameBack(a) ==
    /\ apply[a].stage = "restore" /\ PutBack(a, LastDone(a), Undone(a))
    /\ UNCHANGED <<previewVars, epoch>>

\* The backups there are; after them the request answers.
Leftovers(a) == {p \in Paths : backup[a][p] # Absent}
LeftWith(a, stage) == [apply[a] EXCEPT !.stage = stage, !.left = Leftovers(a), !.done = {}]

EndLoopEarly(a) ==   \* mutant: published files are not rolled back
    /\ \/ /\ apply[a].stage = "publish" /\ apply[a].left = {}
          /\ apply' = [apply EXCEPT ![a] = LeftWith(a, "discard")]
       \/ /\ apply[a].stage = "rollback"
          /\ apply' = [apply EXCEPT ![a] = LeftWith(a, "cleanup")]
    /\ UNCHANGED <<files, backup, previewVars, epoch, mishaps>>

\* The last file is published, or the last one rolled back.
EndLoop(a) ==
    /\ \/ /\ apply[a].stage = "publish" /\ apply[a].left = {}
          /\ apply' = [apply EXCEPT ![a] = LeftWith(a, "discard")]
       \/ /\ apply[a].stage = "rollback" /\ apply[a].done = {}
          /\ apply' = [apply EXCEPT ![a] = LeftWith(a, "cleanup")]
    /\ UNCHANGED <<files, backup, previewVars, epoch, mishaps>>

\* The loop behind the publication, or the deferred cleanup: a backup that
\* cannot be removed stays.
RemoveBackup(a) ==
    /\ apply[a].stage \in {"discard", "cleanup"} /\ apply[a].left # {}
    /\ \/ backup' = [backup EXCEPT ![a][NextPath(a)] = Absent] /\ UNCHANGED mishaps
       \/ Mishap /\ UNCHANGED backup
    /\ apply' = [apply EXCEPT ![a].left = @ \ {NextPath(a)}]
    /\ UNCHANGED <<files, previewVars, epoch>>

Finish(a) ==
    /\ apply[a].left = {}
    /\ \/ /\ apply[a].stage = "discard"
          /\ apply' = [apply EXCEPT ![a] = Finished(a, "applied", files)]
       \/ /\ apply[a].stage = "cleanup"
          /\ apply' = [apply EXCEPT ![a] = Finished(a, "conflict", files)]
    /\ UNCHANGED <<files, backup, previewVars, epoch, mishaps>>
-----------------------------------------------------------------------------
(* People, time, and the end of the process: approvals are in memory only.  *)

EditByHand(p, text) ==
    /\ Mishap
    /\ files[p] # text
    /\ files' = [files EXCEPT ![p] = text]
    /\ apply' = Disturb(None)
    /\ UNCHANGED <<previewVars, backup, epoch>>

\* Only the pending changes know the time.
Tick ==
    /\ \E q \in pending : ~Expired(q)
    /\ clock < MaxTime /\ clock' = clock + 1
    /\ UNCHANGED <<restarted, files, previewVars, applyVars, mishaps>>

Crash ==
    /\ Mishap /\ restarted' = TRUE
    /\ slot' = None /\ pending' = {}
    /\ preview' = [q \in Previews |->
         IF preview[q].stage \in {"load", "attempt", "validate", "store"}
         THEN Ended ELSE preview[q]]
    /\ apply' = [a \in Applies |->
         IF apply[a].stage \in Busy THEN [apply[a] EXCEPT !.stage = "lost"] ELSE apply[a]]
    /\ UNCHANGED <<files, created, backup, clock>>

PreviewStep(q) ==
    \/ NameFiles(q) \/ Discover(q) \/ Snapshot(q) \/ AttemptRefused(q)
    \/ AttemptAccepted(q) \/ Validate(q) \/ StorePending(q)
ApplyStep(a) ==
    \/ Take(a) \/ Verify(a) \/ Stage(a) \/ CreateFile(a) \/ Finalize(a)
    \/ BackUp(a) \/ Swap(a) \/ Undo(a) \/ UnlinkCreated(a) \/ UnlinkReplaced(a)
    \/ RenameBack(a) \/ EndLoop(a) \/ RemoveBackup(a) \/ Finish(a)

Next ==
    \/ \E q \in Previews : PreviewStep(q)
    \/ \E a \in Applies : ApplyStep(a)
    \/ \E p \in Paths : \E text \in {f[p] : f \in Disk} : EditByHand(p, text)
    \/ Tick \/ Crash

Spec == Init /\ [][Next]_vars
-----------------------------------------------------------------------------
Trees == [Paths -> Texts \cup {Absent}]

TypeOK ==
    /\ files \in Trees
    /\ slot \in Previews \cup {None}
    /\ preview \in [Previews -> [stage : {"idle", "load", "attempt", "validate",
                                          "store", "ended"},
                                 attempt : 0..Attempts, chosen : SUBSET Paths,
                                 snapshot : Trees,
                                 result : [original : Trees, updated : Trees]]]
    /\ pending \subseteq Previews
    /\ created \in [Previews -> 0..MaxTime \cup {None}]
    /\ apply \in [Applies -> [stage : Busy \cup {"idle", "refused", "conflict",
                                                 "applied", "lost"},
                              id : Previews \cup {None}, left : SUBSET Paths,
                              done : SUBSET Paths, unrestored : SUBSET Paths,
                              before : Trees, after : Trees,
                              disturbed : BOOLEAN]]
    /\ backup \in [Applies -> Trees]
    /\ clock \in 0..MaxTime
    /\ mishaps \in 0..MaxMishaps /\ restarted \in BOOLEAN

\* "one-time": an approval is taken by one apply request at most, in its
\* lifetime, however many requests race for it (server.go:541-553;
\* docs/operations/CHANGE_SIMULATION.md:346-348).
ApprovalUsedOnce ==
    /\ \A a, b \in Applies : apply[a].id = apply[b].id /\ a # b => apply[a].id = None
    /\ \A a \in Applies : apply[a].id \notin pending

\* An approval nobody used vanishes before its time only when MaxPending
\* others were stored since (server.go:528-538), or in a restart.
EvictedOnlyByNewer ==
    \A q \in Previews :
        created[q] # None /\ ~restarted /\ clock < created[q] + TTL /\ q \notin pending
        /\ (\A a \in Applies : apply[a].id # q) =>
            Cardinality({r \in Previews \ {q} : created[r] # None
                            /\ created[r] >= created[q]}) >= MaxPending

\* An apply that nobody disturbed and that answers "applied" found the files of
\* the snapshot, changed every file it lists, to the approved text, and no
\* other (approval.go:82-175, structured.go:525-551).
AppliedAsPreviewed ==
    \A a \in Applies : apply[a].stage = "applied" /\ ~apply[a].disturbed =>
        \A p \in Paths :
            IF p \in ChangedFiles(Change(a))
            THEN /\ apply[a].before[p] = Change(a).original[p]
                 /\ apply[a].after[p] = Change(a).updated[p]
                 /\ apply[a].after[p] # apply[a].before[p]
            ELSE apply[a].after[p] = apply[a].before[p]

\* An undisturbed apply that answers with an error leaves every file as it
\* found it, wherever it failed, but those whose own roll-back failed
\* (approval.go:143-170, 178-185).
RejectedLeavesTree ==
    \A a \in Applies : apply[a].stage = "conflict" /\ ~apply[a].disturbed =>
        \A p \in Paths \ apply[a].unrestored : apply[a].after[p] = apply[a].before[p]

\* At every moment of an apply, and so after a crash at any of them, either the
\* text of each file is where it was or in a backup beside it, unless the
\* roll-back of this file failed, or the whole change is in place: no backup
\* goes while another file is still to come (approval.go:143-185).
CrashKeepsOriginal ==
    \A a \in Applies : apply[a].stage \in Busy \cup {"lost"} /\ ~apply[a].disturbed =>
        \/ \A p \in Paths \ apply[a].unrestored :
             apply[a].before[p] \in {files[p], backup[a][p], Absent}
        \/ \A p \in Paths :
             files[p] = IF p \in ChangedFiles(Change(a)) THEN Change(a).updated[p]
                        ELSE apply[a].before[p]
=============================================================================
