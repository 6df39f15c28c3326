--------------------------- MODULE AuditTrailProofs ---------------------------
(***************************************************************************)
(* The audit store keeps its types, and its file what was acknowledged; an *)
(* author that was answered has left its whole story in the file, a result *)
(* cites calls of its own, and a request that returned is settled: for any *)
(* requests and follow-ups, any ways an append may fail, and any number of *)
(* crashes.                                                                *)
(*                                                                         *)
(* First the store and the types (IInv), then the stories (TInv): for each *)
(* author, the list of steps ahead and the story told so far belong        *)
(* together, and the file tells the story as long as nothing went wrong.   *)
(***************************************************************************)
EXTENDS AuditTrail, SequenceTheorems, TLAPS

Stored == [Runs -> RunRecords \cup {None}]

\* All that memory `m` holds is in the file `d`.
Mirrored(m, d) == \A r \in Runs : m[r] # None => Recorded(m[r], d[r])

\* The store's part of the inductive invariant.
StoreInv == StoreTypeOK /\ JournalMirrorsMemory

\* A step ahead is an event with a call or none, a result with the calls it
\* cites, or a step without an argument.
Ahead == ((Whats \ {"result"}) \X (CallIds \cup {None}))
         \cup ({"result"} \X SUBSET CallIds)

\* The authors' part.  A follow-up that writes knows its run.
AuthorInv ==
    /\ todo \in [Authors -> Seq(Ahead)]
    /\ stage \in [Authors -> {"idle", "busy", "returned", "lost"}]
    /\ handle \in [Requests -> [id : BOOLEAN, finished : BOOLEAN, err : BOOLEAN]]
    /\ calls \in [Authors -> Seq(CallIds)]
    /\ target \in [FollowUps -> Runs \cup {None}]
    /\ answer \in [Authors -> {"none", "ok", "refused"}]
    /\ unwritten \subseteq Requests
    /\ crashes \in 0..MaxCrashes
    /\ \A f \in FollowUps : todo[f] # <<>> => target[f] \in Runs

IInv == StoreInv /\ AuthorInv
-----------------------------------------------------------------------------
(* The store's operations. *)

LEMMA StoreUnchanged ==
    ASSUME StoreInv, UNCHANGED storeVars
    PROVE  StoreInv'
BY DEF StoreInv, storeVars, StoreTypeOK, JournalMirrorsMemory, CleanFailuresHarmless,
       AcknowledgedIsRecorded

\* One record is written.  `contents` is the file with it, `changed` memory with it:
\* it fits a file that equals memory, and keeps the file ahead of memory
\* whether memory learns of it or not.
LEMMA WriteKeeps ==
    ASSUME StoreInv,
           NEW fits \in BOOLEAN, NEW contents \in Stored, NEW changed \in Stored,
           NEW outcome \in Outcomes, Write(fits, contents, changed, outcome),
           runs = disk => fits /\ contents = changed,
           fits /\ Mirrored(runs, disk) =>
               Mirrored(runs, contents) /\ Mirrored(changed, contents)
    PROVE  StoreInv'
<1>1. StoreTypeOK'
  BY DEF StoreInv, StoreTypeOK, Write, Append2File, Outcomes, Stored
<1>2. CleanFailuresHarmless'
  <2> SUFFICES ASSUME faults' \subseteq {"none"}
               PROVE  tail' = "clean" /\ runs' = disk'
    BY DEF CleanFailuresHarmless
  <2>1. faults \subseteq {"none"} /\ outcome \in {"ok", "none"}
    BY DEF Write, Append2File
  <2>2. tail = "clean" /\ runs = disk
    BY <2>1 DEF StoreInv, JournalMirrorsMemory, CleanFailuresHarmless, Write
  <2>3. fits /\ contents = changed
    BY <2>2
  <2> QED
    BY <2>1, <2>2, <2>3 DEF Write, Append2File
<1>3. AcknowledgedIsRecorded'
  <2> SUFFICES ASSUME tail' # "broken" PROVE Mirrored(runs', disk')
    BY DEF AcknowledgedIsRecorded, Mirrored
  <2>1. tail # "broken"
    BY DEF Write, Append2File
  <2>2. Mirrored(runs, disk)
    BY <2>1 DEF StoreInv, JournalMirrorsMemory, AcknowledgedIsRecorded, Mirrored, Write
  <2>3. CASE outcome = "none"
    BY <2>2, <2>3 DEF Write, Append2File
  <2>4. CASE outcome # "none"
    <3>1. fits /\ disk' = contents
      BY <2>4 DEF Write, Append2File
    <3>2. runs' \in {runs, changed}
      BY DEF Write
    <3> QED
      BY <2>2, <3>1, <3>2
  <2> QED
    BY <2>3, <2>4
<1> QED
  BY <1>1, <1>2, <1>3 DEF StoreInv, JournalMirrorsMemory

LEMMA SameRecorded ==
    ASSUME NEW x \in RunRecords
    PROVE  Recorded(x, x)
<1>1. x # None
  BY AuditConstants
<1>2. Len(x.events) \in Nat
  BY DEF RunRecords
<1> QED
  BY <1>1, <1>2 DEF Recorded

LEMMA StartKeeps ==
    ASSUME StoreInv, NEW r \in Runs, NEW outcome, StartRun(r, outcome)
    PROVE  StoreInv'
<1> DEFINE contents == [disk EXCEPT ![r] = NewRun]
           changed == [runs EXCEPT ![r] = NewRun]
<1>1. NewRun \in RunRecords
  BY DEF NewRun, RunRecords
<1>2. runs \in Stored /\ disk \in Stored
  BY DEF StoreInv, StoreTypeOK, Stored
<1>3. contents \in Stored /\ changed \in Stored
  BY <1>1, <1>2 DEF Stored
<1>4. runs[r] = None /\ outcome \in Outcomes
      /\ Write(disk[r] = None, contents, changed, outcome)
  BY DEF StartRun
<1>5. Recorded(NewRun, NewRun)
  BY <1>1, SameRecorded
<1>6. Mirrored(runs, disk) => Mirrored(runs, contents) /\ Mirrored(changed, contents)
  BY <1>2, <1>4, <1>5 DEF Mirrored, Stored
<1>7. runs = disk => disk[r] = None /\ contents = changed
  BY <1>4
<1> QED
  BY <1>3, <1>4, <1>6, <1>7, WriteKeeps

LEMMA EventTyped ==
    ASSUME NEW x \in RunRecords, NEW e \in Events
    PROVE  [x EXCEPT !.events = @ \o <<e>>] \in RunRecords
<1>1. ASSUME NEW s \in Seq(Events) PROVE [x EXCEPT !.events = s] \in RunRecords
  BY DEF RunRecords
<1>2. x.events \o <<e>> \in Seq(Events)
  <2>1. x.events \in Seq(Events)
    BY DEF RunRecords
  <2> QED
    BY <2>1
<1> QED
  BY <1>1, <1>2

\* A replay numbers the events as memory does.
LEMMA EventRecorded ==
    ASSUME NEW m \in RunRecords, NEW d \in RunRecords, NEW e \in Events,
           Recorded(m, d), Len(d.events) = Len(m.events)
    PROVE  /\ Recorded(m, [d EXCEPT !.events = @ \o <<e>>])
           /\ Recorded([m EXCEPT !.events = @ \o <<e>>], [d EXCEPT !.events = @ \o <<e>>])
<1> DEFINE dd == [d EXCEPT !.events = @ \o <<e>>]
           mm == [m EXCEPT !.events = @ \o <<e>>]
<1>1. m.events \in Seq(Events) /\ d.events \in Seq(Events)
  BY DEF RunRecords
<1>2. /\ mm.events = Append(m.events, e) /\ dd.events = Append(d.events, e)
      /\ mm.status = m.status /\ mm.concluded = m.concluded /\ mm.evidence = m.evidence
      /\ dd.status = d.status /\ dd.concluded = d.concluded /\ dd.evidence = d.evidence
  BY <1>1 DEF RunRecords
<1>3. dd # None
  <2>1. dd \in RunRecords
    BY EventTyped
  <2> QED
    BY <2>1, AuditConstants
<1> HIDE DEF mm, dd
<1>4. \A i \in 1..Len(m.events) : dd.events[i] = m.events[i] /\ mm.events[i] = m.events[i]
  BY <1>1, <1>2 DEF Recorded
<1>5. Len(dd.events) = Len(m.events) + 1 /\ Len(mm.events) = Len(m.events) + 1
      /\ Len(m.events) \in Nat
  BY <1>1, <1>2
<1>6. mm.events[Len(m.events) + 1] = dd.events[Len(m.events) + 1]
  BY <1>1, <1>2
<1>7. \A i \in 1..Len(mm.events) : mm.events[i] = dd.events[i]
  BY <1>4, <1>5, <1>6
<1>8. Recorded(m, dd)
  BY <1>2, <1>3, <1>4, <1>5 DEF Recorded
<1>9. Recorded(mm, dd)
  BY <1>2, <1>3, <1>5, <1>7 DEF Recorded
<1> QED
  BY <1>8, <1>9 DEF mm, dd

LEMMA RefusedKeeps ==
    ASSUME StoreInv, NEW outcome, Refused(outcome)
    PROVE  StoreInv'
BY StoreUnchanged DEF Refused

LEMMA EventKeeps ==
    ASSUME StoreInv, NEW r \in Runs, NEW e \in Events, NEW requireRunning \in BOOLEAN,
           NEW outcome, AddEvent(r, e, requireRunning, outcome)
    PROVE  StoreInv'
<1>1. CASE Refused(outcome)
  BY <1>1, RefusedKeeps
<1>2. CASE ~Refused(outcome)
  <2> DEFINE contents == WithEvent(disk, r, e)
             changed == WithEvent(runs, r, e)
             fits == disk[r] # None /\ Len(disk[r].events) = Len(runs[r].events)
  <2>1. runs[r] # None /\ outcome \in Outcomes /\ Write(fits, contents, changed, outcome)
    BY <1>2 DEF AddEvent
  <2>2. runs \in Stored /\ disk \in Stored
    BY DEF StoreInv, StoreTypeOK, Stored
  <2>3. CASE fits
    <3>1. runs[r] \in RunRecords /\ disk[r] \in RunRecords
      BY <2>1, <2>2, <2>3 DEF Stored
    <3>2. /\ [runs[r] EXCEPT !.events = @ \o <<e>>] \in RunRecords
          /\ [disk[r] EXCEPT !.events = @ \o <<e>>] \in RunRecords
      BY <3>1, EventTyped
    <3>3. contents \in Stored /\ changed \in Stored
      BY <2>2, <3>2 DEF Stored, WithEvent
    <3>4. Mirrored(runs, disk) => Mirrored(runs, contents) /\ Mirrored(changed, contents)
      <4> SUFFICES ASSUME Mirrored(runs, disk), NEW q \in Runs
                   PROVE  /\ runs[q] # None => Recorded(runs[q], contents[q])
                          /\ changed[q] # None => Recorded(changed[q], contents[q])
        BY DEF Mirrored
      <4>1. CASE q # r
        BY <2>2, <4>1 DEF Mirrored, WithEvent, Stored
      <4>2. CASE q = r
        <5>1. Recorded(runs[r], disk[r])
          BY <2>1 DEF Mirrored
        <5>2. /\ contents[r] = [disk[r] EXCEPT !.events = @ \o <<e>>]
              /\ changed[r] = [runs[r] EXCEPT !.events = @ \o <<e>>]
          BY <2>2 DEF WithEvent, Stored
        <5>3. Len(disk[r].events) = Len(runs[r].events)
          BY <2>3
        <5>4. /\ Recorded(runs[r], [disk[r] EXCEPT !.events = @ \o <<e>>])
              /\ Recorded([runs[r] EXCEPT !.events = @ \o <<e>>],
                          [disk[r] EXCEPT !.events = @ \o <<e>>])
          BY <3>1, <5>1, <5>3, EventRecorded
        <5> HIDE DEF contents, changed
        <5> QED
          BY <4>2, <5>2, <5>4
      <4> QED
        BY <4>1, <4>2
    <3>5. runs = disk => contents = changed
      OBVIOUS
    <3> HIDE DEF contents, changed
    <3> QED
      BY <2>1, <2>3, <3>3, <3>4, <3>5, WriteKeeps
  <2>4. CASE ~fits
    <3>1. runs # disk
      BY <2>1, <2>4
    <3>2. Write(FALSE, disk, changed, outcome)
      BY <2>1, <2>4 DEF Write, Append2File
    <3>3. changed \in Stored
      <4>1. runs[r] \in RunRecords
        BY <2>1, <2>2 DEF Stored
      <4>2. [runs[r] EXCEPT !.events = @ \o <<e>>] \in RunRecords
        BY <4>1, EventTyped
      <4> QED
        BY <2>2, <4>2 DEF Stored, WithEvent
    <3> HIDE DEF changed
    <3> QED
      BY <2>1, <2>2, <3>1, <3>2, <3>3, WriteKeeps
  <2> QED
    BY <2>3, <2>4
<1> QED
  BY <1>1, <1>2

LEMMA FinishKeeps ==
    ASSUME StoreInv, NEW r \in Runs, NEW status \in {"succeeded", "failed"},
           NEW outcome, FinishRun(r, status, outcome)
    PROVE  StoreInv'
<1>1. CASE Refused(outcome)
  BY <1>1, RefusedKeeps
<1>2. CASE ~Refused(outcome)
  <2> DEFINE contents == WithStatus(disk, r, status)
             changed == WithStatus(runs, r, status)
             fits == IsRunning(disk, r)
  <2>1. IsRunning(runs, r) /\ outcome \in Outcomes /\ Write(fits, contents, changed, outcome)
    BY <1>2 DEF FinishRun
  <2>2. runs \in Stored /\ disk \in Stored
    BY DEF StoreInv, StoreTypeOK, Stored
  <2>3. ASSUME NEW x \in RunRecords PROVE [x EXCEPT !.status = status] \in RunRecords
    BY DEF RunRecords
  <2>4. runs[r] \in RunRecords /\ runs[r].status = "running"
    BY <2>1, <2>2 DEF Stored, IsRunning
  <2>5. changed \in Stored
    BY <2>2, <2>3, <2>4 DEF Stored, WithStatus
  <2>6. CASE fits
    <3>1. disk[r] \in RunRecords
      BY <2>2, <2>6 DEF Stored, IsRunning
    <3>2. contents \in Stored
      BY <2>2, <2>3, <3>1 DEF Stored, WithStatus
    <3>3. ASSUME Mirrored(runs, disk), NEW q \in Runs
          PROVE  /\ runs[q] # None => Recorded(runs[q], contents[q])
                 /\ changed[q] # None => Recorded(changed[q], contents[q])
      <4>1. CASE q # r
        BY <2>2, <3>3, <4>1 DEF Mirrored, WithStatus, Stored
      <4>2. CASE q = r
        <5>1. Recorded(runs[r], disk[r])
          BY <2>1, <3>3 DEF Mirrored, IsRunning
        <5>2. /\ contents[r] = [disk[r] EXCEPT !.status = status]
              /\ changed[r] = [runs[r] EXCEPT !.status = status]
          BY <2>2 DEF WithStatus, Stored
        <5>3. contents[r] # None /\ changed[r] # None
          BY <2>3, <2>4, <3>1, <5>2, AuditConstants
        <5>4. /\ contents[r].events = disk[r].events /\ contents[r].status = status
              /\ contents[r].concluded = disk[r].concluded /\ contents[r].evidence = disk[r].evidence
              /\ changed[r].events = runs[r].events /\ changed[r].status = status
              /\ changed[r].concluded = runs[r].concluded /\ changed[r].evidence = runs[r].evidence
          BY <2>4, <3>1, <5>2 DEF RunRecords
        <5> HIDE DEF contents, changed
        <5>5. Recorded(runs[r], contents[r]) /\ Recorded(changed[r], contents[r])
          BY <2>4, <5>1, <5>3, <5>4 DEF Recorded
        <5> QED
          BY <4>2, <5>5
      <4> QED
        BY <4>1, <4>2
    <3>4. Mirrored(runs, disk) => Mirrored(runs, contents) /\ Mirrored(changed, contents)
      BY <3>3 DEF Mirrored
    <3>5. runs = disk => contents = changed
      OBVIOUS
    <3> HIDE DEF contents, changed
    <3> QED
      BY <2>1, <2>5, <2>6, <3>2, <3>4, <3>5, WriteKeeps
  <2>7. CASE ~fits
    <3>1. runs # disk
      BY <2>1, <2>7
    <3>2. Write(FALSE, disk, changed, outcome)
      BY <2>1, <2>7 DEF Write, Append2File
    <3> HIDE DEF changed
    <3> QED
      BY <2>1, <2>2, <2>5, <3>1, <3>2, WriteKeeps
  <2> QED
    BY <2>6, <2>7
<1> QED
  BY <1>1, <1>2

LEMMA ResultKeeps ==
    ASSUME StoreInv, NEW r \in Runs, NEW evidence \in SUBSET CallIds,
           NEW outcome, SetInvestigationResult(r, evidence, outcome)
    PROVE  StoreInv'
<1>1. CASE Refused(outcome)
  BY <1>1, RefusedKeeps
<1>2. CASE ~Refused(outcome)
  <2> DEFINE contents == WithEvidence(disk, r, evidence)
             changed == WithEvidence(runs, r, evidence)
             fits == Concludes(disk, r, evidence)
  <2>1. /\ Concludes(runs, r, evidence) /\ outcome \in Outcomes
        /\ Write(fits, contents, changed, outcome)
    BY <1>2 DEF SetInvestigationResult
  <2>2. runs \in Stored /\ disk \in Stored
    BY DEF StoreInv, StoreTypeOK, Stored
  <2>3. ASSUME NEW x \in RunRecords
        PROVE  [x EXCEPT !.concluded = TRUE, !.evidence = evidence] \in RunRecords
    BY DEF RunRecords
  <2>4. runs[r] \in RunRecords /\ ~runs[r].concluded
    BY <2>1, <2>2 DEF Stored, Concludes, IsRunning
  <2>0. ASSUME NEW R \in Stored, R[r] \in RunRecords
        PROVE  /\ WithEvidence(R, r, evidence) \in Stored
               /\ WithEvidence(R, r, evidence)[r] =
                      [R[r] EXCEPT !.concluded = TRUE, !.evidence = evidence]
               /\ \A q \in Runs \ {r} : WithEvidence(R, r, evidence)[q] = R[q]
    <3>1. WithEvidence(R, r, evidence) =
            [R EXCEPT ![r] = [R[r] EXCEPT !.concluded = TRUE, !.evidence = evidence]]
      BY <2>0 DEF WithEvidence, Stored, RunRecords
    <3> QED
      BY <2>0, <2>3, <3>1 DEF Stored
  <2>5. changed \in Stored
    BY <2>0, <2>2, <2>4
  <2>6. CASE fits
    <3>1. disk[r] \in RunRecords
      BY <2>2, <2>6 DEF Stored, Concludes, IsRunning
    <3>2. contents \in Stored
      BY <2>0, <2>2, <3>1
    <3>3. ASSUME Mirrored(runs, disk), NEW q \in Runs
          PROVE  /\ runs[q] # None => Recorded(runs[q], contents[q])
                 /\ changed[q] # None => Recorded(changed[q], contents[q])
      <4>1. CASE q # r
        <5>1. contents[q] = disk[q] /\ changed[q] = runs[q]
          BY <2>0, <2>2, <2>4, <3>1, <4>1
        <5> HIDE DEF contents, changed
        <5> QED
          BY <3>3, <5>1 DEF Mirrored
      <4>2. CASE q = r
        <5>1. Recorded(runs[r], disk[r])
          BY <2>4, <3>3, AuditConstants DEF Mirrored
        <5>2. /\ contents[r] = [disk[r] EXCEPT !.concluded = TRUE, !.evidence = evidence]
              /\ changed[r] = [runs[r] EXCEPT !.concluded = TRUE, !.evidence = evidence]
          BY <2>0, <2>2, <2>4, <3>1
        <5> HIDE DEF contents, changed
        <5>3. contents[r] # None /\ changed[r] # None
          BY <2>3, <2>4, <3>1, <5>2, AuditConstants
        <5>4. /\ contents[r].events = disk[r].events /\ contents[r].status = disk[r].status
              /\ contents[r].concluded /\ contents[r].evidence = evidence
              /\ changed[r].events = runs[r].events /\ changed[r].status = runs[r].status
              /\ changed[r].concluded /\ changed[r].evidence = evidence
          BY <2>4, <3>1, <5>2 DEF RunRecords
        <5>5. Recorded(runs[r], contents[r]) /\ Recorded(changed[r], contents[r])
          BY <2>4, <5>1, <5>3, <5>4 DEF Recorded
        <5> QED
          BY <4>2, <5>5
      <4> QED
        BY <4>1, <4>2
    <3>4. Mirrored(runs, disk) => Mirrored(runs, contents) /\ Mirrored(changed, contents)
      BY <3>3 DEF Mirrored
    <3>5. runs = disk => contents = changed
      OBVIOUS
    <3> HIDE DEF contents, changed
    <3> QED
      BY <2>1, <2>5, <2>6, <3>2, <3>4, <3>5, WriteKeeps
  <2>7. CASE ~fits
    <3>1. runs # disk
      BY <2>1, <2>7
    <3>2. Write(FALSE, disk, changed, outcome)
      BY <2>1, <2>7 DEF Write, Append2File
    <3> HIDE DEF changed
    <3> QED
      BY <2>1, <2>2, <2>5, <3>1, <3>2, WriteKeeps
  <2> QED
    BY <2>6, <2>7
<1> QED
  BY <1>1, <1>2

LEMMA OpenKeeps ==
    ASSUME StoreInv, Open
    PROVE  StoreInv'
<1>1. Mirrored(disk, disk)
  BY SameRecorded DEF Mirrored, StoreInv, StoreTypeOK
<1> QED
  BY <1>1 DEF Open, StoreInv, StoreTypeOK, JournalMirrorsMemory, CleanFailuresHarmless,
       AcknowledgedIsRecorded, Mirrored

LEMMA StopKeeps ==
    ASSUME StoreInv, StopProcess
    PROVE  StoreInv'
BY DEF StopProcess, NoRuns, StoreInv, StoreTypeOK, JournalMirrorsMemory,
       CleanFailuresHarmless, AcknowledgedIsRecorded
-----------------------------------------------------------------------------
(* The authors' steps ahead. *)

LEMMA StepsTyped ==
    ASSUME NEW w \in Seq(Whats \ {"result"})
    PROVE  Steps(w) \in Seq(Ahead)
<1>1. \A i \in 1..Len(w) : <<w[i], None>> \in Ahead
  BY ElementOfSeq DEF Ahead
<1>2. [i \in 1..Len(w) |-> <<w[i], None>>] \in Seq(Ahead)
  BY <1>1, IsASeq, LenProperties
<1> QED
  BY <1>2, LenProperties DEF Steps, Step

LEMMA CallStepsTyped ==
    ASSUME NEW c \in Seq(CallIds)
    PROVE  CallSteps(c) \in Seq(Ahead)
<1>1. \A i \in 1..Len(c) : <<"tool_call", c[i]>> \in Ahead
  BY ElementOfSeq DEF Ahead, Whats, Types
<1>2. [i \in 1..Len(c) |-> <<"tool_call", c[i]>>] \in Seq(Ahead)
  BY <1>1, IsASeq, LenProperties
<1> QED
  BY <1>2, LenProperties DEF CallSteps

LEMMA JoinTyped ==
    ASSUME NEW s \in Seq(Ahead), NEW t \in Seq(Ahead)
    PROVE  s \o t \in Seq(Ahead)
BY ConcatProperties

LEMMA TailTyped ==
    ASSUME NEW s \in Seq(Ahead), s # <<>>
    PROVE  Tail(s) \in Seq(Ahead) /\ Head(s) \in Ahead
BY HeadTailProperties

LEMMA LenFromDomain ==
    ASSUME NEW S, NEW s \in Seq(S), NEW n \in Nat, DOMAIN s = 1..n
    PROVE  Len(s) = n
BY LenProperties

\* One element put before a sequence.
LEMMA ConsParts ==
    ASSUME NEW S, NEW x \in S, NEW s \in Seq(S)
    PROVE  /\ <<x>> \o s \in Seq(S) /\ <<x>> \o s # <<>>
           /\ Head(<<x>> \o s) = x /\ Tail(<<x>> \o s) = s
<1> DEFINE l == <<x>> \o s
<1>1. <<x>> \in Seq(S) /\ Len(<<x>>) = 1 /\ <<x>>[1] = x
  OBVIOUS
<1>2. /\ l \in Seq(S) /\ Len(l) = 1 + Len(s) /\ Len(s) \in Nat
      /\ \A i \in 1..1 + Len(s) : l[i] = IF i <= 1 THEN <<x>>[i] ELSE s[i - 1]
  BY <1>1, ConcatProperties, LenProperties
<1> HIDE DEF l
<1>3. l # <<>>
  BY <1>2, EmptySeq
<1>4. Head(l) = l[1] /\ l[1] = x
  BY <1>1, <1>2, <1>3
<1>5. /\ Tail(l) \in Seq(S) /\ Len(Tail(l)) = Len(s)
      /\ \A i \in 1..Len(s) : Tail(l)[i] = l[i + 1]
  BY <1>2, <1>3, HeadTailProperties
<1>6. \A i \in 1..Len(s) : Tail(l)[i] = s[i]
  BY <1>2, <1>5
<1>7. Tail(l) = s
  BY <1>5, <1>6, SeqEqual
<1> QED
  BY <1>2, <1>3, <1>4, <1>7 DEF l

\* One event per receiver.
LEMMA DeliverParts ==
    ASSUME NEW S, "notification_delivery" \in S, NEW n \in Nat
    PROVE  /\ Deliver(n) \in Seq(S) /\ Deliver(0) = <<>>
           /\ Deliver(n + 1) = <<"notification_delivery">> \o Deliver(n)
<1>1. ASSUME NEW m \in Nat
      PROVE  /\ Deliver(m) \in Seq(S) /\ Len(Deliver(m)) = m
             /\ \A i \in 1..m : Deliver(m)[i] = "notification_delivery"
  <2>1. Deliver(m) \in Seq(S)
    BY IsASeq DEF Deliver
  <2>2. DOMAIN Deliver(m) = 1..m /\ \A i \in 1..m : Deliver(m)[i] = "notification_delivery"
    BY DEF Deliver
  <2> QED
    BY <2>1, <2>2, LenFromDomain
<1>2. Deliver(0) = <<>>
  BY <1>1, EmptySeq
<1>3. <<"notification_delivery">> \in Seq(S) /\ Len(<<"notification_delivery">>) = 1
      /\ <<"notification_delivery">>[1] = "notification_delivery"
  OBVIOUS
<1>4. /\ <<"notification_delivery">> \o Deliver(n) \in Seq(S)
      /\ Len(<<"notification_delivery">> \o Deliver(n)) = 1 + n
      /\ \A i \in 1..1 + n : (<<"notification_delivery">> \o Deliver(n))[i] =
             IF i <= 1 THEN <<"notification_delivery">>[i] ELSE Deliver(n)[i - 1]
  BY <1>1, <1>3, ConcatProperties
<1>5. \A i \in 1..1 + n : (<<"notification_delivery">> \o Deliver(n))[i] = "notification_delivery"
  BY <1>1, <1>3, <1>4
<1>6. n + 1 \in Nat /\ n + 1 = 1 + n
  OBVIOUS
<1>7. Deliver(n + 1) \in Seq(S) /\ Len(Deliver(n + 1)) = 1 + n
      /\ \A i \in 1..1 + n : Deliver(n + 1)[i] = "notification_delivery"
  BY <1>1, <1>6
<1>8. Deliver(n + 1) = <<"notification_delivery">> \o Deliver(n)
  BY <1>4, <1>5, <1>7, SeqEqual
<1> QED
  BY <1>1, <1>2, <1>8

\* What is ahead once a result is written, and after it.
Conclusions == {Conclusion(n) : n \in Deliveries}
Delivering(m) == Steps(Deliver(m) \o (<<"check">> \o Succeed))
Closing == Steps(Succeed)

\* The sequences of steps the actions write out.
LEMMA ListsTyped ==
    /\ FailAudit \in Seq(Ahead) /\ FailJob \in Seq(Ahead)
    /\ Steps(<<"chat">>) \in Seq(Ahead)
    /\ Steps(<<"alert_received", "check", "chat">>) \in Seq(Ahead)
    /\ Steps(<<"check", "structure">>) \in Seq(Ahead)
    /\ Steps(<<"succeed", "answer", "settle">>) \in Seq(Ahead)
    /\ Conclusions \subseteq Seq(Ahead)
    /\ Steps(<<"started", "chat">>) \in Seq(Ahead)
    /\ Steps(<<"failed">>) \in Seq(Ahead)
    /\ Steps(<<"succeeded", "answer">>) \in Seq(Ahead)
<1> DEFINE W == Whats \ {"result"}
<1>1. {"fail", "refuse", "settle", "chat", "alert_received", "check", "structure",
       "succeed", "answer", "investigation_result", "notification_delivery",
       "recheck", "started", "failed", "succeeded"} \subseteq W
  BY DEF Whats, Types
<1> HIDE DEF W
<1>2. \A w \in Seq(W) : Steps(w) \in Seq(Ahead)
  BY StepsTyped DEF W
<1>3. ASSUME NEW x \in W, NEW y \in W, NEW z \in W
      PROVE  /\ Steps(<<x>>) \in Seq(Ahead) /\ Steps(<<x, y>>) \in Seq(Ahead)
             /\ Steps(<<x, y, z>>) \in Seq(Ahead)
  <2>1. <<x>> \in Seq(W) /\ <<x, y>> \in Seq(W) /\ <<x, y, z>> \in Seq(W)
    OBVIOUS
  <2> QED
    BY <1>2, <2>1, Zenon
<1>4. <<"investigation_result", "check">> \in Seq(W) /\ Succeed \in Seq(W)
      /\ <<"check">> \in Seq(W) /\ "notification_delivery" \in W
  BY <1>1 DEF Succeed
<1>5. FailAudit \in Seq(Ahead) /\ FailJob \in Seq(Ahead)
  BY <1>1, <1>3 DEF FailAudit, FailJob
<1>6. /\ Steps(<<"chat">>) \in Seq(Ahead)
      /\ Steps(<<"alert_received", "check", "chat">>) \in Seq(Ahead)
      /\ Steps(<<"check", "structure">>) \in Seq(Ahead)
      /\ Steps(<<"succeed", "answer", "settle">>) \in Seq(Ahead)
  BY <1>1, <1>3
<1>7. ASSUME NEW n \in Deliveries PROVE Conclusion(n) \in Seq(Ahead)
  <2>1. n \in Nat
    BY AuthorsAssumption
  <2>2. Deliver(n) \in Seq(W)
    BY <1>4, <2>1, DeliverParts
  <2>3. <<"check">> \o Succeed \in Seq(W)
    BY <1>4, ConcatProperties
  <2>4. Deliver(n) \o (<<"check">> \o Succeed) \in Seq(W)
    BY <2>2, <2>3, ConcatProperties
  <2>5. (IF n = 0 THEN Succeed ELSE Deliver(n) \o (<<"check">> \o Succeed)) \in Seq(W)
    BY <1>4, <2>4
  <2>6. <<"investigation_result", "check">> \o
          (IF n = 0 THEN Succeed ELSE Deliver(n) \o (<<"check">> \o Succeed)) \in Seq(W)
    BY <1>4, <2>5, ConcatProperties
  <2> QED
    BY <1>2, <2>6 DEF Conclusion
<1>9. /\ Steps(<<"started", "chat">>) \in Seq(Ahead)
      /\ Steps(<<"failed">>) \in Seq(Ahead)
      /\ Steps(<<"succeeded", "answer">>) \in Seq(Ahead)
  BY <1>1, <1>3
<1> QED
  BY <1>5, <1>6, <1>7, <1>9 DEF Conclusions

LEMMA CheckedTyped ==
    ASSUME NEW rest \in Seq(Ahead), NEW err
    PROVE  Checked(rest, err) \in Seq(Ahead)
<1>1. rest # <<>> => Tail(rest) \in Seq(Ahead)
  BY TailTyped
<1> QED
  BY <1>1, ListsTyped DEF Checked, Comes

\* What is next on an author's list, when it is an event or a result.
LEMMA NextIsTyped ==
    ASSUME AuthorInv, NEW a \in Authors, todo[a] # <<>>
    PROVE  /\ Head(todo[a])[1] \in Types => Event(a, Head(todo[a])) \in Events
           /\ Head(todo[a])[1] = "result" => Head(todo[a])[2] \in SUBSET CallIds
           /\ Tail(todo[a]) \in Seq(Ahead)
<1>1. todo[a] \in Seq(Ahead)
  BY DEF AuthorInv
<1>2. Head(todo[a]) \in Ahead /\ Tail(todo[a]) \in Seq(Ahead)
  BY <1>1, TailTyped
<1>3. ASSUME NEW h \in Ahead
      PROVE  /\ h[1] \in Types => h[2] \in CallIds \cup {None}
             /\ h[1] = "result" => h[2] \in SUBSET CallIds
  BY <1>3 DEF Ahead, Types
<1> QED
  BY <1>2, <1>3 DEF Event, Events

LEMMA AdvanceKeeps ==
    ASSUME AuthorInv, NEW a \in Authors, NEW rest \in Seq(Ahead), Advance(a, rest),
           a \in Requests \/ todo[a] # <<>> \/ rest = <<>>, UNCHANGED target
    PROVE  /\ todo' \in [Authors -> Seq(Ahead)]
           /\ \A f \in FollowUps : todo'[f] # <<>> => target'[f] \in Runs
BY AuthorsAssumption DEF AuthorInv, Advance
-----------------------------------------------------------------------------
(* The actions. *)

\* The handle stays one, whatever is written to it.
LEMMA HandleKeeps ==
    ASSUME AuthorInv, NEW a \in Requests, NEW outcome,
           \/ handle' = [handle EXCEPT ![a].id = outcome = "ok", ![a].err = outcome # "ok"]
           \/ handle' = [handle EXCEPT ![a].err = @ \/ outcome # "ok"]
           \/ handle' = [handle EXCEPT ![a].err = @ \/ outcome # "ok",
                                       ![a].finished = outcome = "ok"]
    PROVE  handle' \in [Requests -> [id : BOOLEAN, finished : BOOLEAN, err : BOOLEAN]]
<1> DEFINE H == [id : BOOLEAN, finished : BOOLEAN, err : BOOLEAN]
<1>1. handle \in [Requests -> H]
  BY DEF AuthorInv
<1>2. PICK ok \in BOOLEAN : ok = (outcome = "ok")
  BY Zenon
<1>3. ASSUME NEW h \in H
      PROVE  /\ [h EXCEPT !.id = ok, !.err = ~ok] \in H
             /\ [h EXCEPT !.err = h.err \/ ~ok] \in H
             /\ [h EXCEPT !.err = h.err \/ ~ok, !.finished = ok] \in H
  OBVIOUS
<1>4. \/ handle' = [handle EXCEPT ![a] = [handle[a] EXCEPT !.id = ok, !.err = ~ok]]
      \/ handle' = [handle EXCEPT ![a] = [handle[a] EXCEPT !.err = handle[a].err \/ ~ok]]
      \/ handle' = [handle EXCEPT ![a] = [handle[a] EXCEPT !.err = handle[a].err \/ ~ok,
                                                           !.finished = ok]]
  BY <1>1, <1>2, Zenon
<1> HIDE DEF H
<1>5. PICK h \in H : handle' = [handle EXCEPT ![a] = h]
  BY <1>1, <1>3, <1>4
<1>6. handle' \in [Requests -> H]
  BY <1>1, <1>5
<1> QED
  BY <1>6 DEF H

LEMMA InitKeeps ==
    Init => IInv
<1> SUFFICES ASSUME Init PROVE IInv
  OBVIOUS
<1>1. StoreInv
  BY DEF Init, StoreInit, NoRuns, StoreInv, StoreTypeOK, JournalMirrorsMemory,
         CleanFailuresHarmless, AcknowledgedIsRecorded
<1>2. <<>> \in Seq(Ahead) /\ <<>> \in Seq(CallIds)
  BY EmptySeq
<1>3. AuthorInv
  BY <1>2, AuthorsAssumption DEF Init, NoHandle, AuthorInv
<1> QED
  BY <1>1, <1>3 DEF IInv

LEMMA BeginKeeps ==
    ASSUME IInv, NEW a \in Requests, NEW outcome, Begin(a, outcome)
    PROVE  IInv'
<1>1. StoreInv'
  BY StartKeeps, AuthorsAssumption DEF IInv, Begin
<1>2. PICK rest \in Seq(Ahead) : Advance(a, rest)
  BY ListsTyped DEF Begin
<1>3. /\ todo' \in [Authors -> Seq(Ahead)]
      /\ \A f \in FollowUps : todo'[f] # <<>> => target'[f] \in Runs
  BY <1>2, AdvanceKeeps, AuthorsAssumption DEF IInv, Begin
<1>4. handle' \in [Requests -> [id : BOOLEAN, finished : BOOLEAN, err : BOOLEAN]]
  BY HandleKeeps DEF IInv, Begin
<1>5. AuthorInv'
  BY <1>3, <1>4 DEF IInv, AuthorInv, Begin
<1> QED
  BY <1>1, <1>5 DEF IInv

LEMMA CompleteKeeps ==
    ASSUME IInv, NEW a \in Requests, Complete(a)
    PROVE  IInv'
<1>1. StoreInv'
  BY StoreUnchanged DEF IInv, Complete
<1>2. \A c \in Answers : c \in Seq(CallIds)
  BY AuthorsAssumption
<1>3. PICK rest \in Seq(Ahead) : Advance(a, rest)
  <2>1. \A c \in Answers, s \in Seq(Ahead) : \A err :
            Checked(CallSteps(c) \o s, err) \in Seq(Ahead)
    BY <1>2, CallStepsTyped, JoinTyped, CheckedTyped
  <2> QED
    BY <2>1, ListsTyped DEF Complete
<1>4. /\ todo' \in [Authors -> Seq(Ahead)]
      /\ \A f \in FollowUps : todo'[f] # <<>> => target'[f] \in Runs
  BY <1>3, AdvanceKeeps, AuthorsAssumption DEF IInv, Complete
<1>5. calls' \in [Authors -> Seq(CallIds)]
  BY <1>2, AuthorsAssumption DEF IInv, AuthorInv, Complete
<1>6. AuthorInv'
  BY <1>4, <1>5 DEF IInv, AuthorInv, Complete
<1> QED
  BY <1>1, <1>6 DEF IInv

LEMMA StructureKeeps ==
    ASSUME IInv, NEW a \in Requests, Structure(a)
    PROVE  IInv'
<1>1. StoreInv'
  BY StoreUnchanged DEF IInv, Structure
<1>2. calls[a] \in Seq(CallIds)
  BY AuthorsAssumption DEF IInv, AuthorInv
<1>3. PICK rest \in Seq(Ahead) : Advance(a, rest)
  <2>1. \A evidence \in SUBSET {calls[a][i] : i \in DOMAIN calls[a]} :
            <<<<"result", evidence>>>> \in Seq(Ahead)
    <3>1. \A i \in DOMAIN calls[a] : calls[a][i] \in CallIds
      BY <1>2, ElementOfSeq
    <3>2. ASSUME NEW evidence \in SUBSET CallIds
          PROVE  <<<<"result", evidence>>>> \in Seq(Ahead)
      <4>1. <<"result", evidence>> \in Ahead
        BY DEF Ahead
      <4> QED
        BY <4>1
    <3> QED
      BY <3>1, <3>2
  <2>3. CASE Advance(a, FailAudit)
    BY <2>3, ListsTyped
  <2>4. ASSUME NEW evidence \in SUBSET {calls[a][i] : i \in DOMAIN calls[a]},
               NEW rest \in Conclusions
        PROVE  <<<<"result", evidence>>>> \o rest \in Seq(Ahead)
    BY <2>1, ListsTyped, JoinTyped
  <2> QED
    BY <2>3, <2>4 DEF Structure, Conclusions
<1>4. /\ todo' \in [Authors -> Seq(Ahead)]
      /\ \A f \in FollowUps : todo'[f] # <<>> => target'[f] \in Runs
  BY <1>3, AdvanceKeeps, AuthorsAssumption DEF IInv, Structure
<1>5. AuthorInv'
  BY <1>4 DEF IInv, AuthorInv, Structure
<1> QED
  BY <1>1, <1>5 DEF IInv

\* The steps that write through the handle and go on with the next step.
LEMMA WriteOnKeeps ==
    ASSUME IInv, StoreInv', NEW a \in Requests, NEW err, NEW outcome, todo[a] # <<>>,
           Advance(a, Checked(Tail(todo[a]), err)),
           \/ UNCHANGED handle
           \/ Remember(a, outcome)
           \/ handle' = [handle EXCEPT ![a].err = @ \/ outcome # "ok",
                                       ![a].finished = outcome = "ok"],
           UNCHANGED <<stage, calls, target, answer, unwritten, crashes>>
    PROVE  IInv'
<1>1. Checked(Tail(todo[a]), err) \in Seq(Ahead)
  BY NextIsTyped, CheckedTyped, AuthorsAssumption DEF IInv
<1>2. /\ todo' \in [Authors -> Seq(Ahead)]
      /\ \A f \in FollowUps : todo'[f] # <<>> => target'[f] \in Runs
  BY <1>1, AdvanceKeeps, AuthorsAssumption DEF IInv
<1>3. handle' \in [Requests -> [id : BOOLEAN, finished : BOOLEAN, err : BOOLEAN]]
  BY HandleKeeps DEF IInv, AuthorInv, Remember
<1>4. AuthorInv'
  BY <1>2, <1>3 DEF IInv, AuthorInv
<1> QED
  BY <1>4 DEF IInv

LEMMA AuditEventKeeps ==
    ASSUME IInv, NEW a \in Requests, NEW outcome, AuditEvent(a, outcome)
    PROVE  IInv'
<1>1. a \in Runs /\ a \in Authors
  BY AuthorsAssumption
<1>2. todo[a] # <<>> /\ Event(a, Head(todo[a])) \in Events
  BY <1>1, NextIsTyped DEF IInv, AuditEvent
<1>3. StoreInv'
  <2>1. CASE UNCHANGED storeVars
    BY <2>1, StoreUnchanged DEF IInv
  <2>2. CASE AddEvent(a, Event(a, Head(todo[a])), TRUE, outcome)
    BY <1>1, <1>2, <2>2, EventKeeps DEF IInv
  <2> QED
    BY <2>1, <2>2 DEF AuditEvent
<1> QED
  BY <1>2, <1>3, WriteOnKeeps DEF AuditEvent

LEMMA AuditResultKeeps ==
    ASSUME IInv, NEW a \in Requests, NEW outcome, AuditResult(a, outcome)
    PROVE  IInv'
<1>1. a \in Runs /\ a \in Authors
  BY AuthorsAssumption
<1>2. todo[a] # <<>> /\ Head(todo[a])[2] \in SUBSET CallIds
  BY <1>1, NextIsTyped DEF IInv, AuditResult, At, Comes
<1>3. StoreInv'
  <2>1. CASE UNCHANGED storeVars
    BY <2>1, StoreUnchanged DEF IInv
  <2>2. CASE SetInvestigationResult(a, Head(todo[a])[2], outcome)
    BY <1>1, <1>2, <2>2, ResultKeeps DEF IInv
  <2> QED
    BY <2>1, <2>2 DEF AuditResult
<1> QED
  BY <1>2, <1>3, WriteOnKeeps DEF AuditResult

LEMMA FinishKeepsStore ==
    ASSUME IInv, NEW a \in Requests, NEW status \in {"succeeded", "failed"},
           NEW outcome, Finish(a, status, outcome)
    PROVE  StoreInv'
<1>1. a \in Runs
  BY AuthorsAssumption
<1>2. CASE UNCHANGED storeVars
  BY <1>2, StoreUnchanged DEF IInv
<1>3. CASE FinishRun(a, status, outcome)
  BY <1>1, <1>3, FinishKeeps DEF IInv
<1> QED
  BY <1>2, <1>3 DEF Finish

LEMMA AuditFinishKeeps ==
    ASSUME IInv, NEW a \in Requests, NEW outcome, AuditFinish(a, outcome)
    PROVE  IInv'
<1>1. PICK status \in {"succeeded", "failed"} : Finish(a, status, outcome)
  BY DEF AuditFinish
<1>2. StoreInv'
  BY <1>1, FinishKeepsStore
<1>3. todo[a] # <<>>
  BY DEF AuditFinish, At, Comes
<1> QED
  BY <1>1, <1>2, <1>3, WriteOnKeeps DEF AuditFinish, Finish

LEMMA SettleKeeps ==
    ASSUME IInv, NEW a \in Requests, NEW outcome, Settle(a, outcome)
    PROVE  IInv'
<1>1. StoreInv'
  BY FinishKeepsStore DEF Settle
<1>2. /\ todo' \in [Authors -> Seq(Ahead)]
      /\ \A f \in FollowUps : todo'[f] # <<>> => target'[f] \in Runs
  BY AdvanceKeeps, EmptySeq, AuthorsAssumption DEF IInv, Settle
<1>3. handle' \in [Requests -> [id : BOOLEAN, finished : BOOLEAN, err : BOOLEAN]]
  BY HandleKeeps DEF IInv, AuthorInv, Settle, Finish
<1>4. AuthorInv'
  BY <1>2, <1>3 DEF IInv, AuthorInv, Settle
<1> QED
  BY <1>1, <1>4 DEF IInv

LEMMA ReplyKeeps ==
    ASSUME IInv, NEW a \in Requests, Reply(a)
    PROVE  IInv'
<1>1. StoreInv'
  BY StoreUnchanged DEF IInv, Reply
<1>2. a \in Authors /\ todo[a] # <<>>
  BY AuthorsAssumption DEF Reply, At, Comes
<1>3. /\ todo' \in [Authors -> Seq(Ahead)]
      /\ \A f \in FollowUps : todo'[f] # <<>> => target'[f] \in Runs
  BY <1>2, AdvanceKeeps, NextIsTyped DEF IInv, Reply
<1>4. AuthorInv'
  BY <1>3 DEF IInv, AuthorInv, Reply
<1> QED
  BY <1>1, <1>4 DEF IInv

LEMMA AskKeeps ==
    ASSUME IInv, NEW f \in FollowUps, NEW r \in Runs, Ask(f, r)
    PROVE  IInv'
<1>1. StoreInv'
  BY StoreUnchanged DEF IInv, Ask
<1>2. target' \in [FollowUps -> Runs \cup {None}] /\ target'[f] = r
      /\ \A g \in FollowUps \ {f} : target'[g] = target[g]
  BY DEF IInv, AuthorInv, Ask
<1>3. todo' \in [Authors -> Seq(Ahead)] /\ \A g \in Authors \ {f} : todo'[g] = todo[g]
  BY ListsTyped, AuthorsAssumption DEF IInv, AuthorInv, Ask, Advance
<1>4. \A g \in FollowUps : todo'[g] # <<>> => target'[g] \in Runs
  BY <1>2, <1>3, AuthorsAssumption DEF IInv, AuthorInv
<1>5. AuthorInv'
  BY <1>2, <1>3, <1>4 DEF IInv, AuthorInv, Ask
<1> QED
  BY <1>1, <1>5 DEF IInv

LEMMA CompleteFollowUpKeeps ==
    ASSUME IInv, NEW f \in FollowUps, CompleteFollowUp(f)
    PROVE  IInv'
<1>1. StoreInv'
  BY StoreUnchanged DEF IInv, CompleteFollowUp
<1>2. \A c \in Answers : c \in Seq(CallIds)
  BY AuthorsAssumption
<1>3. PICK rest \in Seq(Ahead) : Advance(f, rest)
  BY <1>2, CallStepsTyped, JoinTyped, ListsTyped DEF CompleteFollowUp
<1>4. /\ todo' \in [Authors -> Seq(Ahead)]
      /\ \A g \in FollowUps : todo'[g] # <<>> => target'[g] \in Runs
  BY <1>3, AdvanceKeeps, AuthorsAssumption DEF IInv, CompleteFollowUp, At, Comes
<1>5. calls' \in [Authors -> Seq(CallIds)]
  BY <1>2, AuthorsAssumption DEF IInv, AuthorInv, CompleteFollowUp
<1>6. AuthorInv'
  BY <1>4, <1>5 DEF IInv, AuthorInv, CompleteFollowUp
<1> QED
  BY <1>1, <1>6 DEF IInv

LEMMA FollowUpEventKeeps ==
    ASSUME IInv, NEW f \in FollowUps, NEW outcome, FollowUpEvent(f, outcome)
    PROVE  IInv'
<1>1. f \in Authors /\ todo[f] # <<>> /\ target[f] \in Runs
  BY AuthorsAssumption DEF IInv, AuthorInv, FollowUpEvent
<1>2. Event(f, Head(todo[f])) \in Events /\ Tail(todo[f]) \in Seq(Ahead)
  BY <1>1, NextIsTyped DEF IInv, FollowUpEvent
<1>3. StoreInv'
  BY <1>1, <1>2, EventKeeps DEF IInv, FollowUpEvent
<1>4. PICK rest \in Seq(Ahead) : Advance(f, rest)
  BY <1>2, EmptySeq DEF FollowUpEvent, Return
<1>5. /\ todo' \in [Authors -> Seq(Ahead)]
      /\ \A g \in FollowUps : todo'[g] # <<>> => target'[g] \in Runs
  BY <1>1, <1>4, AdvanceKeeps DEF IInv, FollowUpEvent
<1>6. AuthorInv'
  BY <1>5 DEF IInv, AuthorInv, FollowUpEvent, Return
<1> QED
  BY <1>3, <1>6 DEF IInv

LEMMA FollowUpReplyKeeps ==
    ASSUME IInv, NEW f \in FollowUps, FollowUpReply(f)
    PROVE  IInv'
<1>1. StoreInv'
  BY StoreUnchanged DEF IInv, FollowUpReply
<1>2. /\ todo' \in [Authors -> Seq(Ahead)]
      /\ \A g \in FollowUps : todo'[g] # <<>> => target'[g] \in Runs
  BY AdvanceKeeps, EmptySeq, AuthorsAssumption DEF IInv, FollowUpReply, Return
<1>3. AuthorInv'
  BY <1>2 DEF IInv, AuthorInv, FollowUpReply, Return
<1> QED
  BY <1>1, <1>3 DEF IInv

LEMMA CrashKeeps ==
    ASSUME IInv, Crash
    PROVE  IInv'
<1>1. StoreInv'
  BY StopKeeps DEF IInv, Crash
<1>2. todo' \in [Authors -> Seq(Ahead)] /\ \A f \in FollowUps : todo'[f] = <<>>
  BY EmptySeq, AuthorsAssumption DEF Crash
<1>3. stage' \in [Authors -> {"idle", "busy", "returned", "lost"}]
  BY DEF IInv, AuthorInv, Crash
<1>4. crashes' \in 0..MaxCrashes
  BY AuthorsAssumption DEF IInv, AuthorInv, Crash
<1>5. AuthorInv'
  BY <1>2, <1>3, <1>4 DEF IInv, AuthorInv, Crash, NoHandle
<1> QED
  BY <1>1, <1>5 DEF IInv

LEMMA RestartKeeps ==
    ASSUME IInv, Restart
    PROVE  IInv'
<1>1. StoreInv'
  BY OpenKeeps DEF IInv, Restart
<1> QED
  BY <1>1 DEF IInv, AuthorInv, Restart, authorVars

LEMMA NextKeeps ==
    ASSUME IInv, [Next]_vars
    PROVE  IInv'
<1>1. CASE UNCHANGED vars
  <2>1. StoreInv'
    BY <1>1, StoreUnchanged DEF IInv, vars
  <2> QED
    BY <1>1, <2>1 DEF IInv, AuthorInv, vars, authorVars
<1>2. ASSUME NEW a \in Requests, RequestStep(a) PROVE IInv'
  BY <1>2, BeginKeeps, CompleteKeeps, StructureKeeps, AuditEventKeeps, AuditResultKeeps,
     AuditFinishKeeps, SettleKeeps, ReplyKeeps DEF RequestStep
<1>3. ASSUME NEW f \in FollowUps, FollowUpStep(f) PROVE IInv'
  BY <1>3, AskKeeps, CompleteFollowUpKeeps, FollowUpEventKeeps, FollowUpReplyKeeps
     DEF FollowUpStep
<1>4. CASE Crash \/ Restart
  BY <1>4, CrashKeeps, RestartKeeps
<1> QED
  BY <1>1, <1>2, <1>3, <1>4 DEF Next
-----------------------------------------------------------------------------
LEMMA InvariantAlways ==
    Spec => []IInv
<1>1. Init => IInv
  BY InitKeeps
<1>2. IInv /\ [Next]_vars => IInv'
  BY NextKeeps
<1> QED
  BY <1>1, <1>2, PTL DEF Spec

\* The store, the handles and the lists of steps keep their types, whatever
\* fails and whoever writes (store.go:99-137, web/audit.go:17-24).
THEOREM TypesAlways ==
    Spec => []TypeOK
<1>1. IInv => TypeOK
  <2>1. Ahead \subseteq Whats \X (CallIds \cup (SUBSET CallIds) \cup {None})
    BY DEF Ahead, Whats
  <2>2. Seq(Ahead) \subseteq Seq(Whats \X (CallIds \cup (SUBSET CallIds) \cup {None}))
    BY <2>1, SeqMonotonic
  <2> QED
    BY <2>2 DEF IInv, StoreInv, AuthorInv, TypeOK
<1> QED
  BY <1>1, InvariantAlways, PTL

\* As long as Open accepts the file, it holds all that memory holds, whichever
\* appends failed half-way; and when every failed append left nothing behind,
\* the file is accepted and equals memory, however many of them failed
\* (store.go:233-236, 258-263, 281-287, 415-433).
THEOREM JournalAlwaysMirrorsMemory ==
    Spec => []JournalMirrorsMemory
<1>1. IInv => JournalMirrorsMemory
  BY DEF IInv, StoreInv
<1> QED
  BY <1>1, InvariantAlways, PTL
-----------------------------------------------------------------------------
(* Lists of steps, and stories. *)

LEMMA StepsParts ==
    ASSUME NEW w \in Seq(Whats \ {"result"}), w # <<>>
    PROVE  Steps(w) # <<>> /\ Head(Steps(w)) = <<Head(w), None>> /\ Tail(Steps(w)) = Steps(Tail(w))
<1>1. Len(w) \in Nat \ {0} /\ DOMAIN w = 1..Len(w)
  BY LenProperties, EmptySeq
<1>2. /\ Tail(w) \in Seq(Whats \ {"result"}) /\ Len(Tail(w)) = Len(w) - 1
      /\ \A i \in 1..Len(Tail(w)) : Tail(w)[i] = w[i + 1]
  BY HeadTailProperties
<1>3. DOMAIN Tail(w) = 1..Len(Tail(w))
  BY <1>2, LenProperties
<1>4. /\ Steps(w) \in Seq(Ahead) /\ Len(Steps(w)) = Len(w)
      /\ \A i \in 1..Len(w) : Steps(w)[i] = <<w[i], None>>
  <2>1. Steps(w) \in Seq(Ahead)
    BY StepsTyped
  <2>2. DOMAIN Steps(w) = 1..Len(w) /\ \A i \in 1..Len(w) : Steps(w)[i] = <<w[i], None>>
    BY <1>1 DEF Steps, Step
  <2> QED
    BY <1>1, <2>1, <2>2, LenProperties
<1>5. /\ Steps(Tail(w)) \in Seq(Ahead) /\ Len(Steps(Tail(w))) = Len(Tail(w))
      /\ \A i \in 1..Len(Tail(w)) : Steps(Tail(w))[i] = <<Tail(w)[i], None>>
  <2>1. Steps(Tail(w)) \in Seq(Ahead)
    BY <1>2, StepsTyped
  <2>2. /\ DOMAIN Steps(Tail(w)) = 1..Len(Tail(w))
        /\ \A i \in 1..Len(Tail(w)) : Steps(Tail(w))[i] = <<Tail(w)[i], None>>
    BY <1>3 DEF Steps, Step
  <2>3. Len(Tail(w)) \in Nat
    BY <1>1, <1>2
  <2> QED
    BY <2>1, <2>2, <2>3, LenFromDomain
<1>6. Steps(w) # <<>>
  BY <1>1, <1>4, EmptySeq
<1>7. /\ Tail(Steps(w)) \in Seq(Ahead) /\ Len(Tail(Steps(w))) = Len(w) - 1
      /\ \A i \in 1..Len(Tail(Steps(w))) : Tail(Steps(w))[i] = Steps(w)[i + 1]
  BY <1>4, <1>6, HeadTailProperties
<1>8. ASSUME NEW i \in 1..Len(Tail(Steps(w)))
      PROVE  Tail(Steps(w))[i] = Steps(Tail(w))[i]
  <2>1. i \in 1..Len(Tail(w)) /\ i + 1 \in 1..Len(w)
    BY <1>1, <1>2, <1>7
  <2>2. Tail(Steps(w))[i] = Steps(w)[i + 1] /\ Steps(w)[i + 1] = <<w[i + 1], None>>
    BY <1>4, <1>7, <2>1
  <2>3. Steps(Tail(w))[i] = <<Tail(w)[i], None>> /\ Tail(w)[i] = w[i + 1]
    BY <1>2, <1>5, <2>1
  <2> QED
    BY <2>2, <2>3
<1>9. Tail(Steps(w)) = Steps(Tail(w))
  BY <1>2, <1>5, <1>7, <1>8, SeqEqual
<1>10. Head(w) = w[1] /\ Head(Steps(w)) = Steps(w)[1]
  BY <1>6
<1> QED
  BY <1>1, <1>4, <1>6, <1>9, <1>10

LEMMA CallsParts ==
    ASSUME NEW d \in Seq(CallIds), NEW after \in Seq(Ahead), d # <<>>
    PROVE  /\ CallSteps(d) \o after # <<>>
           /\ Head(CallSteps(d) \o after) = <<"tool_call", Head(d)>>
           /\ Tail(CallSteps(d) \o after) = CallSteps(Tail(d)) \o after
<1> DEFINE l == CallSteps(d) \o after
           m == CallSteps(Tail(d)) \o after
<1>1. /\ Len(d) \in Nat \ {0} /\ DOMAIN d = 1..Len(d)
      /\ Len(after) \in Nat
  BY LenProperties, EmptySeq
<1>2. /\ Tail(d) \in Seq(CallIds) /\ Len(Tail(d)) = Len(d) - 1
      /\ \A i \in 1..Len(Tail(d)) : Tail(d)[i] = d[i + 1]
  BY HeadTailProperties
<1>3. DOMAIN Tail(d) = 1..Len(Tail(d))
  BY <1>2, LenProperties
<1>4. /\ CallSteps(d) \in Seq(Ahead) /\ Len(CallSteps(d)) = Len(d)
      /\ \A i \in 1..Len(d) : CallSteps(d)[i] = <<"tool_call", d[i]>>
  <2>1. CallSteps(d) \in Seq(Ahead)
    BY CallStepsTyped
  <2>2. DOMAIN CallSteps(d) = 1..Len(d) /\ \A i \in 1..Len(d) : CallSteps(d)[i] = <<"tool_call", d[i]>>
    BY <1>1 DEF CallSteps
  <2>3. Len(d) \in Nat
    BY <1>1
  <2> QED
    BY <2>1, <2>2, <2>3, LenFromDomain
<1>5. /\ CallSteps(Tail(d)) \in Seq(Ahead) /\ Len(CallSteps(Tail(d))) = Len(Tail(d))
      /\ \A i \in 1..Len(Tail(d)) : CallSteps(Tail(d))[i] = <<"tool_call", Tail(d)[i]>>
  <2>1. CallSteps(Tail(d)) \in Seq(Ahead)
    BY <1>2, CallStepsTyped
  <2>2. /\ DOMAIN CallSteps(Tail(d)) = 1..Len(Tail(d))
        /\ \A i \in 1..Len(Tail(d)) : CallSteps(Tail(d))[i] = <<"tool_call", Tail(d)[i]>>
    BY <1>3 DEF CallSteps
  <2>3. Len(Tail(d)) \in Nat
    BY <1>1, <1>2
  <2> QED
    BY <2>1, <2>2, <2>3, LenFromDomain
<1>6. /\ l \in Seq(Ahead) /\ Len(l) = Len(d) + Len(after)
      /\ \A i \in 1..Len(d) + Len(after) :
             l[i] = IF i <= Len(d) THEN <<"tool_call", d[i]>> ELSE after[i - Len(d)]
  <2> HIDE DEF l
  <2>1. /\ l \in Seq(Ahead) /\ Len(l) = Len(d) + Len(after)
        /\ \A i \in 1..Len(d) + Len(after) :
             l[i] = IF i <= Len(d) THEN CallSteps(d)[i] ELSE after[i - Len(d)]
    <3>1. /\ CallSteps(d) \o after \in Seq(Ahead)
          /\ Len(CallSteps(d) \o after) = Len(CallSteps(d)) + Len(after)
          /\ \A i \in 1..Len(CallSteps(d)) + Len(after) :
               (CallSteps(d) \o after)[i] =
                   IF i <= Len(CallSteps(d)) THEN CallSteps(d)[i] ELSE after[i - Len(CallSteps(d))]
      BY <1>4, ConcatProperties, Zenon
    <3>2. Len(CallSteps(d)) = Len(d)
      BY <1>4
    <3> QED
      BY <3>1, <3>2, Zenon DEF l
  <2>2. \A i \in 1..Len(d) + Len(after) : i <= Len(d) => i \in 1..Len(d)
    BY <1>1
  <2> QED
    BY <1>4, <2>1, <2>2
<1>7. /\ m \in Seq(Ahead) /\ Len(m) = Len(d) - 1 + Len(after)
      /\ \A i \in 1..Len(d) - 1 + Len(after) :
             m[i] = IF i <= Len(d) - 1 THEN <<"tool_call", d[i + 1]>> ELSE after[i - (Len(d) - 1)]
  <2> HIDE DEF m
  <2>1. /\ m \in Seq(Ahead) /\ Len(m) = Len(d) - 1 + Len(after)
        /\ \A i \in 1..Len(d) - 1 + Len(after) :
             m[i] = IF i <= Len(d) - 1 THEN CallSteps(Tail(d))[i] ELSE after[i - (Len(d) - 1)]
    <3>1. /\ CallSteps(Tail(d)) \o after \in Seq(Ahead)
          /\ Len(CallSteps(Tail(d)) \o after) = Len(CallSteps(Tail(d))) + Len(after)
          /\ \A i \in 1..Len(CallSteps(Tail(d))) + Len(after) :
               (CallSteps(Tail(d)) \o after)[i] =
                   IF i <= Len(CallSteps(Tail(d))) THEN CallSteps(Tail(d))[i]
                   ELSE after[i - Len(CallSteps(Tail(d)))]
      BY <1>5, ConcatProperties, Zenon
    <3>2. Len(CallSteps(Tail(d))) = Len(d) - 1
      BY <1>2, <1>5
    <3> QED
      BY <3>1, <3>2, Zenon DEF m
  <2>2. \A i \in 1..Len(d) - 1 + Len(after) :
            i <= Len(d) - 1 => i \in 1..Len(Tail(d))
    BY <1>1, <1>2
  <2> QED
    BY <1>2, <1>5, <2>1, <2>2
<1> HIDE DEF l, m
<1>8. l # <<>>
  BY <1>1, <1>6, EmptySeq
<1>9. /\ Tail(l) \in Seq(Ahead) /\ Len(Tail(l)) = Len(d) - 1 + Len(after)
      /\ \A i \in 1..Len(Tail(l)) : Tail(l)[i] = l[i + 1]
  BY <1>1, <1>6, <1>8, HeadTailProperties
<1>10. ASSUME NEW i \in 1..Len(Tail(l)) PROVE Tail(l)[i] = m[i]
  <2>1. /\ i \in 1..Len(d) - 1 + Len(after) /\ i + 1 \in 1..Len(d) + Len(after)
        /\ (i + 1 <= Len(d) <=> i <= Len(d) - 1) /\ (i + 1) - Len(d) = i - (Len(d) - 1)
    BY <1>1, <1>9
  <2>2. Tail(l)[i] = l[i + 1]
    BY <1>9
  <2> QED
    BY <1>6, <1>7, <2>1, <2>2, Zenon
<1>11. Tail(l) = m
  BY <1>7, <1>9, <1>10, SeqEqual
<1>12. Head(l) = l[1] /\ Head(d) = d[1]
  BY <1>8
<1>13. 1 \in 1..Len(d) + Len(after) /\ 1 <= Len(d)
  BY <1>1
<1>14. Head(l) = <<"tool_call", Head(d)>>
  BY <1>6, <1>12, <1>13
<1> QED
  BY <1>8, <1>11, <1>14 DEF l, m

LEMMA NoCallsLeft ==
    ASSUME NEW after \in Seq(Ahead)
    PROVE  CallSteps(<<>>) \o after = after
<1>1. CallSteps(<<>>) = <<>>
  BY DEF CallSteps
<1> QED
  BY <1>1, ConcatEmptySeq

\* One more call goes from those ahead to those recorded.
LEMMA OneCallOn ==
    ASSUME NEW c \in Seq(CallIds), NEW d \in Seq(CallIds), d # <<>>
    PROVE  /\ Head(d) \in CallIds /\ Tail(d) \in Seq(CallIds)
           /\ Append(c, Head(d)) \in Seq(CallIds)
           /\ Append(c, Head(d)) \o Tail(d) = c \o d
<1>1. /\ Head(d) \in CallIds /\ Tail(d) \in Seq(CallIds)
      /\ Append(c, Head(d)) \in Seq(CallIds) /\ Append(c, Head(d)) = c \o <<Head(d)>>
  BY HeadTailProperties, AppendProperties, AppendIsConcat
<1>2. <<Head(d)>> \in Seq(CallIds) /\ <<Head(d)>> \o Tail(d) = d
  <2>1. <<Head(d)>> \in Seq(CallIds)
    BY <1>1
  <2>2. /\ Len(d) \in Nat \ {0} /\ Len(Tail(d)) = Len(d) - 1
        /\ \A i \in 1..Len(Tail(d)) : Tail(d)[i] = d[i + 1]
    BY HeadTailProperties, EmptySeq
  <2>3. /\ <<Head(d)>> \o Tail(d) \in Seq(CallIds) /\ Len(<<Head(d)>> \o Tail(d)) = Len(d)
        /\ \A i \in 1..Len(d) :
              (<<Head(d)>> \o Tail(d))[i] = IF i <= 1 THEN <<Head(d)>>[i] ELSE Tail(d)[i - 1]
    <3>1. Len(<<Head(d)>>) = 1
      OBVIOUS
    <3>2. 1 + Len(Tail(d)) = Len(d)
      BY <2>2
    <3> QED
      BY <1>1, <2>1, <3>1, <3>2, ConcatProperties
  <2>4. <<Head(d)>>[1] = d[1]
    OBVIOUS
  <2>5. \A i \in 1..Len(d) : (<<Head(d)>> \o Tail(d))[i] = d[i]
    BY <2>2, <2>3, <2>4
  <2> QED
    BY <2>1, <2>3, <2>5, SeqEqual
<1> QED
  BY <1>1, <1>2, ConcatAssociative

LEMMA StoryTyped ==
    ASSUME NEW a \in Authors, NEW c \in Seq(CallIds), NEW what \in Types
    PROVE  /\ Event(a, Step(what)) \in Events /\ Lead(a, what) \in Seq(Events)
           /\ Lead(a, what) \o Calling(a, c) \in Seq(Events)
           /\ Append(<<>>, Event(a, Step(what))) = Lead(a, what)
           /\ Lead(a, what) \o Calling(a, <<>>) = Lead(a, what)
<1>1. Event(a, Step(what)) \in Events
  BY DEF Event, Step, Events
<1>2. Lead(a, what) \in Seq(Events)
  BY <1>1 DEF Lead
<1>3. Calling(a, c) \in Seq(Events)
  <2>1. \A i \in 1..Len(c) : Event(a, <<"tool_call", c[i]>>) \in Events
    BY ElementOfSeq DEF Event, Events, Types
  <2>2. [i \in 1..Len(c) |-> Event(a, <<"tool_call", c[i]>>)] \in Seq(Events)
    BY <2>1, IsASeq, LenProperties
  <2> QED
    BY <2>2, LenProperties DEF Calling
<1>4. Lead(a, what) \o Calling(a, c) \in Seq(Events)
  BY <1>2, <1>3, ConcatProperties
<1>5. Calling(a, <<>>) = <<>>
  BY DEF Calling
<1>6. Append(<<>>, Event(a, Step(what))) = Lead(a, what)
  BY DEF Lead
<1> QED
  BY <1>1, <1>2, <1>4, <1>5, <1>6, ConcatEmptySeq

LEMMA StoryGoesOn ==
    ASSUME NEW a \in Authors, NEW c \in Seq(CallIds), NEW x \in CallIds, NEW what \in Types
    PROVE  Lead(a, what) \o Calling(a, Append(c, x)) =
               Append(Lead(a, what) \o Calling(a, c), Event(a, <<"tool_call", x>>))
<1> DEFINE e == Event(a, <<"tool_call", x>>)
<1>1. e \in Events
  BY DEF Event, Events, Types
<1>2. Append(c, x) \in Seq(CallIds) /\ Len(Append(c, x)) = Len(c) + 1
      /\ \A i \in 1..Len(c) : Append(c, x)[i] = c[i]
      /\ Append(c, x)[Len(c) + 1] = x
  BY AppendProperties
<1>3. /\ Len(c) \in Nat /\ DOMAIN c = 1..Len(c) /\ DOMAIN Append(c, x) = 1..(Len(c) + 1)
  BY <1>2, LenProperties
<1>4. ASSUME NEW d \in Seq(CallIds)
      PROVE  Calling(a, d) \in Seq(Events) /\ Len(Calling(a, d)) = Len(d)
  <2>1. \A i \in 1..Len(d) : Event(a, <<"tool_call", d[i]>>) \in Events
    BY ElementOfSeq DEF Event, Events, Types
  <2>2. [i \in 1..Len(d) |-> Event(a, <<"tool_call", d[i]>>)] \in Seq(Events)
    BY <2>1, IsASeq, LenProperties
  <2>3. Calling(a, d) \in Seq(Events) /\ DOMAIN Calling(a, d) = 1..Len(d)
    BY <2>2, LenProperties DEF Calling
  <2> QED
    BY <2>3, LenProperties
<1>5. Calling(a, c) \in Seq(Events) /\ Len(Calling(a, c)) = Len(c)
  BY <1>4
<1>6. Calling(a, Append(c, x)) \in Seq(Events) /\ Len(Calling(a, Append(c, x))) = Len(c) + 1
  BY <1>2, <1>4
<1>7. /\ \A i \in 1..Len(c) : Calling(a, Append(c, x))[i] = Calling(a, c)[i]
      /\ Calling(a, Append(c, x))[Len(c) + 1] = e
  BY <1>2, <1>3 DEF Calling
<1> HIDE DEF e
<1>8. Calling(a, Append(c, x)) = Append(Calling(a, c), e)
  <2>1. /\ Append(Calling(a, c), e) \in Seq(Events) /\ Len(Append(Calling(a, c), e)) = Len(c) + 1
        /\ \A i \in 1..Len(c) : Append(Calling(a, c), e)[i] = Calling(a, c)[i]
        /\ Append(Calling(a, c), e)[Len(c) + 1] = e
    BY <1>1, <1>5, AppendProperties
  <2>2. \A i \in 1..(Len(c) + 1) : Calling(a, Append(c, x))[i] = Append(Calling(a, c), e)[i]
    BY <1>3, <1>7, <2>1
  <2> QED
    BY <1>6, <2>1, <2>2, SeqEqual
<1>9. Append(Calling(a, c), e) = Calling(a, c) \o <<e>>
  BY <1>1, <1>5, AppendIsConcat
<1>10. Lead(a, what) \in Seq(Events) /\ Lead(a, what) \o Calling(a, c) \in Seq(Events)
  BY StoryTyped
<1>11. <<e>> \in Seq(Events)
  BY <1>1
<1>12. Append(Lead(a, what) \o Calling(a, c), e) = (Lead(a, what) \o Calling(a, c)) \o <<e>>
  BY <1>1, <1>10, AppendIsConcat
<1>13. (Lead(a, what) \o Calling(a, c)) \o <<e>> = Lead(a, what) \o (Calling(a, c) \o <<e>>)
  BY <1>5, <1>10, <1>11, ConcatAssociative
<1> QED
  BY <1>8, <1>9, <1>12, <1>13 DEF e

\* The story is closed by one event.
LEMMA StoryEnds ==
    ASSUME NEW a \in Authors, NEW s \in Seq(Events), NEW what \in Types
    PROVE  Append(s, Event(a, Step(what))) = s \o Lead(a, what)
<1>1. Event(a, Step(what)) \in Events
  BY DEF Event, Step, Events
<1> QED
  BY <1>1, AppendIsConcat DEF Lead
-----------------------------------------------------------------------------
(* Who told what. *)

LEMMA NothingTold ==
    ASSUME NEW events \in Seq(Events), NEW a, Own(events, a) = {}
    PROVE  Tells(events, a, <<>>)
<1>1. DOMAIN <<>> = {}
  OBVIOUS
<1>2. [i \in {} |-> i] \in [{} -> {}]
  OBVIOUS
<1> QED
  BY <1>1, <1>2 DEF Tells

LEMMA OthersTell ==
    ASSUME NEW events \in Seq(Events), NEW e \in Events, NEW a, e.by # a
    PROVE  /\ Own(Append(events, e), a) = Own(events, a)
           /\ \A story : Tells(events, a, story) => Tells(Append(events, e), a, story)
<1> DEFINE n == Len(events)
           new == Append(events, e)
<1>1. /\ n \in Nat /\ DOMAIN events = 1..n /\ new \in Seq(Events) /\ Len(new) = n + 1
      /\ \A k \in 1..n : new[k] = events[k]
      /\ new[n + 1] = e
  BY AppendProperties, LenProperties
<1>2. DOMAIN new = 1..(n + 1)
  BY <1>1, LenProperties
<1> HIDE DEF n, new
<1>3. Own(new, a) = Own(events, a)
  BY <1>1, <1>2 DEF Own
<1>4. \A k \in Own(events, a) : new[k] = events[k]
  BY <1>1 DEF Own
<1>5. ASSUME NEW story, Tells(events, a, story) PROVE Tells(new, a, story)
  <2>1. PICK at \in [DOMAIN story -> Own(events, a)] :
          /\ \A i, j \in DOMAIN story : i < j => at[i] < at[j]
          /\ \A i \in DOMAIN story : events[at[i]] = story[i]
          /\ \A k \in Own(events, a) : \E i \in DOMAIN story : at[i] = k
    BY <1>5 DEF Tells
  <2>2. \A i \in DOMAIN story : new[at[i]] = story[i]
    BY <1>4, <2>1
  <2> QED
    BY <1>3, <2>1, <2>2 DEF Tells
<1> QED
  BY <1>3, <1>5 DEF new

LEMMA AuthorTells ==
    ASSUME NEW events \in Seq(Events), NEW e \in Events, NEW a, e.by = a,
           NEW story \in Seq(Events), Tells(events, a, story)
    PROVE  Tells(Append(events, e), a, Append(story, e))
<1> DEFINE n == Len(events)
           new == Append(events, e)
           m == Len(story)
           told == Append(story, e)
<1>1. /\ n \in Nat /\ DOMAIN events = 1..n /\ new \in Seq(Events) /\ Len(new) = n + 1
      /\ \A k \in 1..n : new[k] = events[k]
      /\ new[n + 1] = e
  BY AppendProperties, LenProperties
<1>2. DOMAIN new = 1..(n + 1)
  BY <1>1, LenProperties
<1>3. /\ m \in Nat /\ DOMAIN story = 1..m /\ told \in Seq(Events) /\ Len(told) = m + 1
      /\ \A k \in 1..m : told[k] = story[k]
      /\ told[m + 1] = e
  BY AppendProperties, LenProperties
<1>4. DOMAIN told = 1..(m + 1)
  BY <1>3, LenProperties
<1> HIDE DEF n, new, m, told
<1>5. Own(new, a) = Own(events, a) \cup {n + 1}
  <2>1. \A k \in 1..(n + 1) : k = n + 1 \/ k \in 1..n
    BY <1>1
  <2>2. n + 1 \in 1..(n + 1) /\ \A k \in 1..n : k \in 1..(n + 1)
    BY <1>1
  <2> QED
    BY <1>1, <1>2, <2>1, <2>2 DEF Own
<1>6. PICK at \in [1..m -> Own(events, a)] :
        /\ \A i, j \in 1..m : i < j => at[i] < at[j]
        /\ \A i \in 1..m : events[at[i]] = story[i]
        /\ \A k \in Own(events, a) : \E i \in 1..m : at[i] = k
  <2>1. DOMAIN story = 1..m
    BY <1>3
  <2>2. PICK at \in [DOMAIN story -> Own(events, a)] :
          /\ \A i, j \in DOMAIN story : i < j => at[i] < at[j]
          /\ \A i \in DOMAIN story : events[at[i]] = story[i]
          /\ \A k \in Own(events, a) : \E i \in DOMAIN story : at[i] = k
    BY DEF Tells
  <2>3. at \in [1..m -> Own(events, a)]
    BY <2>1
  <2>4. \A i, j \in 1..m : i < j => at[i] < at[j]
    BY <2>1, <2>2
  <2>5. \A i \in 1..m : events[at[i]] = story[i]
    BY <2>1, <2>2
  <2>6. \A k \in Own(events, a) : \E i \in 1..m : at[i] = k
    BY <2>1, <2>2
  <2> QED
    BY <2>3, <2>4, <2>5, <2>6
<1>7. \A k \in Own(events, a) : k \in 1..n
  BY <1>1 DEF Own
<1> DEFINE more == [i \in 1..(m + 1) |-> IF i = m + 1 THEN n + 1 ELSE at[i]]
<1>8. \A i \in 1..(m + 1) : i = m + 1 \/ (i \in 1..m /\ i # m + 1)
  BY <1>3
<1>9. m + 1 \in 1..(m + 1) /\ \A i \in 1..m : i \in 1..(m + 1) /\ i # m + 1
  BY <1>3
<1>10. more[m + 1] = n + 1 /\ \A i \in 1..m : more[i] = at[i]
  BY <1>9
<1>11. more \in [1..(m + 1) -> Own(new, a)]
  BY <1>5, <1>6, <1>8
<1> HIDE DEF more
<1>12. ASSUME NEW i \in 1..(m + 1), NEW j \in 1..(m + 1), i < j
       PROVE  more[i] < more[j]
  <2>1. i \in 1..m
    BY <1>3, <1>12
  <2>2. CASE j \in 1..m
    BY <1>6, <1>10, <1>12, <2>1, <2>2
  <2>3. CASE j = m + 1
    <3>1. at[i] \in 1..n
      BY <1>6, <1>7, <2>1
    <3>2. at[i] < n + 1
      BY <1>1, <3>1
    <3> QED
      BY <1>10, <2>1, <2>3, <3>2
  <2> QED
    BY <1>8, <2>2, <2>3
<1>13. ASSUME NEW i \in 1..(m + 1) PROVE new[more[i]] = told[i]
  <2>1. CASE i = m + 1
    BY <1>1, <1>3, <1>10, <2>1
  <2>2. CASE i \in 1..m
    <3>1. at[i] \in 1..n /\ events[at[i]] = story[i]
      BY <1>6, <1>7, <2>2
    <3>2. new[at[i]] = events[at[i]]
      BY <1>1, <3>1
    <3> QED
      BY <1>3, <1>10, <2>2, <3>1, <3>2
  <2> QED
    BY <1>8, <2>1, <2>2
<1>14. ASSUME NEW k \in Own(new, a) PROVE \E i \in 1..(m + 1) : more[i] = k
  BY <1>5, <1>6, <1>9, <1>10, <1>14
<1>15. Tells(new, a, told)
  <2>1. more \in [DOMAIN told -> Own(new, a)]
    BY <1>4, <1>11
  <2>2. \A i, j \in DOMAIN told : i < j => more[i] < more[j]
    BY <1>4, <1>12
  <2>3. \A i \in DOMAIN told : new[more[i]] = told[i]
    BY <1>4, <1>13
  <2>4. \A k \in Own(new, a) : \E i \in DOMAIN told : more[i] = k
    BY <1>4, <1>14
  <2> QED
    BY <2>1, <2>2, <2>3, <2>4 DEF Tells
<1> QED
  BY <1>15 DEF new, told
-----------------------------------------------------------------------------
(* The lists an alert job and a follow-up go through. *)

Words == Whats \ {"result"}

\* The list begins with `what` and goes on with `rest`.
Begins(l, what, rest) == l # <<>> /\ Head(l) = <<what, None>> /\ Tail(l) = rest

LEMMA AlertLists ==
    /\ Begins(Steps(<<"alert_received", "check", "chat">>), "alert_received",
              Steps(<<"check", "chat">>))
    /\ Begins(Steps(<<"check", "chat">>), "check", Steps(<<"chat">>))
    /\ Begins(Steps(<<"chat">>), "chat", Steps(<<>>))
    /\ Begins(Steps(<<"check", "structure">>), "check", Steps(<<"structure">>))
    /\ Begins(Steps(<<"structure">>), "structure", Steps(<<>>))
    /\ Begins(FailAudit, "fail", FailJob)
    /\ Begins(FailJob, "refuse", Steps(<<"settle">>))
    /\ Begins(Steps(<<"settle">>), "settle", Steps(<<>>))
<1>1. {"alert_received", "check", "chat", "structure", "fail", "refuse", "settle"} \subseteq Words
  BY DEF Words, Whats, Types
<1> HIDE DEF Words
<1>2. ASSUME NEW x \in Words, NEW y \in Words, NEW z \in Words
      PROVE  /\ Begins(Steps(<<x, y, z>>), x, Steps(<<y, z>>))
             /\ Begins(Steps(<<x, y>>), x, Steps(<<y>>))
             /\ Begins(Steps(<<x>>), x, Steps(<<>>))
  <2>1. <<x, y, z>> \in Seq(Words) /\ <<x, y, z>> # <<>> /\ Head(<<x, y, z>>) = x
        /\ Tail(<<x, y, z>>) = <<y, z>>
    OBVIOUS
  <2>2. <<x, y>> \in Seq(Words) /\ <<x, y>> # <<>> /\ Head(<<x, y>>) = x /\ Tail(<<x, y>>) = <<y>>
    OBVIOUS
  <2>3. <<x>> \in Seq(Words) /\ <<x>> # <<>> /\ Head(<<x>>) = x /\ Tail(<<x>>) = <<>>
    OBVIOUS
  <2> QED
    BY <2>1, <2>2, <2>3, StepsParts, Zenon DEF Begins, Words
<1> QED
  BY <1>1, <1>2 DEF FailAudit, FailJob

LEMMA ClosingLists ==
    /\ Begins(Closing, "succeed", Steps(<<"recheck", "answer", "settle">>))
    /\ Begins(Steps(<<"recheck", "answer", "settle">>), "recheck", Steps(<<"answer", "settle">>))
    /\ Begins(Steps(<<"answer", "settle">>), "answer", Steps(<<"settle">>))
<1>1. {"succeed", "recheck", "answer", "settle"} \subseteq Words
  BY DEF Words, Whats, Types
<1> HIDE DEF Words
<1>2. ASSUME NEW t \in Seq(Words), NEW u \in Seq(Words), NEW x, t # <<>>, Head(t) = x, Tail(t) = u
      PROVE  Begins(Steps(t), x, Steps(u))
  BY <1>2, StepsParts, Zenon DEF Begins, Words
<1> DEFINE t2 == <<"answer", "settle">>
           t3 == <<"recheck", "answer", "settle">>
<1>4. <<"settle">> \in Seq(Words) /\ t2 \in Seq(Words) /\ t3 \in Seq(Words) /\ Succeed \in Seq(Words)
  BY <1>1 DEF Succeed
<1>5. /\ t2 # <<>> /\ Head(t2) = "answer" /\ Tail(t2) = <<"settle">>
      /\ t3 # <<>> /\ Head(t3) = "recheck" /\ Tail(t3) = t2
      /\ Succeed # <<>> /\ Head(Succeed) = "succeed" /\ Tail(Succeed) = t3
  BY DEF Succeed
<1> HIDE DEF t2, t3
<1>6. Begins(Steps(t2), "answer", Steps(<<"settle">>)) /\ Begins(Steps(t3), "recheck", Steps(t2))
      /\ Begins(Closing, "succeed", Steps(t3))
  BY <1>2, <1>4, <1>5, Zenon DEF Closing
<1> QED
  BY <1>6 DEF t2, t3

\* One word put before a list.
LEMMA WordBefore ==
    ASSUME NEW x \in Words, NEW u \in Seq(Words)
    PROVE  <<x>> \o u \in Seq(Words) /\ Begins(Steps(<<x>> \o u), x, Steps(u))
<1> HIDE DEF Words
<1>1. /\ <<x>> \o u \in Seq(Words) /\ <<x>> \o u # <<>>
      /\ Head(<<x>> \o u) = x /\ Tail(<<x>> \o u) = u
  BY ConsParts
<1>2. PICK t \in Seq(Words) : t = <<x>> \o u
  BY <1>1
<1>3. t # <<>> /\ Head(t) = x /\ Tail(t) = u
  BY <1>1, <1>2
<1>4. Begins(Steps(t), x, Steps(u))
  BY <1>3, StepsParts, Zenon DEF Begins, Words
<1> QED
  BY <1>1, <1>2, <1>4

\* The list after `n` deliveries' events is typed.
LEMMA WordsTyped ==
    ASSUME NEW n \in Nat
    PROVE  /\ Succeed \in Seq(Words) /\ <<"check">> \o Succeed \in Seq(Words)
           /\ Deliver(n) \in Seq(Words) /\ Deliver(0) = <<>>
           /\ Deliver(n) \o (<<"check">> \o Succeed) \in Seq(Words)
           /\ Deliver(n + 1) \o (<<"check">> \o Succeed) =
                  <<"notification_delivery">> \o (Deliver(n) \o (<<"check">> \o Succeed))
<1>1. {"notification_delivery", "check", "succeed", "recheck", "answer", "settle"} \subseteq Words
  BY DEF Words, Whats, Types
<1> HIDE DEF Words
<1>2. Succeed \in Seq(Words)
  BY <1>1 DEF Succeed
<1>3. PICK t \in Seq(Words) : t = <<"check">> \o Succeed
  BY <1>1, <1>2, WordBefore
<1>4. Deliver(n) \in Seq(Words) /\ Deliver(0) = <<>>
      /\ Deliver(n + 1) = <<"notification_delivery">> \o Deliver(n)
  BY <1>1, DeliverParts
<1>5. <<"notification_delivery">> \in Seq(Words)
  BY <1>1
<1>6. Deliver(n) \o t \in Seq(Words)
  BY <1>4, ConcatProperties
<1>7. PICK d \in Seq(Words) : d = Deliver(n)
  BY <1>4
<1>8. PICK w \in Seq(Words) : w = <<"notification_delivery">>
  BY <1>5
<1>9. (w \o d) \o t = w \o (d \o t)
  BY ConcatAssociative
<1> QED
  BY <1>2, <1>3, <1>4, <1>6, <1>7, <1>8, <1>9

\* What is ahead with `n` deliveries to record.
LEMMA DeliveringLists ==
    ASSUME NEW n \in Nat
    PROVE  /\ Begins(Steps(<<"check">> \o Succeed), "check", Closing)
           /\ Delivering(0) = Steps(<<"check">> \o Succeed)
           /\ Begins(Steps(<<"check">> \o (Deliver(n) \o (<<"check">> \o Succeed))), "check", Delivering(n))
           /\ Begins(Delivering(n + 1), "notification_delivery", Delivering(n))
<1>1. {"notification_delivery", "check"} \subseteq Words
  BY DEF Words, Whats, Types
<1> HIDE DEF Words
<1>2. PICK t \in Seq(Words) : t = <<"check">> \o Succeed
  BY WordsTyped
<1>3. PICK u \in Seq(Words) : u = Deliver(n) \o (<<"check">> \o Succeed)
  BY WordsTyped
<1>4. Begins(Steps(<<"check">> \o Succeed), "check", Closing)
  BY <1>1, WordBefore, WordsTyped DEF Closing
<1>5. Delivering(0) = Steps(<<"check">> \o Succeed)
  <2>1. <<>> \o t = t
    BY ConcatEmptySeq
  <2>2. Deliver(0) = <<>>
    BY WordsTyped
  <2> QED
    BY <1>2, <2>1, <2>2 DEF Delivering
<1>6. Delivering(n) = Steps(u)
  BY <1>3 DEF Delivering
<1>7. Begins(Steps(<<"check">> \o u), "check", Steps(u))
  BY <1>1, WordBefore
<1>8. Begins(Steps(<<"notification_delivery">> \o u), "notification_delivery", Steps(u))
  BY <1>1, WordBefore
<1>9. Delivering(n + 1) = Steps(<<"notification_delivery">> \o u)
  <2>1. Deliver(n + 1) \o (<<"check">> \o Succeed) = <<"notification_delivery">> \o u
    BY <1>3, WordsTyped
  <2> QED
    BY <2>1 DEF Delivering
<1> QED
  BY <1>3, <1>4, <1>5, <1>6, <1>7, <1>8, <1>9

\* What is ahead once a result is written.
LEMMA ConclusionLists ==
    ASSUME NEW n \in Deliveries
    PROVE  /\ n \in Nat
           /\ n = 0 => Begins(Conclusion(n), "investigation_result", Steps(<<"check">> \o Succeed))
           /\ n # 0 => Begins(Conclusion(n), "investigation_result",
                              Steps(<<"check">> \o (Deliver(n) \o (<<"check">> \o Succeed))))
<1>1. {"investigation_result", "check"} \subseteq Words
  BY DEF Words, Whats, Types
<1> HIDE DEF Words
<1>2. n \in Nat
  BY AuthorsAssumption
<1>3. ASSUME NEW u \in Seq(Words)
      PROVE  Begins(Steps(<<"investigation_result", "check">> \o u),
                    "investigation_result", Steps(<<"check">> \o u))
  <2>0. <<"investigation_result">> \in Seq(Words) /\ <<"check">> \in Seq(Words)
    BY <1>1
  <2>1. PICK x \in Seq(Words) : x = <<"investigation_result">>
    BY <2>0
  <2>2. PICK y \in Seq(Words) : y = <<"check">>
    BY <2>0
  <2>3. (x \o y) \o u = x \o (y \o u)
    BY ConcatAssociative
  <2>4. x \o y = <<"investigation_result", "check">>
    <3>1. <<"investigation_result", "check">> = <<"investigation_result">> \o <<"check">>
      OBVIOUS
    <3> QED
      BY <2>1, <2>2, <3>1
  <2>5. <<"check">> \o u \in Seq(Words)
    BY <1>1, WordBefore
  <2>6. Begins(Steps(<<"investigation_result">> \o (<<"check">> \o u)),
               "investigation_result", Steps(<<"check">> \o u))
    BY <1>1, <2>5, WordBefore
  <2> QED
    BY <2>1, <2>2, <2>3, <2>4, <2>6
<1>4. PICK u \in Seq(Words) : u = Deliver(n) \o (<<"check">> \o Succeed)
  BY <1>2, WordsTyped
<1>5. CASE n = 0
  <2>1. Conclusion(n) = Steps(<<"investigation_result", "check">> \o Succeed)
    BY <1>5 DEF Conclusion
  <2>2. Succeed \in Seq(Words)
    BY <1>2, WordsTyped
  <2> QED
    BY <1>2, <1>3, <1>5, <2>1, <2>2
<1>6. CASE n # 0
  <2>1. Conclusion(n) = Steps(<<"investigation_result", "check">> \o u)
    BY <1>4, <1>6 DEF Conclusion
  <2> QED
    BY <1>2, <1>3, <1>4, <1>6, <2>1
<1> QED
  BY <1>5, <1>6

LEMMA FollowUpLists ==
    /\ Begins(Steps(<<"started", "chat">>), "started", Steps(<<"chat">>))
    /\ Begins(Steps(<<"chat">>), "chat", Steps(<<>>))
    /\ Begins(Steps(<<"succeeded", "answer">>), "succeeded", Steps(<<"answer">>))
    /\ Begins(Steps(<<"answer">>), "answer", Steps(<<>>))
    /\ Begins(Steps(<<"failed">>), "failed", Steps(<<>>))
<1>1. {"started", "chat", "succeeded", "answer", "failed"} \subseteq Words
  BY DEF Words, Whats, Types
<1> HIDE DEF Words
<1>2. ASSUME NEW x \in Words, NEW y \in Words
      PROVE  /\ Begins(Steps(<<x, y>>), x, Steps(<<y>>))
             /\ Begins(Steps(<<x>>), x, Steps(<<>>))
  <2>1. <<x, y>> \in Seq(Words) /\ <<x, y>> # <<>> /\ Head(<<x, y>>) = x /\ Tail(<<x, y>>) = <<y>>
    OBVIOUS
  <2>2. <<x>> \in Seq(Words) /\ <<x>> # <<>> /\ Head(<<x>>) = x /\ Tail(<<x>>) = <<>>
    OBVIOUS
  <2> QED
    BY <2>1, <2>2, StepsParts, Zenon DEF Begins, Words
<1> QED
  BY <1>1, <1>2

Intro(a, c) == Lead(a, "alert_received") \o Calling(a, c)
Stories(a) == {AlertStory(a) \o Notified(a, n) : n \in Deliveries}

\* The alert `a` has `story` behind it and the list `l` ahead, until its calls
\* are recorded ...
Before(a, l, story) ==
    \/ l = Steps(<<"alert_received", "check", "chat">>) /\ story = <<>>
    \/ l = Steps(<<"chat">>) /\ story = Lead(a, "alert_received")
    \/ \E c, d \in Seq(CallIds) :
         /\ d # <<>> /\ c \o d = calls[a]
         /\ l = CallSteps(d) \o Steps(<<"check", "structure">>)
         /\ story = Intro(a, c)

\* ... when its result is made and written ...
Between(a, l) ==
    \/ l = Steps(<<"structure">>)
    \/ \E evidence \in SUBSET {calls[a][i] : i \in DOMAIN calls[a]}, rest \in Conclusions :
         l = <<<<"result", evidence>>>> \o rest

\* ... and when it is written.
After(a, l, story) ==
    \/ l \in Conclusions /\ story = Intro(a, calls[a])
    \/ \E k, m \in Nat : /\ m # 0 /\ k + m \in Deliveries
                         /\ l = Delivering(m) /\ story = AlertStory(a) \o Notified(a, k)
    \/ l = Closing /\ story \in Stories(a)

\* The same for a follow-up that has not failed.
Following(f, l, story) ==
    \/ l = Steps(<<"started", "chat">>) /\ story = <<>>
    \/ l = Steps(<<"chat">>) /\ story = Lead(f, "started")
    \/ \E c, d \in Seq(CallIds) :
         /\ c \o d = calls[f]
         /\ l = CallSteps(d) \o Steps(<<"succeeded", "answer">>)
         /\ story = Lead(f, "started") \o Calling(f, c)
    \/ l = Steps(<<"answer">>) /\ story = FollowUpStory(f)

LEMMA NoMoreSteps == Steps(<<>>) = <<>>
BY DEF Steps, Step

LEMMA CheckedBegins ==
    ASSUME NEW l, NEW what, NEW rest, Begins(l, what, rest), NEW err \in BOOLEAN
    PROVE  Checked(l, err) = IF what = "check" THEN (IF err THEN FailAudit ELSE rest)
                             ELSE IF what = "recheck" THEN (IF err THEN FailJob ELSE rest)
                             ELSE l
<1>1. l # <<>> /\ Head(l)[1] = what /\ Tail(l) = rest
  BY DEF Begins
<1> QED
  BY <1>1 DEF Checked, Comes

\* After the last call comes a look at the handle.
LEMMA CheckedCalls ==
    ASSUME NEW d \in Seq(CallIds), NEW err \in BOOLEAN
    PROVE  Checked(CallSteps(d) \o Steps(<<"check", "structure">>), err) =
               IF d # <<>> THEN CallSteps(d) \o Steps(<<"check", "structure">>)
               ELSE IF err THEN FailAudit ELSE Steps(<<"structure">>)
<1>1. Steps(<<"check", "structure">>) \in Seq(Ahead)
  BY ListsTyped
<1>2. CASE d = <<>>
  <2>1. CallSteps(d) \o Steps(<<"check", "structure">>) = Steps(<<"check", "structure">>)
    BY <1>1, <1>2, NoCallsLeft
  <2>2. Begins(Steps(<<"check", "structure">>), "check", Steps(<<"structure">>))
    BY AlertLists
  <2>3. Checked(Steps(<<"check", "structure">>), err) = IF err THEN FailAudit ELSE Steps(<<"structure">>)
    BY <2>2, CheckedBegins
  <2> QED
    BY <1>2, <2>1, <2>3
<1>3. CASE d # <<>>
  <2> DEFINE l == CallSteps(d) \o Steps(<<"check", "structure">>)
  <2>1. l # <<>> /\ Head(l) = <<"tool_call", Head(d)>>
    BY <1>1, <1>3, CallsParts
  <2> HIDE DEF l
  <2>2. Head(l)[1] = "tool_call"
    BY <2>1
  <2>3. Checked(l, err) = l
    BY <2>1, <2>2 DEF Checked, Comes
  <2> QED
    BY <1>3, <2>3 DEF l
<1> QED
  BY <1>2, <1>3

\* An event of an alert takes the story and the list one step on.
LEMMA BeforeGoesOn ==
    ASSUME NEW a \in Authors, NEW l, NEW story, Before(a, l, story),
           l # <<>>, Head(l)[1] \in Types, NEW err \in BOOLEAN
    PROVE  LET rest == Checked(Tail(l), err)
               told == Append(story, Event(a, Head(l)))
           IN  \/ err /\ rest = FailAudit
               \/ Before(a, rest, told)
               \/ ~err /\ rest = Steps(<<"structure">>) /\ told = Intro(a, calls[a])
<1> DEFINE rest == Checked(Tail(l), err)
           told == Append(story, Event(a, Head(l)))
<1>1. CASE l = Steps(<<"alert_received", "check", "chat">>) /\ story = <<>>
  <2>1. Tail(l) = Steps(<<"check", "chat">>) /\ Head(l) = Step("alert_received")
    BY <1>1, AlertLists DEF Begins, Step
  <2>2. rest = IF err THEN FailAudit ELSE Steps(<<"chat">>)
    <3>1. Begins(Tail(l), "check", Steps(<<"chat">>))
      BY <2>1, AlertLists
    <3> QED
      BY <3>1, CheckedBegins
  <2>3. told = Lead(a, "alert_received")
    BY <1>1, <2>1 DEF Lead
  <2> HIDE DEF rest, told
  <2>4. ~err => Before(a, rest, told)
    BY <2>2, <2>3 DEF Before
  <2> QED
    BY <2>2, <2>4 DEF rest, told
<1>2. CASE l = Steps(<<"chat">>)
  <2>1. Head(l)[1] = "chat"
    BY <1>2, AlertLists DEF Begins
  <2> QED
    BY <2>1 DEF Types
<1>3. ASSUME NEW c \in Seq(CallIds), NEW d \in Seq(CallIds), d # <<>>, c \o d = calls[a],
             l = CallSteps(d) \o Steps(<<"check", "structure">>), story = Intro(a, c)
      PROVE  \/ err /\ rest = FailAudit
             \/ Before(a, rest, told)
             \/ ~err /\ rest = Steps(<<"structure">>) /\ told = Intro(a, calls[a])
  <2> DEFINE more == Append(c, Head(d))
  <2>1. /\ Head(d) \in CallIds /\ Tail(d) \in Seq(CallIds) /\ more \in Seq(CallIds)
        /\ more \o Tail(d) = calls[a]
    BY <1>3, OneCallOn
  <2>2. /\ Head(l) = <<"tool_call", Head(d)>>
        /\ Tail(l) = CallSteps(Tail(d)) \o Steps(<<"check", "structure">>)
    BY <1>3, CallsParts, ListsTyped
  <2>3. told = Intro(a, more)
    <3>1. "alert_received" \in Types
      BY DEF Types
    <3>2. Lead(a, "alert_received") \o Calling(a, Append(c, Head(d))) =
            Append(Lead(a, "alert_received") \o Calling(a, c), Event(a, <<"tool_call", Head(d)>>))
      BY <2>1, <3>1, StoryGoesOn
    <3>3. told = Append(story, Event(a, <<"tool_call", Head(d)>>))
      BY <2>2
    <3> QED
      BY <1>3, <3>2, <3>3, Zenon DEF Intro
  <2>4. rest = IF Tail(d) # <<>> THEN CallSteps(Tail(d)) \o Steps(<<"check", "structure">>)
               ELSE IF err THEN FailAudit ELSE Steps(<<"structure">>)
    BY <2>1, <2>2, CheckedCalls
  <2> HIDE DEF rest, told, more
  <2>5. CASE Tail(d) # <<>>
    BY <2>1, <2>3, <2>4, <2>5 DEF Before
  <2>6. CASE Tail(d) = <<>>
    <3>1. more = calls[a]
      BY <2>1, <2>6, ConcatEmptySeq
    <3> QED
      BY <2>3, <2>4, <2>6, <3>1
  <2> QED
    BY <2>5, <2>6
<1> HIDE DEF rest, told
<1>4. \/ err /\ rest = FailAudit
      \/ Before(a, rest, told)
      \/ ~err /\ rest = Steps(<<"structure">>) /\ told = Intro(a, calls[a])
  BY <1>1, <1>2, <1>3 DEF Before, rest, told
<1> QED
  BY <1>4 DEF rest, told

\* One more delivery told.
LEMMA NotifiedGoesOn ==
    ASSUME NEW a \in Authors, NEW s \in Seq(Events), NEW k \in Nat
    PROVE  /\ s \o Notified(a, k) \in Seq(Events) /\ s \o Notified(a, 0) = s
           /\ Append(s \o Notified(a, k), Event(a, Step("notification_delivery"))) =
                  s \o Notified(a, k + 1)
<1> DEFINE e == Event(a, Step("notification_delivery"))
<1>1. e \in Events
  <2>1. "notification_delivery" \in Types
    BY DEF Types
  <2> QED
    BY <2>1 DEF Event, Step, Events
<1>2. ASSUME NEW m \in Nat
      PROVE  /\ Notified(a, m) \in Seq(Events) /\ Len(Notified(a, m)) = m
             /\ \A i \in 1..m : Notified(a, m)[i] = e
  <2>1. Notified(a, m) \in Seq(Events)
    BY <1>1, IsASeq DEF Notified
  <2>2. DOMAIN Notified(a, m) = 1..m /\ \A i \in 1..m : Notified(a, m)[i] = e
    BY DEF Notified
  <2> QED
    BY <2>1, <2>2, LenFromDomain
<1> HIDE DEF e
<1>3. s \o Notified(a, 0) = s
  <2>1. Notified(a, 0) = <<>>
    BY <1>2, EmptySeq
  <2> QED
    BY <2>1, ConcatEmptySeq
<1>4. Append(Notified(a, k), e) = Notified(a, k + 1)
  <2>1. /\ Append(Notified(a, k), e) \in Seq(Events) /\ Len(Append(Notified(a, k), e)) = k + 1
        /\ \A i \in 1..k : Append(Notified(a, k), e)[i] = Notified(a, k)[i]
        /\ Append(Notified(a, k), e)[k + 1] = e
    BY <1>1, <1>2, AppendProperties
  <2>2. k + 1 \in Nat
    OBVIOUS
  <2>3. /\ Notified(a, k + 1) \in Seq(Events) /\ Len(Notified(a, k + 1)) = k + 1
        /\ \A i \in 1..k + 1 : Notified(a, k + 1)[i] = e
    BY <1>2, <2>2
  <2>4. \A i \in 1..k + 1 : Append(Notified(a, k), e)[i] = Notified(a, k + 1)[i]
    BY <1>2, <2>1, <2>3
  <2> QED
    BY <2>1, <2>3, <2>4, SeqEqual
<1>5. Notified(a, k) \in Seq(Events) /\ <<e>> \in Seq(Events)
  BY <1>1, <1>2
<1>6. s \o Notified(a, k) \in Seq(Events)
  BY <1>5, ConcatProperties
<1>7. Append(s \o Notified(a, k), e) = (s \o Notified(a, k)) \o <<e>>
      /\ Append(Notified(a, k), e) = Notified(a, k) \o <<e>>
  BY <1>1, <1>5, <1>6, AppendIsConcat
<1>8. (s \o Notified(a, k)) \o <<e>> = s \o (Notified(a, k) \o <<e>>)
  BY <1>5, ConcatAssociative
<1> QED
  BY <1>3, <1>4, <1>6, <1>7, <1>8 DEF e

LEMMA AfterGoesOn ==
    ASSUME NEW a \in Authors, NEW l, NEW story, After(a, l, story), calls[a] \in Seq(CallIds),
           l # <<>>, Head(l)[1] \in Types, NEW err \in BOOLEAN
    PROVE  LET rest == Checked(Tail(l), err)
               told == Append(story, Event(a, Head(l)))
           IN  \/ err /\ rest = FailAudit
               \/ After(a, rest, told)
<1> DEFINE rest == Checked(Tail(l), err)
           told == Append(story, Event(a, Head(l)))
<1>1. "alert_received" \in Types /\ "investigation_result" \in Types /\ "notification_delivery" \in Types
      /\ "succeed" \notin Types
  BY DEF Types
<1>2. Intro(a, calls[a]) \in Seq(Events) /\ AlertStory(a) \in Seq(Events)
  <2>1. Intro(a, calls[a]) \in Seq(Events) /\ Lead(a, "investigation_result") \in Seq(Events)
    BY <1>1, StoryTyped DEF Intro
  <2> QED
    BY <2>1, ConcatProperties DEF AlertStory, Intro
<1>3. ASSUME l \in Conclusions, story = Intro(a, calls[a])
      PROVE  (err /\ rest = FailAudit) \/ After(a, rest, told)
  <2>1. PICK n \in Deliveries : l = Conclusion(n)
    BY <1>3 DEF Conclusions
  <2>2. /\ n \in Nat /\ Head(l) = Step("investigation_result")
        /\ n = 0 => Begins(Tail(l), "check", Closing)
        /\ n # 0 => Begins(Tail(l), "check", Delivering(n))
    <3>1. /\ n \in Nat
          /\ n = 0 => Begins(l, "investigation_result", Steps(<<"check">> \o Succeed))
          /\ n # 0 => Begins(l, "investigation_result",
                             Steps(<<"check">> \o (Deliver(n) \o (<<"check">> \o Succeed))))
      BY <2>1, ConclusionLists
    <3>2. /\ Begins(Steps(<<"check">> \o Succeed), "check", Closing)
          /\ Begins(Steps(<<"check">> \o (Deliver(n) \o (<<"check">> \o Succeed))), "check", Delivering(n))
      BY <3>1, DeliveringLists
    <3>3. Head(l) = Step("investigation_result")
      BY <3>1 DEF Begins, Step
    <3>4. /\ n = 0 => Tail(l) = Steps(<<"check">> \o Succeed)
          /\ n # 0 => Tail(l) = Steps(<<"check">> \o (Deliver(n) \o (<<"check">> \o Succeed)))
      BY <3>1 DEF Begins
    <3> QED
      BY <3>1, <3>2, <3>3, <3>4
  <2>3. \/ rest = FailAudit /\ err
        \/ rest = Closing /\ n = 0 /\ ~err
        \/ rest = Delivering(n) /\ n # 0 /\ ~err
    BY <2>2, CheckedBegins
  <2>4. told = AlertStory(a)
    BY <1>1, <1>2, <1>3, <2>2, StoryEnds DEF AlertStory, Intro
  <2>5. told = AlertStory(a) \o Notified(a, 0)
    BY <1>2, <2>4, NotifiedGoesOn
  <2> HIDE DEF rest, told
  <2>6. CASE rest = Closing /\ n = 0
    <3>1. told \in Stories(a)
      BY <2>5, <2>6 DEF Stories
    <3> QED
      BY <2>6, <3>1 DEF After
  <2>7. CASE rest = Delivering(n) /\ n # 0
    <3>1. 0 + n \in Deliveries /\ 0 \in Nat
      BY <2>2
    <3>2. \E k, m \in Nat : /\ m # 0 /\ k + m \in Deliveries
                            /\ rest = Delivering(m) /\ told = AlertStory(a) \o Notified(a, k)
      BY <2>2, <2>5, <2>7, <3>1
    <3> QED
      BY <3>2 DEF After
  <2> QED
    BY <2>3, <2>6, <2>7 DEF rest, told
<1>4. ASSUME NEW k \in Nat, NEW m \in Nat, m # 0, k + m \in Deliveries,
             l = Delivering(m), story = AlertStory(a) \o Notified(a, k)
      PROVE  (err /\ rest = FailAudit) \/ After(a, rest, told)
  <2>1. PICK p \in Nat : m = p + 1
    <3>1. m - 1 \in Nat /\ m = (m - 1) + 1
      BY <1>4
    <3> QED
      BY <3>1
  <2>2. Head(l) = Step("notification_delivery") /\ Tail(l) = Delivering(p)
    BY <1>4, <2>1, DeliveringLists DEF Begins, Step
  <2>3. told = AlertStory(a) \o Notified(a, k + 1)
    <3>1. Append(AlertStory(a) \o Notified(a, k), Event(a, Step("notification_delivery"))) =
              AlertStory(a) \o Notified(a, k + 1)
      BY <1>2, NotifiedGoesOn
    <3>2. told = Append(AlertStory(a) \o Notified(a, k), Event(a, Step("notification_delivery")))
      BY <1>4, <2>2
    <3> QED
      BY <3>1, <3>2
  <2>4. k + 1 \in Nat /\ (k + 1) + p = k + m
    BY <2>1
  <2>5. CASE p = 0
    <3>1. Begins(Tail(l), "check", Closing)
      BY <2>2, <2>5, DeliveringLists
    <3>2. rest = IF err THEN FailAudit ELSE Closing
      BY <3>1, CheckedBegins
    <3>3. k + 1 \in Deliveries
      BY <1>4, <2>4, <2>5
    <3> HIDE DEF rest, told
    <3>4. told \in Stories(a)
      BY <2>3, <3>3 DEF Stories
    <3> QED
      BY <3>2, <3>4 DEF After
  <2>6. CASE p # 0
    <3>1. PICK q \in Nat : p = q + 1
      <4>1. p - 1 \in Nat /\ p = (p - 1) + 1
        BY <2>6
      <4> QED
        BY <4>1
    <3>2. Begins(Delivering(p), "notification_delivery", Delivering(q))
      BY <3>1, DeliveringLists
    <3>3. rest = Delivering(p)
      <4>1. "notification_delivery" # "check" /\ "notification_delivery" # "recheck"
        OBVIOUS
      <4>2. Checked(Delivering(p), err) = Delivering(p)
        BY <3>2, <4>1, CheckedBegins, Zenon
      <4> QED
        BY <2>2, <4>2
    <3>4. (k + 1) + p \in Deliveries
      BY <1>4, <2>4
    <3> HIDE DEF rest, told
    <3>5. \E k1, m1 \in Nat : /\ m1 # 0 /\ k1 + m1 \in Deliveries
                              /\ rest = Delivering(m1) /\ told = AlertStory(a) \o Notified(a, k1)
      BY <2>3, <2>4, <2>6, <3>3, <3>4
    <3> QED
      BY <3>5 DEF After
  <2> QED
    BY <2>5, <2>6
<1>5. CASE l = Closing
  <2>1. Begins(l, "succeed", Steps(<<"recheck", "answer", "settle">>))
    BY <1>5, ClosingLists
  <2>2. Head(l)[1] = "succeed"
    BY <2>1 DEF Begins
  <2> QED
    BY <1>1, <2>2
<1> HIDE DEF rest, told
<1>6. (err /\ rest = FailAudit) \/ After(a, rest, told)
  BY <1>3, <1>4, <1>5 DEF After, rest, told
<1> QED
  BY <1>6 DEF rest, told

LEMMA FollowingGoesOn ==
    ASSUME NEW f \in Authors, NEW l, NEW story, Following(f, l, story), calls[f] \in Seq(CallIds),
           l # <<>>, Head(l)[1] \in Types
    PROVE  /\ Following(f, Tail(l), Append(story, Event(f, Head(l))))
           /\ Head(l)[1] # "failed"
<1> DEFINE told == Append(story, Event(f, Head(l)))
<1>1. "started" \in Types /\ "succeeded" \in Types /\ "chat" \notin Types /\ "answer" \notin Types
  BY DEF Types
<1>2. CASE l = Steps(<<"started", "chat">>) /\ story = <<>>
  <2>1. Tail(l) = Steps(<<"chat">>) /\ Head(l) = Step("started")
    BY <1>2, FollowUpLists DEF Begins, Step
  <2>2. told = Lead(f, "started")
    BY <1>2, <2>1 DEF Lead
  <2>3. Head(l)[1] # "failed"
    BY <2>1 DEF Step
  <2> QED
    BY <2>1, <2>2, <2>3 DEF Following
<1>3. CASE l = Steps(<<"chat">>)
  <2>1. Head(l)[1] = "chat"
    BY <1>3, AlertLists DEF Begins
  <2> QED
    BY <1>1, <2>1
<1>4. CASE l = Steps(<<"answer">>)
  <2>1. Head(l)[1] = "answer"
    BY <1>4, FollowUpLists DEF Begins
  <2> QED
    BY <1>1, <2>1
<1>5. ASSUME NEW c \in Seq(CallIds), NEW d \in Seq(CallIds), c \o d = calls[f],
             l = CallSteps(d) \o Steps(<<"succeeded", "answer">>),
             story = Lead(f, "started") \o Calling(f, c)
      PROVE  Following(f, Tail(l), told) /\ Head(l)[1] # "failed"
  <2>1. CASE d # <<>>
    <3>1. /\ Head(d) \in CallIds /\ Tail(d) \in Seq(CallIds) /\ Append(c, Head(d)) \in Seq(CallIds)
          /\ Append(c, Head(d)) \o Tail(d) = calls[f]
      BY <1>5, <2>1, OneCallOn
    <3>2. /\ Head(l) = <<"tool_call", Head(d)>>
          /\ Tail(l) = CallSteps(Tail(d)) \o Steps(<<"succeeded", "answer">>)
      BY <1>5, <2>1, CallsParts, ListsTyped
    <3>3. told = Lead(f, "started") \o Calling(f, Append(c, Head(d)))
      <4>1. Lead(f, "started") \o Calling(f, Append(c, Head(d))) =
              Append(Lead(f, "started") \o Calling(f, c), Event(f, <<"tool_call", Head(d)>>))
        BY <1>1, <3>1, StoryGoesOn
      <4>2. told = Append(story, Event(f, <<"tool_call", Head(d)>>))
        BY <3>2
      <4> QED
        BY <1>5, <4>1, <4>2, Zenon
    <3>4. Head(l)[1] # "failed"
      BY <3>2
    <3> HIDE DEF told
    <3> QED
      BY <3>1, <3>2, <3>3, <3>4 DEF Following
  <2>2. CASE d = <<>>
    <3>1. l = Steps(<<"succeeded", "answer">>)
      BY <1>5, <2>2, NoCallsLeft, ListsTyped
    <3>2. Tail(l) = Steps(<<"answer">>) /\ Head(l) = Step("succeeded")
      BY <3>1, FollowUpLists DEF Begins, Step
    <3>3. c = calls[f]
      BY <1>5, <2>2, ConcatEmptySeq
    <3>4. Lead(f, "started") \o Calling(f, c) \in Seq(Events)
      BY <1>1, StoryTyped
    <3>5. told = FollowUpStory(f)
      BY <1>1, <1>5, <3>2, <3>3, <3>4, StoryEnds DEF FollowUpStory
    <3>6. Head(l)[1] # "failed"
      BY <3>2 DEF Step
    <3> HIDE DEF told
    <3> QED
      BY <3>2, <3>5, <3>6 DEF Following
  <2> QED
    BY <2>1, <2>2
<1> HIDE DEF told
<1>6. Following(f, Tail(l), told) /\ Head(l)[1] # "failed"
  BY <1>2, <1>3, <1>4, <1>5 DEF Following, told
<1> QED
  BY <1>6 DEF told
-----------------------------------------------------------------------------
(* What an author's step may change in the file. *)

TouchesRun(a, r, old, new) ==
    \/ new = old
    \/ r = a /\ old = None /\ new = NewRun
    \/ r = a /\ old # None /\ new # None /\ new.events = old.events
    \/ \E e \in Events :
         /\ old # None /\ new # None /\ e.by = a /\ new.events = Append(old.events, e)
         /\ new.status = old.status /\ new.concluded = old.concluded
         /\ new.evidence = old.evidence

Touches(a) ==
    /\ tail = "broken" => tail' = "broken"
    /\ up' = up
    /\ \A r \in Runs : TouchesRun(a, r, disk[r], disk'[r])
    /\ \A r \in Runs \ {a} : IsRunning(runs', r) => IsRunning(runs, r)

LEMMA NothingTouched ==
    ASSUME UNCHANGED storeVars, NEW a
    PROVE  Touches(a)
BY DEF storeVars, Touches, TouchesRun, IsRunning

\* A write either leaves the file alone or leaves the new contents in it.
LEMMA WriteLands ==
    ASSUME NEW fits, NEW contents, NEW changed, NEW outcome,
           Write(fits, contents, changed, outcome)
    PROVE  /\ tail = "broken" => tail' = "broken"
           /\ up' = up /\ runs' \in {runs, changed} /\ (outcome = "ok" => runs' = changed)
           /\ disk' = disk \/ (disk' = contents /\ fits /\ tail = "clean")
           /\ outcome = "ok" /\ tail' # "broken" => disk' = contents /\ fits
BY DEF Write, Append2File

LEMMA EventFields ==
    ASSUME NEW x \in RunRecords, NEW e \in Events
    PROVE  LET y == [x EXCEPT !.events = @ \o <<e>>]
           IN  /\ y # None /\ x.events \in Seq(Events) /\ y.events = Append(x.events, e)
               /\ y.status = x.status /\ y.concluded = x.concluded /\ y.evidence = x.evidence
<1> DEFINE y == [x EXCEPT !.events = @ \o <<e>>]
<1>1. y \in RunRecords
  BY EventTyped
<1>2. y # None
  BY <1>1, AuditConstants
<1>3. x.events \in Seq(Events)
  BY DEF RunRecords
<1>4. y.events = Append(x.events, e)
  BY <1>3 DEF RunRecords
<1>5. y.status = x.status /\ y.concluded = x.concluded /\ y.evidence = x.evidence
  BY DEF RunRecords
<1> QED
  BY <1>2, <1>3, <1>4, <1>5

LEMMA StartTouches ==
    ASSUME StoreInv, NEW r \in Runs, NEW outcome, StartRun(r, outcome)
    PROVE  /\ Touches(r)
           /\ outcome = "ok" /\ tail' # "broken" => disk'[r] = NewRun
           /\ disk'[r] \in {disk[r], NewRun}
<1> DEFINE contents == [disk EXCEPT ![r] = NewRun]
           changed == [runs EXCEPT ![r] = NewRun]
<1>1. disk \in Stored /\ runs \in Stored
  BY DEF StoreInv, StoreTypeOK, Stored
<1>2. Write(disk[r] = None, contents, changed, outcome)
  BY DEF StartRun
<1>3. /\ contents[r] = NewRun /\ \A q \in Runs \ {r} : contents[q] = disk[q]
      /\ \A q \in Runs \ {r} : changed[q] = runs[q]
  BY <1>1 DEF Stored
<1> HIDE DEF contents, changed
<1>4. /\ tail = "broken" => tail' = "broken"
      /\ up' = up /\ runs' \in {runs, changed}
      /\ disk' = disk \/ (disk' = contents /\ disk[r] = None)
      /\ outcome = "ok" /\ tail' # "broken" => disk' = contents
  BY <1>2, WriteLands
<1>5. \A q \in Runs : TouchesRun(r, q, disk[q], disk'[q])
  BY <1>3, <1>4 DEF TouchesRun
<1>6. \A q \in Runs \ {r} : IsRunning(runs', q) => IsRunning(runs, q)
  BY <1>3, <1>4 DEF IsRunning
<1> QED
  BY <1>3, <1>4, <1>5, <1>6 DEF Touches

LEMMA EventTouches ==
    ASSUME StoreInv, NEW r \in Runs, NEW e \in Events, NEW requireRunning \in BOOLEAN,
           NEW outcome, AddEvent(r, e, requireRunning, outcome), NEW a, e.by = a
    PROVE  /\ Touches(a)
           /\ disk[r] # None => disk'[r] # None /\ disk'[r].status = disk[r].status
           /\ outcome = "ok" /\ tail' # "broken" =>
                /\ disk[r] \in RunRecords /\ disk'[r] # None
                /\ disk'[r].events = Append(disk[r].events, e)
                /\ disk'[r].status = disk[r].status /\ disk'[r].concluded = disk[r].concluded
                /\ disk'[r].evidence = disk[r].evidence
<1>1. CASE Refused(outcome)
  BY <1>1, NothingTouched DEF Refused, storeVars
<1>2. CASE ~Refused(outcome)
  <2> DEFINE contents == WithEvent(disk, r, e)
             changed == WithEvent(runs, r, e)
             fits == disk[r] # None /\ Len(disk[r].events) = Len(runs[r].events)
  <2>1. runs[r] # None /\ Write(fits, contents, changed, outcome)
    BY <1>2 DEF AddEvent
  <2>2. disk \in Stored /\ runs \in Stored
    BY DEF StoreInv, StoreTypeOK, Stored
  <2>0. /\ changed[r] = [runs[r] EXCEPT !.events = @ \o <<e>>]
        /\ \A q \in Runs \ {r} : changed[q] = runs[q]
    BY <2>2 DEF WithEvent, Stored
  <2>9. changed[r].status = runs[r].status
    <3>1. runs[r] \in RunRecords
      BY <2>1, <2>2 DEF Stored
    <3> QED
      BY <2>0, <3>1, EventFields
  <2>3. /\ contents[r] = [disk[r] EXCEPT !.events = @ \o <<e>>]
        /\ \A q \in Runs \ {r} : contents[q] = disk[q]
    BY <2>2 DEF WithEvent, Stored
  <2>4. fits => disk[r] \in RunRecords
    BY <2>2 DEF Stored
  <2> HIDE DEF contents, changed
  <2>5. fits => /\ contents[r] # None /\ contents[r].events = Append(disk[r].events, e)
                /\ contents[r].status = disk[r].status
                /\ contents[r].concluded = disk[r].concluded
                /\ contents[r].evidence = disk[r].evidence
    BY <2>3, <2>4, EventFields
  <2>6. /\ tail = "broken" => tail' = "broken"
        /\ up' = up /\ runs' \in {runs, changed}
        /\ disk' = disk \/ (disk' = contents /\ fits)
        /\ outcome = "ok" /\ tail' # "broken" => disk' = contents /\ fits
    BY <2>1, WriteLands
  <2>7. \A q \in Runs : TouchesRun(a, q, disk[q], disk'[q])
    BY <2>3, <2>5, <2>6 DEF TouchesRun
  <2>8. \A q \in Runs : IsRunning(runs', q) => IsRunning(runs, q)
    BY <2>0, <2>1, <2>6, <2>9 DEF IsRunning
  <2> QED
    BY <2>4, <2>5, <2>6, <2>7, <2>8 DEF Touches
<1> QED
  BY <1>1, <1>2

LEMMA FinishTouches ==
    ASSUME StoreInv, up, NEW r \in Runs, NEW status \in {"succeeded", "failed"},
           NEW outcome, FinishRun(r, status, outcome)
    PROVE  /\ Touches(r)
           /\ disk[r] # None => /\ disk'[r] # None
                                /\ disk'[r].concluded = disk[r].concluded
                                /\ disk'[r].evidence = disk[r].evidence
                                /\ disk'[r].events = disk[r].events
           /\ outcome = "ok" /\ tail' # "broken" => disk[r] # None /\ disk'[r].status = status
           /\ outcome = "ok" => ~IsRunning(runs', r) /\ (tail' # "broken" => ~IsRunning(disk', r))
<1>0. "refused" \notin Outcomes
  BY AuditConstants DEF Outcomes
<1>1. CASE ~IsRunning(runs, r)
  <2>1. UNCHANGED storeVars /\ outcome = "refused"
    BY <1>1 DEF Refused, FinishRun
  <2> QED
    BY <2>1, NothingTouched DEF storeVars
<1>2. CASE IsRunning(runs, r)
  <2> DEFINE contents == WithStatus(disk, r, status)
             changed == WithStatus(runs, r, status)
             fits == IsRunning(disk, r)
  <2>1. Write(fits, contents, changed, outcome)
    BY <1>2 DEF FinishRun
  <2>2. disk \in Stored /\ runs \in Stored
    BY DEF StoreInv, StoreTypeOK, Stored
  <2>3. /\ contents[r] = [disk[r] EXCEPT !.status = status]
        /\ \A q \in Runs \ {r} : contents[q] = disk[q]
    BY <2>2 DEF WithStatus, Stored
  <2>4. fits => disk[r] \in RunRecords /\ disk[r] # None
    BY <2>2 DEF Stored, IsRunning
  <2>5. ASSUME NEW x \in RunRecords
        PROVE  LET y == [x EXCEPT !.status = status]
               IN  /\ y # None /\ y.events = x.events /\ y.status = status
                   /\ y.concluded = x.concluded /\ y.evidence = x.evidence
    <3>1. [x EXCEPT !.status = status] \in RunRecords
      BY DEF RunRecords
    <3>2. [x EXCEPT !.status = status] # None
      BY <3>1, AuditConstants
    <3> QED
      BY <3>2 DEF RunRecords
  <2>0. /\ changed[r] = [runs[r] EXCEPT !.status = status]
        /\ \A q \in Runs \ {r} : changed[q] = runs[q]
        /\ runs[r] \in RunRecords
    BY <1>2, <2>2 DEF WithStatus, Stored, IsRunning
  <2> HIDE DEF contents, changed
  <2>6. fits => /\ contents[r] # None /\ contents[r].events = disk[r].events
                /\ contents[r].status = status
                /\ contents[r].concluded = disk[r].concluded
                /\ contents[r].evidence = disk[r].evidence
    BY <2>3, <2>4, <2>5
  <2>7. /\ tail = "broken" => tail' = "broken"
        /\ up' = up /\ runs' \in {runs, changed} /\ (outcome = "ok" => runs' = changed)
        /\ disk' = disk \/ (disk' = contents /\ fits)
        /\ outcome = "ok" /\ tail' # "broken" => disk' = contents /\ fits
    BY <2>1 DEF Write, Append2File
  <2>8. \A q \in Runs : TouchesRun(r, q, disk[q], disk'[q])
    BY <2>3, <2>4, <2>6, <2>7 DEF TouchesRun
  <2>9. changed[r].status = status
    BY <2>0, <2>5
  <2>10. \A q \in Runs \ {r} : IsRunning(runs', q) => IsRunning(runs, q)
    BY <2>0, <2>7 DEF IsRunning
  <2>11. ASSUME outcome = "ok"
         PROVE  ~IsRunning(runs', r) /\ (tail' # "broken" => ~IsRunning(disk', r))
    BY <2>6, <2>7, <2>9, <2>11 DEF IsRunning
  <2> QED
    BY <2>4, <2>6, <2>7, <2>8, <2>10, <2>11 DEF Touches
<1> QED
  BY <1>0, <1>1, <1>2

LEMMA ResultTouches ==
    ASSUME StoreInv, NEW r \in Runs, NEW evidence \in SUBSET CallIds,
           NEW outcome, SetInvestigationResult(r, evidence, outcome)
    PROVE  /\ Touches(r)
           /\ disk[r] # None => /\ disk'[r] # None
                                /\ disk'[r].status = disk[r].status
                                /\ disk'[r].events = disk[r].events
           /\ \/ disk'[r] = disk[r]
              \/ tail # "broken" /\ disk[r] # None /\ disk'[r].evidence = evidence
           /\ outcome = "ok" /\ tail' # "broken" => disk[r] # None /\ disk'[r].concluded
<1>0. "refused" # "ok"
  OBVIOUS
<1>1. CASE ~Concludes(runs, r, evidence)
  <2>1. UNCHANGED storeVars /\ outcome = "refused"
    BY <1>1 DEF Refused, SetInvestigationResult
  <2> QED
    BY <2>1, NothingTouched DEF storeVars
<1>2. CASE Concludes(runs, r, evidence)
  <2> DEFINE contents == WithEvidence(disk, r, evidence)
             changed == WithEvidence(runs, r, evidence)
             fits == Concludes(disk, r, evidence)
  <2>1. Write(fits, contents, changed, outcome)
    BY <1>2 DEF SetInvestigationResult
  <2>2. disk \in Stored /\ runs \in Stored
    BY DEF StoreInv, StoreTypeOK, Stored
  <2>4. fits => disk[r] \in RunRecords /\ disk[r] # None
    BY <2>2 DEF Stored, IsRunning, Concludes
  <2>3. fits => /\ contents[r] = [disk[r] EXCEPT !.concluded = TRUE, !.evidence = evidence]
                /\ \A q \in Runs \ {r} : contents[q] = disk[q]
    <3> SUFFICES ASSUME fits
                 PROVE  /\ contents[r] = [disk[r] EXCEPT !.concluded = TRUE, !.evidence = evidence]
                        /\ \A q \in Runs \ {r} : contents[q] = disk[q]
      OBVIOUS
    <3>1. contents = [disk EXCEPT ![r] = [disk[r] EXCEPT !.concluded = TRUE, !.evidence = evidence]]
      BY <2>2, <2>4 DEF WithEvidence, Stored, RunRecords
    <3> HIDE DEF contents
    <3> QED
      BY <2>2, <3>1 DEF Stored
  <2>5. ASSUME NEW x \in RunRecords
        PROVE  LET y == [x EXCEPT !.concluded = TRUE, !.evidence = evidence]
               IN  /\ y # None /\ y.events = x.events /\ y.status = x.status
                   /\ y.concluded /\ y.evidence = evidence
    <3>1. [x EXCEPT !.concluded = TRUE, !.evidence = evidence] \in RunRecords
      BY DEF RunRecords
    <3>2. [x EXCEPT !.concluded = TRUE, !.evidence = evidence] # None
      BY <3>1, AuditConstants
    <3> QED
      BY <3>2 DEF RunRecords
  <2>0. \A q \in Runs \ {r} : changed[q] = runs[q]
    BY <2>2 DEF WithEvidence, Stored
  <2> HIDE DEF contents, changed
  <2>6. fits => /\ contents[r] # None /\ contents[r].events = disk[r].events
                /\ contents[r].status = disk[r].status
                /\ contents[r].concluded /\ contents[r].evidence = evidence
    BY <2>3, <2>4, <2>5
  <2>7. /\ tail = "broken" => tail' = "broken"
        /\ up' = up /\ runs' \in {runs, changed}
        /\ disk' = disk \/ (disk' = contents /\ fits /\ tail = "clean")
        /\ outcome = "ok" /\ tail' # "broken" => disk' = contents /\ fits
    BY <2>1, WriteLands
  <2>8. \A q \in Runs : TouchesRun(r, q, disk[q], disk'[q])
    BY <2>3, <2>4, <2>6, <2>7 DEF TouchesRun
  <2>9. \A q \in Runs \ {r} : IsRunning(runs', q) => IsRunning(runs, q)
    BY <2>0, <2>7 DEF IsRunning
  <2> QED
    BY <2>4, <2>6, <2>7, <2>8, <2>9 DEF Touches
<1> QED
  BY <1>1, <1>2
-----------------------------------------------------------------------------
(* What is kept for each author. *)

Recounts(run, a, story) == run # None /\ Tells(run.events, a, story)
CallsOf(events, a) ==
    {events[i].call : i \in {j \in DOMAIN events :
        events[j].by = a /\ events[j].type = "tool_call"}}

\* Nothing has gone wrong for the request's writes, as far as it knows and as
\* far as Open will see.
Sure(a) == tail # "broken" /\ ~handle[a].err

Completed(a) ==
    /\ disk[a].status = "succeeded" /\ disk[a].concluded
    /\ \E story \in Stories(a) : Recounts(disk[a], a, story)

Unfinished(a) == ~handle[a].finished /\ answer[a] # "ok"
Listing(a) ==
    \E story \in Seq(Events) :
        Before(a, todo[a], story) /\ (Sure(a) => Recounts(disk[a], a, story))
Structuring(a) ==
    /\ Between(a, todo[a]) /\ ~handle[a].err
    /\ Sure(a) => Recounts(disk[a], a, Intro(a, calls[a]))
Concluding(a) ==
    \E story \in Seq(Events) :
        /\ After(a, todo[a], story)
        /\ Sure(a) => disk[a].concluded /\ Recounts(disk[a], a, story)
Answering(a) ==
    /\ todo[a] = Steps(<<"answer", "settle">>) /\ handle[a].finished /\ answer[a] # "ok"
    /\ tail # "broken" => Completed(a)
Refusing(a) == todo[a] \in {FailAudit, FailJob, Steps(<<"settle">>)} /\ answer[a] # "ok"
Leaving(a) == todo[a] = Steps(<<"settle">>) /\ handle[a].finished

\* Where a busy alert is, and what the file then tells of it.
AlertAt(a) ==
    \/ Unfinished(a) /\ (Listing(a) \/ Structuring(a) \/ Concluding(a))
    \/ Answering(a) \/ Refusing(a) \/ Leaving(a)

\* Where a busy follow-up is.
FollowUpAt(f) ==
    \/ todo[f] = Steps(<<"failed">>)
    \/ \E story \in Seq(Events) :
         /\ Following(f, todo[f], story)
         /\ tail # "broken" => Recounts(disk[target[f]], f, story)

AwakeAt(a) ==
    /\ stage[a] # "busy" => todo[a] = <<>>
    /\ stage[a] = "idle" => answer[a] # "ok"
HandledAt(a) ==
    /\ stage[a] = "idle" => ~handle[a].finished
    /\ stage[a] = "busy" => handle[a].id \/ handle[a].err
\* The run of `a` is over, in memory and in a file that Open accepts.
Settled(a) ==
    /\ up => ~IsRunning(runs, a)
    /\ tail # "broken" => ~IsRunning(disk, a)
SettledAt(a) ==
    a \notin unwritten =>
        /\ stage[a] = "returned" => Settled(a)
        /\ stage[a] = "busy" => handle[a].id /\ (handle[a].finished => Settled(a))

RequestInv(a) == AwakeAt(a) /\ HandledAt(a) /\ SettledAt(a)

CompletedAt(a) == answer[a] = "ok" /\ tail # "broken" => Completed(a)
EvidenceAt(a) ==
    disk[a] # None /\ disk[a].concluded => disk[a].evidence \subseteq CallsOf(disk[a].events, a)

AlertInv(a) == (stage[a] = "busy" => AlertAt(a)) /\ CompletedAt(a) /\ EvidenceAt(a)

SilentAt(f) ==
    stage[f] = "idle" =>
        \A r \in Runs : disk[r] # None => Own(disk[r].events, f) = {}
HeardAt(f) ==
    /\ answer[f] = "ok" => target[f] \in Runs /\ stage[f] # "busy"
    /\ answer[f] = "ok" /\ tail # "broken" => Recounts(disk[target[f]], f, FollowUpStory(f))

FollowUpInv(f) == /\ AwakeAt(f) /\ SilentAt(f) /\ HeardAt(f)
                  /\ stage[f] = "busy" => FollowUpAt(f) /\ target[f] \in Runs

TInv ==
    /\ IInv
    /\ \A a \in Requests : RequestInv(a)
    /\ \A a \in Alerts : AlertInv(a)
    /\ \A f \in FollowUps : FollowUpInv(f)
-----------------------------------------------------------------------------
(* A step of one author leaves what is kept for the others. *)

LEMMA DiskTyped ==
    ASSUME IInv, NEW r \in Runs, disk[r] # None
    PROVE  disk[r] \in RunRecords /\ disk[r].events \in Seq(Events)
<1>1. disk[r] \in RunRecords
  BY DEF IInv, StoreInv, StoreTypeOK
<1> QED
  BY <1>1 DEF RunRecords

LEMMA RecountsStay ==
    ASSUME IInv, NEW b, Touches(b), NEW a, a # b, NEW r \in Runs, disk[r] # None
    PROVE  /\ disk'[r] # None
           /\ \A story : Recounts(disk[r], a, story) => Recounts(disk'[r], a, story)
           /\ Own(disk'[r].events, a) = Own(disk[r].events, a)
           /\ CallsOf(disk[r].events, a) \subseteq CallsOf(disk'[r].events, a)
           /\ r # b => /\ disk'[r].status = disk[r].status
                       /\ disk'[r].concluded = disk[r].concluded
                       /\ disk'[r].evidence = disk[r].evidence
<1>1. TouchesRun(b, r, disk[r], disk'[r]) /\ disk[r].events \in Seq(Events)
  BY DiskTyped DEF Touches
<1>2. CASE disk'[r] = disk[r]
  BY <1>2
<1>3. CASE r = b /\ disk'[r] # None /\ disk'[r].events = disk[r].events
  BY <1>3 DEF Recounts
<1>4. ASSUME NEW e \in Events, disk'[r] # None, e.by = b,
             disk'[r].events = Append(disk[r].events, e)
      PROVE  /\ \A story : Recounts(disk[r], a, story) => Recounts(disk'[r], a, story)
             /\ Own(disk'[r].events, a) = Own(disk[r].events, a)
             /\ CallsOf(disk[r].events, a) \subseteq CallsOf(disk'[r].events, a)
  <2> DEFINE old == disk[r].events
             new == Append(disk[r].events, e)
  <2>1. /\ Own(new, a) = Own(old, a)
        /\ \A story : Tells(old, a, story) => Tells(new, a, story)
    BY <1>1, <1>4, OthersTell
  <2>2. /\ Len(old) \in Nat /\ DOMAIN old = 1..Len(old) /\ DOMAIN new = 1..(Len(old) + 1)
        /\ \A i \in 1..Len(old) : new[i] = old[i]
    <3>1. new \in Seq(Events) /\ Len(new) = Len(old) + 1 /\ \A i \in 1..Len(old) : new[i] = old[i]
      BY <1>1, AppendProperties
    <3> HIDE DEF old, new
    <3> QED
      BY <1>1, <3>1, LenProperties DEF old
  <2> HIDE DEF old, new
  <2>3. CallsOf(old, a) \subseteq CallsOf(new, a)
    <3>1. \A i \in DOMAIN old : i \in DOMAIN new /\ new[i] = old[i]
      BY <2>2
    <3> QED
      BY <3>1 DEF CallsOf
  <2>4. old = disk[r].events /\ new = disk'[r].events
    BY <1>4 DEF old, new
  <2> QED
    BY <1>4, <2>1, <2>3, <2>4 DEF Recounts
<1> QED
  BY <1>1, <1>2, <1>3, <1>4 DEF TouchesRun

LEMMA OtherRunStays ==
    ASSUME NEW b, Touches(b), NEW r \in Runs, r # b, disk[r] = None
    PROVE  disk'[r] = None
BY DEF Touches, TouchesRun

Same(a) == /\ todo'[a] = todo[a] /\ stage'[a] = stage[a] /\ calls'[a] = calls[a]
           /\ answer'[a] = answer[a]

LEMMA RequestStays ==
    ASSUME IInv, NEW b, Touches(b), NEW a \in Requests, a # b, RequestInv(a),
           Same(a), handle'[a] = handle[a], unwritten \subseteq unwritten'
    PROVE  RequestInv(a)'
<1>1. a \in Runs
  BY AuthorsAssumption
<1>2. IsRunning(disk', a) => IsRunning(disk, a)
  BY <1>1, OtherRunStays, RecountsStay DEF IsRunning
<1>3. Settled(a) => Settled(a)'
  BY <1>1, <1>2 DEF Settled, Touches
<1> QED
  BY <1>3 DEF RequestInv, AwakeAt, HandledAt, SettledAt, Same

LEMMA AlertStays ==
    ASSUME IInv, NEW b, Touches(b), NEW a \in Alerts, a # b, AlertInv(a),
           Same(a), handle'[a] = handle[a]
    PROVE  AlertInv(a)'
<1>1. a \in Runs
  BY AuthorsAssumption DEF Requests
<1>2. /\ Sure(a)' => Sure(a)
      /\ tail' # "broken" => tail # "broken"
      /\ Unfinished(a)' <=> Unfinished(a)
      /\ AlertStory(a)' = AlertStory(a) /\ Stories(a)' = Stories(a)
  BY DEF Touches, Sure, Unfinished, Same, AlertStory, Stories
<1>3. /\ \A story : Recounts(disk[a], a, story) => Recounts(disk'[a], a, story)
      /\ disk[a] # None => disk'[a].status = disk[a].status
                           /\ disk'[a].concluded = disk[a].concluded
  <2>1. CASE disk[a] = None
    BY <2>1 DEF Recounts
  <2>2. CASE disk[a] # None
    BY <1>1, <2>2, RecountsStay
  <2> QED
    BY <2>1, <2>2
<1>4. /\ \A story : Before(a, todo[a], story) => Before(a, todo[a], story)'
      /\ Between(a, todo[a]) => Between(a, todo[a])'
      /\ \A story : After(a, todo[a], story) => After(a, todo[a], story)'
  BY <1>2 DEF Same, Before, Between, After
<1>5. Listing(a) => Listing(a)'
  BY <1>2, <1>3, <1>4 DEF Listing
<1>6. Structuring(a) => Structuring(a)'
  BY <1>2, <1>3, <1>4 DEF Structuring, Same
<1>7. Concluding(a) => Concluding(a)'
  <2> SUFFICES ASSUME NEW story \in Seq(Events), After(a, todo[a], story),
                      Sure(a) => disk[a].concluded /\ Recounts(disk[a], a, story)
               PROVE  Concluding(a)'
    BY DEF Concluding
  <2>1. Sure(a)' => disk'[a].concluded /\ Recounts(disk'[a], a, story)
    BY <1>2, <1>3 DEF Recounts
  <2> QED
    BY <1>4, <2>1 DEF Concluding
<1>8. Completed(a) => Completed(a)'
  BY <1>2, <1>3 DEF Completed, Recounts
<1>9. AlertAt(a) => AlertAt(a)'
  BY <1>2, <1>5, <1>6, <1>7, <1>8 DEF AlertAt, Answering, Refusing, Leaving, Same
<1>10. EvidenceAt(a) => EvidenceAt(a)'
  <2>1. CASE disk[a] = None
    BY <1>1, <2>1, OtherRunStays DEF EvidenceAt
  <2>2. CASE disk[a] # None
    BY <1>1, <2>2, RecountsStay DEF EvidenceAt
  <2> QED
    BY <2>1, <2>2
<1> QED
  BY <1>2, <1>8, <1>9, <1>10 DEF AlertInv, CompletedAt, Same

LEMMA FollowUpStays ==
    ASSUME IInv, NEW b, Touches(b), NEW f \in FollowUps, f # b, FollowUpInv(f),
           Same(f), target'[f] = target[f]
    PROVE  FollowUpInv(f)'
<1>1. tail' # "broken" => tail # "broken"
  BY DEF Touches
<1>2. \A r \in Runs : \A story : Recounts(disk[r], f, story) => Recounts(disk'[r], f, story)
  BY RecountsStay DEF Recounts
<1>3. SilentAt(f) => SilentAt(f)'
  <2> SUFFICES ASSUME SilentAt(f), stage[f] = "idle", NEW r \in Runs, disk'[r] # None
               PROVE  Own(disk'[r].events, f) = {}
    BY DEF SilentAt, Same
  <2>1. CASE disk[r] # None
    BY <2>1, RecountsStay DEF SilentAt
  <2>2. CASE disk[r] = None
    <3>1. disk'[r] = NewRun
      BY <2>2 DEF Touches, TouchesRun
    <3>2. disk'[r].events = <<>>
      BY <3>1 DEF NewRun
    <3> QED
      BY <3>2 DEF Own
  <2> QED
    BY <2>1, <2>2
<1>4. FollowUpStory(f)' = FollowUpStory(f)
  BY DEF FollowUpStory, Same
<1>5. HeardAt(f) => HeardAt(f)'
  BY <1>1, <1>2, <1>4 DEF HeardAt, Same
<1>6. \A story : Following(f, todo[f], story) => Following(f, todo[f], story)'
  BY <1>4 DEF Following, Same
<1>7. FollowUpAt(f) /\ target[f] \in Runs => FollowUpAt(f)'
  BY <1>1, <1>2, <1>6 DEF FollowUpAt, Same
<1> QED
  BY <1>3, <1>5, <1>7 DEF FollowUpInv, AwakeAt, Same

\* All in one: what is left to show for a step of the author `b`.
LEMMA OthersStay ==
    ASSUME TInv, IInv', NEW b \in Authors, Touches(b), unwritten \subseteq unwritten',
           \A a \in Authors \ {b} : Same(a),
           \A a \in Requests \ {b} : handle'[a] = handle[a],
           \A f \in FollowUps \ {b} : target'[f] = target[f],
           b \in Requests => RequestInv(b)',
           b \in Alerts => AlertInv(b)',
           b \in FollowUps => FollowUpInv(b)'
    PROVE  TInv'
<1>1. ASSUME NEW a \in Requests PROVE RequestInv(a)'
  BY <1>1, RequestStays, AuthorsAssumption DEF TInv
<1>2. ASSUME NEW a \in Alerts PROVE AlertInv(a)'
  BY <1>2, AlertStays, AuthorsAssumption DEF TInv, Requests
<1>3. ASSUME NEW f \in FollowUps PROVE FollowUpInv(f)'
  BY <1>3, FollowUpStays, AuthorsAssumption DEF TInv
<1> QED
  BY <1>1, <1>2, <1>3 DEF TInv
-----------------------------------------------------------------------------
(* The author's own steps. *)

LEMMA AuthorsDiffer ==
    /\ Alerts \subseteq Requests /\ Requests \subseteq Runs /\ Requests \subseteq Authors
    /\ FollowUps \subseteq Authors /\ FollowUps \cap Requests = {}
    /\ \A a \in Requests : a \notin FollowUps
    /\ \A f \in FollowUps : f \notin Requests /\ f \notin Alerts
BY AuthorsAssumption DEF Requests

LEMMA OwnEntries ==
    ASSUME IInv, NEW a \in Authors, NEW rest, Advance(a, rest)
    PROVE  todo'[a] = rest /\ \A b \in Authors \ {a} : todo'[b] = todo[b]
BY DEF IInv, AuthorInv, Advance

\* The fields of a handle after a step.
LEMMA HandleFields ==
    ASSUME IInv, NEW a \in Requests, NEW outcome
    PROVE  /\ handle' = [handle EXCEPT ![a].id = outcome = "ok", ![a].err = outcome # "ok"] =>
                /\ handle'[a].id <=> outcome = "ok"
                /\ handle'[a].err <=> outcome # "ok"
                /\ handle'[a].finished = handle[a].finished
                /\ \A b \in Requests \ {a} : handle'[b] = handle[b]
           /\ Remember(a, outcome) =>
                /\ handle'[a].id = handle[a].id
                /\ handle'[a].err <=> handle[a].err \/ outcome # "ok"
                /\ handle'[a].finished = handle[a].finished
                /\ \A b \in Requests \ {a} : handle'[b] = handle[b]
           /\ handle' = [handle EXCEPT ![a].err = @ \/ outcome # "ok",
                                       ![a].finished = outcome = "ok"] =>
                /\ handle'[a].id = handle[a].id
                /\ handle'[a].err <=> handle[a].err \/ outcome # "ok"
                /\ handle'[a].finished <=> outcome = "ok"
                /\ \A b \in Requests \ {a} : handle'[b] = handle[b]
<1> DEFINE H == [id : BOOLEAN, finished : BOOLEAN, err : BOOLEAN]
<1>1. handle \in [Requests -> H] /\ handle[a] \in H
  BY DEF IInv, AuthorInv
<1>2. PICK ok \in BOOLEAN : ok = (outcome = "ok")
  BY Zenon
<1>3. ASSUME NEW h \in H
      PROVE  /\ [h EXCEPT !.id = ok, !.err = ~ok].id = ok /\ [h EXCEPT !.id = ok, !.err = ~ok].err = ~ok
             /\ [h EXCEPT !.id = ok, !.err = ~ok].finished = h.finished
             /\ [h EXCEPT !.err = h.err \/ ~ok].id = h.id
             /\ [h EXCEPT !.err = h.err \/ ~ok].err = (h.err \/ ~ok)
             /\ [h EXCEPT !.err = h.err \/ ~ok].finished = h.finished
             /\ [h EXCEPT !.err = h.err \/ ~ok, !.finished = ok].id = h.id
             /\ [h EXCEPT !.err = h.err \/ ~ok, !.finished = ok].err = (h.err \/ ~ok)
             /\ [h EXCEPT !.err = h.err \/ ~ok, !.finished = ok].finished = ok
  OBVIOUS
<1>4. ASSUME NEW h, handle' = [handle EXCEPT ![a] = h]
      PROVE  handle'[a] = h /\ \A b \in Requests \ {a} : handle'[b] = handle[b]
  BY <1>1, <1>4
<1>5. ASSUME handle' = [handle EXCEPT ![a].id = outcome = "ok", ![a].err = outcome # "ok"]
      PROVE  handle' = [handle EXCEPT ![a] = [handle[a] EXCEPT !.id = ok, !.err = ~ok]]
  BY <1>1, <1>2, <1>5, Zenon
<1>6. ASSUME Remember(a, outcome)
      PROVE  handle' = [handle EXCEPT ![a] = [handle[a] EXCEPT !.err = handle[a].err \/ ~ok]]
  BY <1>1, <1>2, <1>6, Zenon DEF Remember
<1>7. ASSUME handle' = [handle EXCEPT ![a].err = @ \/ outcome # "ok",
                                      ![a].finished = outcome = "ok"]
      PROVE  handle' = [handle EXCEPT ![a] = [handle[a] EXCEPT !.err = handle[a].err \/ ~ok,
                                                               !.finished = ok]]
  BY <1>1, <1>2, <1>7, Zenon
<1> HIDE DEF H
<1> QED
  BY <1>1, <1>2, <1>3, <1>4, <1>5, <1>6, <1>7

\* What the next step says about where an alert is.
LEMMA AlertHeads ==
    ASSUME NEW a \in Authors, NEW l
    PROVE  /\ \A story : Before(a, l, story) =>
                /\ l # <<>> /\ Head(l)[1] \in {"alert_received", "chat", "tool_call"}
                /\ Head(l)[1] = "chat" => l = Steps(<<"chat">>) /\ story = Lead(a, "alert_received")
           /\ Between(a, l) =>
                /\ l # <<>> /\ Head(l)[1] \in {"structure", "result"}
                /\ Head(l)[1] = "result" =>
                     \E evidence \in SUBSET {calls[a][i] : i \in DOMAIN calls[a]},
                        rest \in Conclusions : Head(l) = <<"result", evidence>> /\ Tail(l) = rest
           /\ \A story : After(a, l, story) =>
                /\ l # <<>>
                /\ Head(l)[1] \in {"investigation_result", "notification_delivery", "succeed"}
                /\ Head(l)[1] = "succeed" => l = Closing /\ story \in Stories(a)
           /\ l \in {FailAudit, FailJob, Steps(<<"settle">>)} =>
                /\ l # <<>> /\ Head(l)[1] \in {"fail", "refuse", "settle"}
                /\ Head(l)[1] = "fail" => l = FailAudit
                /\ Head(l)[1] = "refuse" => l = FailJob
           /\ l = Steps(<<"answer", "settle">>) => l # <<>> /\ Head(l)[1] = "answer"
<1>1. ASSUME NEW story, Before(a, l, story)
      PROVE  /\ l # <<>> /\ Head(l)[1] \in {"alert_received", "chat", "tool_call"}
             /\ Head(l)[1] = "chat" => l = Steps(<<"chat">>) /\ story = Lead(a, "alert_received")
  <2>1. CASE l = Steps(<<"alert_received", "check", "chat">>)
    BY <2>1, AlertLists DEF Begins
  <2>2. CASE l = Steps(<<"chat">>) /\ story = Lead(a, "alert_received")
    BY <2>2, AlertLists DEF Begins
  <2>3. ASSUME NEW d \in Seq(CallIds), d # <<>>, l = CallSteps(d) \o Steps(<<"check", "structure">>)
        PROVE  l # <<>> /\ Head(l)[1] = "tool_call"
    BY <2>3, CallsParts, ListsTyped
  <2> QED
    BY <1>1, <2>1, <2>2, <2>3 DEF Before
<1>2. ASSUME Between(a, l)
      PROVE  /\ l # <<>> /\ Head(l)[1] \in {"structure", "result"}
             /\ Head(l)[1] = "result" =>
                  \E evidence \in SUBSET {calls[a][i] : i \in DOMAIN calls[a]},
                     rest \in Conclusions : Head(l) = <<"result", evidence>> /\ Tail(l) = rest
  <2>1. CASE l = Steps(<<"structure">>)
    BY <2>1, AlertLists DEF Begins
  <2>2. ASSUME NEW evidence \in SUBSET {calls[a][i] : i \in DOMAIN calls[a]},
               NEW rest \in Conclusions, l = <<<<"result", evidence>>>> \o rest
        PROVE  l # <<>> /\ Head(l) = <<"result", evidence>> /\ Tail(l) = rest
    <3>1. rest \in Seq({<<"result", evidence>>} \cup Ahead)
      BY ListsTyped, SeqMonotonic
    <3> DEFINE S == {<<"result", evidence>>} \cup Ahead
    <3>2. <<"result", evidence>> \in S /\ rest \in Seq(S)
      BY <3>1
    <3> HIDE DEF S
    <3> QED
      BY <2>2, <3>2, ConsParts
  <2>3. ASSUME NEW evidence \in SUBSET {calls[a][i] : i \in DOMAIN calls[a]},
               NEW rest \in Conclusions, l = <<<<"result", evidence>>>> \o rest
        PROVE  l # <<>> /\ Head(l)[1] = "result"
    BY <2>2, <2>3
  <2> QED
    BY <1>2, <2>1, <2>2, <2>3 DEF Between
<1>3. ASSUME NEW story, After(a, l, story)
      PROVE  /\ l # <<>>
             /\ Head(l)[1] \in {"investigation_result", "notification_delivery", "succeed"}
             /\ Head(l)[1] = "succeed" => l = Closing /\ story \in Stories(a)
  <2>1. CASE l \in Conclusions
    <3>1. PICK n \in Deliveries : l = Conclusion(n)
      BY <2>1 DEF Conclusions
    <3>2. PICK tl : Begins(l, "investigation_result", tl)
      BY <3>1, ConclusionLists
    <3> QED
      BY <3>2 DEF Begins
  <2>2. ASSUME NEW m \in Nat, m # 0, l = Delivering(m)
        PROVE  l # <<>> /\ Head(l)[1] = "notification_delivery"
    <3>1. m - 1 \in Nat /\ m = (m - 1) + 1
      BY <2>2
    <3>2. Begins(Delivering((m - 1) + 1), "notification_delivery", Delivering(m - 1))
      BY <3>1, DeliveringLists
    <3> QED
      BY <2>2, <3>1, <3>2 DEF Begins
  <2>3. CASE l = Closing /\ story \in Stories(a)
    <3>1. Begins(l, "succeed", Steps(<<"recheck", "answer", "settle">>))
      BY <2>3, ClosingLists
    <3> QED
      BY <2>3, <3>1 DEF Begins
  <2> QED
    BY <1>3, <2>1, <2>2, <2>3 DEF After
<1>4. ASSUME l \in {FailAudit, FailJob, Steps(<<"settle">>)}
      PROVE  /\ l # <<>> /\ Head(l)[1] \in {"fail", "refuse", "settle"}
             /\ Head(l)[1] = "fail" => l = FailAudit
             /\ Head(l)[1] = "refuse" => l = FailJob
  BY <1>4, AlertLists DEF Begins
<1>5. ASSUME l = Steps(<<"answer", "settle">>) PROVE l # <<>> /\ Head(l)[1] = "answer"
  <2>1. Begins(l, "answer", Steps(<<"settle">>))
    BY <1>5, ClosingLists
  <2> QED
    BY <2>1 DEF Begins
<1> QED
  BY <1>1, <1>2, <1>3, <1>4, <1>5

\* A result may cite every call the story tells.
LEMMA CallsAreTold ==
    ASSUME NEW events, NEW a \in Authors, NEW c \in Seq(CallIds), Tells(events, a, Intro(a, c))
    PROVE  {c[i] : i \in DOMAIN c} \subseteq CallsOf(events, a)
<1> SUFFICES ASSUME NEW i \in DOMAIN c PROVE c[i] \in CallsOf(events, a)
  OBVIOUS
<1> DEFINE story == Intro(a, c)
<1>1. Len(c) \in Nat /\ DOMAIN c = 1..Len(c)
  BY LenProperties
<1>2. i + 1 \in DOMAIN story /\ story[i + 1] = Event(a, <<"tool_call", c[i]>>)
  <2>1. "alert_received" \in Types
    BY DEF Types
  <2>2. Lead(a, "alert_received") \in Seq(Events)
    BY <2>1, StoryTyped
  <2>3. Len(Lead(a, "alert_received")) = 1
    BY DEF Lead
  <2>4. /\ Calling(a, c) \in Seq(Events) /\ Len(Calling(a, c)) = Len(c)
        /\ Calling(a, c)[i] = Event(a, <<"tool_call", c[i]>>)
    <3>1. \A j \in 1..Len(c) : Event(a, <<"tool_call", c[j]>>) \in Events
      BY ElementOfSeq DEF Event, Events, Types
    <3>2. [j \in 1..Len(c) |-> Event(a, <<"tool_call", c[j]>>)] \in Seq(Events)
      BY <1>1, <3>1, IsASeq
    <3>3. Calling(a, c) \in Seq(Events) /\ DOMAIN Calling(a, c) = 1..Len(c)
          /\ Calling(a, c)[i] = Event(a, <<"tool_call", c[i]>>)
      BY <1>1, <3>2 DEF Calling
    <3> QED
      BY <1>1, <3>3, LenFromDomain
  <2>5. /\ story \in Seq(Events) /\ Len(story) = 1 + Len(c)
        /\ \A j \in 1..1 + Len(c) :
             story[j] = IF j <= 1 THEN Lead(a, "alert_received")[j] ELSE Calling(a, c)[j - 1]
    <3>1. /\ Lead(a, "alert_received") \o Calling(a, c) \in Seq(Events)
          /\ Len(Lead(a, "alert_received") \o Calling(a, c)) =
                 Len(Lead(a, "alert_received")) + Len(Calling(a, c))
          /\ \A j \in 1..Len(Lead(a, "alert_received")) + Len(Calling(a, c)) :
               (Lead(a, "alert_received") \o Calling(a, c))[j] =
                   IF j <= Len(Lead(a, "alert_received")) THEN Lead(a, "alert_received")[j]
                   ELSE Calling(a, c)[j - Len(Lead(a, "alert_received"))]
      BY <2>2, <2>4, ConcatProperties, Zenon
    <3> QED
      BY <2>3, <2>4, <3>1 DEF Intro
  <2> HIDE DEF story
  <2>6. i + 1 \in 1..1 + Len(c) /\ ~(i + 1 <= 1) /\ (i + 1) - 1 = i
    BY <1>1
  <2>7. DOMAIN story = 1..1 + Len(c)
    BY <2>5, LenProperties
  <2> QED
    BY <2>4, <2>5, <2>6, <2>7
<1> HIDE DEF story
<1>3. PICK k \in Own(events, a) : events[k] = story[i + 1]
  BY <1>2 DEF Tells, story
<1>4. events[k] = Event(a, <<"tool_call", c[i]>>) /\ k \in DOMAIN events
  BY <1>2, <1>3 DEF Own
<1>5. events[k].by = a /\ events[k].type = "tool_call" /\ events[k].call = c[i]
  BY <1>4 DEF Event
<1> QED
  BY <1>4, <1>5 DEF CallsOf
-----------------------------------------------------------------------------
(* Requests. *)

\* A step that is only taken by a busy author.
LEMMA BusyNow ==
    ASSUME TInv, NEW a \in Authors, todo[a] # <<>>
    PROVE  /\ stage[a] = "busy"
           /\ a \in Requests => RequestInv(a)
           /\ a \in Alerts => AlertInv(a) /\ AlertAt(a) /\ calls[a] \in Seq(CallIds)
           /\ a \in FollowUps => FollowUpInv(a) /\ FollowUpAt(a) /\ calls[a] \in Seq(CallIds)
<1>1. a \in Requests \/ a \in FollowUps
  BY AuthorsAssumption
<1>2. stage[a] = "busy"
  BY <1>1 DEF TInv, RequestInv, FollowUpInv, AwakeAt
<1>3. calls[a] \in Seq(CallIds)
  BY DEF TInv, IInv, AuthorInv
<1> QED
  BY <1>2, <1>3 DEF TInv, AlertInv, FollowUpInv

LEMMA BeginTells ==
    ASSUME TInv, IInv', NEW a \in Requests, NEW outcome, Begin(a, outcome)
    PROVE  TInv'
<1>1. a \in Runs /\ a \in Authors /\ a \notin FollowUps /\ IInv /\ StoreInv /\ RequestInv(a)
  BY AuthorsDiffer DEF TInv, IInv
<1>2. /\ Touches(a)
      /\ outcome = "ok" /\ tail' # "broken" => disk'[a] = NewRun
      /\ disk'[a] \in {disk[a], NewRun}
  BY <1>1, StartTouches DEF Begin
<1>3. /\ todo'[a] = IF a \in Alerts THEN Steps(<<"alert_received", "check", "chat">>)
                    ELSE Steps(<<"chat">>)
      /\ \A b \in Authors \ {a} : todo'[b] = todo[b]
  BY <1>1, OwnEntries DEF Begin
<1>4. /\ handle'[a].id <=> outcome = "ok"
      /\ handle'[a].err <=> outcome # "ok"
      /\ handle'[a].finished = handle[a].finished
      /\ \A b \in Requests \ {a} : handle'[b] = handle[b]
  BY <1>1, HandleFields DEF Begin
<1>5. stage[a] = "idle" /\ stage'[a] = "busy" /\ \A b \in Authors \ {a} : stage'[b] = stage[b]
  BY <1>1 DEF IInv, AuthorInv, Begin
<1>6. ~handle[a].finished /\ answer[a] # "ok"
  BY <1>1, <1>5 DEF RequestInv, HandledAt, AwakeAt
<1>7. RequestInv(a)'
  <2>1. a \notin unwritten' => handle'[a].id /\ ~handle'[a].finished
    BY <1>4, <1>6 DEF Begin
  <2> QED
    BY <1>4, <1>5, <2>1 DEF RequestInv, AwakeAt, HandledAt, SettledAt
<1>8. ASSUME a \in Alerts PROVE AlertInv(a)'
  <2>1. Listing(a)'
    <3>1. Before(a, todo[a], <<>>)'
      BY <1>3, <1>8 DEF Before
    <3>2. ASSUME Sure(a)' PROVE Recounts(disk'[a], a, <<>>)
      <4>1. disk'[a] = NewRun
        BY <1>2, <1>4, <3>2 DEF Sure
      <4>2. NewRun # None /\ NewRun.events = <<>> /\ NewRun.events \in Seq(Events)
        <5>1. NewRun \in RunRecords
          BY DEF NewRun, RunRecords
        <5> QED
          BY <5>1, AuditConstants DEF NewRun, RunRecords
      <4>3. Own(NewRun.events, a) = {}
        BY <4>2 DEF Own
      <4> QED
        BY <4>1, <4>2, <4>3, NothingTold DEF Recounts
    <3>3. <<>> \in Seq(Events)
      BY EmptySeq
    <3> QED
      BY <3>1, <3>2, <3>3 DEF Listing
  <2>2. Unfinished(a)'
    BY <1>4, <1>6 DEF Unfinished, Begin
  <2>3. CompletedAt(a)'
    BY <1>6 DEF CompletedAt, Begin
  <2>4. EvidenceAt(a)'
    <3>1. EvidenceAt(a)
      BY <1>8 DEF TInv, AlertInv
    <3>2. ~NewRun.concluded
      BY DEF NewRun
    <3> QED
      BY <1>2, <3>1, <3>2 DEF EvidenceAt
  <2> QED
    BY <2>1, <2>2, <2>3, <2>4 DEF AlertInv, AlertAt
<1>9. \A b \in Authors \ {a} : Same(b)
  BY <1>3, <1>5 DEF Same, Begin
<1>10. unwritten \subseteq unwritten'
  BY DEF Begin
<1> QED
  BY <1>1, <1>2, <1>4, <1>7, <1>8, <1>9, <1>10, OthersStay DEF Begin

\* A step of a request that writes nothing.
LEMMA QuietRequest ==
    ASSUME TInv, IInv', NEW a \in Requests, todo[a] # <<>>, NEW rest, Advance(a, rest),
           UNCHANGED <<storeVars, stage, handle, target, unwritten>>,
           \A b \in Authors \ {a} : calls'[b] = calls[b] /\ answer'[b] = answer[b],
           a \in Alerts => AlertAt(a)' /\ CompletedAt(a)'
    PROVE  TInv'
<1>1. a \in Authors /\ a \notin FollowUps
  BY AuthorsDiffer
<1>2. stage[a] = "busy" /\ RequestInv(a) /\ IInv
  BY <1>1, BusyNow DEF TInv
<1>3. Touches(a)
  BY NothingTouched
<1>4. todo'[a] = rest /\ \A b \in Authors \ {a} : todo'[b] = todo[b]
  BY <1>1, <1>2, OwnEntries
<1>5. RequestInv(a)'
  BY <1>2 DEF RequestInv, AwakeAt, HandledAt, SettledAt, Settled, IsRunning, storeVars
<1>6. a \in Alerts => AlertInv(a)'
  <2>1. a \in Alerts => EvidenceAt(a)'
    BY DEF TInv, AlertInv, EvidenceAt, storeVars
  <2> QED
    BY <2>1 DEF AlertInv
<1>7. \A b \in Authors \ {a} : Same(b)
  BY <1>4 DEF Same
<1> QED
  BY <1>1, <1>3, <1>5, <1>6, <1>7, OthersStay

LEMMA AlertAtChat ==
    ASSUME NEW a \in Authors, AlertAt(a), todo[a] # <<>>, Head(todo[a])[1] = "chat"
    PROVE  /\ Unfinished(a)
           /\ Sure(a) => Recounts(disk[a], a, Lead(a, "alert_received"))
<1>1. ~Structuring(a) /\ ~Concluding(a) /\ ~Answering(a) /\ ~Refusing(a) /\ ~Leaving(a)
  BY AlertHeads DEF Structuring, Concluding, Answering, Refusing, Leaving
<1>2. Unfinished(a) /\ Listing(a)
  BY <1>1 DEF AlertAt
<1> QED
  BY <1>2, AlertHeads DEF Listing

LEMMA CompleteTells ==
    ASSUME TInv, IInv', NEW a \in Requests, Complete(a)
    PROVE  TInv'
<1>1. a \in Authors /\ a \notin FollowUps /\ todo[a] # <<>> /\ Head(todo[a])[1] = "chat"
  BY AuthorsDiffer DEF Complete, At, Comes
<1>2. /\ \A b \in Authors \ {a} : calls'[b] = calls[b]
      /\ UNCHANGED <<storeVars, stage, handle, target, answer, unwritten>>
  BY DEF TInv, IInv, AuthorInv, Complete
<1>3. PICK rest : Advance(a, rest)
  BY DEF Complete
<1>4. ASSUME a \in Alerts PROVE AlertAt(a)' /\ CompletedAt(a)'
  <2>1. Unfinished(a) /\ (Sure(a) => Recounts(disk[a], a, Lead(a, "alert_received")))
    BY <1>1, <1>4, AlertAtChat, BusyNow
  <2>2. Unfinished(a)' /\ (Sure(a)' <=> Sure(a)) /\ disk' = disk
    BY <1>2, <2>1 DEF Unfinished, Sure, storeVars
  <2>3. CompletedAt(a)'
    BY <2>2 DEF CompletedAt, Unfinished
  <2>4. CASE Advance(a, FailAudit)
    <3>1. todo'[a] = FailAudit
      BY <1>1, <2>4, OwnEntries DEF TInv
    <3> QED
      BY <2>2, <2>3, <3>1 DEF AlertAt, Refusing, Unfinished
  <2>5. ASSUME NEW c \in Answers, calls' = [calls EXCEPT ![a] = c],
               Advance(a, Checked(CallSteps(c) \o Steps(<<"check", "structure">>), handle[a].err))
        PROVE  AlertAt(a)'
    <3>1. c \in Seq(CallIds) /\ handle[a].err \in BOOLEAN /\ calls'[a] = c
      BY <1>1, <2>5, AuthorsAssumption DEF TInv, IInv, AuthorInv
    <3>2. todo'[a] = IF c # <<>> THEN CallSteps(c) \o Steps(<<"check", "structure">>)
                     ELSE IF handle[a].err THEN FailAudit ELSE Steps(<<"structure">>)
      BY <1>1, <2>5, <3>1, CheckedCalls, OwnEntries DEF TInv
    <3>3. "alert_received" \in Types
      BY DEF Types
    <3>4. /\ Intro(a, <<>>) = Lead(a, "alert_received") /\ Intro(a, <<>>) \in Seq(Events)
          /\ <<>> \in Seq(CallIds) /\ <<>> \o c = c
      BY <1>1, <3>1, <3>3, EmptySeq, StoryTyped, ConcatEmptySeq DEF Intro
    <3>5. CASE c # <<>>
      <4>1. Before(a, todo[a], Intro(a, <<>>))'
        BY <3>1, <3>2, <3>4, <3>5 DEF Before
      <4>2. Listing(a)'
        BY <2>1, <2>2, <3>4, <4>1 DEF Listing
      <4> QED
        BY <2>2, <4>2 DEF AlertAt
    <3>6. CASE c = <<>> /\ handle[a].err
      BY <2>2, <3>2, <3>6 DEF AlertAt, Refusing, Unfinished
    <3>7. CASE c = <<>> /\ ~handle[a].err
      <4>1. Between(a, todo[a])' /\ ~handle'[a].err
        BY <1>2, <3>2, <3>7 DEF Between
      <4>2. Structuring(a)'
        BY <2>1, <2>2, <3>1, <3>4, <3>7, <4>1 DEF Structuring
      <4> QED
        BY <2>2, <4>2 DEF AlertAt
    <3> QED
      BY <3>5, <3>6, <3>7
  <2>6. AlertAt(a)'
    BY <1>4, <2>4, <2>5 DEF Complete
  <2> QED
    BY <2>3, <2>6
<1> QED
  BY <1>1, <1>2, <1>3, <1>4, QuietRequest

LEMMA AlertAtStructuring ==
    ASSUME NEW a \in Authors, AlertAt(a), todo[a] # <<>>, Head(todo[a])[1] \in {"structure", "result"}
    PROVE  Unfinished(a) /\ Structuring(a)
<1>1. ~Listing(a) /\ ~Concluding(a) /\ ~Answering(a) /\ ~Refusing(a) /\ ~Leaving(a)
  BY AlertHeads DEF Listing, Concluding, Answering, Refusing, Leaving
<1> QED
  BY <1>1 DEF AlertAt

LEMMA StructureTells ==
    ASSUME TInv, IInv', NEW a \in Requests, Structure(a)
    PROVE  TInv'
<1>1. a \in Authors /\ a \notin FollowUps /\ todo[a] # <<>> /\ Head(todo[a])[1] = "structure"
  BY AuthorsDiffer DEF Structure, At, Comes
<1>2. UNCHANGED <<storeVars, stage, handle, calls, target, answer, unwritten>>
  BY DEF Structure
<1>3. PICK rest : Advance(a, rest)
  BY DEF Structure
<1>4. ASSUME a \in Alerts PROVE AlertAt(a)' /\ CompletedAt(a)'
  <2>1. Unfinished(a) /\ Structuring(a)
    BY <1>1, <1>4, AlertAtStructuring, BusyNow
  <2>2. Unfinished(a)' /\ (Sure(a)' <=> Sure(a)) /\ disk' = disk
    BY <1>2, <2>1 DEF Unfinished, Sure, storeVars
  <2>3. CompletedAt(a)'
    BY <2>2 DEF CompletedAt, Unfinished
  <2>4. CASE Advance(a, FailAudit)
    <3>1. todo'[a] = FailAudit
      BY <1>1, <2>4, OwnEntries DEF TInv
    <3> QED
      BY <2>2, <2>3, <3>1 DEF AlertAt, Refusing, Unfinished
  <2>5. ASSUME NEW evidence \in SUBSET {calls[a][i] : i \in DOMAIN calls[a]},
               NEW after \in Conclusions, Advance(a, <<<<"result", evidence>>>> \o after)
        PROVE  AlertAt(a)'
    <3>1. todo'[a] = <<<<"result", evidence>>>> \o after
      BY <1>1, <2>5, OwnEntries DEF TInv
    <3>2. Between(a, todo[a])'
      BY <1>2, <2>5, <3>1 DEF Between
    <3>3. Structuring(a)'
      BY <1>2, <2>1, <2>2, <3>2 DEF Structuring
    <3> QED
      BY <2>2, <3>3 DEF AlertAt
  <2> QED
    BY <2>3, <2>4, <2>5 DEF Structure, Conclusions
<1> QED
  BY <1>1, <1>2, <1>3, <1>4, QuietRequest

LEMMA ReplyTells ==
    ASSUME TInv, IInv', NEW a \in Requests, Reply(a)
    PROVE  TInv'
<1>1. a \in Authors /\ a \notin FollowUps /\ todo[a] # <<>>
      /\ Head(todo[a])[1] \in {"answer", "refuse"}
  BY AuthorsDiffer DEF Reply, At, Comes
<1>2. /\ UNCHANGED <<storeVars, stage, handle, calls, target, unwritten>>
      /\ answer'[a] = IF Head(todo[a])[1] = "answer" THEN "ok" ELSE "refused"
      /\ \A b \in Authors \ {a} : answer'[b] = answer[b]
  BY <1>1 DEF Reply, TInv, IInv, AuthorInv, At, Comes
<1>3. Advance(a, Tail(todo[a])) /\ todo'[a] = Tail(todo[a])
  BY <1>1, OwnEntries DEF Reply, TInv
<1>4. ASSUME a \in Alerts PROVE AlertAt(a)' /\ CompletedAt(a)'
  <2>1. ~Listing(a) /\ ~Structuring(a) /\ ~Concluding(a) /\ ~Leaving(a) /\ AlertAt(a)
    <3>1. ~Listing(a)
      BY <1>1, AlertHeads DEF Listing
    <3>2. ~Structuring(a)
      BY <1>1, AlertHeads DEF Structuring
    <3>3. ~Concluding(a)
      BY <1>1, AlertHeads DEF Concluding
    <3>4. ~Leaving(a)
      BY <1>1, AlertLists DEF Leaving, Begins
    <3> QED
      BY <1>1, <1>4, <3>1, <3>2, <3>3, <3>4, BusyNow
  <2>2. CASE Answering(a)
    <3>1. todo'[a] = Steps(<<"settle">>) /\ Head(todo[a])[1] = "answer"
      <4>1. Begins(todo[a], "answer", Steps(<<"settle">>))
        BY <2>2, ClosingLists DEF Answering
      <4> QED
        BY <1>3, <4>1 DEF Begins
    <3>2. Leaving(a)'
      BY <1>2, <2>2, <3>1 DEF Leaving, Answering
    <3>3. CompletedAt(a)'
      <4>1. Completed(a) => Completed(a)'
        BY <1>2 DEF Completed, storeVars, AlertStory, Stories
      <4> QED
        BY <1>2, <2>2, <4>1 DEF CompletedAt, Answering, storeVars
    <3> QED
      BY <3>2, <3>3 DEF AlertAt
  <2>3. CASE Refusing(a)
    <3>1. todo[a] = FailJob /\ Head(todo[a])[1] = "refuse"
      BY <1>1, <2>3, AlertHeads DEF Refusing
    <3>2. todo'[a] = Steps(<<"settle">>) /\ answer'[a] = "refused"
      BY <1>2, <1>3, <3>1, AlertLists DEF Begins
    <3> QED
      BY <3>2 DEF AlertAt, Refusing, CompletedAt
  <2> QED
    BY <2>1, <2>2, <2>3 DEF AlertAt
<1> QED
  BY <1>1, <1>2, <1>3, <1>4, QuietRequest

\* Events are only added.
LEMMA CallsGrow ==
    ASSUME NEW events \in Seq(Events), NEW e \in Events, NEW a
    PROVE  CallsOf(events, a) \subseteq CallsOf(Append(events, e), a)
<1> DEFINE new == Append(events, e)
<1>1. /\ new \in Seq(Events) /\ Len(new) = Len(events) + 1
      /\ \A i \in 1..Len(events) : new[i] = events[i]
  BY AppendProperties
<1> HIDE DEF new
<1>2. DOMAIN events = 1..Len(events) /\ DOMAIN new = 1..Len(new) /\ Len(events) \in Nat
  BY <1>1, LenProperties
<1>3. \A i \in DOMAIN events : i \in DOMAIN new /\ new[i] = events[i]
  BY <1>1, <1>2
<1>4. CallsOf(events, a) \subseteq CallsOf(new, a)
  BY <1>3 DEF CallsOf
<1> QED
  BY <1>4 DEF new

LEMMA EventGrows ==
    ASSUME StoreInv, NEW r \in Runs, NEW e \in Events, NEW requireRunning \in BOOLEAN,
           NEW outcome, AddEvent(r, e, requireRunning, outcome), disk'[r] # disk[r]
    PROVE  /\ disk'[r].events = Append(disk[r].events, e)
           /\ disk'[r].concluded = disk[r].concluded /\ disk'[r].evidence = disk[r].evidence
           /\ disk[r].events \in Seq(Events)
<1>1. ~Refused(outcome)
  BY DEF Refused, storeVars
<1>2. Write(disk[r] # None /\ Len(disk[r].events) = Len(runs[r].events),
            WithEvent(disk, r, e), WithEvent(runs, r, e), outcome)
  BY <1>1 DEF AddEvent
<1>3. disk' = WithEvent(disk, r, e) /\ disk[r] # None
  BY <1>2, WriteLands
<1>4. disk \in Stored
  BY DEF StoreInv, StoreTypeOK, Stored
<1>5. disk[r] \in RunRecords /\ disk'[r] = [disk[r] EXCEPT !.events = @ \o <<e>>]
  BY <1>3, <1>4 DEF WithEvent, Stored
<1> QED
  BY <1>5, EventFields

\* A write of a request that does not finish it.
LEMMA RequestWrites ==
    ASSUME TInv, IInv', NEW a \in Requests, todo[a] # <<>>, Touches(a),
           NEW rest, Advance(a, rest),
           UNCHANGED <<stage, calls, target, answer, unwritten>>,
           handle'[a].id = handle[a].id, handle[a].err => handle'[a].err,
           handle'[a].finished = handle[a].finished,
           \A b \in Requests \ {a} : handle'[b] = handle[b],
           handle[a].finished => UNCHANGED storeVars,
           a \in Alerts => AlertAt(a)' /\ CompletedAt(a)' /\ EvidenceAt(a)'
    PROVE  TInv'
<1>1. a \in Authors /\ a \notin FollowUps
  BY AuthorsDiffer
<1>2. stage[a] = "busy" /\ RequestInv(a)
  BY <1>1, BusyNow
<1>3. \A b \in Authors \ {a} : todo'[b] = todo[b]
  BY <1>1, OwnEntries DEF TInv
<1>4. RequestInv(a)'
  <2>1. handle[a].finished /\ Settled(a) => Settled(a)'
    BY DEF Settled, IsRunning, storeVars
  <2> QED
    BY <1>2, <2>1 DEF RequestInv, AwakeAt, HandledAt, SettledAt
<1>5. a \in Alerts => AlertInv(a)'
  BY DEF AlertInv
<1>6. \A b \in Authors \ {a} : Same(b)
  BY <1>3 DEF Same
<1> QED
  BY <1>1, <1>4, <1>5, <1>6, OthersStay

\* The alert is not answered as long as it writes.
LEMMA AlertAtEvent ==
    ASSUME NEW a \in Authors, AlertAt(a), todo[a] # <<>>, Head(todo[a])[1] \in Types
    PROVE  Unfinished(a) /\ (Listing(a) \/ Concluding(a))
<1>1. "structure" \notin Types /\ "result" \notin Types /\ "answer" \notin Types
      /\ "fail" \notin Types /\ "refuse" \notin Types /\ "settle" \notin Types
  BY DEF Types
<1>2. ~Structuring(a)
  BY <1>1, AlertHeads DEF Structuring
<1>3. ~Answering(a)
  BY <1>1, AlertHeads DEF Answering
<1>4. ~Refusing(a) /\ ~Leaving(a)
  BY <1>1, AlertHeads DEF Refusing, Leaving
<1> QED
  BY <1>2, <1>3, <1>4 DEF AlertAt

LEMMA AuditEventTells ==
    ASSUME TInv, IInv', NEW a \in Requests, NEW outcome, AuditEvent(a, outcome)
    PROVE  TInv'
<1> DEFINE e == Event(a, Head(todo[a]))
           rest == Checked(Tail(todo[a]), handle'[a].err)
<1>1. /\ a \in Authors /\ a \in Runs /\ a \notin FollowUps /\ IInv /\ StoreInv /\ StoreInv'
      /\ todo[a] # <<>> /\ Head(todo[a])[1] \in Types
  BY AuthorsDiffer DEF AuditEvent, TInv, IInv
<1>2. e \in Events /\ e.by = a
  <2>1. e \in Events
    BY <1>1, NextIsTyped DEF IInv
  <2> QED
    BY <2>1 DEF Event
<1>3. /\ UNCHANGED <<stage, calls, target, answer, unwritten>> /\ Advance(a, rest)
      /\ todo'[a] = rest
  BY <1>1, OwnEntries DEF AuditEvent
<1>4. \/ Ignores(a) /\ outcome = "ok" /\ UNCHANGED <<storeVars, handle>>
      \/ ~Ignores(a) /\ AddEvent(a, e, TRUE, outcome) /\ Remember(a, outcome)
  BY DEF AuditEvent
<1> HIDE DEF e, rest
<1>5. /\ handle'[a].id = handle[a].id /\ handle'[a].finished = handle[a].finished
      /\ handle[a].err => handle'[a].err
      /\ \A b \in Requests \ {a} : handle'[b] = handle[b]
  BY <1>1, <1>4, HandleFields
<1>6. Touches(a) /\ (disk[a] # None => disk'[a] # None /\ disk'[a].status = disk[a].status)
      /\ (disk[a] = None => disk'[a] = None)
  <2>1. CASE Ignores(a)
    BY <1>4, <2>1, NothingTouched DEF storeVars
  <2>2. CASE ~Ignores(a)
    <3>1. AddEvent(a, e, TRUE, outcome)
      BY <1>4, <2>2
    <3>2. Touches(a) /\ (disk[a] # None => disk'[a] # None /\ disk'[a].status = disk[a].status)
      BY <1>1, <1>2, <3>1, EventTouches
    <3>3. disk[a] = None => disk'[a] = None
      <4>1. CASE Refused(outcome)
        BY <4>1 DEF Refused, storeVars
      <4>2. CASE ~Refused(outcome)
        <5>1. Write(disk[a] # None /\ Len(disk[a].events) = Len(runs[a].events),
                    WithEvent(disk, a, e), WithEvent(runs, a, e), outcome)
          BY <3>1, <4>2 DEF AddEvent
        <5> QED
          BY <5>1, WriteLands
      <4> QED
        BY <4>1, <4>2
    <3> QED
      BY <3>2, <3>3
  <2> QED
    BY <2>1, <2>2
<1>7. handle[a].finished => UNCHANGED storeVars
  BY <1>4 DEF Ignores
<1>8. ASSUME a \in Alerts PROVE AlertAt(a)' /\ CompletedAt(a)' /\ EvidenceAt(a)'
  <2>1. Unfinished(a) /\ (Listing(a) \/ Concluding(a)) /\ calls[a] \in Seq(CallIds)
        /\ (handle[a].id \/ handle[a].err)
    BY <1>1, <1>8, BusyNow, AlertAtEvent DEF RequestInv, HandledAt
  <2>2. Unfinished(a)'
    BY <1>3, <1>5, <2>1 DEF Unfinished
  <2>3. handle'[a].err \in BOOLEAN
    BY DEF IInv, AuthorInv
  <2>4. ASSUME Sure(a)'
        PROVE  /\ Sure(a) /\ disk[a] \in RunRecords /\ disk'[a] # None
               /\ disk'[a].events = Append(disk[a].events, e)
               /\ disk'[a].concluded = disk[a].concluded
    <3>1. tail' # "broken" /\ ~handle'[a].err
      BY <2>4 DEF Sure
    <3>2. ~handle[a].err /\ tail # "broken"
      BY <1>5, <1>6, <3>1 DEF Touches
    <3>3. ~Ignores(a)
      BY <2>1, <3>2 DEF Ignores, Unfinished
    <3>4. AddEvent(a, e, TRUE, outcome) /\ outcome = "ok"
      BY <1>1, <1>4, <3>1, <3>3, HandleFields
    <3> QED
      BY <1>1, <1>2, <3>1, <3>2, <3>4, EventTouches DEF Sure
  <2>5. ASSUME NEW story \in Seq(Events), Sure(a) => Recounts(disk[a], a, story)
        PROVE  /\ Append(story, e) \in Seq(Events)
               /\ Sure(a)' => Recounts(disk'[a], a, Append(story, e))
    <3>1. Append(story, e) \in Seq(Events)
      BY <1>2, AppendProperties
    <3>2. ASSUME Sure(a)' PROVE Recounts(disk'[a], a, Append(story, e))
      <4>1. Tells(disk[a].events, a, story) /\ disk[a].events \in Seq(Events)
        BY <2>4, <2>5, <3>2 DEF Recounts, RunRecords
      <4>2. Tells(Append(disk[a].events, e), a, Append(story, e))
        BY <1>2, <4>1, AuthorTells
      <4> QED
        BY <2>4, <3>2, <4>2 DEF Recounts
    <3> QED
      BY <3>1, <3>2
  <2>6. ASSUME rest = FailAudit PROVE AlertAt(a)'
    BY <1>3, <2>1, <2>6 DEF AlertAt, Refusing, Unfinished
  <2>7. ASSUME NEW story \in Seq(Events), Before(a, todo[a], story),
               Sure(a) => Recounts(disk[a], a, story)
        PROVE  AlertAt(a)'
    <3>1. \/ rest = FailAudit
          \/ Before(a, rest, Append(story, e))
          \/ /\ ~handle'[a].err /\ rest = Steps(<<"structure">>)
             /\ Append(story, e) = Intro(a, calls[a])
      BY <1>1, <2>3, <2>7, BeforeGoesOn DEF rest, e
    <3>2. CASE Before(a, rest, Append(story, e))
      <4>0. PICK told \in Seq(Events) : told = Append(story, e)
        BY <2>5, <2>7
      <4>1. Before(a, todo[a], told)'
        BY <1>3, <3>2, <4>0 DEF Before
      <4>2. Listing(a)'
        BY <2>5, <2>7, <4>0, <4>1 DEF Listing
      <4> QED
        BY <2>2, <4>2 DEF AlertAt
    <3>3. CASE ~handle'[a].err /\ rest = Steps(<<"structure">>)
               /\ Append(story, e) = Intro(a, calls[a])
      <4>1. Between(a, todo[a])'
        BY <1>3, <3>3 DEF Between
      <4>2. Structuring(a)'
        BY <1>3, <2>5, <2>7, <3>3, <4>1 DEF Structuring
      <4> QED
        BY <2>2, <4>2 DEF AlertAt
    <3> QED
      BY <2>6, <3>1, <3>2, <3>3
  <2>8. ASSUME NEW story \in Seq(Events), After(a, todo[a], story),
               Sure(a) => disk[a].concluded /\ Recounts(disk[a], a, story)
        PROVE  AlertAt(a)'
    <3>1. rest = FailAudit \/ After(a, rest, Append(story, e))
      BY <1>1, <2>1, <2>3, <2>8, AfterGoesOn DEF rest, e
    <3>2. CASE After(a, rest, Append(story, e))
      <4>0. PICK told \in Seq(Events) : told = Append(story, e)
        BY <2>5, <2>8
      <4>1. After(a, todo[a], told)'
        BY <1>3, <3>2, <4>0 DEF After, AlertStory, Stories
      <4>2. Sure(a)' => disk'[a].concluded /\ Recounts(disk'[a], a, told)
        BY <2>4, <2>5, <2>8, <4>0
      <4>3. Concluding(a)'
        BY <4>1, <4>2 DEF Concluding
      <4> QED
        BY <2>2, <4>3 DEF AlertAt
    <3> QED
      BY <2>6, <3>1, <3>2
  <2>9. CompletedAt(a)'
    BY <2>2 DEF CompletedAt, Unfinished
  <2>10. EvidenceAt(a)'
    <3>1. EvidenceAt(a)
      BY <1>8 DEF TInv, AlertInv
    <3>2. CASE disk'[a] = disk[a]
      BY <3>1, <3>2 DEF EvidenceAt
    <3>3. CASE disk'[a] # disk[a]
      <4>1. AddEvent(a, e, TRUE, outcome) /\ disk[a] # None
        BY <1>4, <1>6, <3>3 DEF storeVars
      <4>2. /\ disk'[a].events = Append(disk[a].events, e)
            /\ disk'[a].concluded = disk[a].concluded /\ disk'[a].evidence = disk[a].evidence
            /\ disk[a].events \in Seq(Events)
        BY <1>1, <1>2, <3>3, <4>1, EventGrows
      <4>3. CallsOf(disk[a].events, a) \subseteq CallsOf(disk'[a].events, a)
        BY <1>2, <4>2, CallsGrow
      <4> QED
        BY <3>1, <4>1, <4>2, <4>3 DEF EvidenceAt
    <3> QED
      BY <3>2, <3>3
  <2> QED
    BY <2>1, <2>7, <2>8, <2>9, <2>10 DEF Listing, Concluding
<1> QED
  BY <1>1, <1>3, <1>5, <1>6, <1>7, <1>8, RequestWrites

LEMMA AuditResultTells ==
    ASSUME TInv, IInv', NEW a \in Requests, NEW outcome, AuditResult(a, outcome)
    PROVE  TInv'
<1> DEFINE cited == Head(todo[a])[2]
<1>1. /\ a \in Authors /\ a \in Runs /\ a \notin FollowUps /\ IInv /\ StoreInv
      /\ todo[a] # <<>> /\ Head(todo[a])[1] = "result"
  BY AuthorsDiffer DEF AuditResult, TInv, IInv, At, Comes
<1>2. cited \in SUBSET CallIds
  BY <1>1, NextIsTyped DEF IInv
<1>3. /\ UNCHANGED <<stage, calls, target, answer, unwritten>>
      /\ Advance(a, Checked(Tail(todo[a]), handle'[a].err))
      /\ todo'[a] = Checked(Tail(todo[a]), handle'[a].err)
  BY <1>1, OwnEntries DEF AuditResult
<1>4. \/ Ignores(a) /\ outcome = "ok" /\ UNCHANGED <<storeVars, handle>>
      \/ ~Ignores(a) /\ SetInvestigationResult(a, cited, outcome) /\ Remember(a, outcome)
  BY DEF AuditResult
<1>5. /\ handle'[a].id = handle[a].id /\ handle'[a].finished = handle[a].finished
      /\ handle[a].err => handle'[a].err
      /\ \A b \in Requests \ {a} : handle'[b] = handle[b]
  BY <1>1, <1>4, HandleFields
<1> HIDE DEF cited
<1>6. /\ Touches(a)
      /\ disk[a] # None => /\ disk'[a] # None /\ disk'[a].status = disk[a].status
                           /\ disk'[a].events = disk[a].events
      /\ \/ disk'[a] = disk[a]
         \/ tail # "broken" /\ disk[a] # None /\ disk'[a].evidence = cited
  BY <1>1, <1>2, <1>4, NothingTouched, ResultTouches DEF storeVars
<1>7. handle[a].finished => UNCHANGED storeVars
  BY <1>4 DEF Ignores
<1>8. ASSUME a \in Alerts PROVE AlertAt(a)' /\ CompletedAt(a)' /\ EvidenceAt(a)'
  <2>1. Unfinished(a) /\ Structuring(a) /\ calls[a] \in Seq(CallIds) /\ EvidenceAt(a)
        /\ (handle[a].id \/ handle[a].err)
    BY <1>1, <1>8, BusyNow, AlertAtStructuring DEF RequestInv, HandledAt, AlertInv
  <2>2. PICK rest \in Conclusions :
          cited \subseteq {calls[a][i] : i \in DOMAIN calls[a]} /\ Tail(todo[a]) = rest
    <3>1. Between(a, todo[a])
      BY <2>1 DEF Structuring
    <3>2. PICK evidence \in SUBSET {calls[a][i] : i \in DOMAIN calls[a]}, rest \in Conclusions :
            Head(todo[a]) = <<"result", evidence>> /\ Tail(todo[a]) = rest
      BY <1>1, <3>1, AlertHeads
    <3> QED
      BY <3>2 DEF cited
  <2>3. todo'[a] = rest
    <3>1. handle'[a].err \in BOOLEAN
      BY DEF IInv, AuthorInv
    <3>2. PICK tl : Begins(rest, "investigation_result", tl)
      BY <2>2, ConclusionLists DEF Conclusions
    <3>3. Checked(rest, handle'[a].err) = rest
      BY <3>1, <3>2, CheckedBegins
    <3>4. Checked(Tail(todo[a]), handle'[a].err) = rest
      BY <2>2, <3>3
    <3> QED
      BY <1>3, <3>4
  <2>4. Unfinished(a)'
    BY <1>3, <1>5, <2>1 DEF Unfinished
  <2>5. ASSUME Sure(a)'
        PROVE  disk'[a].concluded /\ Recounts(disk'[a], a, Intro(a, calls[a]))
    <3>1. Sure(a) /\ ~handle'[a].err /\ tail' # "broken"
      BY <1>5, <1>6, <2>5 DEF Sure, Touches
    <3>2. Recounts(disk[a], a, Intro(a, calls[a]))
      BY <2>1, <3>1 DEF Structuring
    <3>3. ~Ignores(a)
      BY <2>1, <3>1 DEF Ignores, Unfinished, Sure
    <3>4. outcome = "ok" /\ SetInvestigationResult(a, cited, outcome)
      BY <1>1, <1>4, <3>1, <3>3, HandleFields
    <3>5. disk'[a].concluded
      BY <1>1, <1>2, <3>1, <3>4, ResultTouches
    <3> QED
      BY <1>6, <3>2, <3>5 DEF Recounts
  <2>6. AlertAt(a)'
    <3>1. PICK story \in Seq(Events) : story = Intro(a, calls[a])
      <4>1. "alert_received" \in Types
        BY DEF Types
      <4> QED
        BY <1>1, <2>1, <4>1, StoryTyped DEF Intro
    <3>2. After(a, todo[a], story)'
      BY <1>3, <2>2, <2>3, <3>1 DEF After
    <3>3. Concluding(a)'
      BY <2>5, <3>1, <3>2 DEF Concluding
    <3> QED
      BY <2>4, <3>3 DEF AlertAt
  <2>7. CompletedAt(a)'
    BY <2>4 DEF CompletedAt, Unfinished
  <2>8. EvidenceAt(a)'
    <3>1. CASE disk'[a] = disk[a]
      BY <2>1, <3>1 DEF EvidenceAt
    <3>2. CASE disk'[a] # disk[a]
      <4>1. tail # "broken" /\ disk[a] # None /\ disk'[a].evidence = cited
            /\ disk'[a].events = disk[a].events
        BY <1>6, <3>2
      <4>2. Tells(disk[a].events, a, Intro(a, calls[a]))
        BY <2>1, <4>1 DEF Structuring, Sure, Recounts
      <4>3. {calls[a][i] : i \in DOMAIN calls[a]} \subseteq CallsOf(disk[a].events, a)
        BY <1>1, <2>1, <4>2, CallsAreTold
      <4> QED
        BY <2>2, <4>1, <4>3 DEF EvidenceAt
    <3> QED
      BY <3>1, <3>2
  <2> QED
    BY <2>6, <2>7, <2>8
<1> QED
  BY <1>1, <1>3, <1>5, <1>6, <1>7, <1>8, RequestWrites

\* What a finish does: when it was written, now or before, the run is over.
LEMMA FinishEffect ==
    ASSUME TInv, up, NEW a \in Requests, stage[a] = "busy",
           NEW status \in {"succeeded", "failed"}, NEW outcome, Finish(a, status, outcome)
    PROVE  /\ Touches(a)
           /\ disk[a] # None => /\ disk'[a] # None
                                /\ disk'[a].concluded = disk[a].concluded
                                /\ disk'[a].evidence = disk[a].evidence
                                /\ disk'[a].events = disk[a].events
           /\ disk[a] = None => disk'[a] = None
           /\ handle'[a].id = handle[a].id
           /\ handle[a].err => handle'[a].err
           /\ a \notin unwritten /\ handle'[a].finished => Settled(a)'
           /\ handle[a].id /\ ~handle'[a].finished => outcome # "ok"
           /\ ~handle[a].finished /\ ~handle'[a].err =>
                /\ handle'[a].finished
                /\ tail' # "broken" => disk[a] # None /\ disk'[a].status = status
           /\ handle[a].finished => disk' = disk /\ tail' = tail
           /\ \A b \in Requests \ {a} : handle'[b] = handle[b]
<1>1. a \in Runs /\ StoreInv /\ IInv /\ RequestInv(a)
  BY AuthorsDiffer DEF TInv, IInv
<1>2. handle[a].id \/ handle[a].err
  BY <1>1 DEF RequestInv, HandledAt
<1>3. CASE Ignores(a)
  <2>1. UNCHANGED <<storeVars, handle>>
    BY <1>3 DEF Finish
  <2>2. Touches(a) /\ disk' = disk /\ tail' = tail /\ runs' = runs /\ up' = up
    BY <2>1, NothingTouched DEF storeVars
  <2>3. a \notin unwritten /\ handle'[a].finished => Settled(a)'
    BY <1>1, <2>1, <2>2 DEF RequestInv, SettledAt, Settled, IsRunning
  <2>5. ~(handle[a].id /\ ~handle'[a].finished)
    BY <1>3, <2>1 DEF Ignores
  <2>4. ~handle[a].finished => handle'[a].err
    BY <1>2, <1>3, <2>1 DEF Ignores
  <2> QED
    BY <2>1, <2>2, <2>3, <2>4, <2>5
<1>4. CASE ~Ignores(a)
  <2>1. FinishRun(a, status, outcome) /\ ~handle[a].finished
    BY <1>4 DEF Finish, Ignores
  <2>2. /\ handle'[a].id = handle[a].id
        /\ handle'[a].err <=> handle[a].err \/ outcome # "ok"
        /\ handle'[a].finished <=> outcome = "ok"
        /\ \A b \in Requests \ {a} : handle'[b] = handle[b]
    BY <1>1, <1>4, HandleFields DEF Finish
  <2>3. disk[a] = None => disk'[a] = None
    <3>1. CASE Refused(outcome)
      BY <3>1 DEF Refused, storeVars
    <3>2. CASE ~Refused(outcome)
      <4>1. Write(IsRunning(disk, a), WithStatus(disk, a, status),
                  WithStatus(runs, a, status), outcome)
        BY <2>1, <3>2 DEF FinishRun
      <4> QED
        BY <4>1, WriteLands DEF IsRunning
    <3> QED
      BY <3>1, <3>2
  <2>4. /\ Touches(a)
        /\ disk[a] # None => /\ disk'[a] # None
                             /\ disk'[a].concluded = disk[a].concluded
                             /\ disk'[a].evidence = disk[a].evidence
                             /\ disk'[a].events = disk[a].events
        /\ outcome = "ok" /\ tail' # "broken" => disk[a] # None /\ disk'[a].status = status
        /\ outcome = "ok" => Settled(a)'
    BY <1>1, <2>1, FinishTouches DEF Settled
  <2> QED
    BY <2>1, <2>2, <2>3, <2>4
<1> QED
  BY <1>3, <1>4

LEMMA FinishTells ==
    ASSUME TInv, IInv', up, NEW a \in Requests, todo[a] # <<>>,
           NEW status \in {"succeeded", "failed"}, NEW outcome, Finish(a, status, outcome),
           NEW rest, Advance(a, rest), UNCHANGED <<calls, target, answer>>,
           \A b \in Authors \ {a} : stage'[b] = stage[b],
           stage'[a] = "busy" \/ (stage'[a] = "returned" /\ rest = <<>>),
           unwritten \subseteq unwritten',
           stage'[a] = "returned" /\ outcome # "ok" => a \in unwritten',
           a \in Alerts => (stage'[a] = "busy" => AlertAt(a)') /\ CompletedAt(a)'
    PROVE  TInv'
<1>1. a \in Authors /\ a \notin FollowUps /\ IInv
  BY AuthorsDiffer DEF TInv
<1>2. stage[a] = "busy" /\ RequestInv(a)
  BY <1>1, BusyNow
<1>3. todo'[a] = rest /\ \A b \in Authors \ {a} : todo'[b] = todo[b]
  BY <1>1, OwnEntries
<1>4. /\ Touches(a)
      /\ disk[a] # None => /\ disk'[a] # None
                           /\ disk'[a].concluded = disk[a].concluded
                           /\ disk'[a].evidence = disk[a].evidence
                           /\ disk'[a].events = disk[a].events
      /\ disk[a] = None => disk'[a] = None
      /\ handle'[a].id = handle[a].id
      /\ handle[a].err => handle'[a].err
      /\ a \notin unwritten /\ handle'[a].finished => Settled(a)'
      /\ handle[a].id /\ ~handle'[a].finished => outcome # "ok"
      /\ \A b \in Requests \ {a} : handle'[b] = handle[b]
  BY <1>2, FinishEffect
<1>5. RequestInv(a)'
  <2>1. SettledAt(a)'
    <3> SUFFICES ASSUME a \notin unwritten'
                 PROVE  /\ stage'[a] = "returned" => Settled(a)'
                        /\ stage'[a] = "busy" =>
                             handle'[a].id /\ (handle'[a].finished => Settled(a)')
      BY DEF SettledAt
    <3>1. a \notin unwritten /\ handle[a].id
      BY <1>2 DEF RequestInv, SettledAt
    <3> QED
      BY <1>4, <3>1
  <2>2. handle'[a].id \/ handle'[a].err
    BY <1>2, <1>4 DEF RequestInv, HandledAt
  <2> QED
    BY <1>2, <1>3, <2>1, <2>2 DEF RequestInv, AwakeAt, HandledAt
<1>6. a \in Alerts => AlertInv(a)'
  <2>1. a \in Alerts => EvidenceAt(a)'
    BY <1>4 DEF TInv, AlertInv, EvidenceAt
  <2> QED
    BY <2>1 DEF AlertInv
<1>7. \A b \in Authors \ {a} : Same(b)
  BY <1>3 DEF Same
<1> QED
  BY <1>1, <1>4, <1>5, <1>6, <1>7, OthersStay

LEMMA AuditFinishTells ==
    ASSUME TInv, IInv', NEW a \in Requests, NEW outcome, AuditFinish(a, outcome)
    PROVE  TInv'
<1>1. /\ a \in Authors /\ a \notin FollowUps /\ IInv /\ todo[a] # <<>> /\ up
      /\ Head(todo[a])[1] \in {"succeed", "fail"}
  BY AuthorsDiffer DEF AuditFinish, TInv, At, Comes
<1>2. stage[a] = "busy" /\ RequestInv(a)
  BY <1>1, BusyNow
<1> DEFINE rest == Checked(Tail(todo[a]), handle'[a].err)
<1>3. Advance(a, rest) /\ todo'[a] = rest /\ UNCHANGED <<stage, calls, target, answer, unwritten>>
  BY <1>1, OwnEntries DEF AuditFinish
<1>4. PICK status \in {"succeeded", "failed"} :
        Finish(a, status, outcome) /\ (Head(todo[a])[1] = "succeed" => status = "succeeded")
  BY <1>1 DEF AuditFinish, At, Comes
<1>5. handle'[a].err \in BOOLEAN
  BY DEF IInv, AuthorInv
<1>6. ASSUME a \in Alerts PROVE AlertAt(a)' /\ CompletedAt(a)'
  <2>1. AlertAt(a) /\ ~Listing(a) /\ ~Structuring(a) /\ ~Answering(a) /\ ~Leaving(a)
    <3>1. ~Listing(a)
      BY <1>1, AlertHeads DEF Listing
    <3>2. ~Structuring(a)
      BY <1>1, AlertHeads DEF Structuring
    <3>3. ~Answering(a)
      BY <1>1, AlertHeads DEF Answering
    <3>4. ~Leaving(a)
      BY <1>1, AlertLists DEF Leaving, Begins
    <3> QED
      BY <1>1, <1>6, <3>1, <3>2, <3>3, <3>4, BusyNow
  <2>2. CASE Unfinished(a) /\ Concluding(a)
    <3>1. PICK story \in Seq(Events) :
            /\ After(a, todo[a], story)
            /\ Sure(a) => disk[a].concluded /\ Recounts(disk[a], a, story)
      BY <2>2 DEF Concluding
    <3>2. Head(todo[a])[1] = "succeed" /\ todo[a] = Closing
          /\ story \in Stories(a)
      BY <1>1, <3>1, AlertHeads
    <3>3. rest = IF handle'[a].err THEN FailJob ELSE Steps(<<"answer", "settle">>)
      <4>1. Begins(Tail(todo[a]), "recheck", Steps(<<"answer", "settle">>))
        BY <3>2, ClosingLists DEF Begins
      <4> QED
        BY <1>5, <4>1, CheckedBegins
    <3> HIDE DEF rest
    <3>4. answer'[a] # "ok"
      BY <1>3, <2>2 DEF Unfinished
    <3>5. CASE handle'[a].err
      BY <1>3, <3>3, <3>4, <3>5 DEF AlertAt, Refusing, CompletedAt
    <3>6. CASE ~handle'[a].err
      <4>1. /\ handle'[a].finished /\ ~handle[a].err /\ (tail = "broken" => tail' = "broken")
            /\ tail' # "broken" => /\ disk[a] # None /\ disk'[a].status = "succeeded"
                                   /\ disk'[a] # None
                                   /\ disk'[a].concluded = disk[a].concluded
                                   /\ disk'[a].events = disk[a].events
        BY <1>1, <1>2, <1>4, <2>2, <3>2, <3>6, FinishEffect DEF Unfinished, Touches
      <4>2. ASSUME tail' # "broken" PROVE Completed(a)'
        <5>1. disk[a].concluded /\ Recounts(disk[a], a, story)
          BY <3>1, <4>1, <4>2 DEF Sure
        <5>2. disk'[a].concluded /\ disk'[a].status = "succeeded" /\ Recounts(disk'[a], a, story)
          BY <4>1, <4>2, <5>1 DEF Recounts
        <5>3. AlertStory(a)' = AlertStory(a) /\ Stories(a)' = Stories(a)
          BY <1>3 DEF AlertStory, Stories
        <5> QED
          BY <3>2, <5>2, <5>3 DEF Completed
      <4>3. Answering(a)'
        BY <1>3, <3>3, <3>4, <3>6, <4>1, <4>2 DEF Answering
      <4> QED
        BY <3>4, <4>3 DEF AlertAt, CompletedAt
    <3> QED
      BY <3>5, <3>6
  <2>3. CASE Refusing(a)
    <3>1. Head(todo[a])[1] = "fail" /\ todo[a] = FailAudit
      BY <1>1, <2>3, AlertHeads DEF Refusing
    <3>2. rest = FailJob
      <4>1. Tail(todo[a]) = FailJob /\ Begins(FailJob, "refuse", Steps(<<"settle">>))
        BY <3>1, AlertLists DEF Begins
      <4>2. Checked(FailJob, handle'[a].err) = FailJob
        BY <1>5, <4>1, CheckedBegins
      <4> QED
        BY <4>1, <4>2
    <3> HIDE DEF rest
    <3> QED
      BY <1>3, <2>3, <3>2 DEF AlertAt, Refusing, CompletedAt
  <2> QED
    BY <2>1, <2>2, <2>3 DEF AlertAt
<1>7. stage'[a] = "busy" /\ \A b \in Authors \ {a} : stage'[b] = stage[b]
  BY <1>2, <1>3
<1> HIDE DEF rest
<1> QED
  BY <1>1, <1>3, <1>4, <1>6, <1>7, FinishTells

LEMMA SettleTells ==
    ASSUME TInv, IInv', NEW a \in Requests, NEW outcome, Settle(a, outcome)
    PROVE  TInv'
<1>1. /\ a \in Authors /\ a \notin FollowUps /\ IInv /\ todo[a] # <<>> /\ up
      /\ Head(todo[a])[1] = "settle"
  BY AuthorsDiffer DEF Settle, TInv, At, Comes
<1>2. stage[a] = "busy"
  BY <1>1, BusyNow
<1>3. /\ Finish(a, "failed", outcome) /\ Advance(a, <<>>) /\ UNCHANGED <<calls, target, answer>>
      /\ stage'[a] = "returned" /\ \A b \in Authors \ {a} : stage'[b] = stage[b]
      /\ unwritten \subseteq unwritten' /\ (outcome # "ok" => a \in unwritten')
  BY <1>1 DEF Settle, IInv, AuthorInv
<1>4. ASSUME a \in Alerts PROVE CompletedAt(a)'
  <2> SUFFICES ASSUME answer'[a] = "ok", tail' # "broken" PROVE Completed(a)'
    BY DEF CompletedAt
  <2>1. answer[a] = "ok"
    BY <1>3
  <2>2. handle[a].finished
    <3>1. AlertAt(a)
      BY <1>1, <1>4, BusyNow
    <3> QED
      BY <2>1, <3>1 DEF AlertAt, Unfinished, Answering, Refusing, Leaving
  <2>3. disk' = disk /\ tail' = tail
    BY <1>1, <1>2, <1>3, <2>2, FinishEffect
  <2>4. Completed(a)
    BY <1>4, <2>1, <2>3 DEF TInv, AlertInv, CompletedAt
  <2> QED
    BY <1>3, <2>3, <2>4 DEF Completed, AlertStory, Stories
<1> QED
  BY <1>1, <1>3, <1>4, FinishTells
-----------------------------------------------------------------------------
(* Follow-ups. *)

\* What the next step says about where a follow-up is.
LEMMA FollowUpHeads ==
    ASSUME NEW f \in Authors, NEW l, NEW story, Following(f, l, story)
    PROVE  /\ l # <<>>
           /\ Head(l)[1] = "chat" => story = Lead(f, "started")
           /\ Head(l)[1] = "answer" => story = FollowUpStory(f)
<1>1. CASE l = Steps(<<"started", "chat">>)
  BY <1>1, FollowUpLists DEF Begins
<1>2. CASE l = Steps(<<"chat">>) /\ story = Lead(f, "started")
  BY <1>2, FollowUpLists DEF Begins
<1>3. ASSUME NEW d \in Seq(CallIds), l = CallSteps(d) \o Steps(<<"succeeded", "answer">>)
      PROVE  l # <<>> /\ Head(l)[1] \in {"tool_call", "succeeded"}
  <2>1. CASE d # <<>>
    BY <1>3, <2>1, CallsParts, ListsTyped
  <2>2. CASE d = <<>>
    <3>1. l = Steps(<<"succeeded", "answer">>)
      BY <1>3, <2>2, NoCallsLeft, ListsTyped
    <3> QED
      BY <3>1, FollowUpLists DEF Begins
  <2> QED
    BY <2>1, <2>2
<1>4. CASE l = Steps(<<"answer">>) /\ story = FollowUpStory(f)
  BY <1>4, FollowUpLists DEF Begins
<1> QED
  BY <1>1, <1>2, <1>3, <1>4 DEF Following

\* All that is left to show for a step of a follow-up.
LEMMA FollowUpSteps ==
    ASSUME TInv, IInv', NEW f \in FollowUps, Touches(f), NEW rest, Advance(f, rest),
           \A g \in Authors \ {f} : /\ stage'[g] = stage[g] /\ calls'[g] = calls[g]
                                    /\ answer'[g] = answer[g],
           \A g \in FollowUps \ {f} : target'[g] = target[g],
           UNCHANGED <<handle, unwritten>>,
           stage'[f] \in {"busy", "returned"}, stage'[f] # "busy" => rest = <<>>,
           stage'[f] = "busy" => FollowUpAt(f)' /\ target'[f] \in Runs,
           HeardAt(f)'
    PROVE  TInv'
<1>1. f \in Authors /\ f \notin Requests /\ f \notin Alerts /\ IInv
  BY AuthorsDiffer DEF TInv
<1>2. todo'[f] = rest /\ \A g \in Authors \ {f} : todo'[g] = todo[g]
  BY <1>1, OwnEntries
<1>3. FollowUpInv(f)'
  BY <1>2 DEF FollowUpInv, AwakeAt, SilentAt
<1>4. \A g \in Authors \ {f} : Same(g)
  BY <1>2 DEF Same
<1> QED
  BY <1>1, <1>3, <1>4, OthersStay

\* The run asked about is in the file, if Open accepts it, and tells nothing
\* of the follow-up yet.
LEMMA AskTells ==
    ASSUME TInv, IInv', NEW f \in FollowUps, NEW r \in Runs, Ask(f, r)
    PROVE  TInv'
<1>1. f \in Authors /\ IInv /\ StoreInv /\ FollowUpInv(f)
  BY AuthorsDiffer DEF TInv, IInv
<1>2. /\ up /\ stage[f] = "idle" /\ runs[r] # None
      /\ Advance(f, Steps(<<"started", "chat">>))
      /\ UNCHANGED <<storeVars, handle, calls, answer, unwritten>>
  BY DEF Ask
<1>3. /\ stage'[f] = "busy" /\ \A g \in Authors \ {f} : stage'[g] = stage[g]
      /\ target'[f] = r /\ \A g \in FollowUps \ {f} : target'[g] = target[g]
      /\ todo'[f] = Steps(<<"started", "chat">>)
  BY <1>1, <1>2, OwnEntries DEF IInv, AuthorInv, Ask
<1>4. answer'[f] # "ok"
  BY <1>1, <1>2 DEF FollowUpInv, AwakeAt
<1>5. FollowUpAt(f)'
  <2>1. ASSUME tail # "broken" PROVE Recounts(disk[r], f, <<>>)
    <3>1. disk[r] # None
      BY <1>1, <1>2, <2>1 DEF StoreInv, JournalMirrorsMemory, AcknowledgedIsRecorded, Recorded
    <3>2. disk[r].events \in Seq(Events)
      BY <1>1, <3>1, DiskTyped
    <3>3. Own(disk[r].events, f) = {}
      BY <1>1, <1>2, <3>1 DEF FollowUpInv, SilentAt
    <3> QED
      BY <3>1, <3>2, <3>3, NothingTold DEF Recounts
  <2>2. tail' # "broken" => Recounts(disk'[target'[f]], f, <<>>)
    BY <1>2, <1>3, <2>1 DEF storeVars
  <2>3. Following(f, todo[f], <<>>)'
    BY <1>3 DEF Following
  <2>4. <<>> \in Seq(Events)
    BY EmptySeq
  <2> QED
    BY <2>2, <2>3, <2>4 DEF FollowUpAt
<1>6. HeardAt(f)'
  BY <1>4 DEF HeardAt
<1>7. Touches(f)
  BY <1>2, NothingTouched
<1> QED
  BY <1>1, <1>2, <1>3, <1>5, <1>6, <1>7, FollowUpSteps

LEMMA CompleteFollowUpTells ==
    ASSUME TInv, IInv', NEW f \in FollowUps, CompleteFollowUp(f)
    PROVE  TInv'
<1>1. f \in Authors /\ IInv /\ todo[f] # <<>> /\ Head(todo[f])[1] = "chat"
  BY AuthorsDiffer DEF TInv, CompleteFollowUp, At, Comes
<1>2. stage[f] = "busy" /\ FollowUpInv(f) /\ FollowUpAt(f) /\ target[f] \in Runs
  BY <1>1, BusyNow DEF FollowUpInv
<1>3. /\ UNCHANGED <<storeVars, stage, handle, target, answer, unwritten>>
      /\ \A g \in Authors \ {f} : calls'[g] = calls[g]
  BY <1>1 DEF CompleteFollowUp, IInv, AuthorInv
<1>4. answer'[f] # "ok" /\ stage'[f] = "busy"
  BY <1>2, <1>3 DEF FollowUpInv, HeardAt
<1>5. HeardAt(f)'
  BY <1>4 DEF HeardAt
<1>6. tail # "broken" => Recounts(disk[target[f]], f, Lead(f, "started"))
  <2>1. todo[f] # Steps(<<"failed">>)
    BY <1>1, FollowUpLists DEF Begins
  <2> QED
    BY <1>1, <1>2, <2>1, FollowUpHeads DEF FollowUpAt
<1>7. PICK rest : Advance(f, rest) /\ FollowUpAt(f)'
  <2>1. CASE Advance(f, Steps(<<"failed">>))
    <3>1. todo'[f] = Steps(<<"failed">>)
      BY <1>1, <2>1, OwnEntries
    <3> QED
      BY <2>1, <3>1 DEF FollowUpAt
  <2>2. ASSUME NEW c \in Answers, calls' = [calls EXCEPT ![f] = c],
               Advance(f, CallSteps(c) \o Steps(<<"succeeded", "answer">>))
        PROVE  FollowUpAt(f)'
    <3>1. c \in Seq(CallIds) /\ calls'[f] = c
      BY <1>1, <2>2, AuthorsAssumption DEF IInv, AuthorInv
    <3>2. todo'[f] = CallSteps(c) \o Steps(<<"succeeded", "answer">>)
      BY <1>1, <2>2, OwnEntries
    <3>3. "started" \in Types /\ <<>> \in Seq(CallIds)
      BY EmptySeq DEF Types
    <3>4. PICK story \in Seq(Events) :
            story = Lead(f, "started") \o Calling(f, <<>>) /\ story = Lead(f, "started")
      BY <1>1, <3>3, StoryTyped
    <3>5. <<>> \o c = c
      BY <3>1, ConcatEmptySeq
    <3>6. Following(f, todo[f], story)'
      BY <3>1, <3>2, <3>3, <3>4, <3>5 DEF Following
    <3>7. tail' # "broken" => Recounts(disk'[target'[f]], f, story)
      BY <1>3, <1>6, <3>4 DEF storeVars
    <3> QED
      BY <3>6, <3>7 DEF FollowUpAt
  <2> QED
    BY <2>1, <2>2 DEF CompleteFollowUp
<1>8. Touches(f)
  BY <1>3, NothingTouched
<1> QED
  BY <1>1, <1>2, <1>3, <1>4, <1>5, <1>7, <1>8, FollowUpSteps

LEMMA FollowUpEventTells ==
    ASSUME TInv, IInv', NEW f \in FollowUps, NEW outcome, FollowUpEvent(f, outcome)
    PROVE  TInv'
<1> DEFINE e == Event(f, Head(todo[f]))
<1>1. /\ f \in Authors /\ IInv /\ StoreInv
      /\ todo[f] # <<>> /\ Head(todo[f])[1] \in Types
  BY AuthorsDiffer DEF TInv, IInv, FollowUpEvent
<1>2. /\ stage[f] = "busy" /\ FollowUpInv(f) /\ FollowUpAt(f) /\ target[f] \in Runs
      /\ calls[f] \in Seq(CallIds)
  BY <1>1, BusyNow DEF FollowUpInv
<1>3. e \in Events /\ e.by = f
  <2>1. e \in Events
    BY <1>1, NextIsTyped DEF IInv
  <2> QED
    BY <2>1 DEF Event
<1>4. AddEvent(target[f], e, FALSE, outcome) /\ UNCHANGED <<handle, calls, target, unwritten>>
  BY DEF FollowUpEvent
<1>5. answer[f] # "ok"
  BY <1>2 DEF FollowUpInv, HeardAt
<1>6. \/ Return(f, "refused")
      \/ /\ outcome = "ok" /\ Head(todo[f])[1] # "failed"
         /\ Advance(f, Tail(todo[f])) /\ UNCHANGED <<stage, answer>>
  BY DEF FollowUpEvent
<1> HIDE DEF e
<1>7. Touches(f)
      /\ (outcome = "ok" /\ tail' # "broken" =>
            /\ disk[target[f]] \in RunRecords /\ disk'[target[f]] # None
            /\ disk'[target[f]].events = Append(disk[target[f]].events, e))
  BY <1>1, <1>2, <1>3, <1>4, EventTouches
<1>8. CASE Return(f, "refused")
  <2>1. /\ stage'[f] = "returned" /\ answer'[f] = "refused" /\ Advance(f, <<>>)
        /\ \A g \in Authors \ {f} : stage'[g] = stage[g] /\ answer'[g] = answer[g]
    BY <1>1, <1>8 DEF Return, IInv, AuthorInv
  <2>2. HeardAt(f)'
    BY <2>1 DEF HeardAt
  <2> QED
    BY <1>4, <1>7, <2>1, <2>2, FollowUpSteps
<1>9. CASE /\ outcome = "ok" /\ Head(todo[f])[1] # "failed"
           /\ Advance(f, Tail(todo[f])) /\ UNCHANGED <<stage, answer>>
  <2>1. todo'[f] = Tail(todo[f])
    BY <1>1, <1>9, OwnEntries
  <2>2. HeardAt(f)'
    BY <1>5, <1>9 DEF HeardAt
  <2>3. PICK story \in Seq(Events) :
          /\ Following(f, todo[f], story)
          /\ tail # "broken" => Recounts(disk[target[f]], f, story)
    <3>1. todo[f] # Steps(<<"failed">>)
      BY <1>9, FollowUpLists DEF Begins
    <3> QED
      BY <1>2, <3>1 DEF FollowUpAt
  <2>4. PICK told \in Seq(Events) : told = Append(story, e)
    BY <1>3, AppendProperties
  <2>5. Following(f, Tail(todo[f]), told)
    BY <1>1, <1>2, <2>3, <2>4, FollowingGoesOn DEF e
  <2>6. Following(f, todo[f], told)'
    BY <1>4, <2>1, <2>5 DEF Following, FollowUpStory
  <2>7. ASSUME tail' # "broken" PROVE Recounts(disk'[target'[f]], f, told)
    <3>1. tail # "broken"
      BY <1>7, <2>7 DEF Touches
    <3>2. /\ Tells(disk[target[f]].events, f, story)
          /\ disk[target[f]].events \in Seq(Events)
          /\ disk'[target[f]] # None
          /\ disk'[target[f]].events = Append(disk[target[f]].events, e)
      BY <1>7, <1>9, <2>3, <2>7, <3>1 DEF Recounts, RunRecords
    <3>3. Tells(disk'[target[f]].events, f, told)
      BY <1>3, <2>4, <3>2, AuthorTells
    <3> QED
      BY <1>4, <3>2, <3>3 DEF Recounts
  <2>8. FollowUpAt(f)'
    BY <2>6, <2>7 DEF FollowUpAt
  <2> QED
    BY <1>2, <1>4, <1>7, <1>9, <2>2, <2>8, FollowUpSteps
<1> QED
  BY <1>6, <1>8, <1>9

LEMMA FollowUpReplyTells ==
    ASSUME TInv, IInv', NEW f \in FollowUps, FollowUpReply(f)
    PROVE  TInv'
<1>1. f \in Authors /\ IInv /\ todo[f] # <<>> /\ Head(todo[f])[1] = "answer"
  BY AuthorsDiffer DEF TInv, FollowUpReply, At, Comes
<1>2. stage[f] = "busy" /\ FollowUpAt(f) /\ target[f] \in Runs
  BY <1>1, BusyNow DEF FollowUpInv
<1>3. UNCHANGED <<storeVars, handle, calls, target, unwritten>> /\ Return(f, "ok")
  BY DEF FollowUpReply
<1>4. /\ stage'[f] = "returned" /\ Advance(f, <<>>)
      /\ \A g \in Authors \ {f} : stage'[g] = stage[g] /\ answer'[g] = answer[g]
  BY <1>1, <1>3 DEF Return, IInv, AuthorInv
<1>5. tail # "broken" => Recounts(disk[target[f]], f, FollowUpStory(f))
  <2>1. todo[f] # Steps(<<"failed">>)
    BY <1>1, FollowUpLists DEF Begins
  <2> QED
    BY <1>1, <1>2, <2>1, FollowUpHeads DEF FollowUpAt
<1>6. HeardAt(f)'
  BY <1>2, <1>3, <1>4, <1>5 DEF HeardAt, storeVars, FollowUpStory
<1>7. Touches(f)
  BY <1>3, NothingTouched
<1> QED
  BY <1>3, <1>4, <1>6, <1>7, FollowUpSteps
-----------------------------------------------------------------------------
(* The process. *)

\* With the process, the lists ahead are lost: what is kept for those who were
\* answered, and for those who have not started, is about the file.
LEMMA CrashTells ==
    ASSUME TInv, IInv', Crash
    PROVE  TInv'
<1>1. IInv /\ UNCHANGED <<disk, tail, calls, target, answer, unwritten>> /\ ~up'
  BY DEF TInv, Crash, StopProcess
<1>2. /\ \A a \in Authors : /\ todo'[a] = <<>>
                            /\ stage'[a] = IF stage[a] = "busy" THEN "lost" ELSE stage[a]
      /\ \A a \in Requests : handle'[a] = NoHandle
  BY DEF Crash
<1>3. ~NoHandle.finished
  BY DEF NoHandle
<1>4. ASSUME NEW a \in Requests PROVE RequestInv(a)'
  <2>1. a \in Authors /\ RequestInv(a)
    BY AuthorsDiffer DEF TInv
  <2> QED
    BY <1>1, <1>2, <1>3, <2>1 DEF RequestInv, AwakeAt, HandledAt, SettledAt, Settled, IsRunning
<1>5. ASSUME NEW a \in Alerts PROVE AlertInv(a)'
  <2>1. a \in Authors /\ AlertInv(a)
    BY AuthorsDiffer DEF TInv
  <2>2. stage'[a] # "busy"
    BY <1>2, <2>1
  <2>3. Completed(a) => Completed(a)'
    BY <1>1 DEF Completed, AlertStory, Stories
  <2> QED
    BY <1>1, <2>1, <2>2, <2>3 DEF AlertInv, CompletedAt, EvidenceAt
<1>6. ASSUME NEW f \in FollowUps PROVE FollowUpInv(f)'
  <2>1. f \in Authors /\ FollowUpInv(f)
    BY AuthorsDiffer DEF TInv
  <2>2. stage'[f] # "busy" /\ todo'[f] = <<>> /\ (stage'[f] = "idle" => stage[f] = "idle")
    BY <1>2, <2>1
  <2> QED
    BY <1>1, <2>1, <2>2 DEF FollowUpInv, AwakeAt, SilentAt, HeardAt, FollowUpStory
<1> QED
  BY <1>4, <1>5, <1>6 DEF TInv

\* A step that leaves the file and the authors alone.
LEMMA NobodyMoves ==
    ASSUME TInv, IInv', UNCHANGED <<disk, tail, authorVars>>,
           UNCHANGED <<up, runs>> \/ (tail # "broken" /\ runs' = disk)
    PROVE  TInv'
<1>1. ASSUME NEW a \in Requests PROVE RequestInv(a)'
  <2>1. Settled(a) => Settled(a)'
    BY DEF Settled, IsRunning
  <2> QED
    BY <1>1, <2>1 DEF TInv, RequestInv, AwakeAt, HandledAt, SettledAt, authorVars
<1>2. ASSUME NEW a \in Alerts PROVE AlertInv(a)'
  <2>1. AlertInv(a)
    BY <1>2 DEF TInv
  <2>2. /\ (Sure(a)' <=> Sure(a)) /\ (Unfinished(a)' <=> Unfinished(a))
        /\ (Completed(a) => Completed(a)')
    BY DEF authorVars, Sure, Unfinished, Completed, AlertStory, Stories
  <2>3. Listing(a) => Listing(a)'
    BY <2>2 DEF Listing, Before, authorVars
  <2>4. Structuring(a) => Structuring(a)'
    BY <2>2 DEF Structuring, Between, authorVars
  <2>5. Concluding(a) => Concluding(a)'
    BY <2>2 DEF Concluding, After, AlertStory, Stories, authorVars
  <2>6. AlertAt(a) => AlertAt(a)'
    BY <2>2, <2>3, <2>4, <2>5 DEF AlertAt, Answering, Refusing, Leaving, authorVars
  <2> QED
    BY <2>1, <2>2, <2>6 DEF AlertInv, CompletedAt, EvidenceAt, authorVars
<1>3. ASSUME NEW f \in FollowUps PROVE FollowUpInv(f)'
  <2>1. FollowUpInv(f)
    BY <1>3 DEF TInv
  <2>2. FollowUpAt(f) => FollowUpAt(f)'
    BY DEF FollowUpAt, Following, FollowUpStory, authorVars
  <2> QED
    BY <2>1, <2>2 DEF FollowUpInv, AwakeAt, SilentAt, HeardAt, FollowUpStory, authorVars
<1> QED
  BY <1>1, <1>2, <1>3 DEF TInv

LEMMA InitTells ==
    ASSUME Init
    PROVE  TInv
<1>1. IInv
  BY InitKeeps
<1>2. /\ \A a \in Authors : todo[a] = <<>> /\ stage[a] = "idle" /\ answer[a] = "none"
      /\ \A a \in Requests : handle[a] = NoHandle
      /\ \A r \in Runs : disk[r] = None
  BY DEF Init, StoreInit, NoRuns
<1>3. ~NoHandle.finished
  BY DEF NoHandle
<1>4. ASSUME NEW a \in Requests PROVE RequestInv(a)
  BY <1>2, <1>3, AuthorsDiffer DEF RequestInv, AwakeAt, HandledAt, SettledAt
<1>5. ASSUME NEW a \in Alerts PROVE AlertInv(a)
  BY <1>2, AuthorsDiffer DEF AlertInv, CompletedAt, EvidenceAt
<1>6. ASSUME NEW f \in FollowUps PROVE FollowUpInv(f)
  BY <1>2, AuthorsDiffer DEF FollowUpInv, AwakeAt, SilentAt, HeardAt
<1> QED
  BY <1>1, <1>4, <1>5, <1>6 DEF TInv

LEMMA NextTells ==
    ASSUME TInv, [Next]_vars
    PROVE  TInv'
<1>1. IInv'
  BY NextKeeps DEF TInv
<1>2. CASE UNCHANGED vars
  <2>1. UNCHANGED <<disk, tail, authorVars>> /\ UNCHANGED <<up, runs>>
    BY <1>2 DEF vars, storeVars
  <2> QED
    BY <1>1, <2>1, NobodyMoves
<1>3. ASSUME NEW a \in Requests, RequestStep(a) PROVE TInv'
  BY <1>1, <1>3, CompleteTells, StructureTells, ReplyTells, BeginTells, AuditEventTells,
     AuditResultTells, AuditFinishTells, SettleTells DEF RequestStep
<1>4. ASSUME NEW f \in FollowUps, FollowUpStep(f) PROVE TInv'
  BY <1>1, <1>4, AskTells, CompleteFollowUpTells, FollowUpReplyTells, FollowUpEventTells
     DEF FollowUpStep
<1>5. CASE Crash
  BY <1>1, <1>5, CrashTells
<1>6. CASE Restart
  <2>1. UNCHANGED <<disk, tail, authorVars>> /\ tail # "broken" /\ runs' = disk
    BY <1>6 DEF Restart, Open
  <2> QED
    BY <1>1, <2>1, NobodyMoves
<1> QED
  BY <1>2, <1>3, <1>4, <1>5, <1>6 DEF Next

LEMMA StoriesAlways == Spec => []TInv
BY InitTells, NextTells, PTL DEF Spec

\* A job completed as succeeded has the run of the audit store succeeded and
\* concluded, with its own events telling every call once and in order; a
\* follow-up that was answered has its whole story in the run it is about:
\* for any number of requests and follow-ups writing to any runs, whatever
\* appends fail and whenever the process crashes, as long as Open accepts the
\* file (alerts.go:236-280, run_followup.go:54-75).
THEOREM AnsweredAlwaysRecorded == Spec => []AnsweredIsRecorded
<1>1. TInv => AnsweredIsRecorded
  <2> SUFFICES ASSUME TInv, tail # "broken"
               PROVE  AnsweredIsRecorded
    BY DEF AnsweredIsRecorded
  <2>1. ASSUME NEW a \in Alerts, answer[a] = "ok"
        PROVE  /\ disk[a].status = "succeeded" /\ disk[a].concluded
               /\ \E n \in Deliveries :
                    Tells(disk[a].events, a, AlertStory(a) \o Notified(a, n))
    BY <2>1 DEF TInv, AlertInv, CompletedAt, Completed, Recounts, Stories
  <2>2. ASSUME NEW f \in FollowUps, answer[f] = "ok"
        PROVE  Tells(disk[target[f]].events, f, FollowUpStory(f))
    BY <2>2 DEF TInv, FollowUpInv, HeardAt, Recounts
  <2> QED
    BY <2>1, <2>2 DEF AnsweredIsRecorded
<1> QED
  BY <1>1, StoriesAlways, PTL

\* The result of an investigation cites only calls the investigation itself
\* recorded, although the store also knows those of the follow-ups to the same
\* run, which may use the same ids (store.go:277, alerts.go:247-251).
THEOREM EvidenceAlwaysOwn == Spec => []EvidenceIsItsOwn
<1>1. TInv => EvidenceIsItsOwn
  BY DEF TInv, AlertInv, EvidenceAt, CallsOf, EvidenceIsItsOwn
<1> QED
  BY <1>1, StoriesAlways, PTL

\* A request that returned leaves no running run behind, in memory or in a file
\* that Open accepts, whatever appends failed on the way and however the
\* handle's error stands: the deferred failIfRunning tries again what an earlier
\* finish could not write (audit.go:116-130, server.go:379, alerts.go:232).
THEOREM ReturnedAlwaysSettled == Spec => []ReturnedIsSettled
<1>1. TInv => ReturnedIsSettled
  BY DEF TInv, RequestInv, SettledAt, Settled, ReturnedIsSettled
<1> QED
  BY <1>1, StoriesAlways, PTL
===============================================================================
