--------------------------- MODULE AlertStoreProofs ---------------------------
(***************************************************************************)
(* Proofs about AlertStore, for every value of its constants.              *)
(***************************************************************************)
EXTENDS AlertStore, TLAPS

\* While Ingest runs over a batch there is an id for each event left, and the
\* receive time it stamps on jobs is one of Times.
LoopOK ==
    op.phase = "loop" => /\ next + Len(op.todo) <= MaxEvents + 1
                         /\ op.at \in Times

\* The jobs a completion writes are final: what its waiters will be sent.
Finals(r) == \A j \in Ids : r.jobs[j] # None => r.jobs[j].status \in Final
CompletionOK == op.kind = "complete" => Finals(rec)

TypeInv == TypeOK /\ LoopOK /\ CompletionOK
-----------------------------------------------------------------------------
(* The operators on journal contents. *)

\* The empty record is a record.
LEMMA BlankType == BlankRecord \in Contents
  BY DEF BlankRecord, Blank, Contents

\* The free mutex is an operation.
LEMMA IdleType == Idle \in Operations /\ Idle.phase = "idle"
<1>1. <<>> \in Seq(Events \cup {None})
  OBVIOUS
<1> QED
  BY <1>1 DEF Idle, Operations, Kinds

\* Replaying a record over contents yields contents: load never leaves the
\* domain of what Ingest and the queue may store.
LEMMA ReplayType ==
  ASSUME NEW c \in Contents, NEW r \in Contents
  PROVE  Replay(c, r) \in Contents
  BY DEF Contents, Replay, Override

\* An append keeps the journal's variables in their types.
LEMMA AppendType ==
  ASSUME TypeOK, NEW r \in Contents, NEW o \in Outcomes, Append2Journal(r, o)
  PROVE  /\ disk' \in Contents
         /\ tail' \in {"clean", "bare", "torn"}
         /\ faults' \in 0..MaxFaults
<1>1. Replay(disk, r) \in Contents
  BY ReplayType DEF TypeOK
<1>2. disk' \in Contents
  BY <1>1 DEF TypeOK, Append2Journal
<1>3. tail' \in {"clean", "bare", "torn"}
  BY DEF TypeOK, Append2Journal
<1>4. faults' \in 0..MaxFaults
  BY ConstantsAssumption DEF TypeOK, Append2Journal
<1> QED
  BY <1>2, <1>3, <1>4

\* The index a stored event or an open incident is filed under exists.
LEMMA KeyTypes ==
  ASSUME NEW e, e.source \in Sources, e.dedup \in DedupKeys, e.corr \in CorrKeys
  PROVE  DedupeKey(e) \in DedupIndex /\ CorrelationIndex(e) \in CorrIndex
  BY DEF DedupeKey, CorrelationIndex, DedupIndex, CorrIndex

\* Nothing stored is None, and what is not None has its type.
LEMMA NotNone ==
  ASSUME NEW c \in Contents, NEW i \in Ids
  PROVE  /\ c.events[i] # None => c.events[i] \in StoredEvents
         /\ c.incidents[i] # None => c.incidents[i] \in Incidents
         /\ c.jobs[i] # None => c.jobs[i] \in Jobs
  BY DEF Contents
-----------------------------------------------------------------------------
(* Type correctness. *)

\* After the append the mutex is free again, or held with the record in hand.
LEMMA WriteType ==
  ASSUME TypeOK, NEW kind \in Kinds, NEW r \in Contents, NEW o \in Outcomes,
         Write(kind, r, o)
  PROVE  /\ op' \in Operations /\ op'.phase \in {"idle", "written"}
         /\ rec' \in Contents
         /\ o = "ok" => op'.kind = kind /\ op'.phase = "written" /\ rec' = r
         /\ o # "ok" => op' = Idle
<1>1. CASE o = "ok"
  <2>1. op' = [op EXCEPT !.kind = kind, !.phase = "written"] /\ rec' = r
    BY <1>1 DEF Write
  <2>2. op \in Operations
    BY DEF TypeOK
  <2> HIDE DEF Kinds
  <2>3. op' \in Operations /\ op'.kind = kind /\ op'.phase = "written"
    BY <2>1, <2>2 DEF Operations
  <2> QED
    BY <1>1, <2>1, <2>3
<1>2. CASE o # "ok"
  <2>1. op' = Idle /\ rec' = BlankRecord
    BY <1>2 DEF Write
  <2> QED
    BY <1>2, <2>1, IdleType, BlankType
<1> QED
  BY <1>1, <1>2

\* A record written by an operation other than Ingest keeps the types.
LEMMA UpdateType ==
  ASSUME TypeInv, NEW kind \in Kinds, NEW r \in Contents, NEW o \in Outcomes,
         Update(kind, r, o), kind = "complete" => Finals(r)
  PROVE  TypeInv'
<1> USE DEF TypeInv
<1>1. /\ disk' \in Contents
      /\ tail' \in {"clean", "bare", "torn"}
      /\ faults' \in 0..MaxFaults
  BY AppendType DEF Update, Write
<1>2. op' \in Operations /\ rec' \in Contents
  BY WriteType DEF Update
<1>4. workDedupe' \in [DedupIndex -> Ids \cup {0}]
  BY DEF Update, NoDedupe
<1>5. workOpen' \in [CorrIndex -> Ids \cup {0}]
  BY DEF Update, NoOpen, TypeOK
<1>6. op'.phase # "loop"
  BY WriteType DEF Update
<1>7. Memory' \in Contents
  BY DEF Update, memory, Memory, TypeOK
<1>8. TypeOK'
  BY <1>1, <1>2, <1>4, <1>5, <1>7 DEF TypeOK, Update, memory
<1>9. CompletionOK'
  <2>1. CASE o = "ok"
    <3>1. op'.kind = kind /\ rec' = r
      BY <2>1, WriteType DEF Update
    <3> QED
      BY <3>1 DEF CompletionOK, Finals
  <2>2. CASE o # "ok"
    BY <2>2, WriteType DEF Update, CompletionOK, Idle
  <2> QED
    BY <2>1, <2>2
<1> QED
  BY <1>6, <1>8, <1>9 DEF LoopOK

\* The queue's records are records: a job keeps its incident and its event.
LEMMA QueueType ==
  ASSUME TypeInv, NEW o \in Outcomes,
         \/ \E j \in Ids : ClaimNext(j, o)
         \/ \E j \in Ids, st \in Final, run \in Runs \cup {None} :
              CompleteJob(j, st, run, o)
         \/ RecoverRunning(o)
  PROVE  TypeInv'
<1> USE DEF Kinds
<1>1. ASSUME NEW j \in Ids, ClaimNext(j, o)
      PROVE  TypeInv'
  <2> DEFINE r == [BlankRecord EXCEPT
                     !.jobs[j] = [jobs[j] EXCEPT !.status = "running"]]
  <2>1. jobs[j] \in Jobs
    BY <1>1 DEF ClaimNext, Oldest, Pending, TypeInv, TypeOK, Memory, Contents
  <2>2. [jobs[j] EXCEPT !.status = "running"] \in Jobs
    BY <2>1 DEF Jobs
  <2>3. r \in Contents
    BY <2>2, BlankType DEF Contents
  <2> QED
    BY <1>1, <2>3, UpdateType DEF ClaimNext
<1>2. ASSUME NEW j \in Ids, NEW st \in Final, NEW run \in Runs \cup {None},
             CompleteJob(j, st, run, o)
      PROVE  TypeInv'
  <2> DEFINE i == jobs[j].incident
             r == [BlankRecord EXCEPT
                     !.jobs[j] = [jobs[j] EXCEPT !.status = st, !.run = run],
                     !.incidents[i] = LinkRun(incidents[i], run)]
  <2>1. jobs[j] \in Jobs
    BY <1>2 DEF CompleteJob, Running, TypeInv, TypeOK, Memory, Contents
  <2>2. [jobs[j] EXCEPT !.status = st, !.run = run] \in Jobs
    BY <2>1 DEF Jobs
  <2>3. i \in Ids
    BY <2>1 DEF Jobs
  <2>4. incidents[i] \in Incidents \cup {None}
    BY <2>3 DEF TypeInv, TypeOK, Memory, Contents
  <2>5. LinkRun(incidents[i], run) \in Incidents \cup {None}
    BY <2>4 DEF LinkRun, Incidents
  <2> HIDE DEF i
  <2>6. r \in Contents
    BY <2>2, <2>3, <2>5, BlankType DEF Contents
  <2>7. Finals(r)
    BY <2>1 DEF Finals, BlankRecord, Blank, Jobs
  <2> QED
    BY <1>2, <2>6, <2>7, UpdateType DEF CompleteJob, i
<1>3. ASSUME RecoverRunning(o)
      PROVE  TypeInv'
  <2> DEFINE requeued == [j \in Ids |-> IF j \in Running
                THEN [jobs[j] EXCEPT !.status = "pending", !.run = None]
                ELSE None]
             r == [BlankRecord EXCEPT !.jobs = requeued]
  <2>1. \A j \in Running : jobs[j] \in Jobs
    BY DEF Running, TypeInv, TypeOK, Memory, Contents
  <2>2. requeued \in [Ids -> Jobs \cup {None}]
    BY <2>1 DEF Jobs
  <2> HIDE DEF requeued
  <2>3. r \in Contents
    BY <2>2, BlankType DEF Contents
  <2> QED
    BY <1>3, <2>3, UpdateType DEF RecoverRunning, requeued
<1> QED
  BY <1>1, <1>2, <1>3

\* A new event is stored under a fresh id, linked to an incident that exists.
LEMMA IngestNewType ==
  ASSUME TypeInv, IngestNew
  PROVE  TypeInv'
<1> DEFINE e == NextEvent
           inc == IF JoinedIncident(e) = 0 THEN next ELSE JoinedIncident(e)
           stored == [source |-> e.source, dedup |-> e.dedup, corr |-> e.corr,
                      state |-> e.state, incident |-> inc]
<1>1. /\ op \in Operations /\ op.todo # <<>> /\ op.todo \in Seq(Events \cup {None})
      /\ e # None /\ op.phase = "loop"
  BY DEF IngestNew, Looping, Locked, TypeInv, TypeOK, Operations
<1>2. e \in Events
  BY <1>1 DEF NextEvent
<1>3. Len(op.todo) >= 1 /\ Len(op.todo) \in Nat
      /\ Tail(op.todo) \in Seq(Events \cup {None})
      /\ Len(Tail(op.todo)) = Len(op.todo) - 1
  BY <1>1
<1>4. next \in Ids /\ next + Len(op.todo) <= MaxEvents + 1 /\ op.at \in Times
  BY <1>1, <1>3, ConstantsAssumption DEF TypeInv, TypeOK, LoopOK, Ids
<1>5. Staged \in Contents
  BY ReplayType DEF Staged, TypeInv, TypeOK
<1>6. DedupeKey(e) \in DedupIndex /\ CorrelationIndex(e) \in CorrIndex
  BY <1>2, KeyTypes DEF Events
<1>7. JoinedIncident(e) \in Ids \cup {0}
      /\ (JoinedIncident(e) # 0 => Staged.incidents[JoinedIncident(e)] \in Incidents)
  <2>1. workOpen[CorrelationIndex(e)] \in Ids \cup {0}
    BY <1>6 DEF TypeInv, TypeOK
  <2> QED
    BY <2>1, <1>5, NotNone DEF JoinedIncident
<1>8. inc \in Ids
  BY <1>4, <1>7
<1>9. stored \in StoredEvents
  BY <1>2, <1>8 DEF Events, StoredEvents
<1>10. IncidentAfter(e, next) \in Incidents
  <2>1. CASE JoinedIncident(e) = 0
    BY <2>1, <1>2, <1>4 DEF IncidentAfter, Incidents, Events
  <2>2. CASE JoinedIncident(e) # 0
    BY <2>2, <1>2, <1>4, <1>7 DEF IncidentAfter, Incidents, Events
  <2> QED
    BY <2>1, <2>2
<1>11. NewJob(e, next) \in Jobs \cup {None}
  BY <1>4 DEF NewJob, Jobs
<1> HIDE DEF stored
<1>12. rec' \in Contents
  <2>1. rec' = [events |-> [rec.events EXCEPT ![next] = stored],
                incidents |-> [rec.incidents EXCEPT ![inc] = IncidentAfter(e, next)],
                jobs |-> [rec.jobs EXCEPT ![next] = NewJob(e, next)]]
    BY DEF IngestNew, stored
  <2>2. rec \in Contents
    BY DEF TypeInv, TypeOK
  <2> HIDE DEF e, inc
  <2> QED
    BY <2>1, <2>2, <1>4, <1>8, <1>9, <1>10, <1>11 DEF Contents
<1>13. op' = [op EXCEPT !.todo = Tail(op.todo)] /\ next' = next + 1
  BY DEF IngestNew
<1>14. op' \in Operations /\ op'.todo = Tail(op.todo) /\ op'.at = op.at
  BY <1>13, <1>1, <1>3 DEF Operations
<1>15. workDedupe' \in [DedupIndex -> Ids \cup {0}]
  BY <1>4, <1>6 DEF IngestNew, TypeInv, TypeOK
<1>16. workOpen' \in [CorrIndex -> Ids \cup {0}]
  <2>1. workOpen' = [workOpen EXCEPT ![CorrelationIndex(e)] = OpenAfter(e, inc)]
    BY DEF IngestNew
  <2>2. OpenAfter(e, inc) \in Ids \cup {0}
    BY <1>8 DEF OpenAfter
  <2> QED
    BY <2>1, <2>2 DEF TypeInv, TypeOK
<1>17. next' \in 1..(MaxEvents + 1)
  BY <1>3, <1>4, <1>13, ConstantsAssumption DEF Ids
<1>18. TypeOK'
  BY <1>12, <1>14, <1>15, <1>16, <1>17
     DEF IngestNew, TypeInv, TypeOK, Memory, memory, journal
<1>19. LoopOK'
  <2> DEFINE left == Len(op.todo)
  <2>1. next \in Nat /\ left \in Nat /\ MaxEvents \in Nat
    BY <1>3, <1>4, ConstantsAssumption DEF Ids
  <2>2. next + left <= MaxEvents + 1
    BY <1>4
  <2> HIDE DEF left
  <2>3. next + 1 + (left - 1) <= MaxEvents + 1
    BY <2>1, <2>2
  <2>4. Len(op'.todo) = left - 1 /\ next' = next + 1 /\ op'.at \in Times
    BY <1>3, <1>4, <1>13, <1>14 DEF left
  <2> QED
    BY <2>3, <2>4 DEF LoopOK
<1>20. CompletionOK'
  BY <1>1, <1>13 DEF CompletionOK, IngestNew, Looping, Locked, Operations
<1> QED
  BY <1>18, <1>19, <1>20 DEF TypeInv

\* The other steps of a delivery.
LEMMA IngestType ==
  ASSUME TypeInv, Ingest
  PROVE  TypeInv'
<1>1. ASSUME NEW b \in Batches, NEW t \in Times, BeginIngest(b, t)
      PROVE  TypeInv'
  <2>1. b \in Seq(Events \cup {None})
    BY ConstantsAssumption
  <2>2. op' = [kind |-> "ingest", phase |-> "loop", todo |-> b, at |-> t]
    BY <1>1 DEF BeginIngest
  <2>3. op' \in Operations
    BY <2>1, <2>2 DEF Operations, Kinds
  <2>4. LoopOK'
    BY <1>1, <2>2 DEF LoopOK, BeginIngest
  <2>5. workDedupe' \in [DedupIndex -> Ids \cup {0}]
    BY <1>1 DEF BeginIngest, NoDedupe
  <2>6. TypeOK'
    BY <1>1, <2>3, <2>5, BlankType
       DEF BeginIngest, TypeInv, TypeOK, Memory, memory, journal
  <2> QED
    BY <2>2, <2>4, <2>6 DEF TypeInv, CompletionOK
<1>2. ASSUME IngestInvalid
      PROVE  TypeInv'
  <2>1. /\ workDedupe' \in [DedupIndex -> Ids \cup {0}]
        /\ workOpen' \in [CorrIndex -> Ids \cup {0}]
    BY <1>2 DEF IngestInvalid, NoDedupe, NoOpen
  <2>2. op' \in Operations /\ op'.phase = "idle"
    BY <1>2, IdleType DEF IngestInvalid
  <2>3. TypeOK'
    BY <1>2, <2>1, <2>2, BlankType
       DEF IngestInvalid, TypeInv, TypeOK, Memory, memory, journal
  <2> QED
    BY <1>2, <2>2, <2>3 DEF TypeInv, LoopOK, CompletionOK, IngestInvalid, Idle
<1>3. ASSUME IngestDuplicate
      PROVE  TypeInv'
  <2>1. op \in Operations /\ op.todo # <<>> /\ op.phase = "loop"
    BY <1>3 DEF IngestDuplicate, Looping, Locked, TypeInv, TypeOK
  <2>2. op.todo \in Seq(Events \cup {None})
    BY <2>1 DEF Operations
  <2>3. /\ Tail(op.todo) \in Seq(Events \cup {None})
        /\ Len(Tail(op.todo)) = Len(op.todo) - 1 /\ Len(op.todo) \in Nat
    BY <2>1, <2>2
  <2>4. op' = [op EXCEPT !.todo = Tail(op.todo)]
    BY <1>3 DEF IngestDuplicate
  <2>5. op' \in Operations /\ op'.todo = Tail(op.todo) /\ op'.at = op.at
    BY <2>1, <2>3, <2>4 DEF Operations
  <2>6. TypeOK'
    BY <1>3, <2>5 DEF IngestDuplicate, TypeInv, TypeOK, Memory, memory, journal
  <2>7. next' = next /\ next \in Nat
    BY <1>3, ConstantsAssumption DEF IngestDuplicate, TypeInv, TypeOK
  <2>8. next + (Len(op.todo) - 1) <= MaxEvents + 1 /\ op.at \in Times
    BY <2>1, <2>3, <2>7, ConstantsAssumption DEF TypeInv, LoopOK
  <2>9. LoopOK'
    BY <2>3, <2>5, <2>7, <2>8 DEF LoopOK
  <2>10. CompletionOK'
    BY <1>3, <2>1, <2>4
       DEF CompletionOK, IngestDuplicate, Looping, Locked, Operations
  <2> QED
    BY <2>6, <2>9, <2>10 DEF TypeInv
<1>4. ASSUME NEW o \in Outcomes, IngestAppend(o)
      PROVE  TypeInv'
  <2>1. rec \in Contents /\ TypeOK
    BY DEF TypeInv, TypeOK
  <2>2. /\ op' \in Operations /\ op'.phase \in {"idle", "written"}
        /\ rec' \in Contents
    BY <1>4, <2>1, WriteType DEF IngestAppend, Kinds
  <2>3. /\ disk' \in Contents
        /\ tail' \in {"clean", "bare", "torn"}
        /\ faults' \in 0..MaxFaults
    BY <1>4, <2>1, AppendType DEF IngestAppend, Write
  <2>4. /\ workDedupe' \in [DedupIndex -> Ids \cup {0}]
        /\ workOpen' \in [CorrIndex -> Ids \cup {0}]
    BY <1>4, <2>1 DEF IngestAppend, TypeOK, NoDedupe, NoOpen
  <2>5. TypeOK'
    BY <1>4, <2>2, <2>3, <2>4
       DEF IngestAppend, TypeInv, TypeOK, Memory, memory
  <2>6. op'.kind # "complete"
    BY <1>4, <2>1, WriteType DEF IngestAppend, Kinds, Idle
  <2> QED
    BY <2>2, <2>5, <2>6 DEF TypeInv, LoopOK, CompletionOK
<1> QED
  BY <1>1, <1>2, <1>3, <1>4, IngestNewType DEF Ingest

\* Applying a written record keeps the types of the maps.
LEMMA CommitType ==
  ASSUME TypeInv, Commit
  PROVE  TypeInv'
<1>1. Staged \in Contents
  BY ReplayType DEF Staged, TypeInv, TypeOK
<1>2. Memory' = Staged
  BY DEF Commit, Memory, Staged, Replay
<1>3. dedupe' \in [DedupIndex -> Ids \cup {0}]
  BY DEF Commit, TypeInv, TypeOK
<1>4. /\ op' \in Operations /\ op'.phase = "idle"
      /\ rec' \in Contents
      /\ workDedupe' \in [DedupIndex -> Ids \cup {0}]
      /\ workOpen' \in [CorrIndex -> Ids \cup {0}]
  BY IdleType, BlankType DEF Commit, NoDedupe, NoOpen
<1>5. waiters' \in [Waiters -> [job : Ids \cup {0}, got : {"none"} \cup Final]]
  <2>1. ASSUME NEW w \in Waiters
        PROVE  Notified[w] \in [job : Ids \cup {0}, got : {"none"} \cup Final]
    <3>1. waiters[w] \in [job : Ids \cup {0}, got : {"none"} \cup Final]
      BY DEF TypeInv, TypeOK
    <3>2. CASE waiters[w].job # 0 /\ op.kind = "complete"
                 /\ rec.jobs[waiters[w].job] # None
      <4>1. rec.jobs[waiters[w].job].status \in Final
        BY <3>1, <3>2 DEF TypeInv, CompletionOK, Finals
      <4> QED
        BY <3>1, <3>2, <4>1 DEF Notified
    <3>3. CASE ~(waiters[w].job # 0 /\ op.kind = "complete"
                   /\ rec.jobs[waiters[w].job] # None)
      BY <3>1, <3>3 DEF Notified
    <3> QED
      BY <3>2, <3>3
  <2> QED
    BY <2>1 DEF Commit, Notified
<1>6. openIncident' \in [CorrIndex -> Ids \cup {0}] /\ wake' \in BOOLEAN
      /\ acked' \subseteq Ids
  BY DEF Commit, TypeInv, TypeOK
<1>7. TypeOK'
  BY <1>1, <1>2, <1>3, <1>4, <1>5, <1>6 DEF TypeInv, TypeOK, Commit, journal
<1> QED
  BY <1>4, <1>7 DEF TypeInv, LoopOK, CompletionOK, Commit, Idle

\* Opening the store and losing the process.
LEMMA ProcessType ==
  ASSUME TypeInv, OpenStore \/ OpenStoreRefused \/ Crash
  PROVE  TypeInv'
<1>1. CASE OpenStore
  <2>1. Memory' = disk
    BY <1>1 DEF OpenStore, Memory, TypeInv, TypeOK, Contents
  <2>2. /\ dedupe' \in [DedupIndex -> Ids \cup {0}]
        /\ openIncident' \in [CorrIndex -> Ids \cup {0}]
    BY <1>1 DEF OpenStore, DedupeIndexes, OpenIndexes
  <2>3. TypeOK'
    BY <1>1, <2>1, <2>2 DEF TypeInv, TypeOK, OpenStore, work, journal
  <2> QED
    BY <1>1, <2>3 DEF TypeInv, OpenStore, LoopOK, CompletionOK, Finals, work
<1>2. CASE OpenStoreRefused
  <2>1. TypeOK'
    BY <1>2 DEF TypeInv, TypeOK, OpenStoreRefused, memory, Memory, work, journal
  <2> QED
    BY <1>2, <2>1
       DEF TypeInv, OpenStoreRefused, LoopOK, CompletionOK, Finals, work
<1>3. CASE Crash
  <2>1. Memory' \in Contents
    BY <1>3 DEF Crash, Memory, Contents, Blank
  <2>2. /\ op' \in Operations /\ op'.phase = "idle" /\ op'.kind = "none"
        /\ rec' \in Contents
    BY <1>3, IdleType, BlankType DEF Crash, Idle
  <2>3. /\ dedupe' \in [DedupIndex -> Ids \cup {0}]
        /\ openIncident' \in [CorrIndex -> Ids \cup {0}]
        /\ workDedupe' \in [DedupIndex -> Ids \cup {0}]
        /\ workOpen' \in [CorrIndex -> Ids \cup {0}]
        /\ waiters' \in [Waiters -> [job : Ids \cup {0}, got : {"none"} \cup Final]]
    BY <1>3 DEF Crash, NoDedupe, NoOpen, NoWait
  <2>4. TypeOK'
    BY <1>3, <2>1, <2>2, <2>3 DEF TypeInv, TypeOK, Crash, journal
  <2> QED
    BY <2>2, <2>4 DEF TypeInv, LoopOK, CompletionOK
<1> QED
  BY <1>1, <1>2, <1>3

\* Waiting for a job, and taking the wake token.
LEMMA WaitingType ==
  ASSUME TypeInv, Waiting \/ TakeWake
  PROVE  TypeInv'
<1> DEFINE Waits == [job : Ids \cup {0}, got : {"none"} \cup Final]
<1>0. waiters \in [Waiters -> Waits] /\ wake \in BOOLEAN
  BY DEF TypeInv, TypeOK
<1>1. /\ UNCHANGED <<proc, memory, work, journal, next, acked>>
      /\ wake' \in BOOLEAN
      /\ waiters' \in [Waiters -> Waits]
  <2>1. CASE TakeWake
    BY <2>1, <1>0 DEF TakeWake
  <2>2. ASSUME NEW w \in Waiters, WaitReturns(w)
        PROVE  waiters' \in [Waiters -> Waits]
    <3>1. NoWait \in Waits
      BY DEF NoWait
    <3> HIDE DEF Waits
    <3> QED
      BY <2>2, <3>1, <1>0 DEF WaitReturns
  <2>3. ASSUME NEW w \in Waiters, NEW j \in Ids, WaitJob(w, j)
        PROVE  waiters' \in [Waiters -> Waits]
    <3>1. [waiters[w] EXCEPT !.job = j] \in Waits
      BY <1>0
    <3>2. waiters' = [waiters EXCEPT ![w] = [waiters[w] EXCEPT !.job = j]]
      BY <2>3 DEF WaitJob
    <3> HIDE DEF Waits
    <3> QED
      BY <3>1, <3>2, <1>0
  <2>4. CASE Waiting
    <3> HIDE DEF Waits
    <3>1. UNCHANGED <<proc, memory, wake, work, journal, next, acked>>
      BY <2>4 DEF Waiting, WaitReturns, WaitJob
    <3> QED
      BY <2>2, <2>3, <2>4, <3>1, <1>0 DEF Waiting
  <2> QED
    BY <2>1, <2>4
<1>2. TypeOK'
  BY <1>1 DEF TypeInv, TypeOK, memory, Memory, work, journal
<1> QED
  BY <1>1, <1>2 DEF TypeInv, LoopOK, CompletionOK, Finals, work

\* The store starts with its types.
LEMMA InitType == Init => TypeInv
<1> SUFFICES ASSUME Init PROVE TypeInv
  OBVIOUS
<1>1. op \in Operations /\ op.phase = "idle" /\ op.kind = "none"
  BY IdleType DEF Init, Idle
<1>2. Memory \in Contents /\ rec \in Contents /\ disk \in Contents
  BY BlankType DEF Init, Memory, BlankRecord
<1>3. /\ dedupe \in [DedupIndex -> Ids \cup {0}]
      /\ openIncident \in [CorrIndex -> Ids \cup {0}]
      /\ workDedupe \in [DedupIndex -> Ids \cup {0}]
      /\ workOpen \in [CorrIndex -> Ids \cup {0}]
  BY DEF Init, NoDedupe, NoOpen
<1>4. waiters \in [Waiters -> [job : Ids \cup {0}, got : {"none"} \cup Final]]
  BY DEF Init, NoWait
<1>5. next \in 1..(MaxEvents + 1) /\ faults \in 0..MaxFaults
  BY ConstantsAssumption DEF Init
<1>6. TypeOK
  BY <1>1, <1>2, <1>3, <1>4, <1>5 DEF Init, TypeOK
<1> QED
  BY <1>1, <1>6 DEF TypeInv, LoopOK, CompletionOK

\* Every step keeps them.
LEMMA NextType == TypeInv /\ [Next]_storeVars => TypeInv'
<1> SUFFICES ASSUME TypeInv, [Next]_storeVars PROVE TypeInv'
  OBVIOUS
<1>1. CASE OpenStore \/ OpenStoreRefused \/ Crash
  BY <1>1, ProcessType
<1>2. CASE Ingest
  BY <1>2, IngestType
<1>3. CASE QueueStep
  BY <1>3, QueueType DEF QueueStep
<1>4. CASE \E o \in Outcomes : RecoverRunning(o)
  BY <1>4, QueueType
<1>5. CASE Commit
  BY <1>5, CommitType
<1>6. CASE Waiting \/ TakeWake
  BY <1>6, WaitingType
<1>7. CASE UNCHANGED storeVars
  <2>1. TypeOK'
    BY <1>7 DEF storeVars, memory, work, journal, TypeInv, TypeOK, Memory
  <2> QED
    BY <1>7, <2>1
       DEF storeVars, work, TypeInv, LoopOK, CompletionOK, Finals
<1> QED
  BY <1>1, <1>2, <1>3, <1>4, <1>5, <1>6, <1>7 DEF Next

\* The maps, the record in hand and the journal always hold well-formed records,
\* whatever fails, crashes or is delivered.
THEOREM TypeCorrect == Spec => []TypeInv
  BY InitType, NextType, PTL DEF Spec

\* TypeOK, which the run checks on a small instance.
COROLLARY StoreTypeOK == Spec => []TypeOK
<1>1. TypeInv => TypeOK
  BY DEF TypeInv
<1> QED
  BY <1>1, TypeCorrect, PTL
=============================================================================
