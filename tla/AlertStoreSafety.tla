--------------------------- MODULE AlertStoreSafety ---------------------------
(***************************************************************************)
(* Deduplication and correlation, proved for every value of the constants: *)
(* no key is stored twice, no correlation key has two open incidents, and  *)
(* the indexes answer exactly, in memory and after any restart, as long as *)
(* no append is written whole and then reported as failed (Sync's error).  *)
(* Then that events, incidents and jobs belong together, and that the      *)
(* store implements AlertLedger.                                           *)
(*                                                                         *)
(* None of the invariants is inductive alone.  A batch is checked against  *)
(* the working indexes while its record grows, a restart reads the journal *)
(* and not the memory, and the index load rebuilds is one of several when  *)
(* a key is ambiguous.  The strengthening says that memory, the staged     *)
(* maps (memory with the record in hand applied) and the journal each have *)
(* exact indexes, that the journal is one of the other two, and that ids   *)
(* not yet drawn are used nowhere.                                         *)
(***************************************************************************)
EXTENDS AlertStoreProofs

\* Each event is the one its key finds, and each entry finds its event.
DedupExact(E, d) ==
    /\ \A i \in Ids : E[i] # None => d[DedupeKey(E[i])] = i
    /\ \A k \in DedupIndex : d[k] # 0 => E[d[k]] # None /\ DedupeKey(E[d[k]]) = k

\* Each open incident is the one its key finds, each entry an open incident.
OpenExact(I, o) ==
    /\ \A i \in Ids : OpenIncident(I, i) => o[CorrelationIndex(I[i])] = i
    /\ \A c \in CorrIndex : o[c] # 0 =>
         OpenIncident(I, o[c]) /\ CorrelationIndex(I[o[c]]) = c

\* The dedupe index once the record in hand is applied.
Merged == [k \in DedupIndex |->
             IF workDedupe[k] = 0 THEN dedupe[k] ELSE workDedupe[k]]

Fresh ==
    \A i \in Ids : i >= next =>
        /\ events[i] = None /\ incidents[i] = None
        /\ rec.events[i] = None /\ rec.incidents[i] = None
        /\ disk.events[i] = None /\ disk.incidents[i] = None

StoppedIdle == proc # "up" => op.phase = "idle"

MemoryExact ==
    proc = "up" => DedupExact(events, dedupe) /\ OpenExact(incidents, openIncident)

StagedExact ==
    proc = "up" /\ op.phase # "idle" =>
        DedupExact(Staged.events, Merged) /\ OpenExact(Staged.incidents, workOpen)

JournalExact ==
    proc = "up" /\ tail = "clean" =>
        disk = IF op.phase = "written" THEN Staged ELSE Memory

DiskExact == Readable => DedupUnique(disk.events) /\ OneOpen(disk.incidents)

IInv == /\ TypeInv
        /\ Fresh /\ StoppedIdle
        /\ MemoryExact /\ StagedExact
        /\ JournalExact /\ DiskExact
-----------------------------------------------------------------------------
(* The indexes. *)

\* Applying a record, entry by entry.
LEMMA ReplayAt ==
  ASSUME NEW c, NEW r, NEW i \in Ids
  PROVE  /\ Replay(c, r).events[i] =
              IF r.events[i] = None THEN c.events[i] ELSE r.events[i]
         /\ Replay(c, r).incidents[i] =
              IF r.incidents[i] = None THEN c.incidents[i] ELSE r.incidents[i]
  BY DEF Replay, Override

\* With an exact index no key is ambiguous.
LEMMA ExactUnique ==
  ASSUME NEW E, NEW I, NEW d, NEW o, DedupExact(E, d), OpenExact(I, o)
  PROVE  DedupUnique(E) /\ OneOpen(I)
<1>1. DedupUnique(E)
  BY DEF DedupUnique, DedupExact, StoredEvent
<1>2. OneOpen(I)
  BY DEF OneOpen, OpenExact
<1> QED
  BY <1>1, <1>2

\* With no ambiguous key, whichever index load builds is exact.
LEMMA LoadExact ==
  ASSUME NEW c \in Contents, DedupUnique(c.events), OneOpen(c.incidents),
         NEW d \in DedupeIndexes(c.events), NEW o \in OpenIndexes(c.incidents)
  PROVE  DedupExact(c.events, d) /\ OpenExact(c.incidents, o)
<1>1. ASSUME NEW i \in Ids, c.events[i] # None
      PROVE  d[DedupeKey(c.events[i])] = i
  <2>1. DedupeKey(c.events[i]) \in DedupIndex
    BY <1>1, NotNone DEF StoredEvents, DedupeKey, DedupIndex
  <2>2. d[DedupeKey(c.events[i])] # 0
    BY <1>1, <2>1 DEF DedupeIndexes
  <2> QED
    BY <1>1, <2>1, <2>2 DEF DedupeIndexes, DedupUnique, StoredEvent
<1>2. \A k \in DedupIndex : d[k] # 0 => c.events[d[k]] # None
                                       /\ DedupeKey(c.events[d[k]]) = k
  BY DEF DedupeIndexes
<1>3. ASSUME NEW i \in Ids, OpenIncident(c.incidents, i)
      PROVE  o[CorrelationIndex(c.incidents[i])] = i
  <2>1. CorrelationIndex(c.incidents[i]) \in CorrIndex
    BY <1>3, NotNone DEF OpenIncident, Incidents, CorrelationIndex, CorrIndex
  <2>2. o[CorrelationIndex(c.incidents[i])] # 0
    BY <1>3, <2>1 DEF OpenIndexes, OpenIncident
  <2> QED
    BY <1>3, <2>1, <2>2 DEF OpenIndexes, OneOpen, OpenIncident
<1>4. \A k \in CorrIndex : o[k] # 0 => OpenIncident(c.incidents, o[k])
                               /\ CorrelationIndex(c.incidents[o[k]]) = k
  BY DEF OpenIndexes, OpenIncident
<1> QED
  BY <1>1, <1>2, <1>3, <1>4 DEF DedupExact, OpenExact

\* Conversely an exact index is one load may build.
LEMMA ExactIndex ==
  ASSUME NEW E, NEW I,
         NEW d \in [DedupIndex -> Ids \cup {0}], NEW o \in [CorrIndex -> Ids \cup {0}],
         DedupExact(E, d), OpenExact(I, o)
  PROVE  d \in DedupeIndexes(E) /\ o \in OpenIndexes(I)
<1>0. 0 \notin Ids
  BY DEF Ids
<1>1. d \in DedupeIndexes(E)
  BY <1>0 DEF DedupExact, DedupeIndexes
<1>2. o \in OpenIndexes(I)
  BY <1>0 DEF OpenExact, OpenIndexes, OpenIncident
<1> QED
  BY <1>1, <1>2

\* Exactness depends on the entries only.
LEMMA SameExact ==
  ASSUME NEW E, NEW F, NEW d, NEW g, DedupExact(E, d),
         \A i \in Ids : F[i] = E[i], \A k \in DedupIndex : g[k] = d[k],
         \A i \in Ids : E[i] # None => DedupeKey(E[i]) \in DedupIndex,
         \A k \in DedupIndex : d[k] \in Ids \cup {0}
  PROVE  DedupExact(F, g)
  BY DEF DedupExact

\* An incident that keeps its key and its state is found as before.
LEMMA SameOpenExact ==
  ASSUME NEW I, NEW J, NEW o, OpenExact(I, o),
         \A c \in CorrIndex : o[c] \in Ids \cup {0},
         \A i \in Ids : \/ J[i] = I[i]
                       \/ /\ I[i] # None /\ J[i] # None
                          /\ J[i].state = I[i].state
                          /\ J[i].source = I[i].source /\ J[i].corr = I[i].corr
  PROVE  OpenExact(J, o)
  BY DEF OpenExact, OpenIncident, CorrelationIndex
-----------------------------------------------------------------------------
(* The append, and the record of an operation. *)

\* The append of a record whose replay is unambiguous leaves the journal equal
\* to what the operation then holds, or unfit to be read, or already complete.
LEMMA AppendExact ==
  ASSUME IInv, NEW kind \in Kinds, NEW r \in Contents,
         NEW o \in Outcomes, o # "unsynced",
         proc = "up", op.phase # "written", UNCHANGED <<proc, memory>>,
         Write(kind, r, o),
         DedupUnique(Replay(Memory, r).events), OneOpen(Replay(Memory, r).incidents)
  PROVE  JournalExact' /\ DiskExact'
<1>1. o \in {"ok", "none", "bare", "torn"}
  BY ConstantsAssumption DEF Outcomes
<1>2. Memory' = Memory
  BY DEF memory, Memory
<1>3. tail = "clean" => disk = Memory
  BY DEF IInv, JournalExact
<1>4. /\ disk' = IF tail = "clean" /\ o \in {"ok", "bare"}
                 THEN Replay(disk, r) ELSE disk
      /\ tail' = IF o = "none" THEN tail
                 ELSE IF ~(tail = "clean" /\ o \in {"ok", "bare"}) THEN "torn"
                 ELSE IF o = "bare" THEN "bare" ELSE "clean"
  BY <1>1 DEF Write, Append2Journal
<1>5. DiskExact'
  <2>1. CASE tail = "clean" /\ o \in {"ok", "bare"}
    BY <2>1, <1>3, <1>4 DEF DiskExact
  <2>2. CASE ~(tail = "clean" /\ o \in {"ok", "bare"})
    BY <2>2, <1>4 DEF DiskExact, Readable, IInv
  <2> QED
    BY <2>1, <2>2
<1>6. JournalExact'
  <2>1. CASE o = "ok"
    <3>1. op'.phase = "written" /\ rec' = r
      BY <2>1, WriteType DEF IInv, TypeInv
    <3>2. tail' = "clean" => disk' = Replay(Memory, r)
      BY <2>1, <1>3, <1>4
    <3>3. Staged' = Replay(Memory, r)
      BY <3>1, <1>2 DEF Staged
    <3> QED
      BY <3>1, <3>2, <3>3 DEF JournalExact
  <2>2. CASE o # "ok"
    <3>1. op'.phase = "idle"
      BY <2>2, WriteType, IdleType DEF IInv, TypeInv
    <3>2. tail' = "clean" => disk' = disk /\ tail = "clean"
      BY <2>2, <1>1, <1>4
    <3> QED
      BY <3>1, <3>2, <1>2, <1>3 DEF JournalExact
  <2> QED
    BY <2>1, <2>2
<1> QED
  BY <1>5, <1>6

\* What an append writes uses no id not yet drawn.
LEMMA AppendFresh ==
  ASSUME IInv, NEW kind \in Kinds, NEW r \in Contents, NEW o \in Outcomes,
         UNCHANGED <<memory, next>>, Write(kind, r, o),
         \A i \in Ids : i >= next => r.events[i] = None /\ r.incidents[i] = None
  PROVE  Fresh'
<1>1. disk' = Replay(disk, r) \/ disk' = disk
  BY DEF Write, Append2Journal
<1>2. rec' = r \/ rec' = BlankRecord
  BY DEF Write
<1>3. ASSUME NEW i \in Ids, i >= next'
      PROVE  /\ disk'.events[i] = None /\ disk'.incidents[i] = None
             /\ rec'.events[i] = None /\ rec'.incidents[i] = None
             /\ events'[i] = None /\ incidents'[i] = None
  <2>1. i >= next
    BY <1>3
  <2>2. /\ r.events[i] = None /\ r.incidents[i] = None
        /\ disk.events[i] = None /\ disk.incidents[i] = None
        /\ events[i] = None /\ incidents[i] = None
    BY <2>1 DEF IInv, Fresh
  <2>3. disk'.events[i] = None /\ disk'.incidents[i] = None
    BY <1>1, <2>2, ReplayAt
  <2>4. rec'.events[i] = None /\ rec'.incidents[i] = None
    BY <1>2, <2>2 DEF BlankRecord, Blank
  <2> QED
    BY <2>2, <2>3, <2>4 DEF memory
<1> QED
  BY <1>3 DEF Fresh

\* A record that stores no event and keeps the key and the state of incidents.
KeepsIncidents(r) ==
    \A i \in Ids :
        /\ r.events[i] = None
        /\ r.incidents[i] # None =>
             /\ incidents[i] # None
             /\ r.incidents[i].state = incidents[i].state
             /\ r.incidents[i].source = incidents[i].source
             /\ r.incidents[i].corr = incidents[i].corr

\* Every operation of the job queue preserves the invariant.
LEMMA UpdateExact ==
  ASSUME IInv, NEW kind \in Kinds, NEW r \in Contents,
         NEW o \in Outcomes, o # "unsynced",
         Unlocked, Update(kind, r, o), KeepsIncidents(r), TypeInv'
  PROVE  IInv'
<1>1. /\ proc = "up" /\ op.phase = "idle" /\ Write(kind, r, o)
      /\ UNCHANGED <<proc, memory, next>>
      /\ workDedupe' = NoDedupe
      /\ workOpen' = IF o = "ok" THEN openIncident ELSE NoOpen
  BY DEF Unlocked, Update
<1>2. Memory' = Memory /\ dedupe' = dedupe /\ openIncident' = openIncident
      /\ events' = events /\ incidents' = incidents
  BY <1>1 DEF memory, Memory
<1>3. /\ Memory \in Contents
      /\ dedupe \in [DedupIndex -> Ids \cup {0}]
      /\ openIncident \in [CorrIndex -> Ids \cup {0}]
  BY DEF IInv, TypeInv, TypeOK
<1>4. DedupExact(events, dedupe) /\ OpenExact(incidents, openIncident)
  BY <1>1 DEF IInv, MemoryExact
<1> DEFINE S == Replay(Memory, r)
<1>5. DedupExact(S.events, dedupe)
  <2>1. \A i \in Ids : S.events[i] = events[i]
    BY ReplayAt DEF KeepsIncidents, Memory
  <2>2. \A i \in Ids : events[i] # None => DedupeKey(events[i]) \in DedupIndex
    BY <1>3, NotNone DEF Memory, StoredEvents, DedupeKey, DedupIndex
  <2>3. \A k \in DedupIndex : dedupe[k] \in Ids \cup {0}
    BY <1>3
  <2> QED
    BY <1>4, <2>1, <2>2, <2>3, SameExact
<1>6. OpenExact(S.incidents, openIncident)
  <2>1. \A i \in Ids : \/ S.incidents[i] = incidents[i]
                      \/ /\ incidents[i] # None /\ S.incidents[i] # None
                         /\ S.incidents[i].state = incidents[i].state
                         /\ S.incidents[i].source = incidents[i].source
                         /\ S.incidents[i].corr = incidents[i].corr
    BY ReplayAt DEF KeepsIncidents, Memory
  <2>2. \A c \in CorrIndex : openIncident[c] \in Ids \cup {0}
    BY <1>3
  <2> HIDE DEF S
  <2> QED
    BY <1>4, <2>1, <2>2, SameOpenExact
<1>7. DedupUnique(S.events) /\ OneOpen(S.incidents)
  BY <1>5, <1>6, ExactUnique
<1>8. JournalExact' /\ DiskExact'
  BY <1>1, <1>7, AppendExact
<1>9. Fresh'
  <2>1. \A i \in Ids : i >= next => r.events[i] = None /\ r.incidents[i] = None
    BY DEF KeepsIncidents, IInv, Fresh
  <2> QED
    BY <1>1, <2>1, AppendFresh
<1>10. MemoryExact'
  BY <1>2, <1>4 DEF MemoryExact
<1>11. StagedExact'
  <2>1. CASE o = "ok"
    <3>1. rec' = r
      BY <2>1, <1>1, WriteType DEF IInv, TypeInv
    <3>2. Staged' = S
      BY <3>1, <1>2 DEF Staged
    <3>3. workOpen' = openIncident
      BY <2>1, <1>1
    <3>4. Merged' = dedupe
      BY <1>1, <1>2, <1>3 DEF Merged, NoDedupe
    <3> HIDE DEF S
    <3> QED
      BY <3>2, <3>3, <3>4, <1>5, <1>6 DEF StagedExact
  <2>2. CASE o # "ok"
    <3>1. op'.phase = "idle"
      BY <2>2, <1>1, WriteType, IdleType DEF IInv, TypeInv
    <3> QED
      BY <3>1 DEF StagedExact
  <2> QED
    BY <2>1, <2>2
<1>12. StoppedIdle'
  BY <1>1 DEF StoppedIdle
<1> QED
  BY <1>8, <1>9, <1>10, <1>11, <1>12 DEF IInv

\* Claiming, completing and recovering jobs.
LEMMA QueueExact ==
  ASSUME IInv, NEW o \in Outcomes, o # "unsynced", TypeInv',
         \/ \E j \in Ids : ClaimNext(j, o)
         \/ \E j \in Ids, st \in Final, run \in Runs \cup {None} :
              CompleteJob(j, st, run, o)
         \/ RecoverRunning(o)
  PROVE  IInv'
<1> USE DEF Kinds
<1>0. Memory \in Contents
  BY DEF IInv, TypeInv, TypeOK
<1>1. ASSUME NEW j \in Ids, ClaimNext(j, o)
      PROVE  IInv'
  <2> DEFINE r == [BlankRecord EXCEPT
                     !.jobs[j] = [jobs[j] EXCEPT !.status = "running"]]
  <2>1. jobs[j] \in Jobs
    BY <1>0, <1>1 DEF ClaimNext, Oldest, Pending, Memory, Contents
  <2>2. [jobs[j] EXCEPT !.status = "running"] \in Jobs
    BY <2>1 DEF Jobs
  <2>3. r \in Contents
    BY <2>2, BlankType DEF Contents
  <2>4. KeepsIncidents(r)
    BY DEF KeepsIncidents, BlankRecord, Blank
  <2> QED
    BY <1>1, <2>3, <2>4, UpdateExact DEF ClaimNext
<1>2. ASSUME NEW j \in Ids, NEW st \in Final, NEW run \in Runs \cup {None},
             CompleteJob(j, st, run, o)
      PROVE  IInv'
  <2> DEFINE i == jobs[j].incident
             linked == LinkRun(incidents[i], run)
             r == [BlankRecord EXCEPT
                     !.jobs[j] = [jobs[j] EXCEPT !.status = st, !.run = run],
                     !.incidents[i] = linked]
  <2>1. jobs[j] \in Jobs
    BY <1>0, <1>2 DEF CompleteJob, Running, Memory, Contents
  <2>2. [jobs[j] EXCEPT !.status = st, !.run = run] \in Jobs
    BY <2>1 DEF Jobs
  <2>3. i \in Ids
    BY <2>1 DEF Jobs
  <2>4. incidents[i] \in Incidents \cup {None}
    BY <1>0, <2>3 DEF Memory, Contents
  <2>5. /\ linked \in Incidents \cup {None}
        /\ linked # None =>
             /\ incidents[i] # None /\ linked.state = incidents[i].state
             /\ linked.source = incidents[i].source
             /\ linked.corr = incidents[i].corr
    BY <2>4 DEF LinkRun, Incidents
  <2> HIDE DEF i, linked
  <2>6. r \in Contents
    BY <2>2, <2>3, <2>5, BlankType DEF Contents
  <2>7. KeepsIncidents(r)
    BY <2>3, <2>5 DEF KeepsIncidents, BlankRecord, Blank
  <2> QED
    BY <1>2, <2>6, <2>7, UpdateExact DEF CompleteJob, i, linked
<1>3. ASSUME RecoverRunning(o)
      PROVE  IInv'
  <2> DEFINE requeued == [j \in Ids |-> IF j \in Running
                THEN [jobs[j] EXCEPT !.status = "pending", !.run = None]
                ELSE None]
             r == [BlankRecord EXCEPT !.jobs = requeued]
  <2>1. \A j \in Running : jobs[j] \in Jobs
    BY <1>0 DEF Running, Memory, Contents
  <2>2. requeued \in [Ids -> Jobs \cup {None}]
    BY <2>1 DEF Jobs
  <2> HIDE DEF requeued
  <2>3. r \in Contents
    BY <2>2, BlankType DEF Contents
  <2>4. KeepsIncidents(r)
    BY DEF KeepsIncidents, BlankRecord, Blank
  <2> QED
    BY <1>3, <2>3, <2>4, UpdateExact DEF RecoverRunning, requeued
<1> QED
  BY <1>1, <1>2, <1>3
-----------------------------------------------------------------------------
(* A delivery. *)

\* A new event is filed under its key, and its incident under its own: the
\* working indexes stay exact for the maps the record will leave.
LEMMA IngestNewExact ==
  ASSUME IInv, IngestNew, TypeInv'
  PROVE  IInv'
<1> DEFINE e == NextEvent
           J == JoinedIncident(e)
           inc == IF J = 0 THEN next ELSE J
           k0 == DedupeKey(e)
           c0 == CorrelationIndex(e)
           stored == [source |-> e.source, dedup |-> e.dedup, corr |-> e.corr,
                      state |-> e.state, incident |-> inc]
           after == IncidentAfter(e, next)
<1>1. /\ op \in Operations /\ op.todo # <<>> /\ op.todo \in Seq(Events \cup {None})
      /\ proc = "up" /\ op.phase = "loop" /\ e # None /\ KnownEvent(e) = 0
  BY DEF IngestNew, Looping, Locked, IInv, TypeInv, TypeOK, Operations
<1>2. e \in Events
  BY <1>1 DEF NextEvent
<1>3. next \in Ids /\ next \in Nat
  <2> DEFINE left == Len(op.todo)
  <2>1. left \in Nat /\ left >= 1
    BY <1>1
  <2>2. next + left <= MaxEvents + 1 /\ next \in 1..(MaxEvents + 1)
    BY <1>1 DEF IInv, TypeInv, TypeOK, LoopOK
  <2> HIDE DEF left
  <2> QED
    BY <2>1, <2>2, ConstantsAssumption DEF Ids
<1>4. k0 \in DedupIndex /\ c0 \in CorrIndex
  BY <1>2, KeyTypes DEF Events
<1>5. /\ rec \in Contents /\ Staged \in Contents
      /\ workDedupe \in [DedupIndex -> Ids \cup {0}]
      /\ dedupe \in [DedupIndex -> Ids \cup {0}]
      /\ workOpen \in [CorrIndex -> Ids \cup {0}]
  BY ReplayType DEF Staged, IInv, TypeInv, TypeOK
<1>6. DedupExact(Staged.events, Merged) /\ OpenExact(Staged.incidents, workOpen)
  BY <1>1 DEF IInv, StagedExact
<1>7. Staged.events[next] = None /\ Staged.incidents[next] = None
  BY <1>3, ReplayAt DEF IInv, Fresh, Staged, Memory
<1>8. 0 \notin Ids
  BY DEF Ids
<1>9. J = workOpen[c0]
  BY <1>4, <1>6 DEF JoinedIncident, OpenExact, OpenIncident
<1>10. J # 0 => /\ J \in Ids /\ Staged.incidents[J] # None /\ J # next
                /\ CorrelationIndex(Staged.incidents[J]) = c0
  BY <1>4, <1>6, <1>7, <1>9 DEF OpenExact, OpenIncident
<1>11. inc \in Ids
  BY <1>3, <1>10
<1>12. /\ rec' = [events |-> [rec.events EXCEPT ![next] = stored],
                 incidents |-> [rec.incidents EXCEPT ![inc] = after],
                 jobs |-> [rec.jobs EXCEPT ![next] = NewJob(e, next)]]
       /\ workDedupe' = [workDedupe EXCEPT ![k0] = next]
       /\ workOpen' = [workOpen EXCEPT ![c0] = OpenAfter(e, inc)]
       /\ next' = next + 1 /\ op' = [op EXCEPT !.todo = Tail(@)]
       /\ UNCHANGED <<proc, memory, journal>>
  BY DEF IngestNew
<1>13. stored # None /\ DedupeKey(stored) = k0
  <2>1. stored \in StoredEvents
    BY <1>2, <1>11 DEF Events, StoredEvents
  <2> QED
    BY <2>1, NoneAssumption DEF DedupeKey
<1>14. after # None /\ after.state = e.state /\ CorrelationIndex(after) = c0
  <2>1. CASE J = 0
    <3>1. after \in Incidents
      BY <2>1, <1>2, <1>3 DEF IncidentAfter, Incidents, Events
    <3> QED
      BY <2>1, <3>1, NoneAssumption DEF IncidentAfter, CorrelationIndex
  <2>2. CASE J # 0
    <3>1. Staged.incidents[J] \in Incidents
      BY <2>2, <1>5, <1>10, NotNone
    <3>2. after = [Staged.incidents[J] EXCEPT
                     !.state = e.state, !.events = @ \cup {next}]
      BY <2>2 DEF IncidentAfter
    <3>3. e.state \in States
      BY <1>2 DEF Events
    <3> HIDE DEF after, J, e
    <3>4. /\ after \in Incidents /\ after.state = e.state
          /\ after.source = Staged.incidents[J].source
          /\ after.corr = Staged.incidents[J].corr
      BY <3>1, <3>2, <3>3, <1>3 DEF Incidents
    <3> QED
      BY <2>2, <3>4, <1>10, NoneAssumption DEF CorrelationIndex
  <2> QED
    BY <2>1, <2>2
<1> HIDE DEF e, J, inc, k0, c0, stored, after
<1>15. Memory' = Memory /\ dedupe' = dedupe /\ openIncident' = openIncident
       /\ events' = events /\ incidents' = incidents
       /\ disk' = disk /\ tail' = tail
  BY <1>12 DEF memory, Memory, journal
<1>16. \A i \in Ids :
         /\ Staged'.events[i] = IF i = next THEN stored ELSE Staged.events[i]
         /\ Staged'.incidents[i] = IF i = inc THEN after ELSE Staged.incidents[i]
  <2>1. \A i \in Ids :
          /\ rec'.events[i] = IF i = next THEN stored ELSE rec.events[i]
          /\ rec'.incidents[i] = IF i = inc THEN after ELSE rec.incidents[i]
    BY <1>3, <1>5, <1>11, <1>12 DEF Contents
  <2>2. Staged' = Replay(Memory, rec')
    BY <1>15 DEF Staged
  <2> QED
    BY <2>1, <2>2, <1>13, <1>14, ReplayAt DEF Staged
<1>17. DedupExact(Staged'.events, Merged')
  <2>1. Merged[k0] = 0
    BY <1>1, <1>4 DEF Merged, KnownEvent, k0, e
  <2>2. \A k \in DedupIndex : Merged'[k] = IF k = k0 THEN next ELSE Merged[k]
    BY <1>3, <1>4, <1>5, <1>8, <1>12, <1>15 DEF Merged
  <2>3. \A i \in Ids : Staged.events[i] # None =>
          DedupeKey(Staged.events[i]) \in DedupIndex
    BY <1>5, NotNone DEF StoredEvents, DedupeKey, DedupIndex
  <2>4. ASSUME NEW i \in Ids, Staged'.events[i] # None
        PROVE  Merged'[DedupeKey(Staged'.events[i])] = i
    <3>1. CASE i = next
      BY <3>1, <2>2, <1>3, <1>4, <1>13, <1>16
    <3>2. CASE i # next
      BY <3>2, <2>1, <2>2, <2>3, <2>4, <1>6, <1>8, <1>16 DEF DedupExact
    <3> QED
      BY <3>1, <3>2
  <2>5. ASSUME NEW k \in DedupIndex, Merged'[k] # 0
        PROVE  Staged'.events[Merged'[k]] # None
               /\ DedupeKey(Staged'.events[Merged'[k]]) = k
    <3>1. CASE k = k0
      BY <3>1, <2>2, <1>3, <1>13, <1>16
    <3>2. CASE k # k0
      <4>1. Merged'[k] = Merged[k] /\ Merged[k] \in Ids
        BY <3>2, <2>2, <2>5, <1>5 DEF Merged
      <4>2. Staged.events[Merged[k]] # None
            /\ DedupeKey(Staged.events[Merged[k]]) = k
        BY <2>5, <4>1, <1>6 DEF DedupExact
      <4> QED
        BY <4>1, <4>2, <1>7, <1>16
    <3> QED
      BY <3>1, <3>2
  <2> QED
    BY <2>4, <2>5 DEF DedupExact
<1>18. OpenExact(Staged'.incidents, workOpen')
  <2>1. \A c \in CorrIndex :
          workOpen'[c] = IF c = c0 THEN OpenAfter(e, inc) ELSE workOpen[c]
    BY <1>4, <1>5, <1>12
  <2>2. \A i \in Ids : Staged.incidents[i] # None =>
          CorrelationIndex(Staged.incidents[i]) \in CorrIndex
    BY <1>5, NotNone DEF Incidents, CorrelationIndex, CorrIndex
  <2>3. J # 0 => inc = J
    BY DEF inc
  <2>4. J = 0 => inc = next
    BY DEF inc
  <2>5. ASSUME NEW i \in Ids, OpenIncident(Staged'.incidents, i)
        PROVE  workOpen'[CorrelationIndex(Staged'.incidents[i])] = i
    <3>1. CASE i = inc
      <4>1. e.state = "firing"
        BY <3>1, <2>5, <1>14, <1>16 DEF OpenIncident
      <4> QED
        BY <3>1, <4>1, <2>1, <1>4, <1>14, <1>16 DEF OpenAfter
    <3>2. CASE i # inc
      <4>1. OpenIncident(Staged.incidents, i)
            /\ Staged'.incidents[i] = Staged.incidents[i]
        BY <3>2, <2>5, <1>16 DEF OpenIncident
      <4>2. workOpen[CorrelationIndex(Staged.incidents[i])] = i
        BY <4>1, <1>6 DEF OpenExact
      <4>3. CorrelationIndex(Staged.incidents[i]) # c0
        BY <3>2, <4>2, <2>3, <1>8, <1>9
      <4> QED
        BY <4>1, <4>2, <4>3, <2>1, <2>2 DEF OpenIncident
    <3> QED
      BY <3>1, <3>2
  <2>6. ASSUME NEW c \in CorrIndex, workOpen'[c] # 0
        PROVE  OpenIncident(Staged'.incidents, workOpen'[c])
               /\ CorrelationIndex(Staged'.incidents[workOpen'[c]]) = c
    <3>1. CASE c = c0
      <4>1. workOpen'[c] = inc /\ e.state = "firing"
        BY <3>1, <2>1, <2>6 DEF OpenAfter
      <4> QED
        BY <3>1, <4>1, <1>11, <1>14, <1>16 DEF OpenIncident
    <3>2. CASE c # c0
      <4>1. workOpen'[c] = workOpen[c]
        BY <3>2, <2>1
      <4>2. OpenIncident(Staged.incidents, workOpen[c])
            /\ CorrelationIndex(Staged.incidents[workOpen[c]]) = c
        BY <2>6, <4>1, <1>6 DEF OpenExact
      <4>3. workOpen[c] # inc
        BY <3>2, <4>2, <2>3, <2>4, <1>7, <1>10 DEF OpenIncident
      <4> QED
        BY <4>1, <4>2, <4>3, <1>16 DEF OpenIncident
    <3> QED
      BY <3>1, <3>2
  <2> QED
    BY <2>5, <2>6 DEF OpenExact
<1>19. Fresh'
  <2>1. ASSUME NEW i \in Ids, i >= next'
        PROVE  /\ events'[i] = None /\ incidents'[i] = None
               /\ rec'.events[i] = None /\ rec'.incidents[i] = None
               /\ disk'.events[i] = None /\ disk'.incidents[i] = None
    <3>1. i >= next /\ i # next
      BY <2>1, <1>3, <1>12, ConstantsAssumption DEF Ids
    <3>2. /\ events[i] = None /\ incidents[i] = None
          /\ rec.events[i] = None /\ rec.incidents[i] = None
          /\ disk.events[i] = None /\ disk.incidents[i] = None
      BY <3>1 DEF IInv, Fresh
    <3>3. Staged.incidents[i] = None
      BY <3>2, ReplayAt DEF Staged, Memory
    <3>4. i # inc
      BY <3>1, <3>3, <1>10 DEF inc
    <3>5. rec'.events[i] = None /\ rec'.incidents[i] = None
      BY <3>1, <3>2, <3>4, <1>5, <1>12 DEF Contents
    <3> QED
      BY <3>2, <3>5, <1>15
  <2> QED
    BY <2>1 DEF Fresh
<1>20. op'.phase = "loop" /\ proc' = "up"
  BY <1>1, <1>12 DEF Operations
<1>21. /\ MemoryExact' /\ StagedExact' /\ StoppedIdle'
  BY <1>15, <1>17, <1>18, <1>20, <1>1
     DEF IInv, MemoryExact, StagedExact, StoppedIdle
<1>22. JournalExact' /\ DiskExact'
  BY <1>15, <1>20, <1>1 DEF IInv, JournalExact, DiskExact, Readable
<1> QED
  BY <1>19, <1>21, <1>22 DEF IInv

\* The other steps of a delivery.
LEMMA IngestExact ==
  ASSUME "unsynced" \notin Faults, IInv, Ingest, TypeInv'
  PROVE  IInv'
<1>0. /\ Memory \in Contents /\ rec \in Contents /\ op \in Operations
      /\ dedupe \in [DedupIndex -> Ids \cup {0}]
      /\ openIncident \in [CorrIndex -> Ids \cup {0}]
  BY DEF IInv, TypeInv, TypeOK
<1>1. ASSUME NEW b \in Batches, NEW t \in Times, BeginIngest(b, t)
      PROVE  IInv'
  <2>1. /\ proc = "up" /\ proc' = "up" /\ op.phase = "idle" /\ op'.phase = "loop"
        /\ rec' = BlankRecord /\ workDedupe' = NoDedupe /\ workOpen' = openIncident
        /\ Memory' = Memory /\ events' = events /\ incidents' = incidents
        /\ dedupe' = dedupe /\ openIncident' = openIncident
        /\ disk' = disk /\ tail' = tail /\ next' = next
    BY <1>1 DEF BeginIngest, Unlocked, memory, Memory, journal
  <2>2. DedupExact(events, dedupe) /\ OpenExact(incidents, openIncident)
    BY <2>1 DEF IInv, MemoryExact
  <2>3. \A i \in Ids : Staged'.events[i] = events[i]
                     /\ Staged'.incidents[i] = incidents[i]
    BY <2>1, ReplayAt DEF Staged, Memory, BlankRecord, Blank
  <2>4. Merged' = dedupe
    BY <2>1, <1>0 DEF Merged, NoDedupe
  <2>5. DedupExact(Staged'.events, Merged')
    <3>1. \A i \in Ids : events[i] # None => DedupeKey(events[i]) \in DedupIndex
      BY <1>0, NotNone DEF Memory, StoredEvents, DedupeKey, DedupIndex
    <3> QED
      BY <1>0, <2>2, <2>3, <2>4, <3>1, SameExact
  <2>6. OpenExact(Staged'.incidents, workOpen')
    BY <1>0, <2>1, <2>2, <2>3, SameOpenExact
  <2>7. MemoryExact' /\ StagedExact' /\ StoppedIdle'
    BY <2>1, <2>2, <2>5, <2>6 DEF MemoryExact, StagedExact, StoppedIdle
  <2>8. JournalExact' /\ DiskExact'
    BY <2>1 DEF IInv, JournalExact, DiskExact, Readable
  <2>9. Fresh'
    BY <2>1 DEF IInv, Fresh, BlankRecord, Blank
  <2> QED
    BY <2>7, <2>8, <2>9 DEF IInv
<1>2. ASSUME IngestInvalid
      PROVE  IInv'
  <2>1. /\ proc = "up" /\ proc' = "up" /\ op.phase = "loop" /\ op'.phase = "idle"
        /\ rec' = BlankRecord /\ Memory' = Memory
        /\ events' = events /\ incidents' = incidents
        /\ dedupe' = dedupe /\ openIncident' = openIncident
        /\ disk' = disk /\ tail' = tail /\ next' = next
    BY <1>2, IdleType DEF IngestInvalid, Looping, Locked, memory, Memory, journal
  <2>2. MemoryExact' /\ StagedExact' /\ StoppedIdle'
    BY <2>1 DEF IInv, MemoryExact, StagedExact, StoppedIdle
  <2>3. JournalExact' /\ DiskExact'
    BY <2>1 DEF IInv, JournalExact, DiskExact, Readable
  <2>4. Fresh'
    BY <2>1 DEF IInv, Fresh, BlankRecord, Blank
  <2> QED
    BY <2>2, <2>3, <2>4 DEF IInv
<1>3. ASSUME IngestDuplicate
      PROVE  IInv'
  <2>1. /\ proc = "up" /\ proc' = "up" /\ op.phase = "loop" /\ op'.phase = "loop"
        /\ UNCHANGED <<rec, workDedupe, workOpen>> /\ Memory' = Memory
        /\ events' = events /\ incidents' = incidents
        /\ dedupe' = dedupe /\ openIncident' = openIncident
        /\ disk' = disk /\ tail' = tail /\ next' = next
    BY <1>0, <1>3
       DEF IngestDuplicate, Looping, Locked, memory, Memory, journal, Operations
  <2>2. Staged' = Staged /\ Merged' = Merged
    BY <2>1 DEF Staged, Merged
  <2>3. MemoryExact' /\ StagedExact' /\ StoppedIdle'
    BY <2>1, <2>2 DEF IInv, MemoryExact, StagedExact, StoppedIdle
  <2>4. JournalExact' /\ DiskExact'
    BY <2>1 DEF IInv, JournalExact, DiskExact, Readable
  <2>5. Fresh'
    BY <2>1 DEF IInv, Fresh
  <2> QED
    BY <2>3, <2>4, <2>5 DEF IInv
<1>4. ASSUME NEW o \in Outcomes, IngestAppend(o)
      PROVE  IInv'
  <2>1. /\ proc = "up" /\ op.phase = "loop" /\ Write("ingest", rec, o)
        /\ UNCHANGED <<proc, memory, next>>
        /\ o = "ok" => UNCHANGED <<workDedupe, workOpen>>
    BY <1>4 DEF IngestAppend, Locked
  <2>2. Memory' = Memory /\ events' = events /\ incidents' = incidents
        /\ dedupe' = dedupe /\ openIncident' = openIncident
    BY <2>1 DEF memory, Memory
  <2>3. DedupExact(Staged.events, Merged) /\ OpenExact(Staged.incidents, workOpen)
    BY <2>1 DEF IInv, StagedExact
  <2>4. DedupUnique(Staged.events) /\ OneOpen(Staged.incidents)
    BY <2>3, ExactUnique
  <2>5. o # "unsynced" /\ "ingest" \in Kinds
    BY DEF Outcomes, Kinds
  <2>6. JournalExact' /\ DiskExact'
    BY <1>0, <2>1, <2>4, <2>5, AppendExact DEF Staged
  <2>7. Fresh'
    <3>1. \A i \in Ids : i >= next => rec.events[i] = None /\ rec.incidents[i] = None
      BY DEF IInv, Fresh
    <3> QED
      BY <1>0, <2>1, <2>5, <3>1, AppendFresh
  <2>8. MemoryExact' /\ StoppedIdle'
    BY <2>1, <2>2 DEF IInv, MemoryExact, StoppedIdle
  <2>9. StagedExact'
    <3>1. CASE o = "ok"
      <4>1. rec' = rec
        BY <3>1, <1>0, <2>1, <2>5, WriteType DEF IInv, TypeInv
      <4>2. Staged' = Staged /\ Merged' = Merged /\ workOpen' = workOpen
        BY <3>1, <4>1, <2>1, <2>2 DEF Staged, Merged
      <4> QED
        BY <4>2, <2>3 DEF StagedExact
    <3>2. CASE o # "ok"
      <4>1. op'.phase = "idle"
        BY <3>2, <1>0, <2>1, <2>5, WriteType, IdleType DEF IInv, TypeInv
      <4> QED
        BY <4>1 DEF StagedExact
    <3> QED
      BY <3>1, <3>2
  <2> QED
    BY <2>6, <2>7, <2>8, <2>9 DEF IInv
<1> QED
  BY <1>1, <1>2, <1>3, <1>4, IngestNewExact DEF Ingest
-----------------------------------------------------------------------------
(* The other steps, and the theorems. *)

\* Applying the record makes the staged maps the maps.
LEMMA CommitExact ==
  ASSUME IInv, Commit, TypeInv'
  PROVE  IInv'
<1>1. /\ proc = "up" /\ proc' = "up" /\ op.phase = "written" /\ op'.phase = "idle"
      /\ rec' = BlankRecord /\ events' = Staged.events
      /\ incidents' = Staged.incidents
      /\ dedupe' = Merged /\ openIncident' = workOpen
      /\ disk' = disk /\ tail' = tail /\ next' = next
  BY IdleType DEF Commit, Merged, journal
<1>2. Memory' = Staged
  BY DEF Commit, Memory, Staged, Replay
<1>3. DedupExact(Staged.events, Merged) /\ OpenExact(Staged.incidents, workOpen)
  BY <1>1 DEF IInv, StagedExact
<1>4. MemoryExact' /\ StagedExact' /\ StoppedIdle'
  BY <1>1, <1>3 DEF MemoryExact, StagedExact, StoppedIdle
<1>5. JournalExact' /\ DiskExact'
  BY <1>1, <1>2 DEF IInv, JournalExact, DiskExact, Readable
<1>6. Fresh'
  <2>1. \A i \in Ids : i >= next => Staged.events[i] = None
                                   /\ Staged.incidents[i] = None
    BY ReplayAt DEF IInv, Fresh, Staged, Memory
  <2> QED
    BY <1>1, <2>1 DEF IInv, Fresh, BlankRecord, Blank
<1> QED
  BY <1>4, <1>5, <1>6 DEF IInv

\* A start reads an unambiguous journal; a crash leaves it as it is.
LEMMA ProcessExact ==
  ASSUME IInv, OpenStore \/ OpenStoreRefused \/ Crash, TypeInv'
  PROVE  IInv'
<1>0. disk \in Contents
  BY DEF IInv, TypeInv, TypeOK
<1>1. CASE OpenStore
  <2>1. /\ proc # "up" /\ Readable /\ proc' = "up" /\ op' = op /\ rec' = rec
        /\ events' = disk.events /\ incidents' = disk.incidents
        /\ dedupe' \in DedupeIndexes(disk.events)
        /\ openIncident' \in OpenIndexes(disk.incidents)
        /\ disk' = disk /\ tail' = tail /\ next' = next
    BY <1>1 DEF OpenStore, Readable, work, journal
  <2>2. op.phase = "idle"
    BY <2>1 DEF IInv, StoppedIdle
  <2>3. Memory' = disk
    BY <1>0, <1>1 DEF OpenStore, Memory, Contents
  <2>4. DedupExact(disk.events, dedupe') /\ OpenExact(disk.incidents, openIncident')
    BY <1>0, <2>1, LoadExact DEF IInv, DiskExact
  <2>5. MemoryExact' /\ StagedExact' /\ StoppedIdle'
    BY <2>1, <2>2, <2>4 DEF MemoryExact, StagedExact, StoppedIdle
  <2>6. JournalExact' /\ DiskExact'
    BY <2>1, <2>2, <2>3 DEF IInv, JournalExact, DiskExact, Readable
  <2>7. Fresh'
    BY <2>1 DEF IInv, Fresh
  <2> QED
    BY <2>5, <2>6, <2>7 DEF IInv
<1>2. CASE OpenStoreRefused
  <2>1. /\ proc # "up" /\ proc' # "up" /\ op' = op /\ rec' = rec
        /\ events' = events /\ incidents' = incidents
        /\ disk' = disk /\ tail' = tail /\ next' = next
    BY <1>2 DEF OpenStoreRefused, memory, work, journal
  <2> QED
    BY <2>1 DEF IInv, Fresh, StoppedIdle, MemoryExact, StagedExact, JournalExact,
                DiskExact, Readable
<1>3. CASE Crash
  <2>1. /\ proc' # "up" /\ op'.phase = "idle" /\ rec' = BlankRecord
        /\ events' = Blank /\ incidents' = Blank
        /\ disk' = disk /\ tail' = tail /\ next' = next
    BY <1>3, IdleType DEF Crash, journal
  <2>2. Fresh'
    BY <2>1 DEF IInv, Fresh, BlankRecord, Blank
  <2> QED
    BY <2>1, <2>2 DEF IInv, StoppedIdle, MemoryExact, StagedExact, JournalExact,
                      DiskExact, Readable
<1> QED
  BY <1>1, <1>2, <1>3

\* What leaves the maps, the operation and the journal alone.
LEMMA IdleExact ==
  ASSUME IInv, UNCHANGED <<proc, memory, work, journal, next>>, TypeInv'
  PROVE  IInv'
<1>1. /\ UNCHANGED <<proc, events, incidents, jobs, dedupe, openIncident>>
      /\ UNCHANGED <<op, rec, workDedupe, workOpen, disk, tail, next>>
  BY DEF memory, work, journal
<1>2. Memory' = Memory /\ Staged' = Staged /\ Merged' = Merged
  BY <1>1 DEF Memory, Staged, Merged
<1> QED
  BY <1>1, <1>2 DEF IInv, Fresh, StoppedIdle, MemoryExact, StagedExact,
                    JournalExact, DiskExact, Readable

\* The inductive invariant: no operation, crash, restart or failed append makes
\* an index, the staged maps or the journal lose track of a key.
THEOREM StoreExact ==
  ASSUME "unsynced" \notin Faults
  PROVE  Spec => []IInv
<1>1. Init => IInv
  <2> SUFFICES ASSUME Init, TypeInv PROVE IInv
    BY InitType
  <2>1. /\ proc = "down" /\ op.phase = "idle" /\ events = Blank /\ incidents = Blank
        /\ rec = BlankRecord /\ disk = BlankRecord
    BY IdleType DEF Init
  <2>2. DiskExact
    BY <2>1 DEF DiskExact, DedupUnique, OneOpen, StoredEvent, OpenIncident,
                BlankRecord, Blank
  <2>3. Fresh
    BY <2>1 DEF Fresh, BlankRecord, Blank
  <2> QED
    BY <2>1, <2>2, <2>3
       DEF IInv, StoppedIdle, MemoryExact, StagedExact, JournalExact
<1>2. IInv /\ [Next]_storeVars => IInv'
  <2> SUFFICES ASSUME IInv, [Next]_storeVars PROVE IInv'
    OBVIOUS
  <2>0. TypeInv'
    BY NextType DEF IInv
  <2>1. \A o \in Outcomes : o # "unsynced"
    BY DEF Outcomes
  <2>2. CASE OpenStore \/ OpenStoreRefused \/ Crash
    BY <2>0, <2>2, ProcessExact
  <2>3. CASE Ingest
    BY <2>0, <2>3, IngestExact
  <2>4. CASE QueueStep
    BY <2>0, <2>1, <2>4, QueueExact DEF QueueStep
  <2>5. CASE \E o \in Outcomes : RecoverRunning(o)
    BY <2>0, <2>1, <2>5, QueueExact
  <2>6. CASE Commit
    BY <2>0, <2>6, CommitExact
  <2>7. CASE Waiting
    BY <2>0, <2>7, IdleExact DEF Waiting, WaitReturns, WaitJob
  <2>8. CASE TakeWake
    BY <2>0, <2>8, IdleExact DEF TakeWake
  <2>9. CASE UNCHANGED storeVars
    BY <2>0, <2>9, IdleExact DEF storeVars
  <2> QED
    BY <2>2, <2>3, <2>4, <2>5, <2>6, <2>7, <2>8, <2>9 DEF Next
<1> QED
  BY <1>1, <1>2, PTL DEF Spec

\* No source's deduplication key is ever stored twice, in memory or in the
\* journal a restart reads.
THEOREM DuplicatesExcluded ==
  ASSUME "unsynced" \notin Faults
  PROVE  Spec => []NoDuplicateEvents
<1>1. IInv => NoDuplicateEvents
  BY ExactUnique DEF IInv, MemoryExact, DiskExact, NoDuplicateEvents
<1> QED
  BY <1>1, StoreExact, PTL

\* No two incidents of a source and correlation key are open at once.
THEOREM OneOpenPerKey ==
  ASSUME "unsynced" \notin Faults
  PROVE  Spec => []OneOpenIncident
<1>1. IInv => OneOpenIncident
  BY ExactUnique DEF IInv, MemoryExact, DiskExact, OneOpenIncident
<1> QED
  BY <1>1, StoreExact, PTL

\* The dedupe and openIncident maps always answer exactly.
THEOREM IndexesAnswerExactly ==
  ASSUME "unsynced" \notin Faults
  PROVE  Spec => []IndexesExact
<1>1. IInv => IndexesExact
  BY ExactIndex DEF IInv, MemoryExact, IndexesExact, TypeInv, TypeOK
<1> QED
  BY <1>1, StoreExact, PTL

\* Between operations a crash loses nothing: memory is what load would rebuild.
THEOREM JournalIsMemory ==
  ASSUME "unsynced" \notin Faults
  PROVE  Spec => []JournalMatchesMemory
<1>1. IInv => JournalMatchesMemory
  BY DEF IInv, JournalExact, JournalMatchesMemory
<1> QED
  BY <1>1, StoreExact, PTL
-----------------------------------------------------------------------------
(* Durability, when an append that fails writes nothing. *)

AckInv == tail = "clean" /\ \A e \in acked : disk.events[e] # None

\* A failed append then changes nothing, and no record removes an event.
LEMMA AppendAck ==
  ASSUME Faults \subseteq {"none"}, AckInv, acked \subseteq Ids,
         NEW r, NEW o \in Outcomes, Append2Journal(r, o)
  PROVE  tail' = "clean" /\ \A e \in acked : disk'.events[e] # None
<1>1. o \in {"ok", "none"}
  BY DEF Outcomes
<1>2. tail' = "clean" /\ (disk' = Replay(disk, r) \/ disk' = disk)
  BY <1>1 DEF AckInv, Append2Journal
<1> QED
  BY <1>2, ReplayAt DEF AckInv

\* An event answered as accepted is in the journal of every later state.
THEOREM AcceptedEventsSurvive ==
  ASSUME Faults \subseteq {"none"}
  PROVE  Spec => []AckedSurvive
<1>1. Init => AckInv
  BY DEF Init, AckInv
<1>2. IInv /\ AckInv /\ [Next]_storeVars => AckInv'
  <2> SUFFICES ASSUME IInv, AckInv, [Next]_storeVars PROVE AckInv'
    OBVIOUS
  <2>0. acked \subseteq Ids
    BY DEF IInv, TypeInv, TypeOK
  <2>1. CASE UNCHANGED <<journal, acked>>
    BY <2>1 DEF AckInv, journal
  <2>2. ASSUME NEW r, NEW o \in Outcomes, Append2Journal(r, o), UNCHANGED acked
        PROVE  AckInv'
    BY <2>0, <2>2, AppendAck DEF AckInv
  <2>3. CASE Commit
    <3>1. disk = Staged
      BY <2>3 DEF Commit, IInv, JournalExact, AckInv
    <3>2. /\ acked' = acked \cup {e \in Ids : rec.events[e] # None}
          /\ disk' = disk /\ tail' = tail
      BY <2>3 DEF Commit, journal
    <3>3. \A e \in Ids : rec.events[e] # None => disk.events[e] # None
      BY <3>1, ReplayAt DEF Staged
    <3> QED
      BY <3>2, <3>3 DEF AckInv
  <2>4. CASE Ingest
    <3>1. CASE IngestInvalid \/ IngestDuplicate \/ IngestNew
      BY <2>1, <3>1 DEF IngestInvalid, IngestDuplicate, IngestNew
    <3>2. CASE \E b \in Batches, t \in Times : BeginIngest(b, t)
      BY <2>1, <3>2 DEF BeginIngest
    <3>3. CASE \E o \in Outcomes : IngestAppend(o)
      BY <2>2, <3>3 DEF IngestAppend, Write
    <3> QED
      BY <2>4, <3>1, <3>2, <3>3 DEF Ingest
  <2>5. CASE QueueStep \/ \E o \in Outcomes : RecoverRunning(o)
    <3>1. ASSUME NEW kind, NEW r, NEW o \in Outcomes, Update(kind, r, o)
          PROVE  AckInv'
      BY <2>2, <3>1 DEF Update, Write
    <3>2. ASSUME NEW j \in Ids, NEW o \in Outcomes, ClaimNext(j, o)
          PROVE  AckInv'
      BY <3>1, <3>2 DEF ClaimNext
    <3>3. ASSUME NEW j \in Ids, NEW o \in Outcomes, NEW st \in Final,
                 NEW run \in Runs \cup {None}, CompleteJob(j, st, run, o)
          PROVE  AckInv'
      BY <3>1, <3>3 DEF CompleteJob
    <3>4. ASSUME NEW o \in Outcomes, RecoverRunning(o)
          PROVE  AckInv'
      BY <3>1, <3>4 DEF RecoverRunning
    <3> QED
      BY <2>5, <3>2, <3>3, <3>4 DEF QueueStep
  <2>6. CASE OpenStore \/ OpenStoreRefused \/ Crash
    BY <2>1, <2>6 DEF OpenStore, OpenStoreRefused, Crash
  <2>7. CASE Waiting \/ TakeWake
    BY <2>1, <2>7 DEF Waiting, WaitReturns, WaitJob, TakeWake
  <2>8. CASE UNCHANGED storeVars
    BY <2>1, <2>8 DEF storeVars
  <2> QED
    BY <2>3, <2>4, <2>5, <2>6, <2>7, <2>8 DEF Next
<1>3. AckInv => AckedSurvive
  BY DEF AckInv, AckedSurvive, Readable
<1>4. Spec => []IInv
  BY StoreExact
<1> QED
  BY <1>1, <1>2, <1>3, <1>4, PTL DEF Spec
-----------------------------------------------------------------------------
(* Events, incidents and jobs that belong together.                        *)
(*                                                                         *)
(* That the links are right after a delivery is not enough to go on: the   *)
(* record grows event by event, a restart reads the journal, and a caller  *)
(* of WaitJob is answered from the record and not from the map.  So the    *)
(* strengthening again speaks of memory, of the staged maps and of the     *)
(* journal, and says how the record in hand may differ from memory: it     *)
(* moves jobs that are not final, or adds new ones, and reopens nothing.   *)

\* Sound contents.  A job bears the number of the event that queued it, which
\* is also the number of the incident that event opened; the run it names is
\* the last one of its incident.
Sound(c) ==
    /\ Linked(c.events, c.incidents)
    /\ \A j \in Ids : c.jobs[j] # None =>
         /\ c.jobs[j].incident = j /\ c.jobs[j].event = j
         /\ c.events[j] # None /\ c.events[j].state = "firing"
         /\ c.events[j].incident = j
    /\ \A i \in Ids : OpenIncident(c.incidents, i) => c.jobs[i] # None
    /\ \A e \in Ids : c.events[e] # None /\ c.events[e].state = "firing" =>
         c.jobs[c.events[e].incident] # None
    /\ \A j \in Ids : c.jobs[j] # None /\ c.jobs[j].run # None =>
         /\ c.jobs[j].run \in c.incidents[j].runs
         /\ c.incidents[j].lastRun = c.jobs[j].run

Sounds ==
    /\ proc = "up" => Sound(Memory)
    /\ proc = "up" /\ op.phase # "idle" => Sound(Staged)
    /\ Readable => Sound(disk)

\* A delivery only adds jobs, of incidents that are new, adds events, and
\* touches no incident unless it has one; the queue moves jobs that are not
\* final, and only a completion makes them final.
RecordMoves ==
    proc = "up" /\ op.phase # "idle" =>
        /\ \A j \in Ids : rec.jobs[j] # None =>
             IF op.kind = "ingest"
             THEN jobs[j] = None /\ incidents[j] = None /\ rec.jobs[j].status = "pending"
             ELSE /\ jobs[j] # None /\ jobs[j].status \notin Final
                  /\ op.kind # "complete" => rec.jobs[j].status \notin Final
        /\ op.kind = "ingest" =>
             /\ \A i \in Ids : rec.events[i] # None => events[i] = None
             /\ rec.events = Blank => rec.incidents = Blank

\* An incident stays, keeps its key, and is never reopened.
StayClosed(before, after) ==
    \A i \in Ids : before[i] # None =>
        /\ after[i] # None
        /\ after[i].source = before[i].source /\ after[i].corr = before[i].corr
        /\ after[i].state = "firing" => before[i].state = "firing"

ClosedForGood ==
    proc = "up" /\ op.phase # "idle" => StayClosed(incidents, Staged.incidents)

\* A caller waits for a job that exists, and was sent its final status.
WaitsExact ==
    \A w \in Waiters : waiters[w].job # 0 =>
        /\ proc = "up" /\ jobs[waiters[w].job] # None
        /\ IF waiters[w].got = "none" THEN jobs[waiters[w].job].status \notin Final
           ELSE waiters[w].got = jobs[waiters[w].job].status

Belong == Sounds /\ RecordMoves /\ ClosedForGood /\ WaitsExact
JInv == IInv /\ Belong
-----------------------------------------------------------------------------
(* Contents that stay sound. *)

\* Whoever looks up a stored event's incident finds one.
LEMMA LinkTypes ==
  ASSUME NEW c \in Contents, Sound(c)
  PROVE  /\ \A e \in Ids : c.events[e] # None =>
              /\ c.events[e].incident \in Ids
              /\ c.incidents[c.events[e].incident] # None
              /\ e \in c.incidents[c.events[e].incident].events
         /\ \A i \in Ids : c.incidents[i] # None => c.incidents[i].events \subseteq Ids
<1>1. ASSUME NEW e \in Ids, c.events[e] # None
      PROVE  /\ c.events[e].incident \in Ids
             /\ c.incidents[c.events[e].incident] # None
             /\ e \in c.incidents[c.events[e].incident].events
  <2>1. c.events[e] \in StoredEvents
    BY <1>1, NotNone
  <2> QED
    BY <1>1, <2>1 DEF Sound, Linked, StoredEvents
<1>2. ASSUME NEW i \in Ids, c.incidents[i] # None
      PROVE  c.incidents[i].events \subseteq Ids
  <2>1. c.incidents[i] \in Incidents
    BY <1>2, NotNone
  <2> QED
    BY <2>1 DEF Incidents
<1> QED
  BY <1>1, <1>2

\* `d` is `c` with a new event of a fresh number, in an incident of its own or in
\* one that is open, and with a job exactly when it opens one.
Adds(c, d, n, m, ev, inc, job) ==
    /\ c.events[n] = None /\ c.incidents[n] = None /\ ev # None /\ inc # None
    /\ \A i \in Ids :
         /\ d.events[i] = IF i = n THEN ev ELSE c.events[i]
         /\ d.incidents[i] = IF i = m THEN inc ELSE c.incidents[i]
         /\ d.jobs[i] = IF i = n THEN job ELSE c.jobs[i]
    /\ ev.incident = m /\ inc.state = ev.state
    /\ inc.source = ev.source /\ inc.corr = ev.corr
    /\ \/ /\ m = n /\ inc.events = {n}
          /\ ev.state = "firing" => /\ job # None
                                    /\ job.incident = n /\ job.event = n
                                    /\ job.run = None
          /\ ev.state # "firing" => job = None
       \/ /\ OpenIncident(c.incidents, m) /\ job = None
          /\ inc.events = c.incidents[m].events \cup {n}
          /\ inc.source = c.incidents[m].source
          /\ inc.corr = c.incidents[m].corr
          /\ inc.runs = c.incidents[m].runs
          /\ inc.lastRun = c.incidents[m].lastRun

\* Such an event belongs together with what is there.
LEMMA SoundNew ==
  ASSUME NEW c \in Contents, NEW d \in Contents, Sound(c),
         NEW n \in Ids, NEW m \in Ids, NEW ev, NEW inc, NEW job,
         Adds(c, d, n, m, ev, inc, job)
  PROVE  Sound(d)
<1>links. Linked(c.events, c.incidents)
  BY DEF Sound
<1>types. /\ \A e \in Ids : c.events[e] # None => c.events[e].incident \in Ids
          /\ \A i \in Ids : c.incidents[i] # None => c.incidents[i].events \subseteq Ids
  BY LinkTypes
<1>linked. \A e \in Ids : c.events[e] # None =>
         /\ c.events[e].incident \in Ids
         /\ c.incidents[c.events[e].incident] # None
         /\ e \in c.incidents[c.events[e].incident].events
         /\ c.incidents[c.events[e].incident].source = c.events[e].source
         /\ c.incidents[c.events[e].incident].corr = c.events[e].corr
  BY <1>links, <1>types DEF Linked
<1>1. \A i \in Ids : c.incidents[i] # None =>
         \A e \in c.incidents[i].events :
           e \in Ids /\ c.events[e] # None /\ c.events[e].incident = i
  BY <1>links, <1>types DEF Linked
<1> USE DEF Adds
<1>0. \A e \in Ids : c.events[e] # None =>
         /\ c.events[e].incident \in Ids /\ c.events[e].incident # n
         /\ c.incidents[c.events[e].incident] # None
         /\ e \in c.incidents[c.events[e].incident].events
         /\ c.incidents[c.events[e].incident].source = c.events[e].source
         /\ c.incidents[c.events[e].incident].corr = c.events[e].corr
  BY <1>linked
<1>2. m # n => /\ OpenIncident(c.incidents, m) /\ c.incidents[m] # None
               /\ job = None
               /\ inc.events = c.incidents[m].events \cup {n}
               /\ inc.source = c.incidents[m].source
               /\ inc.corr = c.incidents[m].corr
  BY DEF OpenIncident
<1>3. m = n => inc.events = {n}
  BY DEF OpenIncident
<1>4. ASSUME NEW e \in Ids, d.events[e] # None
      PROVE  LET i == d.events[e].incident
             IN  /\ d.incidents[i] # None /\ e \in d.incidents[i].events
                 /\ d.incidents[i].source = d.events[e].source
                 /\ d.incidents[i].corr = d.events[e].corr
  <2>1. CASE e = n
    BY <2>1, <1>2, <1>3
  <2>2. CASE e # n
    <3>1. d.events[e] = c.events[e] /\ c.events[e] # None
      BY <2>2, <1>4
    <3>2. PICK i \in Ids : i = c.events[e].incident
      BY <3>1, <1>0
    <3>3. /\ i # n /\ c.incidents[i] # None /\ e \in c.incidents[i].events
          /\ c.incidents[i].source = c.events[e].source
          /\ c.incidents[i].corr = c.events[e].corr
      BY <3>1, <3>2, <1>0
    <3>4. CASE i = m
      BY <3>1, <3>2, <3>3, <3>4, <1>2
    <3>5. CASE i # m
      BY <3>1, <3>2, <3>3, <3>5
    <3> QED
      BY <3>4, <3>5
  <2> QED
    BY <2>1, <2>2
<1>5. ASSUME NEW i \in Ids, d.incidents[i] # None, NEW e \in d.incidents[i].events
      PROVE  d.events[e] # None /\ d.events[e].incident = i
  <2>1. CASE i # m
    <3>1. d.incidents[i] = c.incidents[i]
      BY <2>1
    <3> QED
      BY <1>5, <2>1, <3>1, <1>1
  <2>2. CASE i = m /\ e = n
    BY <2>2
  <2>3. CASE i = m /\ e # n
    <3>1. d.incidents[i] = inc /\ m # n /\ e \in c.incidents[m].events
      BY <2>3, <1>5, <1>2, <1>3
    <3> QED
      BY <2>3, <3>1, <1>1, <1>2
  <2> QED
    BY <2>1, <2>2, <2>3
<1>6. Linked(d.events, d.incidents)
  BY <1>4, <1>5 DEF Linked
<1>7. ASSUME NEW j \in Ids, d.jobs[j] # None
      PROVE  /\ d.jobs[j].incident = j /\ d.jobs[j].event = j
             /\ d.events[j] # None /\ d.events[j].state = "firing"
             /\ d.events[j].incident = j
  <2>1. CASE j = n
    <3>1. d.jobs[j] = job /\ job # None
      BY <2>1, <1>7
    <3>2. m = n
      BY <3>1, <1>2
    <3> QED
      BY <2>1, <3>1, <3>2
  <2>2. CASE j # n
    <3>1. d.jobs[j] = c.jobs[j] /\ d.events[j] = c.events[j]
      BY <2>2
    <3> QED
      BY <1>7, <3>1 DEF Sound
  <2> QED
    BY <2>1, <2>2
<1>8. m # n => c.jobs[m] # None
  BY <1>2 DEF Sound
<1>9. ev.state = "firing" => d.jobs[m] # None
  <2>1. CASE m = n
    BY <2>1, <1>2 DEF OpenIncident
  <2>2. CASE m # n
    BY <2>2, <1>8
  <2> QED
    BY <2>1, <2>2
<1>10. ASSUME NEW i \in Ids, OpenIncident(d.incidents, i)
       PROVE  d.jobs[i] # None
  <2>1. CASE i = m
    BY <2>1, <1>9, <1>10 DEF OpenIncident
  <2>2. CASE i # m
    <3>1. OpenIncident(c.incidents, i) /\ i # n
      BY <2>2, <1>10 DEF OpenIncident
    <3> QED
      BY <3>1 DEF Sound
  <2> QED
    BY <2>1, <2>2
<1>11. ASSUME NEW e \in Ids, d.events[e] # None, d.events[e].state = "firing"
       PROVE  d.jobs[d.events[e].incident] # None
  <2>1. CASE e = n
    BY <2>1, <1>9, <1>11
  <2>2. CASE e # n
    <3>1. d.events[e] = c.events[e]
      BY <2>2
    <3>2. c.jobs[c.events[e].incident] # None
      BY <3>1, <1>11 DEF Sound
    <3> QED
      BY <3>1, <3>2, <1>0, <1>11
  <2> QED
    BY <2>1, <2>2
<1>12. ASSUME NEW j \in Ids, d.jobs[j] # None, d.jobs[j].run # None
       PROVE  /\ d.jobs[j].run \in d.incidents[j].runs
              /\ d.incidents[j].lastRun = d.jobs[j].run
  <2>1. CASE j = n
    <3>1. d.jobs[j] = job /\ job # None
      BY <2>1, <1>12
    <3>2. job.run = None
      BY <3>1
    <3> QED
      BY <1>12, <3>1, <3>2
  <2>2. CASE j # n
    <3>1. d.jobs[j] = c.jobs[j]
      BY <2>2
    <3>2. /\ c.jobs[j].run \in c.incidents[j].runs
          /\ c.incidents[j].lastRun = c.jobs[j].run
      BY <1>12, <3>1 DEF Sound
    <3>3. d.incidents[j].runs = c.incidents[j].runs
          /\ d.incidents[j].lastRun = c.incidents[j].lastRun
      <4>1. CASE j = m
        BY <2>2, <4>1
      <4>2. CASE j # m
        BY <4>2
      <4> QED
        BY <4>1, <4>2
    <3> QED
      BY <3>1, <3>2, <3>3
  <2> QED
    BY <2>1, <2>2
<1> QED
  BY <1>6, <1>7, <1>10, <1>11, <1>12 DEF Sound

\* What the queue's records change: the status of jobs that are not final, and
\* the runs of an incident.
MovesJobs(kind, r) ==
    \A i \in Ids :
        /\ r.events[i] = None
        /\ r.incidents[i] # None =>
             /\ incidents[i] # None
             /\ r.incidents[i].state = incidents[i].state
             /\ r.incidents[i].source = incidents[i].source
             /\ r.incidents[i].corr = incidents[i].corr
             /\ r.incidents[i].events = incidents[i].events
             /\ r.jobs[i] = None =>
                  /\ r.incidents[i].runs = incidents[i].runs
                  /\ r.incidents[i].lastRun = incidents[i].lastRun
        /\ r.jobs[i] # None =>
             /\ jobs[i] # None /\ jobs[i].status \notin Final
             /\ r.jobs[i].incident = jobs[i].incident
             /\ r.jobs[i].event = jobs[i].event
             /\ kind # "complete" => r.jobs[i].status \notin Final
             /\ r.jobs[i].run # None =>
                  IF r.incidents[i] = None THEN r.jobs[i].run = jobs[i].run
                  ELSE /\ r.jobs[i].run \in r.incidents[i].runs
                       /\ r.incidents[i].lastRun = r.jobs[i].run

\* Applying a record, job by job.
LEMMA ReplayJob ==
  ASSUME NEW c, NEW r, NEW i \in Ids
  PROVE  Replay(c, r).jobs[i] = IF r.jobs[i] = None THEN c.jobs[i] ELSE r.jobs[i]
  BY DEF Replay, Override

\* Such a record leaves the links as they are.
LEMMA SoundMove ==
  ASSUME Memory \in Contents, Sound(Memory), NEW kind, NEW r, MovesJobs(kind, r)
  PROVE  Sound(Replay(Memory, r))
<1> DEFINE d == Replay(Memory, r)
<1>1. \A i \in Ids :
         /\ d.events[i] = events[i]
         /\ d.incidents[i] # None <=> incidents[i] # None
         /\ d.incidents[i] # None =>
              /\ d.incidents[i].state = incidents[i].state
              /\ d.incidents[i].source = incidents[i].source
              /\ d.incidents[i].corr = incidents[i].corr
              /\ d.incidents[i].events = incidents[i].events
         /\ d.jobs[i] # None <=> jobs[i] # None
         /\ d.jobs[i] # None => /\ d.jobs[i].incident = jobs[i].incident
                                /\ d.jobs[i].event = jobs[i].event
  BY ReplayAt, ReplayJob DEF MovesJobs, Memory
<1>2. /\ \A e \in Ids : events[e] # None => events[e].incident \in Ids
      /\ \A i \in Ids : incidents[i] # None => incidents[i].events \subseteq Ids
  BY LinkTypes DEF Memory
<1> HIDE DEF d
<1>3. Linked(d.events, d.incidents)
  <2>1. Linked(events, incidents)
    BY DEF Sound, Memory
  <2>2. ASSUME NEW e \in Ids, d.events[e] # None
        PROVE  LET i == d.events[e].incident
               IN  /\ d.incidents[i] # None /\ e \in d.incidents[i].events
                   /\ d.incidents[i].source = d.events[e].source
                   /\ d.incidents[i].corr = d.events[e].corr
    BY <2>1, <2>2, <1>1, <1>2 DEF Linked
  <2>3. ASSUME NEW i \in Ids, d.incidents[i] # None,
               NEW e \in d.incidents[i].events
        PROVE  d.events[e] # None /\ d.events[e].incident = i
    BY <2>1, <2>3, <1>1, <1>2 DEF Linked
  <2> QED
    BY <2>2, <2>3 DEF Linked
<1>4. \A j \in Ids : d.jobs[j] # None =>
         /\ d.jobs[j].incident = j /\ d.jobs[j].event = j
         /\ d.events[j] # None /\ d.events[j].state = "firing"
         /\ d.events[j].incident = j
  BY <1>1 DEF Sound, Memory
<1>5. \A i \in Ids : OpenIncident(d.incidents, i) => d.jobs[i] # None
  BY <1>1 DEF Sound, Memory, OpenIncident
<1>6. \A e \in Ids : d.events[e] # None /\ d.events[e].state = "firing" =>
         d.jobs[d.events[e].incident] # None
  BY <1>1, <1>2 DEF Sound, Memory
<1>7. ASSUME NEW j \in Ids, d.jobs[j] # None, d.jobs[j].run # None
      PROVE  /\ d.jobs[j].run \in d.incidents[j].runs
             /\ d.incidents[j].lastRun = d.jobs[j].run
  <2>1. /\ d.jobs[j] = IF r.jobs[j] = None THEN jobs[j] ELSE r.jobs[j]
        /\ d.incidents[j] = IF r.incidents[j] = None THEN incidents[j]
                            ELSE r.incidents[j]
    BY ReplayAt, ReplayJob DEF d, Memory
  <2>2. jobs[j] # None /\ jobs[j].run # None =>
          /\ jobs[j].run \in incidents[j].runs
          /\ incidents[j].lastRun = jobs[j].run
    BY DEF Sound, Memory
  <2>3. CASE r.jobs[j] = None
    BY <1>7, <2>1, <2>2, <2>3 DEF MovesJobs
  <2>4. CASE r.jobs[j] # None
    BY <1>7, <2>1, <2>2, <2>4 DEF MovesJobs
  <2> QED
    BY <2>3, <2>4
<1> QED
  BY <1>3, <1>4, <1>5, <1>6, <1>7 DEF Sound, d
-----------------------------------------------------------------------------
(* Every step keeps what belongs together. *)

\* The append of a record that leaves sound contents leaves a sound journal.
LEMMA AppendSound ==
  ASSUME JInv, NEW r, NEW o \in Outcomes, o # "unsynced",
         proc = "up", op.phase # "written",
         Append2Journal(r, o), Sound(Replay(Memory, r))
  PROVE  Readable' => Sound(disk')
<1>1. o \in {"ok", "none", "bare", "torn"}
  BY ConstantsAssumption DEF Outcomes
<1>2. tail = "clean" => disk = Memory
  BY DEF JInv, IInv, JournalExact
<1>3. Readable => Sound(disk)
  BY DEF JInv, Belong, Sounds
<1>4. CASE tail = "clean" /\ o \in {"ok", "bare"}
  BY <1>2, <1>4 DEF Append2Journal
<1>5. CASE ~(tail = "clean" /\ o \in {"ok", "bare"})
  <2>1. disk' = disk /\ (tail' = tail \/ tail' = "torn")
    BY <1>1, <1>5 DEF Append2Journal
  <2> QED
    BY <2>1, <1>3 DEF Readable
<1> QED
  BY <1>4, <1>5

\* Every operation of the job queue, up to its append.
LEMMA UpdateBelongs ==
  ASSUME JInv, NEW kind \in Kinds, kind # "ingest", NEW r \in Contents,
         NEW o \in Outcomes, o # "unsynced",
         Unlocked, Update(kind, r, o), MovesJobs(kind, r)
  PROVE  Belong'
<1>1. /\ proc = "up" /\ op.phase = "idle" /\ Write(kind, r, o)
      /\ UNCHANGED <<proc, memory, waiters>>
  BY DEF Unlocked, Update
<1>2. /\ Memory' = Memory /\ jobs' = jobs /\ incidents' = incidents
      /\ waiters' = waiters /\ proc' = proc
  BY <1>1 DEF memory, Memory
<1>3. Memory \in Contents /\ Sound(Memory)
  BY <1>1 DEF JInv, IInv, TypeInv, TypeOK, Belong, Sounds
<1>4. Sound(Replay(Memory, r))
  BY <1>3, SoundMove
<1>5. Readable' => Sound(disk')
  BY <1>1, <1>4, AppendSound DEF Write
<1>6. WaitsExact'
  BY <1>2 DEF JInv, Belong, WaitsExact
<1>7. CASE o # "ok"
  <2>1. op'.phase = "idle"
    BY <1>1, <1>7, WriteType, IdleType DEF JInv, IInv, TypeInv
  <2>2. Sounds' /\ RecordMoves' /\ ClosedForGood'
    BY <2>1, <1>2, <1>3, <1>5 DEF Sounds, RecordMoves, ClosedForGood
  <2> QED
    BY <2>2, <1>6 DEF Belong
<1>8. CASE o = "ok"
  <2>1. rec' = r /\ op'.kind = kind
    BY <1>1, <1>8, WriteType DEF JInv, IInv, TypeInv
  <2>2. Staged' = Replay(Memory, r)
    BY <2>1, <1>2 DEF Staged
  <2>3. Sounds'
    BY <2>2, <1>2, <1>3, <1>4, <1>5 DEF Sounds
  <2>4. RecordMoves'
    BY <2>1, <1>2 DEF RecordMoves, MovesJobs
  <2>5. ClosedForGood'
    <3>1. ASSUME NEW i \in Ids, incidents[i] # None
          PROVE  LET d == Replay(Memory, r)
                 IN  /\ d.incidents[i] # None
                     /\ d.incidents[i].source = incidents[i].source
                     /\ d.incidents[i].corr = incidents[i].corr
                     /\ d.incidents[i].state = incidents[i].state
      BY <3>1, ReplayAt DEF MovesJobs, Memory
    <3> QED
      BY <3>1, <2>2, <1>2 DEF ClosedForGood, StayClosed
  <2> QED
    BY <2>3, <2>4, <2>5, <1>6 DEF Belong
<1> QED
  BY <1>7, <1>8

\* The record of a claim moves a job from pending to running.
ClaimRecord(j) == [BlankRecord EXCEPT
                     !.jobs[j] = [jobs[j] EXCEPT !.status = "running"]]

LEMMA ClaimMoves ==
  ASSUME Memory \in Contents, NEW j \in Ids, Oldest(j)
  PROVE  /\ ClaimRecord(j) \in Contents /\ MovesJobs("claim", ClaimRecord(j))
         /\ \A i \in Ids : ClaimRecord(j).incidents[i] = None
         /\ \A i \in Ids : ClaimRecord(j).jobs[i] =
              IF i = j THEN [jobs[j] EXCEPT !.status = "running"] ELSE None
<1> DEFINE claimed == [jobs[j] EXCEPT !.status = "running"]
<1>1. jobs[j] \in Jobs /\ jobs[j] # None /\ jobs[j].status = "pending"
  BY NotNone DEF Oldest, Pending, Memory
<1>2. /\ claimed \in Jobs /\ claimed.status = "running"
      /\ claimed.incident = jobs[j].incident /\ claimed.event = jobs[j].event
      /\ claimed.run = jobs[j].run
  BY <1>1 DEF Jobs
<1> HIDE DEF claimed
<1>3. ClaimRecord(j) = [events |-> Blank, incidents |-> Blank,
                        jobs |-> [Blank EXCEPT ![j] = claimed]]
  BY DEF ClaimRecord, BlankRecord, claimed
<1>4. \A i \in Ids : Blank[i] = None
  BY DEF Blank
<1>5. Blank \in [Ids -> {None}]
  BY DEF Blank
<1>6. \A i \in Ids : [Blank EXCEPT ![j] = claimed][i] =
                       IF i = j THEN claimed ELSE None
  BY <1>4, <1>5
<1>7. ClaimRecord(j) \in Contents
  <2>1. [Blank EXCEPT ![j] = claimed] \in [Ids -> Jobs \cup {None}]
    BY <1>2, <1>5
  <2> QED
    BY <2>1, <1>3, <1>5 DEF Contents
<1>8. MovesJobs("claim", ClaimRecord(j))
  BY <1>1, <1>2, <1>3, <1>4, <1>6 DEF MovesJobs, Final
<1> QED
  BY <1>3, <1>4, <1>6, <1>7, <1>8 DEF claimed

\* The record of a completion finishes one running job and links its run.
Finished(j, st, run) == [jobs[j] EXCEPT !.status = st, !.run = run]
CompleteRecord(j, st, run) ==
    [BlankRecord EXCEPT
       !.jobs[j] = Finished(j, st, run),
       !.incidents[jobs[j].incident] = LinkRun(incidents[jobs[j].incident], run)]

LEMMA CompleteMoves ==
  ASSUME Memory \in Contents, Sound(Memory), NEW j \in Running, NEW st \in Final,
         NEW run \in Runs \cup {None}
  PROVE  /\ CompleteRecord(j, st, run) \in Contents
         /\ MovesJobs("complete", CompleteRecord(j, st, run))
         /\ \A i \in Ids : CompleteRecord(j, st, run).jobs[i] =
              IF i = j THEN Finished(j, st, run) ELSE None
<1> DEFINE done == Finished(j, st, run)
           i0 == jobs[j].incident
           linked == LinkRun(incidents[i0], run)
<1>1. /\ j \in Ids /\ jobs[j] \in Jobs /\ jobs[j] # None
      /\ jobs[j].status = "running"
  BY NotNone DEF Running, Memory
<1>2. /\ done \in Jobs /\ done.incident = jobs[j].incident
      /\ done.event = jobs[j].event /\ done.run = run
  BY <1>1 DEF Jobs, Finished
<1>3. i0 \in Ids /\ i0 = j /\ incidents[i0] # None
  <2>1. i0 = j /\ events[j] # None /\ events[j].incident = j
    BY <1>1 DEF Sound, Memory
  <2>2. incidents[j] # None
    BY <1>1, <2>1, LinkTypes DEF Memory
  <2> QED
    BY <1>1, <2>1, <2>2
<1>4. incidents[i0] \in Incidents \cup {None}
  BY <1>3 DEF Memory, Contents
<1>5. /\ linked \in Incidents \cup {None}
      /\ linked # None =>
           /\ incidents[i0] # None /\ linked.state = incidents[i0].state
           /\ linked.source = incidents[i0].source
           /\ linked.corr = incidents[i0].corr
           /\ linked.events = incidents[i0].events
      /\ run # None => linked # None /\ run \in linked.runs /\ linked.lastRun = run
  <2>1. PICK old \in Incidents : old = incidents[i0]
    BY <1>3, <1>4
  <2>2. CASE run = None
    BY <2>1, <2>2 DEF LinkRun
  <2>3. CASE run # None
    <3>1. linked = [old EXCEPT !.runs = @ \cup {run}, !.lastRun = run]
      BY <1>3, <2>1, <2>3 DEF LinkRun
    <3> HIDE DEF linked
    <3>2. /\ linked \in Incidents /\ linked.runs = old.runs \cup {run}
          /\ linked.lastRun = run /\ linked.state = old.state
          /\ linked.source = old.source /\ linked.corr = old.corr
          /\ linked.events = old.events
      BY <2>1, <2>3, <3>1 DEF Incidents
    <3> QED
      BY <2>1, <3>2, <1>3, NoneAssumption
  <2> QED
    BY <2>2, <2>3
<1> HIDE DEF done, i0, linked
<1>6. CompleteRecord(j, st, run) =
        [events |-> Blank, incidents |-> [Blank EXCEPT ![i0] = linked],
         jobs |-> [Blank EXCEPT ![j] = done]]
  <2>1. CompleteRecord(j, st, run) =
          [BlankRecord EXCEPT !.jobs[j] = done, !.incidents[i0] = linked]
    BY DEF CompleteRecord, done, i0, linked
  <2> QED
    BY <2>1 DEF BlankRecord
<1>7. Blank \in [Ids -> {None}] /\ \A i \in Ids : Blank[i] = None
  BY DEF Blank
<1>8. \A i \in Ids : [Blank EXCEPT ![j] = done][i] = IF i = j THEN done ELSE None
  BY <1>7
<1>9. \A i \in Ids : [Blank EXCEPT ![i0] = linked][i] =
                       IF i = i0 THEN linked ELSE None
  BY <1>7
<1>10. CompleteRecord(j, st, run) \in Contents
  <2>1. [Blank EXCEPT ![j] = done] \in [Ids -> Jobs \cup {None}]
    BY <1>2, <1>7
  <2>2. [Blank EXCEPT ![i0] = linked] \in [Ids -> Incidents \cup {None}]
    BY <1>5, <1>7
  <2> QED
    BY <2>1, <2>2, <1>6, <1>7 DEF Contents
<1>11. MovesJobs("complete", CompleteRecord(j, st, run))
  <2>1. done # None
    BY <1>2, NoneAssumption
  <2> QED
    BY <2>1, <1>1, <1>2, <1>3, <1>5, <1>6, <1>7, <1>8, <1>9 DEF MovesJobs, Final
<1> QED
  BY <1>6, <1>8, <1>10, <1>11 DEF done

\* The record of a recovery puts every running job back.
Requeued(j) == IF j \in Running
               THEN [jobs[j] EXCEPT !.status = "pending", !.run = None]
               ELSE None
RecoverRecord == [BlankRecord EXCEPT !.jobs = [j \in Ids |-> Requeued(j)]]

LEMMA RecoverMoves ==
  ASSUME Memory \in Contents
  PROVE  /\ RecoverRecord \in Contents /\ MovesJobs("recover", RecoverRecord)
         /\ \A i \in Ids : RecoverRecord.incidents[i] = None
         /\ \A i \in Ids : RecoverRecord.jobs[i] = Requeued(i)
<1>1. ASSUME NEW i \in Ids
      PROVE  /\ Requeued(i) \in Jobs \cup {None}
             /\ Requeued(i) # None =>
                  /\ jobs[i] # None /\ jobs[i].status = "running"
                  /\ Requeued(i).status = "pending" /\ Requeued(i).run = None
                  /\ Requeued(i).incident = jobs[i].incident
                  /\ Requeued(i).event = jobs[i].event
  <2>1. i \in Running => /\ jobs[i] \in Jobs /\ jobs[i] # None
                         /\ jobs[i].status = "running"
    BY NotNone DEF Running, Memory
  <2> QED
    BY <2>1 DEF Requeued, Jobs
<1>2. RecoverRecord = [events |-> Blank, incidents |-> Blank,
                       jobs |-> [j \in Ids |-> Requeued(j)]]
  BY DEF RecoverRecord, BlankRecord
<1>3. Blank \in [Ids -> {None}] /\ \A i \in Ids : Blank[i] = None
  BY DEF Blank
<1>4. RecoverRecord \in Contents
  BY <1>1, <1>2, <1>3 DEF Contents
<1>5. MovesJobs("recover", RecoverRecord)
  BY <1>1, <1>2, <1>3 DEF MovesJobs, Final
<1> QED
  BY <1>2, <1>3, <1>4, <1>5

\* Claiming, completing and recovering jobs.
LEMMA QueueBelongs ==
  ASSUME JInv, NEW o \in Outcomes, o # "unsynced",
         \/ \E j \in Ids : ClaimNext(j, o)
         \/ \E j \in Ids, st \in Final, run \in Runs \cup {None} :
              CompleteJob(j, st, run, o)
         \/ RecoverRunning(o)
  PROVE  Belong'
<1>0. Memory \in Contents
  BY DEF JInv, IInv, TypeInv, TypeOK
<1>1. "claim" \in Kinds /\ "complete" \in Kinds /\ "recover" \in Kinds
  BY DEF Kinds
<1>2. ASSUME NEW j \in Ids, ClaimNext(j, o)
      PROVE  Belong'
  <2>1. Unlocked /\ Oldest(j) /\ Update("claim", ClaimRecord(j), o)
    BY <1>2 DEF ClaimNext, ClaimRecord
  <2> QED
    BY <2>1, <1>0, <1>1, ClaimMoves, UpdateBelongs
<1>3. ASSUME NEW j \in Ids, NEW st \in Final, NEW run \in Runs \cup {None},
             CompleteJob(j, st, run, o)
      PROVE  Belong'
  <2>1. /\ Unlocked /\ j \in Running
        /\ Update("complete", CompleteRecord(j, st, run), o)
    BY <1>3 DEF CompleteJob, CompleteRecord, Finished
  <2>2. Sound(Memory)
    BY <2>1 DEF Unlocked, JInv, Belong, Sounds
  <2> QED
    BY <2>1, <2>2, <1>0, <1>1, CompleteMoves, UpdateBelongs
<1>4. ASSUME RecoverRunning(o)
      PROVE  Belong'
  <2>1. Unlocked /\ Update("recover", RecoverRecord, o)
    BY <1>4 DEF RecoverRunning, RecoverRecord, Requeued
  <2> QED
    BY <2>1, <1>0, <1>1, RecoverMoves, UpdateBelongs
<1> QED
  BY <1>2, <1>3, <1>4

\* A new event: what the record adds belongs together with what is there.
LEMMA IngestNewBelongs ==
  ASSUME JInv, IngestNew, TypeInv'
  PROVE  Belong'
<1> DEFINE e == NextEvent
           J == JoinedIncident(e)
           m == IF J = 0 THEN next ELSE J
           stored == [source |-> e.source, dedup |-> e.dedup, corr |-> e.corr,
                      state |-> e.state, incident |-> m]
           after == IncidentAfter(e, next)
           job == NewJob(e, next)
<1>1. /\ op \in Operations /\ op.todo # <<>> /\ op.todo \in Seq(Events \cup {None})
      /\ proc = "up" /\ op.phase = "loop" /\ op.kind = "ingest" /\ e # None
  BY DEF IngestNew, Looping, Locked, JInv, IInv, TypeInv, TypeOK, Operations
<1>2. e \in Events
  BY <1>1 DEF NextEvent
<1>3. next \in Ids /\ next \in Nat
  <2> DEFINE left == Len(op.todo)
  <2>1. left \in Nat /\ left >= 1
    BY <1>1
  <2>2. next + left <= MaxEvents + 1 /\ next \in 1..(MaxEvents + 1)
    BY <1>1 DEF JInv, IInv, TypeInv, TypeOK, LoopOK
  <2> HIDE DEF left
  <2> QED
    BY <2>1, <2>2, ConstantsAssumption DEF Ids
<1>4. CorrelationIndex(e) \in CorrIndex
  BY <1>2, KeyTypes DEF Events
<1>5. rec \in Contents /\ Staged \in Contents /\ Staged' \in Contents
  <2>1. Memory \in Contents /\ rec \in Contents
    BY DEF JInv, IInv, TypeInv, TypeOK
  <2>2. Memory' \in Contents /\ rec' \in Contents
    BY DEF TypeInv, TypeOK
  <2> QED
    BY <2>1, <2>2, ReplayType DEF Staged
<1>6. OpenExact(Staged.incidents, workOpen) /\ Sound(Staged)
      /\ StayClosed(incidents, Staged.incidents)
  BY <1>1 DEF JInv, IInv, StagedExact, Belong, Sounds, ClosedForGood
<1>7. /\ Staged.events[next] = None /\ Staged.incidents[next] = None
      /\ incidents[next] = None /\ events[next] = None
  BY <1>3, ReplayAt DEF JInv, IInv, Fresh, Staged, Memory
<1>8. Staged.jobs[next] = None /\ jobs[next] = None
  <2>1. Staged.jobs[next] = None
    BY <1>3, <1>6, <1>7 DEF Sound
  <2>2. Staged.jobs[next] = IF rec.jobs[next] = None THEN jobs[next]
                            ELSE rec.jobs[next]
    BY <1>3, ReplayJob DEF Staged, Memory
  <2> QED
    BY <2>1, <2>2
<1>9. J # 0 => /\ J \in Ids /\ OpenIncident(Staged.incidents, J)
               /\ Staged.incidents[J] \in Incidents /\ J # next
               /\ Staged.incidents[J].source = e.source
               /\ Staged.incidents[J].corr = e.corr
  <2>1. J = workOpen[CorrelationIndex(e)]
    BY <1>4, <1>6 DEF JoinedIncident, OpenExact, OpenIncident
  <2>2. J # 0 => /\ OpenIncident(Staged.incidents, J)
                 /\ CorrelationIndex(Staged.incidents[J]) = CorrelationIndex(e)
    BY <2>1, <1>4, <1>6 DEF OpenExact
  <2>3. J # 0 => J \in Ids /\ Staged.incidents[J] \in Incidents /\ J # next
    BY <2>2, <1>5, <1>7, NotNone DEF OpenIncident
  <2> QED
    BY <2>2, <2>3 DEF CorrelationIndex
<1>10. m \in Ids
  BY <1>3, <1>9
<1>11. stored # None
  <2>1. stored \in StoredEvents
    BY <1>2, <1>10 DEF Events, StoredEvents
  <2> QED
    BY <2>1, NoneAssumption
<1>12. /\ after # None /\ after.state = e.state
       /\ after.source = e.source /\ after.corr = e.corr
       /\ J = 0 => after.events = {next}
       /\ J # 0 => /\ after.events = Staged.incidents[J].events \cup {next}
                   /\ after.runs = Staged.incidents[J].runs
                   /\ after.lastRun = Staged.incidents[J].lastRun
  <2>1. CASE J = 0
    <3>1. after \in Incidents
      BY <2>1, <1>2, <1>3 DEF IncidentAfter, Incidents, Events
    <3> QED
      BY <2>1, <3>1, NoneAssumption DEF IncidentAfter
  <2>2. CASE J # 0
    <3>1. after = [Staged.incidents[J] EXCEPT
                     !.state = e.state, !.events = @ \cup {next}]
      BY <2>2 DEF IncidentAfter
    <3>2. e.state \in States
      BY <1>2 DEF Events
    <3>3. PICK old \in Incidents : old = Staged.incidents[J]
      BY <2>2, <1>9
    <3> HIDE DEF after, J, e
    <3>4. /\ after \in Incidents /\ after.state = e.state
          /\ after.source = old.source /\ after.corr = old.corr
          /\ after.events = old.events \cup {next}
          /\ after.runs = old.runs /\ after.lastRun = old.lastRun
      BY <3>1, <3>2, <3>3, <1>3 DEF Incidents
    <3> QED
      BY <2>2, <3>3, <3>4, <1>9, NoneAssumption
  <2> QED
    BY <2>1, <2>2
<1>13. /\ e.state = "firing" /\ J = 0 =>
            /\ job # None /\ job.incident = next /\ job.event = next
            /\ job.status = "pending" /\ job.run = None
       /\ ~(e.state = "firing" /\ J = 0) => job = None
  <2>1. NewJob(e, next) \in Jobs \cup {None}
    BY <1>1, <1>3 DEF NewJob, Jobs, JInv, IInv, TypeInv, LoopOK
  <2>2. CASE e.state = "firing" /\ J = 0
    <3>1. job = [incident |-> next, event |-> next, status |-> "pending",
                 created |-> op.at, run |-> None]
      BY <2>2 DEF NewJob
    <3>2. op.at \in Times
      BY <1>1 DEF JInv, IInv, TypeInv, LoopOK
    <3>3. job \in Jobs
      BY <3>1, <3>2, <1>3 DEF Jobs
    <3> QED
      BY <2>2, <3>1, <3>3, NoneAssumption
  <2>3. CASE ~(e.state = "firing" /\ J = 0)
    BY <2>3 DEF NewJob
  <2> QED
    BY <2>2, <2>3
<1>14. /\ rec' = [events |-> [rec.events EXCEPT ![next] = stored],
                  incidents |-> [rec.incidents EXCEPT ![m] = after],
                  jobs |-> [rec.jobs EXCEPT ![next] = job]]
       /\ op' = [op EXCEPT !.todo = Tail(@)]
       /\ UNCHANGED <<proc, memory, waiters, journal>>
  BY DEF IngestNew
<1>15. /\ stored.incident = m /\ stored.state = e.state
       /\ stored.source = e.source /\ stored.corr = e.corr
  OBVIOUS
<1>16. J = 0 => m = next
  OBVIOUS
<1>17. J # 0 => m = J
  OBVIOUS
<1> HIDE DEF e, J, m, stored, after, job
<1>18. /\ Memory' = Memory /\ incidents' = incidents /\ jobs' = jobs
       /\ events' = events
       /\ disk' = disk /\ tail' = tail /\ waiters' = waiters /\ proc' = proc
  BY <1>14 DEF memory, Memory, journal
<1>19. op'.phase = "loop" /\ op'.kind = "ingest"
  BY <1>1, <1>14 DEF Operations
<1>20. \A i \in Ids :
         /\ rec'.events[i] = IF i = next THEN stored ELSE rec.events[i]
         /\ rec'.incidents[i] = IF i = m THEN after ELSE rec.incidents[i]
         /\ rec'.jobs[i] = IF i = next THEN job ELSE rec.jobs[i]
  BY <1>3, <1>5, <1>10, <1>14 DEF Contents
<1>21. Staged' = Replay(Memory, rec')
  BY <1>18 DEF Staged
<1>22. \A i \in Ids :
          Staged'.events[i] = IF i = next THEN stored ELSE Staged.events[i]
  BY <1>11, <1>20, <1>21, ReplayAt DEF Staged
<1>23. \A i \in Ids :
          Staged'.incidents[i] = IF i = m THEN after ELSE Staged.incidents[i]
  BY <1>12, <1>20, <1>21, ReplayAt DEF Staged
<1>24. \A i \in Ids : Staged'.jobs[i] = IF i = next THEN job ELSE Staged.jobs[i]
  <2>1. Memory.jobs[next] = None
    BY <1>8 DEF Memory
  <2> QED
    BY <2>1, <1>20, <1>21, ReplayJob DEF Staged
<1>25. \/ /\ m = next /\ after.events = {next}
          /\ stored.state = "firing" => /\ job # None
                                        /\ job.incident = next /\ job.event = next
                                        /\ job.run = None
          /\ stored.state # "firing" => job = None
       \/ /\ OpenIncident(Staged.incidents, m) /\ job = None
          /\ after.events = Staged.incidents[m].events \cup {next}
          /\ after.source = Staged.incidents[m].source
          /\ after.corr = Staged.incidents[m].corr
          /\ after.runs = Staged.incidents[m].runs
          /\ after.lastRun = Staged.incidents[m].lastRun
  <2>1. CASE J = 0
    BY <2>1, <1>12, <1>13, <1>15, <1>16
  <2>2. CASE J # 0
    BY <2>2, <1>9, <1>12, <1>13, <1>17
  <2> QED
    BY <2>1, <2>2
<1>26. Sound(Staged')
  <2>1. /\ after.state = stored.state /\ after.source = stored.source
        /\ after.corr = stored.corr
    BY <1>12, <1>15
  <2>2. Adds(Staged, Staged', next, m, stored, after, job)
    BY <2>1, <1>7, <1>11, <1>12, <1>15, <1>22, <1>23, <1>24, <1>25 DEF Adds
  <2> QED
    BY <2>2, <1>3, <1>5, <1>6, <1>10, SoundNew
<1>27. Sounds'
  BY <1>18, <1>26 DEF JInv, Belong, Sounds, Readable
<1>28. RecordMoves'
  <2>1. \A j \in Ids : rec.jobs[j] # None =>
           jobs[j] = None /\ incidents[j] = None /\ rec.jobs[j].status = "pending"
    BY <1>1 DEF JInv, Belong, RecordMoves
  <2>2. job # None => job.status = "pending"
    BY <1>13
  <2>3. \A j \in Ids : rec'.jobs[j] # None =>
           jobs[j] = None /\ incidents[j] = None /\ rec'.jobs[j].status = "pending"
    BY <2>1, <2>2, <1>7, <1>8, <1>20
  <2>4. \A i \in Ids : rec'.events[i] # None => events[i] = None
    BY <1>1, <1>7, <1>20 DEF JInv, Belong, RecordMoves
  <2>5. rec'.events # Blank
    BY <1>3, <1>11, <1>20 DEF Blank
  <2> QED
    BY <2>3, <2>4, <2>5, <1>18, <1>19 DEF RecordMoves
<1>29. ClosedForGood'
  <2>1. ASSUME NEW i \in Ids, incidents[i] # None
        PROVE  /\ Staged'.incidents[i] # None
               /\ Staged'.incidents[i].source = incidents[i].source
               /\ Staged'.incidents[i].corr = incidents[i].corr
               /\ Staged'.incidents[i].state = "firing" =>
                    incidents[i].state = "firing"
    <3>1. /\ Staged.incidents[i] # None
          /\ Staged.incidents[i].source = incidents[i].source
          /\ Staged.incidents[i].corr = incidents[i].corr
          /\ Staged.incidents[i].state = "firing" => incidents[i].state = "firing"
      BY <2>1, <1>6 DEF StayClosed
    <3>2. CASE i = m
      <4>1. J # 0 /\ i = J
        BY <2>1, <3>2, <1>7, <1>16, <1>17
      <4> QED
        BY <3>1, <3>2, <4>1, <1>9, <1>12, <1>23 DEF OpenIncident
    <3>3. CASE i # m
      BY <3>1, <3>3, <1>23
    <3> QED
      BY <3>2, <3>3
  <2> QED
    BY <2>1, <1>18 DEF ClosedForGood, StayClosed
<1>30. WaitsExact'
  BY <1>18 DEF JInv, Belong, WaitsExact
<1> QED
  BY <1>27, <1>28, <1>29, <1>30 DEF Belong

\* The other steps of a delivery.
LEMMA IngestBelongs ==
  ASSUME "unsynced" \notin Faults, JInv, Ingest, TypeInv'
  PROVE  Belong'
<1>0. Memory \in Contents /\ rec \in Contents
  BY DEF JInv, IInv, TypeInv, TypeOK
<1>1. ASSUME NEW b \in Batches, NEW t \in Times, BeginIngest(b, t)
      PROVE  Belong'
  <2>1. /\ proc = "up" /\ proc' = "up" /\ op'.kind = "ingest"
        /\ rec' = BlankRecord /\ Memory' = Memory
        /\ incidents' = incidents /\ jobs' = jobs
        /\ disk' = disk /\ tail' = tail /\ waiters' = waiters
    BY <1>1 DEF BeginIngest, Unlocked, memory, Memory, journal
  <2>2. Staged' = Memory
    <3>1. Override(events, Blank) = events /\ Override(incidents, Blank) = incidents
          /\ Override(jobs, Blank) = jobs
      BY <1>0 DEF Override, Blank, Memory, Contents
    <3> QED
      BY <2>1, <3>1 DEF Staged, Replay, BlankRecord, Memory
  <2>3. Sounds'
    BY <2>1, <2>2 DEF JInv, Belong, Sounds, Readable
  <2>4. RecordMoves'
    BY <2>1 DEF RecordMoves, BlankRecord, Blank
  <2>5. Staged'.incidents = incidents
    BY <2>2 DEF Memory
  <2>6. ClosedForGood'
    BY <2>1, <2>5 DEF ClosedForGood, StayClosed
  <2>7. WaitsExact'
    BY <2>1 DEF JInv, Belong, WaitsExact
  <2> QED
    BY <2>3, <2>4, <2>6, <2>7 DEF Belong
<1>2. ASSUME IngestInvalid
      PROVE  Belong'
  <2>1. /\ proc' = proc /\ op'.phase = "idle" /\ Memory' = Memory /\ jobs' = jobs
        /\ disk' = disk /\ tail' = tail /\ waiters' = waiters
    BY <1>2, IdleType DEF IngestInvalid, memory, Memory, journal
  <2>2. Sounds' /\ RecordMoves' /\ ClosedForGood'
    BY <2>1 DEF JInv, Belong, Sounds, RecordMoves, ClosedForGood, Readable
  <2>3. WaitsExact'
    BY <2>1 DEF JInv, Belong, WaitsExact
  <2> QED
    BY <2>2, <2>3 DEF Belong
<1>3. ASSUME IngestDuplicate
      PROVE  Belong'
  <2>1. op \in Operations /\ op.phase = "loop"
    BY <1>3 DEF IngestDuplicate, Looping, Locked, JInv, IInv, TypeInv, TypeOK
  <2>2. /\ proc' = proc /\ op'.phase = op.phase /\ op'.kind = op.kind
        /\ rec' = rec /\ Memory' = Memory
        /\ jobs' = jobs /\ incidents' = incidents /\ events' = events
        /\ disk' = disk /\ tail' = tail /\ waiters' = waiters
    BY <2>1, <1>3 DEF IngestDuplicate, memory, Memory, journal, Operations
  <2>3. Staged' = Staged
    BY <2>2 DEF Staged
  <2>4. Sounds' /\ RecordMoves' /\ ClosedForGood'
    BY <2>2, <2>3 DEF JInv, Belong, Sounds, RecordMoves, ClosedForGood, Readable
  <2>5. WaitsExact'
    BY <2>2 DEF JInv, Belong, WaitsExact
  <2> QED
    BY <2>4, <2>5 DEF Belong
<1>4. ASSUME NEW o \in Outcomes, IngestAppend(o)
      PROVE  Belong'
  <2>1. /\ proc = "up" /\ op.phase = "loop" /\ op.kind = "ingest"
        /\ Write("ingest", rec, o) /\ UNCHANGED <<proc, memory, waiters>>
        /\ o # "unsynced" /\ "ingest" \in Kinds
    BY <1>4 DEF IngestAppend, Locked, Outcomes, Kinds
  <2>2. /\ Memory' = Memory /\ events' = events
        /\ jobs' = jobs /\ incidents' = incidents
        /\ waiters' = waiters /\ proc' = proc
    BY <2>1 DEF memory, Memory
  <2>3. Sound(Memory) /\ Sound(Staged)
    BY <2>1 DEF JInv, Belong, Sounds
  <2>4. Readable' => Sound(disk')
    BY <2>1, <2>3, AppendSound DEF Write, Staged
  <2>5. WaitsExact'
    BY <2>2 DEF JInv, Belong, WaitsExact
  <2>6. CASE o = "ok"
    <3>1. rec' = rec /\ op'.kind = "ingest"
      BY <2>6, <1>0, <2>1, WriteType DEF JInv, IInv, TypeInv
    <3>2. Staged' = Staged
      BY <3>1, <2>2 DEF Staged
    <3>3. Sounds' /\ RecordMoves' /\ ClosedForGood'
      BY <3>1, <3>2, <2>1, <2>2, <2>3, <2>4
         DEF JInv, Belong, Sounds, RecordMoves, ClosedForGood
    <3> QED
      BY <3>3, <2>5 DEF Belong
  <2>7. CASE o # "ok"
    <3>1. op'.phase = "idle"
      BY <2>7, <1>0, <2>1, WriteType, IdleType DEF JInv, IInv, TypeInv
    <3>2. Sounds' /\ RecordMoves' /\ ClosedForGood'
      BY <3>1, <2>2, <2>3, <2>4 DEF Sounds, RecordMoves, ClosedForGood
    <3> QED
      BY <3>2, <2>5 DEF Belong
  <2> QED
    BY <2>6, <2>7
<1> QED
  BY <1>1, <1>2, <1>3, <1>4, IngestNewBelongs DEF Ingest

\* The staged maps become the maps, and who waits for a job hears of its end.
LEMMA CommitBelongs ==
  ASSUME JInv, Commit
  PROVE  Belong'
<1>1. /\ proc = "up" /\ proc' = "up" /\ op.phase = "written" /\ op'.phase = "idle"
      /\ jobs' = Staged.jobs /\ waiters' = Notified
      /\ disk' = disk /\ tail' = tail
  BY IdleType DEF Commit, journal
<1>2. Memory' = Staged
  BY DEF Commit, Memory, Staged, Replay
<1>3. Sounds' /\ RecordMoves' /\ ClosedForGood'
  BY <1>1, <1>2 DEF JInv, Belong, Sounds, RecordMoves, ClosedForGood, Readable
<1>4. ASSUME NEW w \in Waiters, waiters'[w].job # 0
      PROVE  /\ jobs'[waiters'[w].job] # None
             /\ IF waiters'[w].got = "none"
                THEN jobs'[waiters'[w].job].status \notin Final
                ELSE waiters'[w].got = jobs'[waiters'[w].job].status
  <2>1. waiters[w] \in [job : Ids \cup {0}, got : {"none"} \cup Final]
    BY DEF JInv, IInv, TypeInv, TypeOK
  <2>2. waiters'[w] =
          IF waiters[w].job # 0 /\ op.kind = "complete"
               /\ rec.jobs[waiters[w].job] # None
          THEN [waiters[w] EXCEPT !.got = rec.jobs[waiters[w].job].status]
          ELSE waiters[w]
    BY <1>1 DEF Notified
  <2>3. waiters'[w].job = waiters[w].job
    BY <2>1, <2>2
  <2>4. PICK j \in Ids : j = waiters[w].job
    BY <1>4, <2>1, <2>3
  <2>5. /\ jobs[j] # None
        /\ IF waiters[w].got = "none" THEN jobs[j].status \notin Final
           ELSE waiters[w].got = jobs[j].status
    BY <1>4, <2>3, <2>4 DEF JInv, Belong, WaitsExact
  <2>6. jobs'[j] = IF rec.jobs[j] = None THEN jobs[j] ELSE rec.jobs[j]
    BY <1>1, ReplayJob DEF Staged, Memory
  <2>7. rec.jobs[j] # None =>
          /\ jobs[j].status \notin Final
          /\ op.kind # "complete" => rec.jobs[j].status \notin Final
    BY <1>1, <2>5 DEF JInv, Belong, RecordMoves
  <2>8. waiters[w].got # "none" => waiters[w].got \in Final
    BY <2>1
  <2>9. CASE op.kind = "complete" /\ rec.jobs[j] # None
    <3>1. waiters'[w].got = rec.jobs[j].status
      BY <2>1, <2>2, <2>4, <2>9, <1>4, <2>3
    <3>2. rec.jobs[j].status \in Final
      BY <2>9 DEF JInv, IInv, TypeInv, CompletionOK, Finals
    <3> QED
      BY <3>1, <3>2, <2>3, <2>4, <2>6, <2>9 DEF Final
  <2>10. CASE ~(op.kind = "complete" /\ rec.jobs[j] # None)
    <3>1. waiters'[w] = waiters[w]
      BY <2>2, <2>4, <2>10
    <3>2. CASE rec.jobs[j] = None
      BY <3>1, <3>2, <2>4, <2>5, <2>6
    <3>3. CASE rec.jobs[j] # None
      <4>1. waiters[w].got = "none"
        BY <3>3, <2>5, <2>7, <2>8
      <4> QED
        BY <3>1, <3>3, <4>1, <2>4, <2>6, <2>7, <2>10
    <3> QED
      BY <3>2, <3>3
  <2> QED
    BY <2>9, <2>10
<1>5. WaitsExact'
  BY <1>1, <1>4 DEF WaitsExact
<1> QED
  BY <1>3, <1>5 DEF Belong

\* A start reads a sound journal, and nobody waits yet; a crash ends the wait.
LEMMA ProcessBelongs ==
  ASSUME JInv, OpenStore \/ OpenStoreRefused \/ Crash
  PROVE  Belong'
<1>1. CASE OpenStore
  <2>1. /\ proc # "up" /\ Readable /\ op' = op /\ waiters' = waiters
        /\ disk' = disk /\ tail' = tail
    BY <1>1 DEF OpenStore, Readable, work, journal
  <2>2. op'.phase = "idle"
    BY <2>1 DEF JInv, IInv, StoppedIdle
  <2>3. Memory' = disk
    BY <1>1 DEF OpenStore, Memory, JInv, IInv, TypeInv, TypeOK, Contents
  <2>4. Sounds' /\ RecordMoves' /\ ClosedForGood'
    BY <2>1, <2>2, <2>3
       DEF JInv, Belong, Sounds, RecordMoves, ClosedForGood, Readable
  <2>5. WaitsExact'
    BY <2>1 DEF JInv, Belong, WaitsExact
  <2> QED
    BY <2>4, <2>5 DEF Belong
<1>2. CASE OpenStoreRefused
  <2>1. /\ proc # "up" /\ proc' # "up" /\ waiters' = waiters
        /\ disk' = disk /\ tail' = tail
    BY <1>2 DEF OpenStoreRefused, journal
  <2> QED
    BY <2>1 DEF JInv, Belong, Sounds, RecordMoves, ClosedForGood, WaitsExact, Readable
<1>3. CASE Crash
  <2>1. /\ proc' # "up" /\ \A w \in Waiters : waiters'[w].job = 0
        /\ disk' = disk /\ tail' = tail
    BY <1>3 DEF Crash, journal, NoWait
  <2> QED
    BY <2>1 DEF JInv, Belong, Sounds, RecordMoves, ClosedForGood, WaitsExact, Readable
<1> QED
  BY <1>1, <1>2, <1>3

\* A caller registers for a job that is not final, or takes its answer.
LEMMA WaitingBelongs ==
  ASSUME JInv, Waiting \/ TakeWake \/ UNCHANGED storeVars
  PROVE  Belong'
<1>1. UNCHANGED <<proc, memory, work, journal>>
  BY DEF Waiting, WaitReturns, WaitJob, TakeWake, storeVars
<1>2. /\ Memory' = Memory /\ Staged' = Staged /\ op' = op /\ rec' = rec
      /\ proc' = proc /\ events' = events
      /\ jobs' = jobs /\ incidents' = incidents
      /\ disk' = disk /\ tail' = tail
  BY <1>1 DEF Memory, Staged, memory, work, journal
<1>3. Sounds' /\ RecordMoves' /\ ClosedForGood'
  BY <1>2 DEF JInv, Belong, Sounds, RecordMoves, ClosedForGood, Readable
<1>4. waiters \in [Waiters -> [job : Ids \cup {0}, got : {"none"} \cup Final]]
  BY DEF JInv, IInv, TypeInv, TypeOK
<1>5. ASSUME UNCHANGED waiters
      PROVE  WaitsExact'
  BY <1>2, <1>5 DEF JInv, Belong, WaitsExact
<1>6. ASSUME NEW w \in Waiters, WaitReturns(w)
      PROVE  WaitsExact'
  <2>1. \A v \in Waiters : waiters'[v] = waiters[v] \/ waiters'[v].job = 0
    BY <1>4, <1>6 DEF WaitReturns, NoWait
  <2> QED
    BY <2>1, <1>2 DEF JInv, Belong, WaitsExact
<1>7. ASSUME NEW w \in Waiters, NEW j \in Ids, WaitJob(w, j)
      PROVE  WaitsExact'
  <2>1. /\ proc = "up" /\ waiters[w] = NoWait /\ j \in Pending \cup Running
        /\ waiters' = [waiters EXCEPT ![w] = [waiters[w] EXCEPT !.job = j]]
    BY <1>7 DEF WaitJob, Unlocked
  <2>2. jobs[j] # None /\ jobs[j].status \notin Final
    BY <2>1 DEF Pending, Running, Final
  <2>3. waiters'[w].job = j /\ waiters'[w].got = "none"
    BY <2>1, <1>4 DEF NoWait
  <2>4. \A v \in Waiters : v # w => waiters'[v] = waiters[v]
    BY <2>1, <1>4
  <2>5. ASSUME NEW v \in Waiters, waiters'[v].job # 0
        PROVE  /\ proc = "up" /\ jobs[waiters'[v].job] # None
               /\ IF waiters'[v].got = "none"
                  THEN jobs[waiters'[v].job].status \notin Final
                  ELSE waiters'[v].got = jobs[waiters'[v].job].status
    <3>1. CASE v = w
      BY <3>1, <2>1, <2>2, <2>3
    <3>2. CASE v # w
      BY <3>2, <2>4, <2>5 DEF JInv, Belong, WaitsExact
    <3> QED
      BY <3>1, <3>2
  <2> QED
    BY <2>5, <1>2 DEF WaitsExact
<1>8. WaitsExact'
  BY <1>5, <1>6, <1>7 DEF Waiting, TakeWake, storeVars
<1> QED
  BY <1>3, <1>8 DEF Belong

\* The inductive invariant of the links, the jobs and the callers that wait.
THEOREM StoreBelongs ==
  ASSUME "unsynced" \notin Faults
  PROVE  Spec => []JInv
<1>1. Init => Belong
  <2> SUFFICES ASSUME Init PROVE Belong
    OBVIOUS
  <2>1. /\ proc = "down" /\ disk = BlankRecord
        /\ \A w \in Waiters : waiters[w].job = 0
    BY DEF Init, NoWait
  <2>2. Sound(BlankRecord)
    BY DEF Sound, Linked, OpenIncident, BlankRecord, Blank
  <2> QED
    BY <2>1, <2>2 DEF Belong, Sounds, RecordMoves, ClosedForGood, WaitsExact
<1>2. IInv /\ Belong /\ [Next]_storeVars => Belong'
  <2> SUFFICES ASSUME JInv, [Next]_storeVars PROVE Belong'
    BY DEF JInv
  <2>0. TypeInv'
    BY NextType DEF JInv, IInv
  <2>1. \A o \in Outcomes : o # "unsynced"
    BY DEF Outcomes
  <2>2. CASE OpenStore \/ OpenStoreRefused \/ Crash
    BY <2>2, ProcessBelongs
  <2>3. CASE Ingest
    BY <2>0, <2>3, IngestBelongs
  <2>4. CASE QueueStep
    BY <2>1, <2>4, QueueBelongs DEF QueueStep
  <2>5. CASE \E o \in Outcomes : RecoverRunning(o)
    BY <2>1, <2>5, QueueBelongs
  <2>6. CASE Commit
    BY <2>6, CommitBelongs
  <2>7. CASE Waiting \/ TakeWake \/ UNCHANGED storeVars
    BY <2>7, WaitingBelongs
  <2> QED
    BY <2>2, <2>3, <2>4, <2>5, <2>6, <2>7 DEF Next
<1>3. IInv /\ Belong => JInv
  BY DEF JInv
<1>4. Spec => []IInv
  BY StoreExact
<1> QED
  BY <1>1, <1>2, <1>3, <1>4, PTL DEF Spec

\* Events and incidents point at each other, in memory and in the journal, and
\* no incident mixes two sources or two correlation keys.
THEOREM AlwaysLinked ==
  ASSUME "unsynced" \notin Faults
  PROVE  Spec => []EventsLinked
<1>1. JInv => EventsLinked
  BY DEF JInv, Belong, Sounds, Sound, Memory, EventsLinked
<1> QED
  BY <1>1, StoreBelongs, PTL

\* Exactly one job is queued for an incident that saw a firing event, by its
\* first firing event, and none for another.
THEOREM AlwaysOneJob ==
  ASSUME "unsynced" \notin Faults
  PROVE  Spec => []OneJobPerIncident
<1>1. ASSUME NEW c \in Contents, Sound(c)
      PROVE  OneJobEach(c.events, c.incidents, c.jobs)
  <2>1. \A j \in Ids : c.jobs[j] # None =>
          /\ c.events[c.jobs[j].event] # None
          /\ c.events[c.jobs[j].event].state = "firing"
          /\ c.events[c.jobs[j].event].incident = c.jobs[j].incident
    BY <1>1 DEF Sound
  <2>2. \A j, k \in Ids : c.jobs[j] # None /\ c.jobs[k] # None
                           /\ c.jobs[j].incident = c.jobs[k].incident => j = k
    BY <1>1 DEF Sound
  <2>3. ASSUME NEW e \in Ids, c.events[e] # None, c.events[e].state = "firing"
        PROVE  \E j \in Ids : c.jobs[j] # None
                              /\ c.jobs[j].incident = c.events[e].incident
    <3>1. c.events[e].incident \in Ids
      BY <1>1, <2>3, LinkTypes
    <3>2. c.jobs[c.events[e].incident] # None
      BY <1>1, <2>3 DEF Sound
    <3>3. c.jobs[c.events[e].incident].incident = c.events[e].incident
      BY <1>1, <3>1, <3>2 DEF Sound
    <3> QED
      BY <3>1, <3>2, <3>3
  <2> QED
    BY <2>1, <2>2, <2>3 DEF OneJobEach
<1>2. JInv => OneJobPerIncident
  <2> SUFFICES ASSUME JInv PROVE OneJobPerIncident
    OBVIOUS
  <2>1. Memory \in Contents /\ disk \in Contents
    BY DEF JInv, IInv, TypeInv, TypeOK
  <2>2. proc = "up" => OneJobEach(Memory.events, Memory.incidents, Memory.jobs)
    BY <2>1, <1>1 DEF JInv, Belong, Sounds
  <2>3. Readable => OneJobEach(disk.events, disk.incidents, disk.jobs)
    BY <2>1, <1>1 DEF JInv, Belong, Sounds
  <2> QED
    BY <2>2, <2>3 DEF OneJobPerIncident, Memory
<1> QED
  BY <1>2, StoreBelongs, PTL

\* A caller of WaitJob waits for a job that is not final, and the answer it is
\* sent is the job's final status.
THEOREM AlwaysAnswered ==
  ASSUME "unsynced" \notin Faults
  PROVE  Spec => []AnswersMatchJobs
<1>1. JInv => AnswersMatchJobs
  BY DEF JInv, Belong, WaitsExact, AnswersMatchJobs
<1> QED
  BY <1>1, StoreBelongs, PTL
-----------------------------------------------------------------------------
(* The refinement: what the journal replays moves as the ledger says.  A   *)
(* delivery is the ledger's step at the moment its line is written, not    *)
(* when memory follows, and so is each move of a job; every other step is  *)
(* a stutter.                                                              *)

\* What the ledger sees of events, of incidents and of jobs.
KeysView(E) == {DedupeKey(E[e]) : e \in {i \in Ids : E[i] # None}}

IncidentView(I) ==
    [i \in Ids |->
       IF I[i] = None THEN [key |-> None, open |-> FALSE]
       ELSE [key |-> CorrelationIndex(I[i]), open |-> I[i].state = "firing"]]

JobView(J) ==
    [j \in Ids |->
       IF J[j] = None THEN [status |-> "absent", of |-> 0]
       ELSE [status |-> J[j].status, of |-> J[j].incident]]

\* An incident of the ledger exists, is open, and has its key, when the one it
\* stands for does; so with jobs.
LEMMA ViewAt ==
  ASSUME NEW c \in Contents, NEW i \in Ids
  PROVE  /\ IncidentView(c.incidents)[i].key # None <=> c.incidents[i] # None
         /\ IncidentView(c.incidents)[i].open <=> OpenIncident(c.incidents, i)
         /\ c.incidents[i] # None =>
              IncidentView(c.incidents)[i].key = CorrelationIndex(c.incidents[i])
         /\ JobView(c.jobs)[i].status # "absent" <=> c.jobs[i] # None
         /\ c.jobs[i] # None => JobView(c.jobs)[i].status = c.jobs[i].status
         /\ c.jobs[i] # None => JobView(c.jobs)[i].of = c.jobs[i].incident
<1>1. c.incidents[i] # None => CorrelationIndex(c.incidents[i]) # None
  <2>1. c.incidents[i] # None => c.incidents[i] \in Incidents
    BY NotNone
  <2>2. c.incidents[i] # None =>
          CorrelationIndex(c.incidents[i]) \in Sources \X CorrKeys
    BY <2>1 DEF Incidents, CorrelationIndex
  <2> QED
    BY <2>2, NoneAssumption
<1>2. c.jobs[i] # None => c.jobs[i].status # "absent"
  <2>1. c.jobs[i] # None => c.jobs[i] \in Jobs
    BY NotNone
  <2> QED
    BY <2>1 DEF Jobs, Final
<1>3. /\ IncidentView(c.incidents)[i].key # None <=> c.incidents[i] # None
      /\ c.incidents[i] # None =>
           IncidentView(c.incidents)[i].key = CorrelationIndex(c.incidents[i])
  BY <1>1 DEF IncidentView
<1>4. IncidentView(c.incidents)[i].open <=> OpenIncident(c.incidents, i)
  BY DEF IncidentView, OpenIncident
<1>5. /\ JobView(c.jobs)[i].status # "absent" <=> c.jobs[i] # None
      /\ c.jobs[i] # None => JobView(c.jobs)[i].status = c.jobs[i].status
      /\ c.jobs[i] # None => JobView(c.jobs)[i].of = c.jobs[i].incident
  BY <1>2 DEF JobView
<1> QED
  BY <1>3, <1>4, <1>5

\* What a delivery did to the journal, event by event and job by job.
Delivered(c, d) ==
    /\ \A e \in Ids : c.events[e] # None => d.events[e] = c.events[e]
    /\ \E e \in Ids : d.events[e] # None /\ c.events[e] = None
    /\ DedupUnique(d.events)
    /\ \A i \in Ids : c.incidents[i] # None =>
         /\ d.incidents[i] # None
         /\ CorrelationIndex(d.incidents[i]) = CorrelationIndex(c.incidents[i])
         /\ OpenIncident(d.incidents, i) => OpenIncident(c.incidents, i)
    /\ OneOpen(d.incidents)
    /\ \A j \in Ids : c.jobs[j] # None => d.jobs[j] = c.jobs[j]
    /\ \A j \in Ids : d.jobs[j] # None /\ c.jobs[j] = None =>
         /\ d.jobs[j].status = "pending" /\ d.jobs[j].incident = j
         /\ c.incidents[j] = None /\ d.incidents[j] # None
    /\ \A i \in Ids : OpenIncident(d.incidents, i) =>
         d.jobs[i] # None /\ d.jobs[i].incident = i

\* The record of a delivery does so, unless it is empty.
LEMMA RecordDelivers ==
  ASSUME JInv, Locked("ingest", "loop")
  PROVE  Staged = Memory \/ Delivered(Memory, Staged)
<1>0. /\ proc = "up" /\ op.phase = "loop" /\ op.kind = "ingest"
      /\ Memory \in Contents /\ rec \in Contents /\ Staged \in Contents
  BY ReplayType DEF Locked, Staged, JInv, IInv, TypeInv, TypeOK
<1>1. /\ Sound(Memory) /\ Sound(Staged)
      /\ StayClosed(incidents, Staged.incidents)
      /\ DedupExact(Staged.events, Merged) /\ OpenExact(Staged.incidents, workOpen)
  BY <1>0 DEF JInv, IInv, StagedExact, Belong, Sounds, ClosedForGood
<1>2. /\ \A j \in Ids : rec.jobs[j] # None =>
           jobs[j] = None /\ incidents[j] = None /\ rec.jobs[j].status = "pending"
      /\ \A i \in Ids : rec.events[i] # None => events[i] = None
      /\ rec.events = Blank => rec.incidents = Blank
  BY <1>0 DEF JInv, Belong, RecordMoves
<1>3. \A i \in Ids :
         /\ Staged.events[i] = IF rec.events[i] = None THEN events[i]
                               ELSE rec.events[i]
         /\ Staged.jobs[i] = IF rec.jobs[i] = None THEN jobs[i] ELSE rec.jobs[i]
  BY ReplayAt, ReplayJob DEF Staged, Memory
<1>4. CASE rec.events = Blank
  <2>1. \A i \in Ids : rec.events[i] = None
    BY <1>4 DEF Blank
  <2>2. \A j \in Ids : rec.jobs[j] = None
    <3>1. ASSUME NEW j \in Ids, rec.jobs[j] # None
          PROVE  FALSE
      <4>1. Staged.jobs[j] # None
        BY <3>1, <1>3
      <4>2. /\ Staged.events[j] # None /\ Staged.events[j].state = "firing"
            /\ Staged.events[j].incident = j
        BY <4>1, <1>1 DEF Sound
      <4>3. events[j] # None /\ events[j].state = "firing" /\ events[j].incident = j
        BY <4>2, <2>1, <1>3
      <4>4. jobs[j] # None
        BY <4>3, <1>1 DEF Sound, Memory
      <4> QED
        BY <3>1, <4>4, <1>2
    <3> QED
      BY <3>1
  <2>3. \A i \in Ids : rec.incidents[i] = None
    BY <1>4, <1>2 DEF Blank
  <2>4. /\ Override(events, rec.events) = events
        /\ Override(incidents, rec.incidents) = incidents
        /\ Override(jobs, rec.jobs) = jobs
    BY <2>1, <2>2, <2>3, <1>0 DEF Override, Memory, Contents
  <2> QED
    BY <2>4 DEF Staged, Replay, Memory
<1>5. CASE rec.events # Blank
  <2>1. PICK e \in Ids : rec.events[e] # None
    BY <1>0, <1>5 DEF Contents, Blank
  <2>2. \A i \in Ids : events[i] # None => Staged.events[i] = events[i]
    BY <1>2, <1>3
  <2>3. \E i \in Ids : Staged.events[i] # None /\ events[i] = None
    BY <2>1, <1>2, <1>3
  <2>4. DedupUnique(Staged.events) /\ OneOpen(Staged.incidents)
    BY <1>1, ExactUnique
  <2>5. \A i \in Ids : incidents[i] # None =>
          /\ Staged.incidents[i] # None
          /\ CorrelationIndex(Staged.incidents[i]) = CorrelationIndex(incidents[i])
          /\ OpenIncident(Staged.incidents, i) => OpenIncident(incidents, i)
    BY <1>1 DEF StayClosed, CorrelationIndex, OpenIncident
  <2>6. \A j \in Ids : jobs[j] # None => Staged.jobs[j] = jobs[j]
    BY <1>2, <1>3
  <2>7. \A j \in Ids : Staged.jobs[j] # None /\ jobs[j] = None =>
          /\ Staged.jobs[j].status = "pending" /\ Staged.jobs[j].incident = j
          /\ incidents[j] = None /\ Staged.incidents[j] # None
    <3>1. ASSUME NEW j \in Ids, Staged.jobs[j] # None, jobs[j] = None
          PROVE  /\ Staged.jobs[j].status = "pending" /\ Staged.jobs[j].incident = j
                 /\ incidents[j] = None /\ Staged.incidents[j] # None
      <4>1. Staged.jobs[j] = rec.jobs[j] /\ rec.jobs[j] # None
        BY <3>1, <1>3
      <4>2. Staged.events[j] # None /\ Staged.events[j].incident = j
            /\ Staged.jobs[j].incident = j
        BY <3>1, <1>1 DEF Sound
      <4>3. Staged.incidents[j] # None
        BY <4>2, <1>0, <1>1, LinkTypes
      <4> QED
        BY <4>1, <4>2, <4>3, <1>2
    <3> QED
      BY <3>1
  <2>8. \A i \in Ids : OpenIncident(Staged.incidents, i) =>
          Staged.jobs[i] # None /\ Staged.jobs[i].incident = i
    BY <1>1 DEF Sound
  <2>9. /\ Memory.events = events /\ Memory.incidents = incidents
        /\ Memory.jobs = jobs
    BY DEF Memory
  <2> QED
    BY <2>2, <2>3, <2>4, <2>5, <2>6, <2>7, <2>8, <2>9 DEF Delivered
<1> QED
  BY <1>4, <1>5

\* A delivery that reaches the journal is the ledger's Deliver.
LEMMA DeliverStep ==
  ASSUME disk \in Contents, disk' \in Contents, Delivered(disk, disk')
  PROVE  Ledger!Deliver
<1>1. PICK c \in Contents : c = disk
  OBVIOUS
<1>2. PICK d \in Contents : d = disk'
  OBVIOUS
<1>3. Delivered(c, d)
  BY <1>1, <1>2
<1>4. /\ LedgerAccepted = KeysView(c.events) /\ LedgerAccepted' = KeysView(d.events)
      /\ LedgerIncident = IncidentView(c.incidents)
      /\ LedgerIncident' = IncidentView(d.incidents)
      /\ LedgerJob = JobView(c.jobs) /\ LedgerJob' = JobView(d.jobs)
  BY <1>1, <1>2 DEF LedgerAccepted, KeysView, LedgerIncident, IncidentView,
                    LedgerJob, JobView
<1>5. KeysView(c.events) \subseteq KeysView(d.events)
  BY <1>3 DEF Delivered, KeysView
<1>6. KeysView(d.events) # KeysView(c.events)
  <2>1. PICK e \in Ids : d.events[e] # None /\ c.events[e] = None
    BY <1>3 DEF Delivered
  <2>2. DedupeKey(d.events[e]) \in KeysView(d.events)
    BY <2>1 DEF KeysView
  <2>3. ASSUME DedupeKey(d.events[e]) \in KeysView(c.events)
        PROVE  FALSE
    <3>1. PICK i \in Ids : /\ c.events[i] # None
                           /\ DedupeKey(c.events[i]) = DedupeKey(d.events[e])
      BY <2>3 DEF KeysView
    <3>2. d.events[i] = c.events[i]
      BY <3>1, <1>3 DEF Delivered
    <3>3. i = e
      BY <2>1, <3>1, <3>2, <1>3 DEF Delivered, DedupUnique, StoredEvent
    <3> QED
      BY <2>1, <3>1, <3>3
  <2> QED
    BY <2>2, <2>3
<1> DEFINE I == IncidentView(c.incidents)
           K == IncidentView(d.incidents)
           A == JobView(c.jobs)
           B == JobView(d.jobs)
<1>7. \A i \in Ids : I[i].key # None => K[i].key = I[i].key
                                        /\ (K[i].open => I[i].open)
  BY <1>3, ViewAt DEF Delivered
<1>8. \A i, k \in Ids : K[i].open /\ K[k].open /\ K[i].key = K[k].key => i = k
  BY <1>3, ViewAt DEF Delivered, OneOpen, OpenIncident
<1>9. \A j \in Ids : A[j].status # "absent" => B[j] = A[j]
  <2>1. \A j \in Ids : c.jobs[j] # None => d.jobs[j] = c.jobs[j]
    BY <1>3 DEF Delivered
  <2>2. \A j \in Ids : A[j].status # "absent" => c.jobs[j] # None
    BY ViewAt
  <2> QED
    BY <2>1, <2>2 DEF JobView
<1>10. \A j \in Ids : B[j].status # "absent" /\ ~(A[j].status # "absent") =>
          /\ B[j].status = "pending"
          /\ K[B[j].of].key # None /\ ~(I[B[j].of].key # None)
  <2>1. ASSUME NEW j \in Ids, B[j].status # "absent", ~(A[j].status # "absent")
        PROVE  /\ B[j].status = "pending"
               /\ K[B[j].of].key # None /\ ~(I[B[j].of].key # None)
    <3>1. d.jobs[j] # None /\ c.jobs[j] = None
      BY <2>1, ViewAt
    <3>2. /\ d.jobs[j].status = "pending" /\ d.jobs[j].incident = j
          /\ c.incidents[j] = None /\ d.incidents[j] # None
      BY <3>1, <1>3 DEF Delivered
    <3>3. B[j].status = "pending" /\ B[j].of = j
      BY <3>1, <3>2, ViewAt
    <3>4. K[j].key # None /\ ~(I[j].key # None)
      BY <3>2, ViewAt
    <3> QED
      BY <3>3, <3>4
  <2> QED
    BY <2>1
<1>11. \A i \in Ids : ~(I[i].key # None) /\ K[i].open =>
          \E j \in Ids : B[j].status # "absent" /\ B[j].of = i
  <2>1. ASSUME NEW i \in Ids, K[i].open
        PROVE  B[i].status # "absent" /\ B[i].of = i
    <3>1. OpenIncident(d.incidents, i)
      BY <2>1, ViewAt
    <3>2. d.jobs[i] # None /\ d.jobs[i].incident = i
      BY <3>1, <1>3 DEF Delivered
    <3> QED
      BY <3>2, ViewAt
  <2> QED
    BY <2>1
<1> HIDE DEF I, K, A, B
<1>12. /\ LedgerIncident = I /\ LedgerIncident' = K
       /\ LedgerJob = A /\ LedgerJob' = B
  BY <1>4 DEF I, K, A, B
<1>13. LedgerAccepted \subseteq LedgerAccepted' /\ LedgerAccepted' # LedgerAccepted
  BY <1>4, <1>5, <1>6
<1> QED
  BY <1>7, <1>8, <1>9, <1>10, <1>11, <1>12, <1>13
     DEF Ledger!Deliver, Ledger!Exists, Ledger!Queued

\* A record of the queue that reaches the journal moves jobs and nothing else.
LEMMA QueueViews ==
  ASSUME Memory \in Contents, disk = Memory,
         NEW kind, NEW r, MovesJobs(kind, r), disk' = Replay(Memory, r)
  PROVE  /\ LedgerAccepted' = LedgerAccepted /\ LedgerIncident' = LedgerIncident
         /\ LedgerJob = JobView(jobs)
         /\ LedgerJob' = JobView(Replay(Memory, r).jobs)
<1>1. \A i \in Ids : /\ disk'.events[i] = disk.events[i]
                     /\ disk'.incidents[i] = None <=> disk.incidents[i] = None
                     /\ disk.incidents[i] # None =>
                          /\ disk'.incidents[i].state = disk.incidents[i].state
                          /\ disk'.incidents[i].source = disk.incidents[i].source
                          /\ disk'.incidents[i].corr = disk.incidents[i].corr
  BY ReplayAt DEF MovesJobs, Memory
<1>2. LedgerAccepted' = LedgerAccepted
  BY <1>1 DEF LedgerAccepted
<1>3. LedgerIncident' = LedgerIncident
  BY <1>1 DEF LedgerIncident, CorrelationIndex
<1>4. LedgerJob = JobView(jobs) /\ LedgerJob' = JobView(Replay(Memory, r).jobs)
  BY DEF LedgerJob, JobView, Memory
<1> QED
  BY <1>2, <1>3, <1>4

\* A claim is the ledger's.
LEMMA ClaimStep ==
  ASSUME Memory \in Contents, disk = Memory, NEW j \in Ids, Oldest(j),
         disk' = Replay(Memory, ClaimRecord(j))
  PROVE  Ledger!Claim(j)
<1> DEFINE r == ClaimRecord(j)
           J == Replay(Memory, r).jobs
           claimed == [jobs[j] EXCEPT !.status = "running"]
<1>1. /\ MovesJobs("claim", r)
      /\ \A i \in Ids : r.jobs[i] = IF i = j THEN claimed ELSE None
  BY ClaimMoves
<1>2. /\ LedgerAccepted' = LedgerAccepted /\ LedgerIncident' = LedgerIncident
      /\ LedgerJob = JobView(jobs) /\ LedgerJob' = JobView(J)
  BY <1>1, QueueViews
<1>3. jobs[j] \in Jobs /\ jobs[j] # None /\ jobs[j].status = "pending"
  BY NotNone DEF Oldest, Pending, Memory
<1>4. claimed \in Jobs /\ claimed.status = "running"
      /\ claimed.incident = jobs[j].incident
  BY <1>3 DEF Jobs
<1> HIDE DEF claimed, r
<1>5. claimed # None
  BY <1>4, NoneAssumption
<1>6. \A i \in Ids : J[i] = IF i = j THEN claimed ELSE jobs[i]
  BY <1>1, <1>5, ReplayJob DEF Memory
<1> HIDE DEF J
<1> DEFINE A == JobView(jobs)
<1>7. A[j] = [status |-> "pending", of |-> jobs[j].incident]
  BY <1>3 DEF JobView
<1>8. JobView(J) = [A EXCEPT ![j].status = "running"]
  <2>1. JobView(J)[j] = [status |-> "running", of |-> jobs[j].incident]
    BY <1>4, <1>5, <1>6 DEF JobView
  <2>2. [A[j] EXCEPT !.status = "running"] =
          [status |-> "running", of |-> jobs[j].incident]
    BY <1>7
  <2>3. \A i \in Ids : i # j => JobView(J)[i] = A[i]
    BY <1>6 DEF JobView
  <2>4. /\ JobView(J) = [i \in Ids |-> JobView(J)[i]]
        /\ A = [i \in Ids |-> A[i]]
    BY DEF JobView
  <2> HIDE DEF A
  <2> QED
    BY <2>1, <2>2, <2>3, <2>4
<1>9. A[j].status = "pending"
  BY <1>7
<1> QED
  BY <1>2, <1>8, <1>9 DEF Ledger!Claim, Ledger!Move

\* So is a completion.
LEMMA FinishStep ==
  ASSUME Memory \in Contents, Sound(Memory), disk = Memory, NEW j \in Running, NEW st \in Final,
         NEW run \in Runs \cup {None},
         disk' = Replay(Memory, CompleteRecord(j, st, run))
  PROVE  Ledger!Finish(j)
<1> DEFINE r == CompleteRecord(j, st, run)
           J == Replay(Memory, r).jobs
           done == Finished(j, st, run)
<1>1. /\ MovesJobs("complete", r)
      /\ \A i \in Ids : r.jobs[i] = IF i = j THEN done ELSE None
  BY CompleteMoves
<1>2. /\ LedgerAccepted' = LedgerAccepted /\ LedgerIncident' = LedgerIncident
      /\ LedgerJob = JobView(jobs) /\ LedgerJob' = JobView(J)
  BY <1>1, QueueViews
<1>3. /\ j \in Ids /\ jobs[j] \in Jobs /\ jobs[j] # None
      /\ jobs[j].status = "running"
  BY NotNone DEF Running, Memory
<1>4. done \in Jobs /\ done.status = st /\ done.incident = jobs[j].incident
  BY <1>3 DEF Jobs, Finished
<1> HIDE DEF done, r
<1>5. done # None
  BY <1>4, NoneAssumption
<1>6. \A i \in Ids : J[i] = IF i = j THEN done ELSE jobs[i]
  BY <1>1, <1>5, ReplayJob DEF Memory
<1> HIDE DEF J
<1> DEFINE A == JobView(jobs)
<1>7. A[j] = [status |-> "running", of |-> jobs[j].incident]
  BY <1>3 DEF JobView
<1>8. JobView(J) = [A EXCEPT ![j].status = st]
  <2>1. JobView(J)[j] = [status |-> st, of |-> jobs[j].incident]
    BY <1>3, <1>4, <1>5, <1>6 DEF JobView
  <2>2. [A[j] EXCEPT !.status = st] = [status |-> st, of |-> jobs[j].incident]
    BY <1>7
  <2>3. \A i \in Ids : i # j => JobView(J)[i] = A[i]
    BY <1>6 DEF JobView
  <2>4. /\ JobView(J) = [i \in Ids |-> JobView(J)[i]]
        /\ A = [i \in Ids |-> A[i]]
    BY DEF JobView
  <2> HIDE DEF A
  <2> QED
    BY <2>1, <2>2, <2>3, <2>4
<1>9. A[j].status = "running"
  BY <1>7
<1>10. st = "succeeded" \/ st = "failed"
  BY DEF Final
<1> HIDE DEF A
<1>11. LedgerJob = A /\ LedgerJob' = JobView(J)
  BY <1>2 DEF A
<1> QED
  BY <1>2, <1>8, <1>9, <1>10, <1>11 DEF Ledger!Finish, Ledger!Move

\* And a recovery, which is one step for all the jobs it puts back.
LEMMA RequeueStep ==
  ASSUME Memory \in Contents, disk = Memory, disk' = Replay(Memory, RecoverRecord)
  PROVE  Ledger!Requeue
<1> DEFINE J == Replay(Memory, RecoverRecord).jobs
           A == JobView(jobs)
<1>1. /\ MovesJobs("recover", RecoverRecord)
      /\ \A i \in Ids : RecoverRecord.jobs[i] = Requeued(i)
  BY RecoverMoves
<1>2. /\ LedgerAccepted' = LedgerAccepted /\ LedgerIncident' = LedgerIncident
      /\ LedgerJob = A /\ LedgerJob' = JobView(J)
  BY <1>1, QueueViews
<1>3. ASSUME NEW i \in Ids
      PROVE  JobView(J)[i] = IF A[i].status = "running"
                             THEN [A[i] EXCEPT !.status = "pending"] ELSE A[i]
  <2>1. J[i] = IF Requeued(i) = None THEN jobs[i] ELSE Requeued(i)
    BY <1>1, ReplayJob DEF Memory
  <2>2. CASE i \in Running
    <3>1. jobs[i] \in Jobs /\ jobs[i] # None /\ jobs[i].status = "running"
      BY <2>2, NotNone DEF Running, Memory
    <3>2. /\ Requeued(i) \in Jobs /\ Requeued(i).status = "pending"
          /\ Requeued(i).incident = jobs[i].incident
      BY <2>2, <3>1 DEF Requeued, Jobs
    <3>3. Requeued(i) # None
      BY <3>2, NoneAssumption
    <3>4. J[i] = Requeued(i)
      BY <2>1, <3>3
    <3> HIDE DEF J
    <3>5. JobView(J)[i] = [status |-> "pending", of |-> jobs[i].incident]
      BY <3>2, <3>3, <3>4 DEF JobView
    <3>6. A[i] = [status |-> "running", of |-> jobs[i].incident]
      BY <3>1 DEF JobView
    <3> QED
      BY <3>5, <3>6
  <2>3. CASE i \notin Running
    <3>1. J[i] = jobs[i]
      BY <2>1, <2>3 DEF Requeued
    <3> HIDE DEF J
    <3>2. JobView(J)[i] = A[i]
      BY <3>1 DEF JobView
    <3>3. A[i].status # "running"
      BY <2>3 DEF JobView, Running
    <3> QED
      BY <3>2, <3>3
  <2> QED
    BY <2>2, <2>3
<1>4. JobView(J) = [i \in Ids |-> IF A[i].status = "running"
                                  THEN [A[i] EXCEPT !.status = "pending"]
                                  ELSE A[i]]
  <2>1. JobView(J) = [i \in Ids |-> JobView(J)[i]]
    BY DEF JobView
  <2> HIDE DEF A, J
  <2> QED
    BY <2>1, <1>3
<1> HIDE DEF A, J
<1> QED
  BY <1>2, <1>4 DEF Ledger!Requeue

\* What an operation of the queue leaves of the journal.
LEMMA UpdateJournal ==
  ASSUME JInv, Unlocked, NEW kind, NEW r, NEW o, Update(kind, r, o)
  PROVE  \/ disk' = disk
         \/ disk = Memory /\ disk' = Replay(Memory, r)
<1>1. Append2Journal(r, o) /\ proc = "up" /\ op.phase = "idle"
  BY DEF Update, Write, Unlocked
<1>2. tail = "clean" => disk = Memory
  BY <1>1 DEF JInv, IInv, JournalExact
<1> QED
  BY <1>1, <1>2 DEF Append2Journal

\* A journal that stays as it is is the ledger's stutter.
LEMMA LedgerStutters ==
  ASSUME UNCHANGED disk
  PROVE  UNCHANGED Ledger!vars
  BY DEF Ledger!vars, LedgerAccepted, LedgerIncident, LedgerJob

\* Every step of the store is a step of the ledger, or none.
LEMMA StepKeepsLedger ==
  ASSUME JInv, TypeInv', [Next]_storeVars
  PROVE  [Ledger!Next]_(Ledger!vars)
<1>0. /\ Memory \in Contents /\ disk \in Contents /\ disk' \in Contents
  BY DEF JInv, IInv, TypeInv, TypeOK
<1>1. CASE UNCHANGED disk
  BY <1>1, LedgerStutters
<1>2. ASSUME NEW o \in Outcomes, IngestAppend(o), disk' # disk
      PROVE  Ledger!Next
  <2>1. Locked("ingest", "loop") /\ Append2Journal(rec, o)
    BY <1>2 DEF IngestAppend, Write
  <2>2. proc = "up" /\ op.phase = "loop"
    BY <2>1 DEF Locked
  <2>3. tail = "clean" => disk = Memory
    BY <2>2 DEF JInv, IInv, JournalExact
  <2>4. disk = Memory /\ disk' = Staged
    BY <1>2, <2>1, <2>3 DEF Append2Journal, Staged
  <2>5. Delivered(disk, disk')
    BY <1>2, <2>1, <2>4, RecordDelivers
  <2> QED
    BY <1>0, <2>5, DeliverStep DEF Ledger!Next
<1>3. ASSUME NEW j \in Ids, NEW o \in Outcomes, ClaimNext(j, o), disk' # disk
      PROVE  Ledger!Next
  <2>1. Unlocked /\ Oldest(j) /\ Update("claim", ClaimRecord(j), o)
    BY <1>3 DEF ClaimNext, ClaimRecord
  <2>2. disk = Memory /\ disk' = Replay(Memory, ClaimRecord(j))
    BY <1>3, <2>1, UpdateJournal
  <2> QED
    BY <1>0, <2>1, <2>2, ClaimStep DEF Ledger!Next
<1>4. ASSUME NEW j \in Ids, NEW st \in Final, NEW run \in Runs \cup {None},
             NEW o \in Outcomes, CompleteJob(j, st, run, o), disk' # disk
      PROVE  Ledger!Next
  <2>1. /\ Unlocked /\ j \in Running
        /\ Update("complete", CompleteRecord(j, st, run), o)
    BY <1>4 DEF CompleteJob, CompleteRecord, Finished
  <2>2. disk = Memory /\ disk' = Replay(Memory, CompleteRecord(j, st, run))
    BY <1>4, <2>1, UpdateJournal
  <2>3. Sound(Memory)
    BY <2>1 DEF Unlocked, JInv, Belong, Sounds
  <2> QED
    BY <1>0, <2>1, <2>2, <2>3, FinishStep DEF Ledger!Next
<1>5. ASSUME NEW o \in Outcomes, RecoverRunning(o), disk' # disk
      PROVE  Ledger!Next
  <2>1. Unlocked /\ Update("recover", RecoverRecord, o)
    BY <1>5 DEF RecoverRunning, RecoverRecord, Requeued
  <2>2. disk = Memory /\ disk' = Replay(Memory, RecoverRecord)
    BY <1>5, <2>1, UpdateJournal
  <2> QED
    BY <1>0, <2>2, RequeueStep DEF Ledger!Next
<1>6. CASE disk' # disk
  <2>1. ~(OpenStore \/ OpenStoreRefused \/ Crash)
    BY <1>6 DEF OpenStore, OpenStoreRefused, Crash, journal
  <2>2. ~(Commit \/ Waiting \/ TakeWake \/ UNCHANGED storeVars)
    BY <1>6 DEF Commit, Waiting, WaitReturns, WaitJob, TakeWake, storeVars, journal
  <2>3. ~(IngestInvalid \/ IngestDuplicate \/ IngestNew)
    BY <1>6 DEF IngestInvalid, IngestDuplicate, IngestNew, journal
  <2>4. ~(\E b \in Batches, t \in Times : BeginIngest(b, t))
    BY <1>6 DEF BeginIngest, journal
  <2> QED
    BY <2>1, <2>2, <2>3, <2>4, <1>2, <1>3, <1>4, <1>5, <1>6
       DEF Next, Ingest, QueueStep
<1> QED
  BY <1>1, <1>6

\* The store implements its contract: whatever crashes, restarts and failed
\* appends do, the journal moves only as docs/operations/ALERT_CONTRACT.md says.
THEOREM StoreKeepsLedger ==
  ASSUME "unsynced" \notin Faults
  PROVE  Spec => KeepsLedger
<1>1. Init => Ledger!Init
  BY DEF Init, Ledger!Init, LedgerAccepted, LedgerIncident, LedgerJob,
         BlankRecord, Blank
<1>2. JInv /\ JInv' /\ [Next]_storeVars => [Ledger!Next]_(Ledger!vars)
  BY StepKeepsLedger DEF JInv, IInv
<1>3. Spec => []JInv
  BY StoreBelongs
<1> QED
  BY <1>1, <1>2, <1>3, PTL DEF Spec, KeepsLedger, Ledger!Spec
=============================================================================
