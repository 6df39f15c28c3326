------------------------------ MODULE AlertLedger ------------------------------
(***************************************************************************)
(* What the alert store promises, without journal, memory or batches: the  *)
(* contract of docs/operations/ALERT_CONTRACT.md, "Durable Processing", as *)
(* a state machine.  A delivery is one step, and so is each move of a job. *)
(***************************************************************************)
CONSTANTS
    Ids,     \* identities of incidents and of jobs
    NoKey    \* the key of an incident that does not exist

VARIABLES
    accepted,  \* deduplication keys accepted so far
    incident,  \* per identity: its correlation key, and whether it is open
    job        \* per identity: its status, and the incident it investigates

vars == <<accepted, incident, job>>

Exists(i) == incident[i].key # NoKey
Queued(j) == job[j].status # "absent"

Init ==
    /\ accepted = {}
    /\ incident = [i \in Ids |-> [key |-> NoKey, open |-> FALSE]]
    /\ job = [j \in Ids |-> [status |-> "absent", of |-> 0]]

\* A delivery with at least one new key.  Incidents keep their key, and a
\* closed one stays closed.  After it, each key has at most one open incident.
\* Jobs already queued are untouched, and every incident it opens gets one.
Deliver ==
    /\ accepted \subseteq accepted' /\ accepted' # accepted
    /\ \A i \in Ids : Exists(i) =>
         /\ incident'[i].key = incident[i].key
         /\ incident'[i].open => incident[i].open
    /\ \A i, k \in Ids :
         incident'[i].open /\ incident'[k].open
           /\ incident'[i].key = incident'[k].key => i = k
    /\ \A j \in Ids : Queued(j) => job'[j] = job[j]
    /\ \A j \in Ids : Queued(j)' /\ ~Queued(j) =>
         /\ job'[j].status = "pending"
         /\ Exists(job[j].of)' /\ ~Exists(job'[j].of)
    /\ \A i \in Ids : ~Exists(i) /\ incident'[i].open =>
         \E j \in Ids : Queued(j)' /\ job'[j].of = i

Move(j, from, to) ==
    /\ job[j].status = from
    /\ job' = [job EXCEPT ![j].status = to]
    /\ UNCHANGED <<accepted, incident>>

Claim(j) == Move(j, "pending", "running")
Finish(j) == Move(j, "running", "succeeded") \/ Move(j, "running", "failed")

\* An interrupted job becomes pending: all of them, in one step.
Requeue ==
    /\ job' = [j \in Ids |-> IF job[j].status = "running"
                             THEN [job[j] EXCEPT !.status = "pending"]
                             ELSE job[j]]
    /\ UNCHANGED <<accepted, incident>>

Next == Deliver \/ Requeue \/ \E j \in Ids : Claim(j) \/ Finish(j)

Spec == Init /\ [][Next]_vars
=============================================================================
