----------------------------- MODULE MCAlertStore -----------------------------
(* Small instances of AlertStore for TLC. *)
EXTENDS AlertStore, TLC

CONSTANT MaxBatch   \* bound: events in a delivery

\* A delivery carries the events of one source, the one its URL names.
EventsOf(s) == {e \in Events : e.source = s}
Deliveries(E) == UNION {[1..n -> E] : n \in 1..MaxBatch}

\* Batches of valid events, and those with an event that Validate refuses.
ValidBatches == UNION {Deliveries(EventsOf(s)) : s \in Sources}
MCBatches == UNION {Deliveries(EventsOf(s) \cup {None}) : s \in Sources}
OneTime == {1}
TwoTimes == {1, 2}

\* No value of these sets is told apart from another of its set.
KeySymmetry ==
    Permutations(Sources) \cup Permutations(DedupKeys) \cup Permutations(CorrKeys)
=============================================================================
