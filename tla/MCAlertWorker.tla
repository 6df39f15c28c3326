---------------------------- MODULE MCAlertWorker ----------------------------
(* Small instances of AlertWorker for TLC. *)
EXTENDS AlertWorker

CONSTANT MaxBatch   \* bound: events in a delivery

MCBatches ==
    UNION {UNION {[1..n -> {e \in Events : e.source = s}] : n \in 1..MaxBatch}
           : s \in Sources}
OneTime == {1}
=============================================================================
