----------------------------- MODULE MCAuditTrail -----------------------------
(* A small instance of AuditTrail for TLC. *)
EXTENDS AuditTrail

MCRequests == Chats \cup Alerts
MCAuthors == MCRequests \cup FollowUps
MCAnswers == {<<c>> : c \in CallIds}
=============================================================================
