------------------------------ MODULE MCChatRun ------------------------------
(* A small instance of ChatRun for TLC.                                     *)
EXTENDS ChatRun

MCIndexes == BOOLEAN
MCPlanners == BOOLEAN
MCEndpoints == {Parameters, {"max_completion_tokens"}}
=============================================================================
