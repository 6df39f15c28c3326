----------------------------- MODULE MCBotGateway -----------------------------
(* A small instance of BotGateway for TLC.                                  *)
EXTENDS BotGateway

MCKinds == {"chat", "new", "ignored", "garbled"}
MCPostKinds == {"chat", "status", "help"}
=============================================================================
