-------------------------- MODULE MCWebhookServer --------------------------
(* Instances of WebhookServer for TLC.                                     *)
EXTENDS WebhookServer, TLC
=============================================================================
