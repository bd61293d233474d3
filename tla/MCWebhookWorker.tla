--------------------------- MODULE MCWebhookWorker ---------------------------
(* One event, two worker processes and the server.                          *)
EXTENDS WebhookWorker
=============================================================================
