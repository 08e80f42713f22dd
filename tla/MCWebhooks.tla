----------------------------- MODULE MCWebhooks -----------------------------
(* Model-checking instance of WebhookProperties. *)
EXTENDS WebhookProperties, TLC

\* WEBHOOK_BACKOFF_MS with two attempts instead of five.
ShortBackoff == <<0, 1>>
=============================================================================
