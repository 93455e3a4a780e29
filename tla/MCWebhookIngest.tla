--------------------------- MODULE MCWebhookIngest ---------------------------
(***************************************************************************)
(* Small instances of WebhookIngest: two messages announce the same event  *)
(* (Pub/Sub gives a republished notification a new messageId) and one      *)
(* cannot be read.                                                         *)
(***************************************************************************)
EXTENDS WebhookIngest

CONSTANTS a, b, poison, e1

MCEventOf == [m \in Messages |-> IF m = poison THEN Malformed ELSE e1]
=============================================================================
