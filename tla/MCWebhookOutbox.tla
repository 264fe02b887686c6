--------------------------- MODULE MCWebhookOutbox ---------------------------
(* Instances of WebhookOutbox for TLC.                                     *)
EXTENDS WebhookOutbox

CONSTANTS e1, e2, w1, w2

MCEvents == {e1, e2}
MCWorkers == {w1, w2}

=============================================================================
