--------------------------- MODULE MCEmbedClients ---------------------------
(* Three callers: two can fill the batch while the third queues behind it. *)
EXTENDS EmbedClients
CONSTANTS c1, c2, c3
MCClients == {c1, c2, c3}
=============================================================================
