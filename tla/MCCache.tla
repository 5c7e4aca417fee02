------------------------------ MODULE MCCache ------------------------------
(* Cache on a small instance. *)
EXTENDS Cache

CONSTANTS h, g

(* The host name g begins with the name h. *)
Prefixes == {<<h, h>>, <<g, g>>, <<h, g>>}
=============================================================================
