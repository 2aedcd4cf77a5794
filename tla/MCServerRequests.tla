-------------------------- MODULE MCServerRequests --------------------------
(* ServerRequests with small sets of clients and requests. *)
EXTENDS ServerRequests
=============================================================================
