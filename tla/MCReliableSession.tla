-------------------------- MODULE MCReliableSession --------------------------
(* Bounded instances of ReliableSession.                                   *)
EXTENDS ReliableSession
=============================================================================
