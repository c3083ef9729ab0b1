----------------------------- MODULE MCGateway -----------------------------
(***************************************************************************)
(* Small instances of Gateway.                                             *)
(***************************************************************************)
EXTENDS Gateway

CONSTANTS a

OpenClose == [kind : {"open", "close"}, of : {a}]
All == OpenClose \cup {[kind |-> "say", of |-> a]}
=============================================================================
