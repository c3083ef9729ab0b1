------------------------------- MODULE MCMail -------------------------------
(* Small networks for Mail: one machine, a client with its upstream, and two *)
(* clients that reach each other through an upstream.                        *)
EXTENDS Mail, TLC

CONSTANTS A, B, H, m1

\* One letter from the client to its upstream.
UpOrigin == m1 :> A
UpDest == m1 :> H

\* A letter a node sends to itself: no exchange, everything in one store.
SelfOrigin == [m \in Letter |-> H]
SelfDest == SelfOrigin

\* One letter from client A to client B by way of H.
ViaOrigin == m1 :> A
ViaDest == m1 :> B
=============================================================================
