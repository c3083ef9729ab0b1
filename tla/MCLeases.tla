------------------------------ MODULE MCLeases ------------------------------
(***************************************************************************)
(* Small instances of Leases.                                              *)
(***************************************************************************)
EXTENDS Leases

CONSTANTS a, b

\* Session a can be resumed: processes 2 and 3 open it, 4 opens b.
OfProc == [p \in Proc |-> IF p = 4 THEN b ELSE a]

KindsOf == [i \in Inst |-> IF i = a THEN {"interactive"} ELSE {"worker"}]
BothKinds == [i \in Inst |-> {"interactive", "worker"}]
=============================================================================
