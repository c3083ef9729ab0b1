----------------------------- MODULE MCNotifier -----------------------------
(***************************************************************************)
(* Small instances of Notifier.                                            *)
(***************************************************************************)
EXTENDS Notifier, TLC

CONSTANTS p, q, l1, l2

\* One session, resumed in another process
SameSession == [x \in Proc |-> p]

Letters == Permutations({l1, l2})

Short == <<1>>
Long == <<2, 3>>
=============================================================================
