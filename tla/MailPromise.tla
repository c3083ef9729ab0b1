---------------------------- MODULE MailPromise ----------------------------
(***************************************************************************)
(* What `khala send' promises, with no spools, locks, passes or crashes:   *)
(* the sender's queue and the recipient's inbox as the two people see      *)
(* them.  A letter is put before its reader at most once; the sender is    *)
(* told "acked" only for a letter that was; a letter leaves the queue once *)
(* and for all; and only settled or read mail is ever thrown away.         *)
(***************************************************************************)
CONSTANT Letter

VARIABLES
    sender,   \* sender[m]: where the sender's copy is
    reader    \* reader[m]: "none", "unread", or "taken" (read, perhaps aged out)

vars == <<sender, reader>>

Init ==
    /\ sender = [m \in Letter |-> "unsent"]
    /\ reader = [m \in Letter |-> "none"]

Move(role, m, from, to) ==
    /\ role[m] = from
    /\ role' = [role EXCEPT ![m] = to]

Send(m) == Move(sender, m, "unsent", "new") /\ UNCHANGED reader

\* A letter may land before or after the sender gave up on it.
Land(m) ==
    /\ sender[m] # "unsent"
    /\ Move(reader, m, "none", "unread")
    /\ UNCHANGED sender

Settle(m) ==
    /\ reader[m] # "none"
    /\ Move(sender, m, "new", "acked")
    /\ UNCHANGED reader

GiveUp(m) == Move(sender, m, "new", "dead") /\ UNCHANGED reader

Forget(m) ==
    /\ \E s \in {"acked", "dead"} : Move(sender, m, s, "pruned")
    /\ UNCHANGED reader

Read(ms) ==
    /\ \A m \in ms : reader[m] = "unread"
    /\ reader' = [m \in Letter |-> IF m \in ms THEN "taken" ELSE reader[m]]
    /\ UNCHANGED sender

Next ==
    \/ \E m \in Letter : Send(m) \/ Land(m) \/ Settle(m) \/ GiveUp(m) \/ Forget(m)
    \/ \E ms \in SUBSET Letter : Read(ms)

Spec == Init /\ [][Next]_vars
=============================================================================
