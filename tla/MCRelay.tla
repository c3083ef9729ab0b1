------------------------------ MODULE MCRelay ------------------------------
(***************************************************************************)
(* Small instances of Relay.                                               *)
(***************************************************************************)
EXTENDS Relay

CONSTANTS ack, mail, watcher, late, early, ahead

KindOf == [p \in Obj |-> CASE p = ack            -> "infra"
                          [] p = mail            -> "letter"
                          [] p = watcher        -> "watcher"
                          [] OTHER              -> "stream"]

\* The client offers its acks, entries and declarations, the upstream the mail
\* for the client and every declaration it has, the client's own included.
Offerers == [p \in Obj |-> CASE p = mail            -> {"serve"}
                            [] p = watcher        -> Side
                            [] OTHER              -> {"dial"}]

\* late is expired by the upstream's clock only, early is in the future by the
\* upstream's clock, ahead by the client's own.
Ages == [s \in Side |-> [p \in Obj |->
          CASE p = late /\ s = "serve"  -> "expired"
            [] p = early /\ s = "serve" -> "future"
            [] p = ahead /\ s = "dial"  -> "future"
            [] OTHER                    -> "ok"]]

ContentOf == [p \in Obj |-> IF p \in {ack, mail, watcher} THEN {1, 2} ELSE {1}]

\* rsync can bring mail first; the rest is written on the client.
WritersOf == [p \in Obj |-> IF p = mail THEN {"serve"} ELSE {"dial"}]

HugeMail == {<<mail, 2>>}

Stray == {<<"serve", mail, 2>>}
=============================================================================
