------------------------------ MODULE Gateway ------------------------------
(***************************************************************************)
(* The chat gateway (link/gateway.go, gateway_state.go): one daemon between*)
(* a Telegram group, where every session has a topic, and the identity     *)
(* `user' of its node.  Its main loop takes updates from the chat and      *)
(* letters from the inbox of `user', holding one mutex; its sender posts   *)
(* what the main loop queued.  gateway.state.json keeps the offset, the    *)
(* topics and the chat message behind every letter sent.  What is posted,  *)
(* the rate limit, replies to commands, status posts and notice            *)
(* preferences are left out; none of them changes this state.              *)
(***************************************************************************)
EXTENDS Naturals, Sequences, FiniteSets, SequencesExt

CONSTANTS
    Address,                  \* sessions
    Asks,                     \* what a user asks in General: [kind, of]
    Kinds,                    \* kinds of letters that come to `user'
    None,
    MaxUpdates, MaxLetters, MaxFaults   \* bounds

ASSUME GatewayAssumption ==
    /\ Asks \subseteq [kind : {"open", "close", "say"}, of : Address]
    /\ Kinds \subseteq {"message", "bounce", "notice"}
    /\ None \notin Address
    /\ MaxUpdates \in Nat /\ MaxLetters \in Nat /\ MaxFaults \in Nat

VARIABLES
    chat,       \* every update of the group
    threads,    \* the topics of the group: [of, state]; 0 is General
    confirmed,  \* Telegram forgets updates up to this one
    inbox,      \* letters that came to `user': [kind, from, about]
    read,       \* those acknowledged
    ledger,     \* keyed requests of `khala send'
    sent,       \* letters of each update in the outbox
    disk,       \* gateway.state.json
    mem,        \* its copy in memory
    main,       \* the main loop; it holds g.mu unless it is idle
    queue, inflight, held,   \* outQueue
    sender,     \* the send loop
    old,        \* updates whose reference is older than gatewayThreadMaxAge
    faults, restarts, badSaves,   \* what went wrong so far, and of that restarts and failed saves
    posted,     \* history: times each letter was posted
    again,      \* history: reasons to post it again
    said,       \* history: times each /say was carried out
    refused     \* history: texts answered with "use /open"

service == <<chat, threads, confirmed>>
store == <<inbox, read, ledger, sent>>
out == <<queue, inflight, held>>
history == <<posted, again, said, refused>>
spent == <<faults, restarts, badSaves>>
vars == <<service, store, disk, mem, main, out, sender, old, spent, history>>

Update == 1..MaxUpdates
Letter == 1..MaxLetters

State ==
    [offset : 1..MaxUpdates + 1,
     topics : [Address -> Nat],     \* 0: none
     refs : SUBSET Update]

TypeOK ==
    /\ chat \in Seq([kind : {"text", "open", "close", "say"}, of : Address, thread : Nat])
    /\ Len(chat) <= MaxUpdates
    /\ threads \in Seq([of : Address, state : {"open", "closed", "deleted"}])
    /\ confirmed \in 0..Len(chat)
    /\ inbox \in Seq([kind : Kinds, from : Address, about : {0} \cup Update])
    /\ Len(inbox) <= MaxLetters /\ read \subseteq DOMAIN inbox
    /\ ledger \in [Update -> {"none", "saved", "published"}] /\ sent \in [Update -> Nat]
    /\ disk \in State /\ mem \in State
    /\ disk.offset <= Len(chat) + 1 /\ mem.offset <= Len(chat) + 1
    /\ \A a \in Address : /\ mem.topics[a] \in 0..Len(threads)
                          /\ mem.topics[a] > 0 => threads[mem.topics[a]].of = a
    /\ main \in [at : {"down", "idle", "send", "say", "close", "advance",
                       "scan", "relay", "create", "created"},
                 by : {"update", "letter"}, n : Nat, todo : SUBSET DOMAIN inbox]
    /\ queue \in Seq([thread : 0..Len(threads), ack : DOMAIN inbox])
    /\ inflight \subseteq DOMAIN inbox /\ held \subseteq DOMAIN inbox
    /\ sender \in [at : {"idle"}, item : {None}]
                     \cup [at : {"post", "forget", "hold", "ack", "done"},
                           item : [thread : 0..Len(threads), ack : DOMAIN inbox]]
    /\ main.at = "down" => queue = <<>> /\ sender.at = "idle"
    /\ old \subseteq Update /\ refused \subseteq Update
    /\ faults \in Nat /\ restarts \in Nat /\ badSaves \in Nat
    /\ posted \in [Letter -> Nat] /\ again \in [Letter -> Nat] /\ said \in [Update -> Nat]

Up == [at |-> "idle", by |-> "update", n |-> 0, todo |-> {}]
Down == [Up EXCEPT !.at = "down"]
Waiting == [at |-> "idle", item |-> None]

Init ==
    /\ chat = <<>> /\ threads = <<>> /\ confirmed = 0
    /\ inbox = <<>> /\ read = {}
    /\ ledger = [u \in Update |-> "none"] /\ sent = [u \in Update |-> 0]
    /\ disk = [offset |-> 1, topics |-> [a \in Address |-> 0], refs |-> {}]
    /\ mem = disk /\ main = Up
    /\ queue = <<>> /\ inflight = {} /\ held = {} /\ sender = Waiting /\ old = {}
    /\ faults = 0 /\ restarts = 0 /\ badSaves = 0
    /\ posted = [l \in Letter |-> 0] /\ again = [l \in Letter |-> 0]
    /\ said = [u \in Update |-> 0] /\ refused = {}

Fault == faults < MaxFaults /\ faults' = faults + 1
NoFault == UNCHANGED faults

-----------------------------------------------------------------------------
(* Users and sessions *)

Write(t) ==
    /\ threads[t].state = "open" /\ Len(chat) < MaxUpdates
    /\ chat' = Append(chat, [kind |-> "text", of |-> threads[t].of, thread |-> t])
    /\ UNCHANGED <<threads, confirmed, store, disk, mem, main, out, sender, old, spent, history>>

Ask(q) ==
    /\ Len(chat) < MaxUpdates
    /\ chat' = Append(chat, [kind |-> q.kind, of |-> q.of, thread |-> 0])
    /\ UNCHANGED <<threads, confirmed, store, disk, mem, main, out, sender, old, spent, history>>

Delete(t) ==
    /\ threads[t].state # "deleted" /\ Fault
    /\ threads' = [threads EXCEPT ![t].state = "deleted"]
    /\ UNCHANGED <<chat, confirmed, store, disk, mem, main, out, sender, old,
                   restarts, badSaves, history>>

Arrive(kind, a, u) ==
    /\ Len(inbox) < MaxLetters
    /\ inbox' = Append(inbox, [kind |-> kind, from |-> a, about |-> u])
    /\ UNCHANGED <<service, read, ledger, sent, disk, mem, main, out, sender, old, spent, history>>

\* A session writes, a letter the gateway sent bounces, or an alert comes.
Receive ==
    \/ \E a \in Address : "message" \in Kinds /\ Arrive("message", a, 0)
    \/ \E u \in Update : /\ "bounce" \in Kinds /\ sent[u] > 0
                         /\ \A l \in DOMAIN inbox : inbox[l].about # u
                         /\ Arrive("bounce", chat[u].of, u)
    \/ "notice" \in Kinds /\ \E a \in Address : Arrive("notice", a, 0)

Age(u) ==
    /\ u \in mem.refs /\ u \notin old /\ old' = old \cup {u}
    /\ UNCHANGED <<service, store, disk, mem, main, out, sender, spent, history>>

-----------------------------------------------------------------------------
(* saveLocked: old references go, and the file is replaced or is not *)

Pruned(st) == [st EXCEPT !.refs = @ \ old]

Save(st) ==
    /\ mem' = Pruned(st)
    /\ \/ disk' = Pruned(st) /\ UNCHANGED <<faults, badSaves>>
       \/ Fault /\ badSaves' = badSaves + 1 /\ UNCHANGED disk

Saved == badSaves' = badSaves

\* topicFor
TopicFor(t) == {a \in Address : mem.topics[a] = t}

-----------------------------------------------------------------------------
(* Chat to khala: the next update, one at a time *)

\* Either it is left from the last poll, or a new poll confirms all before it.
Next1(c) == IF mem.offset > c THEN mem.offset ELSE c + 1

\* known: is there a listener snapshot of the node?
Handle(u, known) ==
    LET step(at) == [Up EXCEPT !.at = at, !.n = u]
        q == chat[u]
        opened == mem.topics[q.of] # 0
    IN CASE q.kind = "text" -> step(IF TopicFor(q.thread) = {} THEN "advance" ELSE "send")
         [] q.kind = "open" -> step(IF opened \/ ~known THEN "advance" ELSE "create")
         [] q.kind = "close" -> step(IF opened THEN "close" ELSE "advance")
         [] q.kind = "say" -> step("say")

HandleBatch ==
    /\ main.at = "idle"
    /\ \E c \in {confirmed, mem.offset - 1} :
          /\ c >= confirmed /\ Next1(c) <= Len(chat)
          /\ confirmed' = c
          /\ \E known \in BOOLEAN : main' = Handle(Next1(c), known)
          /\ refused' = IF chat[Next1(c)].kind = "text" /\ main'.at = "advance"
                        THEN refused \cup {Next1(c)} ELSE refused
    /\ UNCHANGED <<chat, threads, store, disk, mem, out, sender, old, spent, posted, again, said>>

\* khala send --request-id: the request is saved under its key, its letter
\* linked into the outbox unless it is there, and the key marked published.
Sends(u, upTo) ==
    /\ ledger' = [ledger EXCEPT ![u] =
                    IF @ = "published" \/ upTo = "published" THEN "published" ELSE "saved"]
    /\ sent' = [sent EXCEPT ![u] =
                    IF ledger[u] = "published" \/ @ > 0 \/ upTo = "saved" THEN @ ELSE @ + 1]

SendAsUser ==
    /\ main.at = "send"
    /\ Sends(main.n, "published")
    /\ mem' = [mem EXCEPT !.refs = @ \cup {main.n}]
    /\ main' = [main EXCEPT !.at = "advance"]
    /\ UNCHANGED <<service, inbox, read, disk, out, sender, old, spent, history>>

\* Variant: an error that leaves the batch going.
SendFails_Passes ==
    /\ main.at = "send" /\ Fault
    /\ UNCHANGED <<ledger, sent>>
    /\ main' = [main EXCEPT !.at = "advance"]
    /\ UNCHANGED <<service, inbox, read, disk, mem, out, sender, old, restarts, badSaves, history>>

\* Variant: an error that leaves without the mutex released.
SendFails_Locked ==
    /\ main.at = "send" /\ Fault
    /\ UNCHANGED <<ledger, sent>>
    /\ main' = [main EXCEPT !.at = "failed"]
    /\ UNCHANGED <<service, inbox, read, disk, mem, out, sender, old, restarts, badSaves, history>>

\* It fails or is killed anywhere: the batch stops, the update comes again.
SendFails ==
    /\ main.at = "send" /\ Fault
    /\ \/ UNCHANGED <<ledger, sent>>
       \/ \E upTo \in {"saved", "linked", "published"} : Sends(main.n, upTo)
    /\ main' = Up
    /\ UNCHANGED <<service, inbox, read, disk, mem, out, sender, old, restarts, badSaves,
                   history>>

\* khala say has no key.
Say ==
    /\ main.at = "say"
    /\ \/ said' = [said EXCEPT ![main.n] = @ + 1] /\ NoFault
       \/ UNCHANGED said /\ Fault
    /\ main' = [main EXCEPT !.at = "advance"]
    /\ UNCHANGED <<service, store, disk, mem, out, sender, old, restarts, badSaves,
                   posted, again, refused>>

\* /close: the topic is forgotten whether or not Telegram closed it.
Close ==
    /\ main.at = "close"
    /\ LET whose == chat[main.n].of
           t == mem.topics[whose]
       IN /\ \/ /\ threads[t].state # "deleted"
                /\ threads' = [threads EXCEPT ![t].state = "closed"]
             \/ threads[t].state = "deleted" /\ UNCHANGED threads
          /\ Save([mem EXCEPT !.topics[whose] = 0])
    /\ main' = [main EXCEPT !.at = "advance"]
    /\ UNCHANGED <<chat, confirmed, store, out, sender, old, restarts, history>>

\* Variant: the offset of the update after the next.
Advance_Skips ==
    /\ main.at = "advance"
    /\ Save([mem EXCEPT !.offset = main.n + 2])
    /\ main' = Up
    /\ UNCHANGED <<service, store, out, sender, old, restarts, history>>

\* The offset passes the update.  A failed save ends the batch.
Advance ==
    /\ main.at = "advance"
    /\ Save([mem EXCEPT !.offset = main.n + 1])
    /\ main' = Up
    /\ UNCHANGED <<service, store, out, sender, old, restarts, history>>

-----------------------------------------------------------------------------
(* Khala to chat *)

\* Variant: only failed posts are kept out of a rescan.
Blocked_Held(l) == l \in held

Blocked(l) == l \in held \/ l \in inflight

StartScan ==
    /\ main.at = "idle" /\ DOMAIN inbox \ read # {}
    /\ main' = [Up EXCEPT !.at = "scan", !.todo = DOMAIN inbox \ read]
    /\ UNCHANGED <<service, store, disk, mem, out, sender, old, spent, history>>

\* the main loop after a letter
Rest == IF main.todo = {} THEN Up ELSE [Up EXCEPT !.at = "scan", !.todo = main.todo]

IsInflight ==
    /\ main.at = "scan"
    /\ LET l == CHOOSE x \in main.todo : \A y \in main.todo : x <= y
           rest == main.todo \ {l}
       IN main' = IF ~Blocked(l) THEN [at |-> "relay", by |-> "letter", n |-> l, todo |-> rest]
                  ELSE IF rest = {} THEN Up ELSE [main EXCEPT !.todo = rest]
    /\ UNCHANGED <<service, store, disk, mem, out, sender, old, spent, history>>

Enqueue(l, t) ==
    /\ queue' = Append(queue, [thread |-> t, ack |-> l])
    /\ inflight' = inflight \cup {l} /\ UNCHANGED held

\* relayMessage of a letter that is still unread
RelayMessage ==
    /\ main.at = "relay" /\ main.n \notin read
    /\ LET l == inbox[main.n]
       IN \/ /\ l.kind = "message" /\ mem.topics[l.from] # 0
             /\ Enqueue(main.n, mem.topics[l.from]) /\ main' = Rest
             /\ UNCHANGED <<read, faults>>
          \/ /\ l.kind = "message" /\ mem.topics[l.from] = 0
             /\ main' = [main EXCEPT !.at = "create"]
             /\ UNCHANGED <<out, read, faults>>
          \/ /\ l.kind = "bounce"
             /\ Enqueue(main.n, IF l.about \in mem.refs THEN chat[l.about].thread ELSE 0)
             /\ main' = Rest /\ UNCHANGED <<read, faults>>
          \/ /\ l.kind = "notice"
             /\ read' = read \cup {main.n}
             /\ main' = Rest /\ UNCHANGED <<out, faults>>
    /\ UNCHANGED <<service, inbox, ledger, sent, disk, mem, sender, old, restarts, badSaves,
                   history>>

\* Somebody has read it, or khala fails.
RelaySkipped ==
    /\ main.at = "relay"
    /\ (main.n \in read /\ NoFault) \/ Fault
    /\ main' = Rest
    /\ UNCHANGED <<service, store, disk, mem, out, sender, old, restarts, badSaves, history>>

-----------------------------------------------------------------------------
(* createTopic, for /open and for the first letter of a session *)

Wanted == IF main.by = "update" THEN chat[main.n].of ELSE inbox[main.n].from

\* The error is answered, or the letter left to the next scan.
Failed == IF main.by = "update" THEN [main EXCEPT !.at = "advance"] ELSE Rest

CreateTopic ==
    /\ main.at = "create"
    /\ threads' = Append(threads, [of |-> Wanted, state |-> "open"])
    /\ \/ NoFault /\ main' = [main EXCEPT !.at = "created"]
       \/ Fault /\ main' = main              \* callRetry after a lost answer
       \/ Fault /\ main' = Failed
    /\ UNCHANGED <<chat, confirmed, store, disk, mem, out, sender, old, restarts, badSaves,
                   history>>

CreateFails ==
    /\ main.at = "create" /\ Fault /\ main' = Failed
    /\ UNCHANGED <<service, store, disk, mem, out, sender, old, restarts, badSaves, history>>

Created ==
    /\ main.at = "created"
    /\ Save([mem EXCEPT !.topics[Wanted] = Len(threads)])
    /\ main' = Failed
    /\ IF main.by = "letter" /\ Saved THEN Enqueue(main.n, Len(threads)) ELSE UNCHANGED out
    /\ UNCHANGED <<service, store, sender, old, restarts, history>>

-----------------------------------------------------------------------------
(* The sender *)

Pop ==
    /\ sender.at = "idle" /\ queue # <<>> /\ main.at # "down"
    /\ sender' = [at |-> "post", item |-> Head(queue)]
    /\ queue' = Tail(queue)
    /\ UNCHANGED <<service, store, disk, mem, main, inflight, held, old, spent, history>>

Gone(t) == t # 0 /\ threads[t].state = "deleted"
Refuses(t) == t # 0 /\ threads[t].state # "open"

Goes(at) == sender' = [sender EXCEPT !.at = at]

\* call and callRetry: a lost answer is tried again, and in the end an error.
Answer(l) ==
    \/ NoFault /\ UNCHANGED again /\ Goes("ack")
    \/ /\ Fault /\ again' = [again EXCEPT ![l] = @ + 1]
       /\ \E at \in {"post", "hold"} : Goes(at)

Post ==
    /\ sender.at = "post"
    /\ LET l == sender.item.ack
           t == sender.item.thread
       IN \/ ~Gone(t) /\ posted' = [posted EXCEPT ![l] = @ + 1] /\ Answer(l)
          \/ Refuses(t) /\ Goes("forget") /\ UNCHANGED <<posted, again, faults>>
          \/ Fault /\ Goes("hold") /\ UNCHANGED <<posted, again>>
    /\ UNCHANGED <<service, store, disk, mem, main, out, old, restarts, badSaves, said, refused>>

\* Variant: a post refused for good is acknowledged.
ForgetThread_Acks ==
    /\ sender.at = "forget" /\ main.at = "idle"
    /\ Goes("ack")
    /\ UNCHANGED <<service, store, disk, mem, main, out, old, spent, history>>

\* Variant: the topic that is gone stays linked.
ForgetThread_Kept ==
    /\ sender.at = "forget" /\ main.at = "idle"
    /\ Goes("hold")
    /\ UNCHANGED <<service, store, disk, mem, main, out, old, spent, history>>

\* forgetThread waits for g.mu.
ForgetThread ==
    /\ sender.at = "forget" /\ main.at = "idle"
    /\ LET stale == TopicFor(sender.item.thread)
           topics == [a \in Address |-> IF a \in stale THEN 0 ELSE mem.topics[a]]
       IN IF stale = {} THEN UNCHANGED <<disk, mem, faults, badSaves>>
          ELSE Save([mem EXCEPT !.topics = topics])
    /\ Goes("hold")
    /\ UNCHANGED <<service, store, main, out, old, restarts, history>>

Hold ==
    /\ sender.at = "hold" /\ Goes("done")
    /\ held' = held \cup {sender.item.ack}
    /\ UNCHANGED <<service, store, disk, mem, main, queue, inflight, old, spent, history>>

AckRead ==
    /\ sender.at = "ack" /\ Goes("done")
    /\ \/ read' = read \cup {sender.item.ack} /\ NoFault /\ UNCHANGED again
       \/ Fault /\ again' = [again EXCEPT ![sender.item.ack] = @ + 1] /\ UNCHANGED read
    /\ UNCHANGED <<service, inbox, ledger, sent, disk, mem, main, out, old, restarts, badSaves,
                   posted, said, refused>>

SenderDone ==
    /\ sender.at = "done" /\ sender' = Waiting
    /\ inflight' = inflight \ {sender.item.ack}
    /\ UNCHANGED <<service, store, disk, mem, main, queue, held, old, spent, history>>

HoldExpires(l) ==
    /\ l \in held /\ held' = held \ {l}
    /\ UNCHANGED <<service, store, disk, mem, main, queue, inflight, sender, old, spent, history>>

-----------------------------------------------------------------------------
(* Stop, crash and start *)

Forgets ==
    /\ Fault /\ restarts' = restarts + 1
    /\ main' = Down /\ queue' = <<>> /\ inflight' = {} /\ held' = {} /\ sender' = Waiting

\* SIGTERM: what the flush could not post stays unread.  A save that fails
\* now is a crash.
Stop ==
    /\ main.at = "idle" /\ sender.at = "idle" /\ Forgets
    /\ mem' = Pruned(mem) /\ disk' = mem'
    /\ UNCHANGED <<service, store, old, badSaves, history>>

Crash ==
    /\ main.at # "down" /\ Forgets /\ mem' = disk
    /\ again' = [l \in Letter |-> again[l] + IF l \notin read /\ posted[l] > again[l] THEN 1 ELSE 0]
    /\ UNCHANGED <<service, store, disk, old, badSaves, posted, said, refused>>

Start ==
    /\ main.at = "down" /\ main' = Up /\ mem' = disk
    /\ UNCHANGED <<service, store, disk, out, sender, old, spent, history>>

-----------------------------------------------------------------------------
Environment ==
    \/ \E t \in DOMAIN threads : Write(t) \/ Delete(t)
    \/ \E q \in Asks : Ask(q)
    \/ Receive
    \/ \E u \in Update : Age(u)

MainLoop ==
    \/ HandleBatch \/ SendAsUser \/ SendFails \/ Say \/ Close \/ Advance
    \/ StartScan \/ IsInflight \/ RelayMessage \/ RelaySkipped
    \/ CreateTopic \/ CreateFails \/ Created

Sender == Pop \/ Post \/ ForgetThread \/ Hold \/ AckRead \/ SenderDone

Next ==
    \/ Environment \/ MainLoop \/ Sender
    \/ \E l \in Letter : HoldExpires(l)
    \/ Stop \/ Crash \/ Start

Spec == Init /\ [][Next]_vars

\* The loops run, holds end, and systemd starts it again.
Fairness ==
    /\ WF_vars(HandleBatch) /\ WF_vars(StartScan)
    /\ WF_vars(SendAsUser \/ SendFails \/ Say \/ Close \/ Advance \/ IsInflight \/ RelayMessage
                \/ RelaySkipped \/ CreateTopic \/ CreateFails \/ Created)
    /\ WF_vars(Sender) /\ SF_vars(ForgetThread)
    /\ \A l \in Letter : WF_vars(HoldExpires(l))
    /\ WF_vars(Start)

FairSpec == Spec /\ Fairness

-----------------------------------------------------------------------------
(* A letter is marked read only after it was posted (docs/GATEWAY.md),     *)
(* whatever the scan saw while the sender was at work.                     *)
ReadAfterPosted == \A l \in read : inbox[l].kind # "notice" => posted[l] > 0

(* It is posted again only after a crash, a lost answer or a failed        *)
(* ack-read: a scan that runs into the sender does not queue it twice.     *)
Repeats == \A l \in DOMAIN inbox : posted[l] <= 1 + again[l]

(* Every update the stored offset has passed was carried out: a text       *)
(* became exactly one letter, whose chat message is on disk until it is    *)
(* old, unless the user was told that its topic is not linked; a /say was  *)
(* repeated at most once per restart.                                        *)
Handled ==
    \A u \in DOMAIN chat :
       /\ sent[u] <= 1 /\ said[u] <= 1 + restarts
       /\ (u < disk.offset /\ chat[u].kind = "text" /\ u \notin refused) =>
             sent[u] = 1 /\ (u \in disk.refs \cup old \/ badSaves > 0)

-----------------------------------------------------------------------------
(* Why the safety properties hold *)

(* The thread a text is in exists, a bounce is about an update of the chat, *)
(* and what the file says of topics could be loaded.                        *)
Linked ==
    /\ \A u \in DOMAIN chat : chat[u].thread <= Len(threads)
    /\ \A u \in Update : sent[u] > 0 => u \in DOMAIN chat
    /\ \A l \in DOMAIN inbox : inbox[l].kind = "bounce" => inbox[l].about \in DOMAIN chat
    /\ \A a \in Address : /\ disk.topics[a] \in 0..Len(threads)
                          /\ disk.topics[a] > 0 => threads[disk.topics[a]].of = a

OnUpdate == main.by = "update" /\ main.at \in {"send", "say", "close", "advance", "create", "created"}

(* What the main loop has in hand: an update that is the next of the memory *)
(* or of the poll, or a letter the sender does not have.                    *)
InHand ==
    /\ OnUpdate => /\ main.n \in DOMAIN chat
                   /\ main.n >= mem.offset
                   /\ main.n <= mem.offset \/ main.n <= confirmed + 1
    /\ main.at = "send" => chat[main.n].kind = "text"
    /\ main.at = "say" => chat[main.n].kind = "say"
    /\ main.at = "close" => chat[main.n].kind = "close"
    /\ main.at \in {"create", "created"} /\ OnUpdate => chat[main.n].kind = "open"
    /\ main.at = "scan" => main.todo # {}
    /\ main.at = "relay" => main.by = "letter"
    /\ main.by = "letter" =>
          main.at \in {"relay", "create", "created"} /\ main.n \in DOMAIN inbox \ inflight
    /\ main.by = "letter" /\ main.at \in {"create", "created"} => main.n \notin read
    /\ main.at = "created" =>
          threads # <<>> /\ threads[Len(threads)].of = Wanted

(* The letters in flight are those in the queue and the sender's, each once *)
(* and unread until its post is acknowledged.                               *)
InFlight ==
    /\ \A n \in DOMAIN queue : queue[n].ack \in inflight \ read
    /\ \A m, n \in DOMAIN queue : queue[m].ack = queue[n].ack => m = n
    /\ sender.at # "idle" =>
          /\ sender.item.ack \in inflight
          /\ sender.at # "done" => sender.item.ack \notin read
          /\ \A n \in DOMAIN queue : queue[n].ack # sender.item.ack

(* The post that is about to be acknowledged was made; a letter was posted  *)
(* as often as something went wrong, and once more when it is read or about *)
(* to be acknowledged.                                                      *)
Acked(l) == sender.at = "ack" /\ sender.item.ack = l

Unposted ==
    /\ \A l \in DOMAIN inbox : Acked(l) => posted[l] > 0
    /\ \A l \in Letter :
          posted[l] <= (IF l \in read \/ Acked(l) THEN 1 ELSE 0) + again[l]

(* A key that is published has one letter, and one that is not at most one. *)
Keyed == \A u \in Update : sent[u] <= 1 /\ (ledger[u] = "published" => sent[u] = 1)

Carried(u) == chat[u].kind = "text" /\ u \notin refused => sent[u] = 1

(* What the memory, the file and the poll have passed was carried out.      *)
Passed ==
    \A u \in DOMAIN chat :
       u < mem.offset \/ u < disk.offset \/ u <= confirmed \/ (main.at = "advance" /\ u = main.n)
          => Carried(u)

(* As long as every save goes through, memory and file agree on how far     *)
(* they are, and on the reference of every text they have passed.           *)
Referenced ==
    badSaves = 0 =>
       /\ disk.offset = mem.offset /\ confirmed < mem.offset
       /\ \A u \in DOMAIN chat : chat[u].kind = "text" /\ u \notin refused =>
             /\ u < mem.offset => u \in disk.refs \cup old /\ u \in mem.refs \cup old
             /\ main.at = "advance" /\ u = main.n => u \in mem.refs

(* A /say is carried out once in each life of the daemon: the memory passes *)
(* it whatever becomes of the save.                                         *)
SaidOnce ==
    /\ main.at = "down" => mem = disk
    /\ \A u \in Update :
          said[u] <= restarts + (IF \/ u < mem.offset
                                    \/ main.at = "advance" /\ u = main.n THEN 1 ELSE 0)

-----------------------------------------------------------------------------
(* Liveness. *)

(* Every update is carried out in the end, and every letter is read: it     *)
(* ends in the chat, in a new topic when the one of its sender is gone.     *)
(* Not so a bounce: its text's topic is not made again, and the post is     *)
(* tried once a minute until a save prunes the reference to it.             *)
Progress == \A u \in Update : []<>(u \in DOMAIN chat => mem.offset > u)

Unreachable(l) ==
    inbox[l].kind = "bounce" /\ threads[chat[inbox[l].about].thread].state # "open"

Relayed ==
    \A l \in Letter : []<>(l \in DOMAIN inbox => l \in read \/ Unreachable(l))
=============================================================================
