---------------------------- MODULE GatewayProof ----------------------------
(***************************************************************************)
(* Theorems about Gateway for any sessions, questions, kinds of letters and*)
(* any number of updates, letters and faults: its type invariant, that a   *)
(* letter is acknowledged only after it was posted, that it is posted again*)
(* only when something went wrong, and that every update the stored offset *)
(* has passed was carried out.                                             *)
(***************************************************************************)
EXTENDS Gateway, WellFoundedInduction, TLAPS

\* The inductive invariant: each part below needs some of the others.
GatewayInv ==
    /\ TypeOK /\ Linked /\ InHand /\ InFlight /\ Unposted
    /\ Keyed /\ Passed /\ Referenced /\ SaidOnce /\ ReadAfterPosted

Posting == [kind : {"text", "open", "close", "say"}, of : Address, thread : Nat]
Topic == [of : Address, state : {"open", "closed", "deleted"}]
Received == [kind : Kinds, from : Address, about : {0} \cup Update]

-----------------------------------------------------------------------------
(* Which actions change what *)

LEMMA ChatSteps ==
    ASSUME Next
    PROVE  UNCHANGED chat \/ (\E t \in DOMAIN threads : Write(t)) \/ \E q \in Asks : Ask(q)
BY Zenon DEF Next, Environment, MainLoop, Sender, Delete, Receive, Arrive, Age,
   HandleBatch, SendAsUser, SendFails, Say, Close, Advance, StartScan, IsInflight,
   RelayMessage, RelaySkipped, CreateTopic, CreateFails, Created, Pop, Post, ForgetThread,
   Hold, AckRead, SenderDone, HoldExpires, Stop, Crash, Start, service

LEMMA ThreadsSteps ==
    ASSUME Next
    PROVE  UNCHANGED threads \/ (\E t \in DOMAIN threads : Delete(t)) \/ Close \/ CreateTopic
BY Zenon DEF Next, Environment, MainLoop, Sender, Write, Ask, Receive, Arrive, Age,
   HandleBatch, SendAsUser, SendFails, Say, Advance, StartScan, IsInflight,
   RelayMessage, RelaySkipped, CreateFails, Created, Pop, Post, ForgetThread,
   Hold, AckRead, SenderDone, HoldExpires, Stop, Crash, Start, service

LEMMA ConfirmedSteps ==
    ASSUME Next
    PROVE  UNCHANGED confirmed \/ HandleBatch
BY Zenon DEF Next, Environment, MainLoop, Sender, Write, Delete, Ask, Receive, Arrive, Age,
   SendAsUser, SendFails, Say, Close, Advance, StartScan, IsInflight, RelayMessage,
   RelaySkipped, CreateTopic, CreateFails, Created, Pop, Post, ForgetThread, Hold, AckRead,
   SenderDone, HoldExpires, Stop, Crash, Start, service

LEMMA InboxSteps ==
    ASSUME Next
    PROVE  UNCHANGED inbox \/ Receive
BY Zenon DEF Next, Environment, MainLoop, Sender, Write, Delete, Ask, Age, HandleBatch,
   SendAsUser, SendFails, Say, Close, Advance, StartScan, IsInflight, RelayMessage,
   RelaySkipped, CreateTopic, CreateFails, Created, Pop, Post, ForgetThread, Hold, AckRead,
   SenderDone, HoldExpires, Stop, Crash, Start, store

LEMMA ReadSteps ==
    ASSUME Next
    PROVE  UNCHANGED read \/ RelayMessage \/ AckRead
BY Zenon DEF Next, Environment, MainLoop, Sender, Write, Delete, Ask, Receive, Arrive, Age,
   HandleBatch, SendAsUser, SendFails, Say, Close, Advance, StartScan, IsInflight,
   RelaySkipped, CreateTopic, CreateFails, Created, Pop, Post, ForgetThread, Hold,
   SenderDone, HoldExpires, Stop, Crash, Start, store

LEMMA SentSteps ==
    ASSUME Next
    PROVE  UNCHANGED <<ledger, sent>> \/ SendAsUser \/ SendFails
BY Zenon DEF Next, Environment, MainLoop, Sender, Write, Delete, Ask, Receive, Arrive, Age,
   HandleBatch, Say, Close, Advance, StartScan, IsInflight, RelayMessage, RelaySkipped,
   CreateTopic, CreateFails, Created, Pop, Post, ForgetThread, Hold, AckRead, SenderDone,
   HoldExpires, Stop, Crash, Start, store

LEMMA StateSteps ==
    ASSUME Next
    PROVE  \/ UNCHANGED <<disk, mem, badSaves>>
           \/ SendAsUser \/ Close \/ Advance \/ Created \/ ForgetThread \/ Stop \/ Crash \/ Start
BY Zenon DEF Next, Environment, MainLoop, Sender, Write, Delete, Ask, Receive, Arrive, Age,
   HandleBatch, SendFails, Say, StartScan, IsInflight, RelayMessage, RelaySkipped,
   CreateTopic, CreateFails, Pop, Post, Hold, AckRead, SenderDone, HoldExpires, spent

LEMMA MainSteps ==
    ASSUME Next
    PROVE  \/ UNCHANGED main
           \/ HandleBatch \/ SendAsUser \/ SendFails \/ Say \/ Close \/ Advance
           \/ StartScan \/ IsInflight \/ RelayMessage \/ RelaySkipped
           \/ CreateTopic \/ CreateFails \/ Created \/ Stop \/ Crash \/ Start
BY Zenon DEF Next, Environment, MainLoop, Sender, Write, Delete, Ask, Receive, Arrive, Age,
   Pop, Post, ForgetThread, Hold, AckRead, SenderDone, HoldExpires

LEMMA QueueSteps ==
    ASSUME Next
    PROVE  \/ UNCHANGED <<queue, inflight>>
           \/ RelayMessage \/ Created \/ Pop \/ SenderDone \/ Stop \/ Crash
BY Zenon DEF Next, Environment, MainLoop, Sender, Write, Delete, Ask, Receive, Arrive, Age,
   HandleBatch, SendAsUser, SendFails, Say, Close, Advance, StartScan, IsInflight,
   RelaySkipped, CreateTopic, CreateFails, Post, ForgetThread, Hold, AckRead,
   HoldExpires, Start, out

LEMMA HeldSteps ==
    ASSUME Next
    PROVE  UNCHANGED held \/ Hold \/ (\E l \in Letter : HoldExpires(l)) \/ Stop \/ Crash
BY Zenon DEF Next, Environment, MainLoop, Sender, Write, Delete, Ask, Receive, Arrive, Age,
   HandleBatch, SendAsUser, SendFails, Say, Close, Advance, StartScan, IsInflight,
   RelayMessage, RelaySkipped, CreateTopic, CreateFails, Created, Enqueue, Pop, Post,
   ForgetThread, AckRead, SenderDone, Start, out

LEMMA SenderSteps ==
    ASSUME Next
    PROVE  UNCHANGED sender \/ Sender \/ Stop \/ Crash
BY Zenon DEF Next, Environment, MainLoop, Write, Delete, Ask, Receive, Arrive, Age,
   HandleBatch, SendAsUser, SendFails, Say, Close, Advance, StartScan, IsInflight,
   RelayMessage, RelaySkipped, CreateTopic, CreateFails, Created, HoldExpires, Start

LEMMA OldSteps ==
    ASSUME Next
    PROVE  UNCHANGED old \/ \E u \in Update : Age(u)
BY Zenon DEF Next, Environment, MainLoop, Sender, Write, Delete, Ask, Receive, Arrive,
   HandleBatch, SendAsUser, SendFails, Say, Close, Advance, StartScan, IsInflight,
   RelayMessage, RelaySkipped, CreateTopic, CreateFails, Created, Pop, Post, ForgetThread,
   Hold, AckRead, SenderDone, HoldExpires, Stop, Crash, Start

LEMMA RestartSteps ==
    ASSUME Next
    PROVE  UNCHANGED restarts \/ Stop \/ Crash
BY Zenon DEF Next, Environment, MainLoop, Sender, Write, Delete, Ask, Receive, Arrive, Age,
   HandleBatch, SendAsUser, SendFails, Say, Close, Advance, StartScan, IsInflight,
   RelayMessage, RelaySkipped, CreateTopic, CreateFails, Created, Pop, Post, ForgetThread,
   Hold, AckRead, SenderDone, HoldExpires, Start, spent

LEMMA PostedSteps ==
    ASSUME Next
    PROVE  UNCHANGED <<posted, again>> \/ Post \/ AckRead \/ Crash
BY Zenon DEF Next, Environment, MainLoop, Sender, Write, Delete, Ask, Receive, Arrive, Age,
   HandleBatch, SendAsUser, SendFails, Say, Close, Advance, StartScan, IsInflight,
   RelayMessage, RelaySkipped, CreateTopic, CreateFails, Created, Pop, ForgetThread,
   Hold, SenderDone, HoldExpires, Stop, Start, history

LEMMA SaidSteps ==
    ASSUME Next
    PROVE  UNCHANGED said \/ Say
BY Zenon DEF Next, Environment, MainLoop, Sender, Write, Delete, Ask, Receive, Arrive, Age,
   HandleBatch, SendAsUser, SendFails, Close, Advance, StartScan, IsInflight,
   RelayMessage, RelaySkipped, CreateTopic, CreateFails, Created, Pop, Post, ForgetThread,
   Hold, AckRead, SenderDone, HoldExpires, Stop, Crash, Start, history

LEMMA RefusedSteps ==
    ASSUME Next
    PROVE  UNCHANGED refused \/ HandleBatch
BY Zenon DEF Next, Environment, MainLoop, Sender, Write, Delete, Ask, Receive, Arrive, Age,
   SendAsUser, SendFails, Say, Close, Advance, StartScan, IsInflight,
   RelayMessage, RelaySkipped, CreateTopic, CreateFails, Created, Pop, Post, ForgetThread,
   Hold, AckRead, SenderDone, HoldExpires, Stop, Crash, Start, history

LEMMA FaultSteps ==
    ASSUME Next
    PROVE  UNCHANGED faults \/ faults' = faults + 1
BY Zenon DEF Next, Environment, MainLoop, Sender, Write, Delete, Ask, Receive, Arrive, Age,
   HandleBatch, SendAsUser, SendFails, Say, Close, Advance, StartScan, IsInflight,
   RelayMessage, RelaySkipped, CreateTopic, CreateFails, Created, Pop, Post, Answer,
   ForgetThread, Hold, AckRead, SenderDone, HoldExpires, Stop, Crash, Start, Forgets, Save,
   Fault, NoFault, spent

-----------------------------------------------------------------------------
(* What grows, and what a save writes *)

LEMMA Constants ==
    /\ MaxUpdates \in Nat /\ MaxLetters \in Nat
    /\ Update = 1..MaxUpdates /\ Letter = 1..MaxLetters
    /\ \A q \in Asks : q.kind \in {"open", "close", "say"} /\ q.of \in Address
BY GatewayAssumption DEF Update, Letter

\* A topic is made for a session.
LEMMA WantedType ==
    ASSUME TypeOK, InHand, main.at \in {"create", "created"}
    PROVE  Wanted \in Address
<1>1. chat \in Seq(Posting) /\ inbox \in Seq(Received)
  BY DEF TypeOK, Posting, Received
<1>2. main.by \in {"update", "letter"}
  BY DEF TypeOK
<1>3. CASE main.by = "update"
  <2>1. main.n \in DOMAIN chat
    BY <1>3 DEF InHand, OnUpdate
  <2>2. chat[main.n] \in Posting
    BY <2>1, <1>1
  <2> QED
    BY <1>3, <2>2 DEF Wanted, Posting
<1>4. CASE main.by = "letter"
  <2>1. main.n \in DOMAIN inbox
    BY <1>4 DEF InHand
  <2>2. inbox[main.n] \in Received
    BY <2>1, <1>1
  <2> QED
    BY <1>4, <2>2 DEF Wanted, Received
<1> QED
  BY <1>2, <1>3, <1>4

\* The chat keeps its updates.
LEMMA ChatGrows ==
    ASSUME TypeOK, Next
    PROVE  /\ chat' \in Seq(Posting) /\ Len(chat') <= MaxUpdates /\ Len(chat) <= Len(chat')
           /\ \A u \in DOMAIN chat : u \in DOMAIN chat' /\ chat'[u] = chat[u]
           /\ \A u \in DOMAIN chat' : u \in DOMAIN chat \/ u = Len(chat) + 1
           /\ DOMAIN chat = 1..Len(chat) /\ DOMAIN chat' = 1..Len(chat')
<1>1. chat \in Seq(Posting) /\ Len(chat) <= MaxUpdates
  BY DEF TypeOK, Posting
<1> DEFINE Good(c) == /\ c \in Seq(Posting) /\ Len(c) <= MaxUpdates /\ Len(chat) <= Len(c)
                      /\ \A u \in DOMAIN chat : u \in DOMAIN c /\ c[u] = chat[u]
                      /\ \A u \in DOMAIN c : u \in DOMAIN chat \/ u = Len(chat) + 1
<1>2. Good(chat)
  BY <1>1
<1>3. ASSUME NEW e \in Posting, Len(chat) < MaxUpdates PROVE Good(Append(chat, e))
  BY <1>1, <1>3, Constants
<1>4. ASSUME NEW t \in DOMAIN threads, Write(t) PROVE Good(chat')
  <2>1. threads \in Seq(Topic)
    BY DEF TypeOK, Topic
  <2>2. threads[t] \in Topic /\ t \in Nat
    BY <2>1
  <2>3. threads[t].of \in Address /\ t \in Nat
    BY <2>2 DEF Topic
  <2>4. [kind |-> "text", of |-> threads[t].of, thread |-> t] \in Posting
    BY <2>3 DEF Posting
  <2> HIDE DEF Good
  <2> QED
    BY <1>3, <1>4, <2>4 DEF Write
<1>5. ASSUME NEW q \in Asks, Ask(q) PROVE Good(chat')
  <2>1. [kind |-> q.kind, of |-> q.of, thread |-> 0] \in Posting
    BY Constants DEF Posting
  <2> HIDE DEF Good
  <2> QED
    BY <1>3, <1>5, <2>1 DEF Ask
<1>6. Good(chat')
  <2> HIDE DEF Good
  <2> QED
    BY <1>2, <1>4, <1>5, ChatSteps, Zenon
<1> QED
  BY <1>1, <1>6

\* The inbox keeps its letters.
LEMMA InboxGrows ==
    ASSUME TypeOK, Linked, Next
    PROVE  /\ inbox' \in Seq(Received) /\ Len(inbox') <= MaxLetters
           /\ Len(inbox) <= Len(inbox')
           /\ \A l \in DOMAIN inbox : l \in DOMAIN inbox' /\ inbox'[l] = inbox[l]
           /\ DOMAIN inbox = 1..Len(inbox) /\ DOMAIN inbox' = 1..Len(inbox')
           /\ DOMAIN inbox \subseteq DOMAIN inbox' /\ DOMAIN inbox' \subseteq Letter
           /\ \A l \in DOMAIN inbox' \ DOMAIN inbox :
                 inbox'[l].kind = "bounce" => inbox'[l].about \in DOMAIN chat
<1>1. inbox \in Seq(Received) /\ Len(inbox) <= MaxLetters
  BY DEF TypeOK, Received
<1> DEFINE Good(c) == /\ c \in Seq(Received) /\ Len(c) <= MaxLetters /\ Len(inbox) <= Len(c)
                      /\ \A l \in DOMAIN inbox : l \in DOMAIN c /\ c[l] = inbox[l]
                      /\ \A l \in DOMAIN c \ DOMAIN inbox :
                            c[l].kind = "bounce" => c[l].about \in DOMAIN chat
<1>2. Good(inbox)
  BY <1>1
<1>3. ASSUME NEW e \in Received, e.kind = "bounce" => e.about \in DOMAIN chat,
             Len(inbox) < MaxLetters
      PROVE Good(Append(inbox, e))
  BY <1>1, <1>3, Constants
<1>4. ASSUME NEW k \in Kinds, NEW a \in Address, NEW u \in {0} \cup Update, Arrive(k, a, u),
             k = "bounce" => u \in DOMAIN chat
      PROVE Good(inbox')
  <2>1. [kind |-> k, from |-> a, about |-> u] \in Received
    BY DEF Received
  <2> HIDE DEF Good
  <2> QED
    BY <1>3, <1>4, <2>1 DEF Arrive
<1> HIDE DEF Good
<1>5. CASE Receive
  <2>1. ASSUME NEW a \in Address, "message" \in Kinds, Arrive("message", a, 0) PROVE Good(inbox')
    BY <1>4, <2>1
  <2>2. ASSUME NEW u \in Update, "bounce" \in Kinds, sent[u] > 0, Arrive("bounce", chat[u].of, u)
        PROVE Good(inbox')
    <3>1. u \in DOMAIN chat
      BY <2>2 DEF Linked
    <3>2. chat[u].of \in Address
      <4>1. chat \in Seq(Posting)
        BY DEF TypeOK, Posting
      <4>2. chat[u] \in Posting
        BY <3>1, <4>1
      <4> QED
        BY <4>2 DEF Posting
    <3> QED
      BY <1>4, <2>2, <3>1, <3>2
  <2>3. ASSUME NEW a \in Address, "notice" \in Kinds, Arrive("notice", a, 0) PROVE Good(inbox')
    BY <1>4, <2>3
  <2>4. Good(inbox')
    BY <1>5, <2>1, <2>2, <2>3, Zenon DEF Receive
  <2> QED
    BY <1>1, <2>4, Constants DEF Good
<1>6. CASE UNCHANGED inbox
  BY <1>1, <1>2, <1>6, Constants DEF Good
<1> QED
  BY <1>5, <1>6, InboxSteps

\* Topics stay, whatever becomes of them, topics of the same session.
LEMMA ThreadsGrow ==
    ASSUME TypeOK, InHand, Next
    PROVE  /\ threads' \in Seq(Topic) /\ Len(threads) <= Len(threads') /\ Len(threads) \in Nat
           /\ Len(threads') \in Nat
           /\ \A t \in DOMAIN threads : t \in DOMAIN threads' /\ threads'[t].of = threads[t].of
           /\ DOMAIN threads = 1..Len(threads)
<1>1. threads \in Seq(Topic)
  BY DEF TypeOK, Topic
<1> DEFINE Good(c) == /\ c \in Seq(Topic) /\ Len(threads) <= Len(c)
                      /\ \A t \in DOMAIN threads : t \in DOMAIN c /\ c[t].of = threads[t].of
<1>2. Good(threads)
  BY <1>1
<1>3. ASSUME NEW t, NEW x \in {"closed", "deleted"} PROVE Good([threads EXCEPT ![t].state = x])
  <2> DEFINE new == [threads EXCEPT ![t].state = x]
  <2>1. /\ DOMAIN new = DOMAIN threads
        /\ \A i \in DOMAIN threads : new[i] = IF i = t THEN [threads[t] EXCEPT !.state = x]
                                                       ELSE threads[i]
    OBVIOUS
  <2>2. \A i \in DOMAIN threads : threads[i] \in Topic
    BY <1>1
  <2>3. \A i \in DOMAIN threads : new[i] \in Topic /\ new[i].of = threads[i].of
    BY <2>1, <2>2 DEF Topic
  <2>4. new \in [DOMAIN threads -> Topic]
    BY <2>1, <2>3
  <2>5. DOMAIN threads = 1..Len(threads) /\ Len(threads) \in Nat
    BY <1>1
  <2>6. new \in Seq(Topic) /\ Len(new) = Len(threads)
    <3> HIDE DEF new
    <3> QED
      BY <2>4, <2>5
  <2> QED
    BY <2>1, <2>3, <2>6, <2>5
<1>4. ASSUME NEW a \in Address PROVE Good(Append(threads, [of |-> a, state |-> "open"]))
  <2>1. [of |-> a, state |-> "open"] \in Topic
    BY DEF Topic
  <2> QED
    BY <1>1, <2>1
<1> HIDE DEF Good
<1>5. ASSUME NEW t \in DOMAIN threads, Delete(t) PROVE Good(threads')
  BY <1>3, <1>5 DEF Delete
<1>6. CASE Close
  <2>1. \/ UNCHANGED threads
        \/ \E t : threads' = [threads EXCEPT ![t].state = "closed"]
    BY <1>6, Zenon DEF Close
  <2>2. Good(threads')
    BY <1>2, <1>3, <2>1
  <2> QED
    BY <1>1, <2>2 DEF Good
<1>7. CASE CreateTopic
  <2>1. Wanted \in Address
    BY <1>7, WantedType DEF CreateTopic
  <2> QED
    BY <1>1, <1>4, <1>7, <2>1 DEF CreateTopic, Good
<1>8. UNCHANGED threads \/ (\E t \in DOMAIN threads : Delete(t)) => Good(threads')
  BY <1>2, <1>5
<1> QED
  BY <1>1, <1>6, <1>7, <1>8, ThreadsSteps DEF Good

\* A copy of the state that fits the chat and its topics.
Fit(st, updates, topics) ==
    /\ st \in State
    /\ st.offset <= Len(updates) + 1
    /\ \A a \in Address : /\ st.topics[a] \in 0..Len(topics)
                          /\ st.topics[a] > 0 => topics[st.topics[a]].of = a

LEMMA FitNow ==
    ASSUME TypeOK, Linked
    PROVE  Fit(mem, chat, threads) /\ Fit(disk, chat, threads)
BY DEF TypeOK, Linked, Fit

LEMMA FitGrows ==
    ASSUME TypeOK, InHand, Next, NEW st, Fit(st, chat, threads)
    PROVE  Fit(st, chat', threads')
<1>1. st \in State /\ st.offset <= Len(chat) + 1 /\ st.offset \in Nat
  BY DEF Fit, State
<1>2. chat \in Seq(Posting)
  BY DEF TypeOK, Posting
<1>3. st.offset <= Len(chat') + 1
  BY <1>1, <1>2, ChatGrows
<1>4. ASSUME NEW a \in Address
      PROVE  /\ st.topics[a] \in 0..Len(threads')
             /\ st.topics[a] > 0 => threads'[st.topics[a]].of = a
  <2>1. /\ st.topics[a] \in 0..Len(threads)
        /\ st.topics[a] > 0 => threads[st.topics[a]].of = a
    BY DEF Fit
  <2> QED
    BY <2>1, ThreadsGrow
<1> QED
  BY <1>1, <1>3, <1>4 DEF Fit

\* What a save does, whether or not it reaches the file.
LEMMA SaveEffect ==
    ASSUME TypeOK, NEW st \in State, Save(st)
    PROVE  /\ mem' = [offset |-> st.offset, topics |-> st.topics, refs |-> st.refs \ old]
           /\ mem' \in State
           /\ \/ disk' = mem' /\ badSaves' = badSaves
              \/ disk' = disk /\ badSaves' = badSaves + 1
<1>1. st = [offset |-> st.offset, topics |-> st.topics, refs |-> st.refs]
  BY DEF State
<1>2. Pruned(st) = [offset |-> st.offset, topics |-> st.topics, refs |-> st.refs \ old]
  BY <1>1 DEF Pruned
<1>3. Pruned(st) \in State
  BY <1>2 DEF State
<1> QED
  BY <1>2, <1>3, Zenon DEF Save

LEMMA SaveFits ==
    ASSUME TypeOK, Linked, NEW st, Fit(st, chat, threads), Save(st)
    PROVE  Fit(mem', chat, threads) /\ Fit(disk', chat, threads)
<1>1. st \in State
  BY DEF Fit
<1>2. mem' \in State /\ mem'.offset = st.offset /\ mem'.topics = st.topics
  BY <1>1, SaveEffect
<1>3. Fit(mem', chat, threads)
  BY <1>2 DEF Fit
<1> QED
  BY <1>1, <1>3, SaveEffect, FitNow

\* Stop prunes the state it flushes.
LEMMA PrunedEffect ==
    ASSUME TypeOK
    PROVE  /\ Pruned(mem) = [offset |-> mem.offset, topics |-> mem.topics, refs |-> mem.refs \ old]
           /\ Pruned(mem) \in State
<1>1. mem \in State
  BY DEF TypeOK
<1>2. mem = [offset |-> mem.offset, topics |-> mem.topics, refs |-> mem.refs]
  BY <1>1 DEF State
<1>3. Pruned(mem) = [offset |-> mem.offset, topics |-> mem.topics, refs |-> mem.refs \ old]
  BY <1>2 DEF Pruned
<1> QED
  BY <1>1, <1>3 DEF State

\* Memory and file fit the chat after every step.
LEMMA StateStep ==
    ASSUME TypeOK, Linked, InHand, Next
    PROVE  Fit(mem', chat', threads') /\ Fit(disk', chat', threads')
<1>1. Fit(mem, chat, threads) /\ Fit(disk, chat, threads)
  BY FitNow
<1>2. mem \in State
  BY DEF TypeOK
<1> SUFFICES Fit(mem', chat, threads) /\ Fit(disk', chat, threads)
  <2>1. ASSUME NEW st, st = mem' \/ st = disk' PROVE Fit(st, chat, threads) => Fit(st, chat', threads')
    BY FitGrows
  <2> QED
    BY <2>1
<1>3. CASE UNCHANGED <<disk, mem, badSaves>>
  BY <1>1, <1>3
<1>4. CASE SendAsUser
  <2>1. disk' = disk /\ mem' = [mem EXCEPT !.refs = @ \cup {main.n}]
    BY <1>4, Zenon DEF SendAsUser
  <2>2. main.n \in DOMAIN chat /\ chat \in Seq(Posting) /\ Len(chat) <= MaxUpdates
    BY <1>4 DEF SendAsUser, InHand, OnUpdate, TypeOK, Posting
  <2>3. main.n \in Update
    BY <2>2, Constants
  <2>4. mem' \in State /\ mem'.offset = mem.offset /\ mem'.topics = mem.topics
    BY <1>2, <2>1, <2>3 DEF State
  <2> QED
    BY <1>1, <2>1, <2>4 DEF Fit
<1>5. CASE Close
  <2> DEFINE whose == chat[main.n].of
             st == [mem EXCEPT !.topics[whose] = 0]
  <2>1. Save(st)
    BY <1>5, Zenon DEF Close
  <2>2. /\ st \in State /\ st.offset = mem.offset
        /\ \A a \in Address : st.topics[a] \in {0, mem.topics[a]}
    BY <1>2 DEF State
  <2>3. ASSUME NEW a \in Address
        PROVE  /\ st.topics[a] \in 0..Len(threads)
               /\ st.topics[a] > 0 => threads[st.topics[a]].of = a
    <3> HIDE DEF st
    <3>1. threads \in Seq(Topic)
      BY DEF TypeOK, Topic
    <3> QED
      BY <3>1, <2>2, <1>1 DEF Fit
  <2> HIDE DEF st
  <2>4. Fit(st, chat, threads)
    BY <1>1, <2>2, <2>3 DEF Fit
  <2> QED
    BY <2>1, <2>4, SaveFits
<1>6. CASE Advance
  <2> DEFINE st == [mem EXCEPT !.offset = main.n + 1]
  <2>1. Save(st)
    BY <1>6, Zenon DEF Advance
  <2>2. main.n \in DOMAIN chat /\ chat \in Seq(Posting) /\ Len(chat) <= MaxUpdates
    BY <1>6 DEF Advance, InHand, OnUpdate, TypeOK, Posting
  <2>3. main.n + 1 \in 1..MaxUpdates + 1 /\ main.n + 1 <= Len(chat) + 1
    BY <2>2, Constants
  <2>4. st \in State /\ st.offset = main.n + 1 /\ st.topics = mem.topics
    BY <1>2, <2>3 DEF State
  <2> HIDE DEF st
  <2>5. Fit(st, chat, threads)
    BY <1>1, <2>3, <2>4 DEF Fit
  <2> QED
    BY <2>1, <2>5, SaveFits
<1>7. CASE Created
  <2> DEFINE st == [mem EXCEPT !.topics[Wanted] = Len(threads)]
  <2>1. Save(st)
    BY <1>7, Zenon DEF Created
  <2>2. Wanted \in Address
    BY <1>7, WantedType DEF Created
  <2>3. threads \in Seq(Topic) /\ threads # <<>> /\ threads[Len(threads)].of = Wanted
    BY <1>7 DEF Created, InHand, TypeOK, Topic
  <2>4. Len(threads) \in Nat \ {0}
    BY <2>3
  <2>5. /\ st \in State /\ st.offset = mem.offset
        /\ \A a \in Address : st.topics[a] = IF a = Wanted THEN Len(threads) ELSE mem.topics[a]
    BY <1>2, <2>2, <2>4 DEF State
  <2> HIDE DEF st
  <2>6. Fit(st, chat, threads)
    BY <1>1, <2>3, <2>4, <2>5 DEF Fit
  <2> QED
    BY <2>1, <2>6, SaveFits
<1>8. CASE ForgetThread
  <2> DEFINE stale == TopicFor(sender.item.thread)
             topics == [a \in Address |-> IF a \in stale THEN 0 ELSE mem.topics[a]]
             st == [mem EXCEPT !.topics = topics]
  <2>1. UNCHANGED <<disk, mem, faults, badSaves>> \/ Save(st)
    BY <1>8, Zenon DEF ForgetThread
  <2>2. topics \in [Address -> Nat] /\ \A a \in Address : topics[a] \in {0, mem.topics[a]}
    BY <1>2 DEF State
  <2>3. st \in State /\ st.offset = mem.offset /\ st.topics = topics
    <3> HIDE DEF topics
    <3> QED
      BY <1>2, <2>2 DEF State
  <2> HIDE DEF st, topics
  <2>4. ASSUME NEW a \in Address
        PROVE  /\ st.topics[a] \in 0..Len(threads)
               /\ st.topics[a] > 0 => threads[st.topics[a]].of = a
    <3>1. threads \in Seq(Topic)
      BY DEF TypeOK, Topic
    <3> QED
      BY <3>1, <2>2, <2>3, <1>1 DEF Fit
  <2>5. Fit(st, chat, threads)
    BY <1>1, <2>3, <2>4 DEF Fit
  <2> QED
    BY <1>1, <2>1, <2>5, SaveFits
<1>9. CASE Stop
  <2>1. mem' = Pruned(mem) /\ disk' = mem'
    BY <1>9, Zenon DEF Stop
  <2>2. mem' \in State /\ mem'.offset = mem.offset /\ mem'.topics = mem.topics
    BY <2>1, PrunedEffect
  <2> QED
    BY <1>1, <2>1, <2>2 DEF Fit
<1>10. CASE Crash \/ Start
  BY <1>1, <1>10, Zenon DEF Crash, Start
<1> QED
  BY <1>3, <1>4, <1>5, <1>6, <1>7, <1>8, <1>9, <1>10, StateSteps, Zenon

-----------------------------------------------------------------------------
(* The main loop *)

Place == [at : {"down", "idle", "send", "say", "close", "advance",
                "scan", "relay", "create", "created"},
          by : {"update", "letter"}, n : Nat, todo : SUBSET DOMAIN inbox]

\* The first of the letters of a scan.
LEMMA FirstOfScan ==
    ASSUME NEW set \in SUBSET Nat, set # {}
    PROVE  (CHOOSE x \in set : \A y \in set : x <= y) \in set
<1> DEFINE R == OpToRel(<, Nat)
<1>1. IsWellFoundedOn(R, Nat)
  BY NatLessThanWellFounded
<1>2. \A x, y \in Nat : <<y, x>> \in R <=> y < x
  BY DEF OpToRel
<1> HIDE DEF R
<1>3. \E x \in set : \A y \in set : ~(<<y, x>> \in R)
  BY <1>1, WFMin
<1>4. PICK m \in set : \A y \in set : ~(<<y, m>> \in R)
  BY <1>3
<1>5. \A y \in set : ~(y < m) /\ y \in Nat /\ m \in Nat
  BY <1>2, <1>4
<1>6. \A y \in set : m <= y
  BY <1>5
<1> QED
  BY <1>6

\* After a letter the scan goes on, or the loop is idle.
LEMMA RestType ==
    ASSUME TypeOK
    PROVE  /\ Rest \in Place /\ Rest.at \in {"idle", "scan"} /\ Rest.by = "update"
           /\ Rest.at = "scan" => Rest.todo # {}
<1>1. main \in Place
  BY DEF TypeOK, Place
<1> QED
  BY <1>1 DEF Rest, Up, Place

\* Which actions move the offset of the memory.
LEMMA OffsetSteps ==
    ASSUME TypeOK, Linked, InHand, Next
    PROVE  mem'.offset = mem.offset \/ Advance \/ Crash \/ Start
<1>1. mem \in State
  BY DEF TypeOK
<1>2. CASE UNCHANGED <<disk, mem, badSaves>>
  BY <1>2
<1>3. CASE SendAsUser
  <2>1. mem' = [mem EXCEPT !.refs = @ \cup {main.n}]
    BY <1>3, Zenon DEF SendAsUser
  <2> QED
    BY <1>1, <2>1 DEF State
<1>4. ASSUME NEW st, Save(st), st.offset = mem.offset PROVE mem'.offset = mem.offset
  <2>1. mem' = [st EXCEPT !.refs = @ \ old]
    BY <1>4 DEF Save, Pruned
  <2> QED
    BY <1>4, <2>1
<1>5. CASE Close
  <2>1. Save([mem EXCEPT !.topics[chat[main.n].of] = 0])
    BY <1>5, Zenon DEF Close
  <2>2. [mem EXCEPT !.topics[chat[main.n].of] = 0].offset = mem.offset
    BY <1>1 DEF State
  <2> QED
    BY <1>4, <2>1, <2>2
<1>6. CASE Created
  <2>1. Save([mem EXCEPT !.topics[Wanted] = Len(threads)])
    BY <1>6, Zenon DEF Created
  <2>2. [mem EXCEPT !.topics[Wanted] = Len(threads)].offset = mem.offset
    BY <1>1 DEF State
  <2> QED
    BY <1>4, <2>1, <2>2
<1>7. CASE ForgetThread
  <2> DEFINE stale == TopicFor(sender.item.thread)
             topics == [a \in Address |-> IF a \in stale THEN 0 ELSE mem.topics[a]]
  <2>1. UNCHANGED <<disk, mem, faults, badSaves>> \/ Save([mem EXCEPT !.topics = topics])
    BY <1>7, Zenon DEF ForgetThread
  <2>2. [mem EXCEPT !.topics = topics].offset = mem.offset
    BY <1>1 DEF State
  <2> QED
    BY <1>4, <2>1, <2>2
<1>8. CASE Stop
  BY <1>8, PrunedEffect DEF Stop
<1> QED
  BY <1>2, <1>3, <1>5, <1>6, <1>7, <1>8, StateSteps

\* A loop that is idle, down or between two letters has nothing in hand.
LEMMA AtRest ==
    ASSUME main'.at \in {"idle", "down", "scan"}, main'.by = "update",
           main'.at = "scan" => main'.todo # {}
    PROVE  InHand'
BY DEF InHand, OnUpdate

\* Update and poll stay where they are while the loop works on an update.
LEMMA SameUpdate ==
    ASSUME TypeOK, Linked, InHand, Next, OnUpdate, main'.n = main.n,
           mem'.offset = mem.offset, UNCHANGED confirmed
    PROVE  /\ main'.n \in DOMAIN chat' /\ chat'[main'.n] = chat[main.n]
           /\ main'.n >= mem'.offset
           /\ main'.n <= mem'.offset \/ main'.n <= confirmed' + 1
<1>1. /\ main.n \in DOMAIN chat /\ main.n >= mem.offset
      /\ main.n <= mem.offset \/ main.n <= confirmed + 1
  BY DEF InHand
<1>2. main.n \in DOMAIN chat' /\ chat'[main.n] = chat[main.n]
  BY <1>1, ChatGrows
<1> QED
  BY <1>1, <1>2

\* The loop ends what it did for an update.
LEMMA OnToAdvance ==
    ASSUME TypeOK, Linked, InHand, Next, OnUpdate, main' = [main EXCEPT !.at = "advance"],
           mem'.offset = mem.offset, UNCHANGED confirmed
    PROVE  InHand'
<1>1. main \in Place
  BY DEF TypeOK, Place
<1>2. main'.at = "advance" /\ main'.by = "update" /\ main'.n = main.n
  BY <1>1 DEF Place, OnUpdate
<1> QED
  BY <1>2, SameUpdate DEF InHand, OnUpdate

\* A topic made a moment ago is still the last one.
LEMMA SameTopic ==
    ASSUME TypeOK, Linked, InHand, Next, UNCHANGED main, main.at = "created"
    PROVE  threads' # <<>> /\ threads'[Len(threads')].of = Wanted
<1>1. threads # <<>> /\ threads[Len(threads)].of = Wanted /\ threads \in Seq(Topic)
  BY DEF InHand, TypeOK, Topic
<1>2. Len(threads) \in DOMAIN threads
  BY <1>1
<1>3. CASE UNCHANGED threads
  BY <1>1, <1>3
<1>4. ASSUME NEW t \in DOMAIN threads, Delete(t)
      PROVE  threads' # <<>> /\ threads'[Len(threads')].of = Wanted
  <2>1. DOMAIN threads' = DOMAIN threads
    BY <1>4, Zenon DEF Delete
  <2>2. Len(threads') = Len(threads)
    BY <2>1, <1>1, ThreadsGrow
  <2> QED
    BY <1>1, <1>2, <2>2, ThreadsGrow
<1>5. Close \/ CreateTopic => FALSE
  BY DEF Close, CreateTopic
<1> QED
  BY <1>3, <1>4, <1>5, ThreadsSteps

\* The letter it has in hand is neither queued nor read by the sender.
LEMMA LetterKept ==
    ASSUME TypeOK, InHand, InFlight, Next, UNCHANGED main, main.by = "letter"
    PROVE  main.n \notin inflight' /\ (main.n \notin read => main.n \notin read')
<1>1. /\ main \in Place /\ main.n \notin inflight
      /\ main.at \in {"relay", "create", "created"}
  BY DEF TypeOK, Place, InHand
<1>2. RelayMessage \/ Created => FALSE
  <2>1. RelayMessage => main'.by = "update" \/ main'.at # main.at
    BY <1>1, RestType DEF RelayMessage, Place
  <2>2. Created => main'.at # main.at
    BY <1>1, RestType DEF Created, Failed, Place
  <2> QED
    BY <2>1, <2>2
<1>3. main.n \notin inflight'
  <2>1. Stop \/ Crash => main' = Down
    BY Zenon DEF Stop, Crash, Forgets
  <2>2. Stop \/ Crash => FALSE
    BY <2>1 DEF Down, Up
  <2>3. Pop => UNCHANGED inflight
    BY Zenon DEF Pop
  <2>4. SenderDone => inflight' \subseteq inflight
    BY DEF SenderDone
  <2> QED
    BY <1>1, <1>2, <2>2, <2>3, <2>4, QueueSteps
<1>4. AckRead => read' = read \/ read' = read \cup {sender.item.ack}
  BY Zenon DEF AckRead
<1>5. AckRead => sender.item.ack \in inflight
  BY DEF AckRead, InFlight
<1> QED
  BY <1>1, <1>2, <1>3, <1>4, <1>5, ReadSteps

\* The sender and the users leave alone what the loop has in hand.
LEMMA InHandKept ==
    ASSUME TypeOK, Linked, InHand, InFlight, Next, UNCHANGED main
    PROVE  InHand'
<1>1. main \in Place
  BY DEF TypeOK, Place
<1>2. (mem'.offset = mem.offset /\ UNCHANGED confirmed) \/ main.at \in {"idle", "down"}
  <2>1. Advance \/ Crash \/ Start => FALSE
    BY <1>1 DEF Advance, Crash, Start, Forgets, Up, Down, Place
  <2>2. HandleBatch => main.at = "idle"
    BY Zenon DEF HandleBatch
  <2> QED
    BY <2>1, <2>2, OffsetSteps, ConfirmedSteps
<1>3. CASE main.at \in {"idle", "down", "scan"}
  BY <1>1, <1>3, AtRest DEF InHand, Place
<1>4. CASE OnUpdate
  <2>1. mem'.offset = mem.offset /\ UNCHANGED confirmed
    BY <1>2, <1>4 DEF OnUpdate
  <2>2. /\ main'.n \in DOMAIN chat' /\ chat'[main'.n] = chat[main.n]
        /\ main'.n >= mem'.offset
        /\ main'.n <= mem'.offset \/ main'.n <= confirmed' + 1
    BY <1>4, <2>1, SameUpdate
  <2>3. CASE main.at # "created"
    BY <1>4, <2>2, <2>3 DEF InHand, OnUpdate
  <2>4. CASE main.at = "created"
    <3>1. threads' # <<>> /\ threads'[Len(threads')].of = Wanted
      BY <1>1, <2>4, SameTopic
    <3>2. Wanted' = Wanted
      BY <1>4, <2>2 DEF Wanted, OnUpdate
    <3> QED
      BY <1>4, <2>2, <2>4, <3>1, <3>2 DEF InHand, OnUpdate
  <2> QED
    BY <2>3, <2>4
<1>5. CASE main.by = "letter"
  <2>1. /\ main.at \in {"relay", "create", "created"} /\ main.n \in DOMAIN inbox \ inflight
        /\ main.at \in {"create", "created"} => main.n \notin read
    BY <1>5 DEF InHand
  <2>2. main.n \in DOMAIN inbox' /\ inbox'[main.n] = inbox[main.n]
    BY <2>1, InboxGrows
  <2>3. main.n \notin inflight'
    BY <1>5, <2>1, LetterKept
  <2>4. main.at \in {"create", "created"} => main.n \notin read'
    BY <1>5, <2>1, LetterKept
  <2>5. main.at = "created" => threads' # <<>> /\ threads'[Len(threads')].of = Wanted
    BY SameTopic
  <2>6. Wanted' = Wanted
    BY <1>5, <2>2 DEF Wanted
  <2> QED
    BY <1>5, <2>1, <2>2, <2>3, <2>4, <2>5, <2>6 DEF InHand, OnUpdate
<1> QED
  BY <1>1, <1>3, <1>4, <1>5 DEF Place, OnUpdate, InHand

\* A step of the loop that leaves it with a letter.
LEMMA OnToLetter ==
    ASSUME TypeOK, Linked, InHand, Next, main'.by = "letter",
           main'.at \in {"relay", "create"},
           main'.n \in DOMAIN inbox, main'.n \notin inflight', UNCHANGED inbox,
           main'.at = "create" => main'.n \notin read'
    PROVE  InHand'
BY DEF InHand, OnUpdate

\* Which update HandleBatch takes, and what becomes of it.
LEMMA HandleEffect ==
    ASSUME TypeOK, Linked, HandleBatch
    PROVE  /\ main' = [at |-> main'.at, by |-> "update", n |-> main'.n, todo |-> {}]
           /\ main'.at \in {"advance", "send", "create", "close", "say"}
           /\ main'.n \in DOMAIN chat
           /\ main'.n >= mem.offset /\ main'.n > confirmed'
           /\ main'.n <= mem.offset \/ main'.n <= confirmed' + 1
           /\ confirmed' = confirmed \/ confirmed' = mem.offset - 1
           /\ confirmed' \in Nat /\ confirmed' >= confirmed
           /\ main'.at = "send" => chat[main'.n].kind = "text"
           /\ main'.at = "say" => chat[main'.n].kind = "say"
           /\ main'.at = "close" => chat[main'.n].kind = "close"
           /\ main'.at = "create" => chat[main'.n].kind = "open"
           /\ refused' = IF chat[main'.n].kind = "text" /\ main'.at = "advance"
                         THEN refused \cup {main'.n} ELSE refused
<1>1. PICK c \in {confirmed, mem.offset - 1} :
          /\ c >= confirmed /\ Next1(c) <= Len(chat)
          /\ confirmed' = c
          /\ \E known \in BOOLEAN : main' = Handle(Next1(c), known)
          /\ refused' = IF chat[Next1(c)].kind = "text" /\ main'.at = "advance"
                        THEN refused \cup {Next1(c)} ELSE refused
  BY Zenon DEF HandleBatch
<1>2. PICK known \in BOOLEAN : main' = Handle(Next1(c), known)
  BY <1>1
<1> DEFINE u == Next1(c)
<1>3. /\ confirmed \in 0..Len(chat) /\ mem.offset \in Nat \ {0} /\ mem.offset <= Len(chat) + 1
      /\ chat \in Seq(Posting)
  <2>1. /\ confirmed \in 0..Len(chat) /\ mem \in State /\ mem.offset <= Len(chat) + 1
        /\ chat \in Seq(Posting)
    BY DEF TypeOK, Posting
  <2>2. mem.offset \in 1..MaxUpdates + 1
    BY <2>1 DEF State
  <2> QED
    BY <2>1, <2>2, Constants
<1>4. c \in Nat
  BY <1>1, <1>3
<1>5. u \in 1..Len(chat) /\ u >= mem.offset /\ u > c /\ (u <= mem.offset \/ u <= c + 1)
  BY <1>1, <1>3, <1>4 DEF Next1
<1>6. u \in DOMAIN chat /\ chat[u] \in Posting
  BY <1>3, <1>5
<1> HIDE DEF u
<1>7. chat[u].kind \in {"text", "open", "close", "say"}
  BY <1>6 DEF Posting
<1> DEFINE step(at) == [Up EXCEPT !.at = at, !.n = u]
<1>8. \A at \in {"advance", "send", "create", "close", "say"} :
         step(at) = [at |-> at, by |-> "update", n |-> u, todo |-> {}]
  <2> TAKE at \in {"advance", "send", "create", "close", "say"}
  <2>1. [Up EXCEPT !.at = at] = [at |-> at, by |-> "update", n |-> 0, todo |-> {}]
    BY DEF Up
  <2>2. step(at) = [[Up EXCEPT !.at = at] EXCEPT !.n = u]
    OBVIOUS
  <2>3. [[at |-> at, by |-> "update", n |-> 0, todo |-> {}] EXCEPT !.n = u]
           = [at |-> at, by |-> "update", n |-> u, todo |-> {}]
    OBVIOUS
  <2> HIDE DEF step
  <2> QED
    BY <2>1, <2>2, <2>3
<1>9. PICK at \in {"advance", "send", "create", "close", "say"} :
         /\ main' = step(at)
         /\ at = "send" => chat[u].kind = "text"
         /\ at = "say" => chat[u].kind = "say"
         /\ at = "close" => chat[u].kind = "close"
         /\ at = "create" => chat[u].kind = "open"
  <2> HIDE DEF step
  <2>1. main' = CASE chat[u].kind = "text" -> step(IF TopicFor(chat[u].thread) = {} THEN "advance" ELSE "send")
                  [] chat[u].kind = "open" -> step(IF mem.topics[chat[u].of] # 0 \/ ~known THEN "advance" ELSE "create")
                  [] chat[u].kind = "close" -> step(IF mem.topics[chat[u].of] # 0 THEN "close" ELSE "advance")
                  [] chat[u].kind = "say" -> step("say")
    BY <1>2, Zenon DEF Handle, step, u
  <2> QED
    BY <1>7, <2>1
<1>10. main' = [at |-> at, by |-> "update", n |-> u, todo |-> {}]
  BY <1>8, <1>9
<1>11. main'.at = at /\ main'.n = u /\ main' = [at |-> main'.at, by |-> "update", n |-> main'.n, todo |-> {}]
  BY <1>10
<1>12. /\ confirmed' = c /\ c >= confirmed
       /\ refused' = IF chat[u].kind = "text" /\ main'.at = "advance"
                     THEN refused \cup {u} ELSE refused
  BY <1>1 DEF u
<1>13. u > c /\ u >= mem.offset /\ (u <= mem.offset \/ u <= c + 1) /\ u \in DOMAIN chat
  BY <1>5, <1>6 DEF u
<1> HIDE DEF step
<1> QED
  BY <1>4, <1>9, <1>11, <1>12, <1>13

\* What a failed or finished createTopic goes on with.
LEMMA FailedEffect ==
    ASSUME TypeOK, main.at \in {"create", "created"}
    PROVE  \/ OnUpdate /\ Failed = [main EXCEPT !.at = "advance"]
           \/ main.by = "letter" /\ Failed = Rest
BY DEF TypeOK, Failed, OnUpdate

\* What the scan does with its next letter.
LEMMA ScanEffect ==
    ASSUME TypeOK, InHand, IsInflight
    PROVE  \/ /\ main' = [at |-> "relay", by |-> "letter", n |-> main'.n, todo |-> main'.todo]
              /\ main'.n \in DOMAIN inbox \ inflight /\ main'.todo \subseteq DOMAIN inbox
           \/ main' = Up
           \/ /\ main' = [at |-> "scan", by |-> "update", n |-> main.n, todo |-> main'.todo]
              /\ main'.todo \subseteq DOMAIN inbox /\ main'.todo # {}
<1> DEFINE l == CHOOSE x \in main.todo : \A y \in main.todo : x <= y
           rest == main.todo \ {l}
<1>1. main' = IF ~Blocked(l) THEN [at |-> "relay", by |-> "letter", n |-> l, todo |-> rest]
              ELSE IF rest = {} THEN Up ELSE [main EXCEPT !.todo = rest]
  BY Zenon DEF IsInflight
<1>2. main \in Place /\ main.at = "scan"
  BY DEF TypeOK, Place, IsInflight
<1>3. main.todo # {} /\ main.by = "update" /\ main.todo \subseteq DOMAIN inbox
  BY <1>2 DEF InHand, Place
<1>4. DOMAIN inbox \subseteq Nat
  <2>1. inbox \in Seq(Received)
    BY DEF TypeOK, Received
  <2> QED
    BY <2>1
<1>5. l \in main.todo
  BY <1>3, <1>4, FirstOfScan
<1>6. ~Blocked(l) => l \notin inflight
  BY DEF Blocked
<1>7. rest \subseteq DOMAIN inbox /\ l \in DOMAIN inbox
  BY <1>3, <1>5
<1>8. [main EXCEPT !.todo = rest] = [at |-> "scan", by |-> "update", n |-> main.n, todo |-> rest]
  BY <1>2, <1>3 DEF Place
<1> HIDE DEF l, rest
<1>9. CASE ~Blocked(l)
  <2>1. main' = [at |-> "relay", by |-> "letter", n |-> l, todo |-> rest]
    BY <1>1, <1>9
  <2>2. main'.n = l /\ main'.todo = rest
    BY <2>1
  <2> QED
    BY <1>6, <1>7, <1>9, <2>1, <2>2
<1>10. CASE Blocked(l) /\ rest # {}
  <2>1. main' = [at |-> "scan", by |-> "update", n |-> main.n, todo |-> rest]
    BY <1>1, <1>8, <1>10
  <2>2. main'.todo = rest
    BY <2>1
  <2> QED
    BY <1>7, <1>10, <2>1, <2>2
<1> QED
  BY <1>1, <1>9, <1>10

\* The step of RelayMessage: the letter waits for a topic, or the loop goes on.
LEMMA RelayEffect ==
    ASSUME RelayMessage
    PROVE  /\ main.at = "relay" /\ main.n \notin read /\ UNCHANGED <<mem, inbox>>
           /\ \/ /\ main' = Rest /\ read' = read
                 /\ inbox[main.n].kind # "notice"
                 /\ \E t : Enqueue(main.n, t) /\
                        t = IF inbox[main.n].kind = "bounce"
                            THEN IF inbox[main.n].about \in mem.refs
                                 THEN chat[inbox[main.n].about].thread ELSE 0
                            ELSE mem.topics[inbox[main.n].from]
              \/ main' = [main EXCEPT !.at = "create"] /\ UNCHANGED <<out, read>>
              \/ /\ main' = Rest /\ inbox[main.n].kind = "notice"
                 /\ read' = read \cup {main.n} /\ UNCHANGED out
<1> DEFINE l == inbox[main.n]
<1>1. /\ main.at = "relay" /\ main.n \notin read
      /\ \/ /\ l.kind = "message" /\ mem.topics[l.from] # 0
            /\ Enqueue(main.n, mem.topics[l.from]) /\ main' = Rest
            /\ UNCHANGED <<read, faults>>
         \/ /\ l.kind = "message" /\ mem.topics[l.from] = 0
            /\ main' = [main EXCEPT !.at = "create"]
            /\ UNCHANGED <<out, read, faults>>
         \/ /\ l.kind = "bounce"
            /\ Enqueue(main.n, IF l.about \in mem.refs THEN chat[l.about].thread ELSE 0)
            /\ main' = Rest /\ UNCHANGED <<read, faults>>
         \/ /\ l.kind = "notice"
            /\ read' = read \cup {main.n}
            /\ main' = Rest /\ UNCHANGED <<out, faults>>
      /\ UNCHANGED <<mem, inbox>>
  BY Zenon DEF RelayMessage
<1> QED
  BY <1>1

LEMMA MainStep ==
    ASSUME TypeOK, Linked, InHand, InFlight, Next
    PROVE  main' \in Place /\ InHand'
<1> DEFINE Good == main' \in Place /\ InHand'
<1>1. main \in Place /\ mem \in State
  BY DEF TypeOK, Place
<1>2. CASE UNCHANGED main
  BY <1>1, <1>2, InHandKept
<1>3. CASE HandleBatch
  <2>1. UNCHANGED mem /\ UNCHANGED inbox
    BY <1>3, Zenon DEF HandleBatch, store
  <2>2. UNCHANGED chat
    BY <1>3, Zenon DEF HandleBatch
  <2>3. main'.by = "update" /\ main'.n \in Nat
    <3>1. chat \in Seq(Posting)
      BY DEF TypeOK, Posting
    <3> QED
      BY <1>3, <3>1, HandleEffect
  <2>4. main' \in Place
    BY <1>3, <2>3, HandleEffect DEF Place
  <2>5. InHand'
    BY <1>3, <2>1, <2>2, <2>3, HandleEffect DEF InHand, OnUpdate
  <2> QED
    BY <2>4, <2>5
<1>4. ASSUME OnUpdate, main' = [main EXCEPT !.at = "advance"], ~Advance, ~Crash, ~Start,
             ~HandleBatch
      PROVE  Good
  <2>1. main' \in Place
    BY <1>1, <1>4 DEF Place
  <2>2. mem'.offset = mem.offset /\ UNCHANGED confirmed
    BY <1>4, OffsetSteps, ConfirmedSteps
  <2> QED
    BY <1>4, <2>1, <2>2, OnToAdvance
<1>5. main.at \notin {"idle", "advance", "down"} /\ main'.at # "down"
         => ~Advance /\ ~Crash /\ ~Start /\ ~HandleBatch
  BY Zenon DEF Advance, Crash, Start, HandleBatch, Forgets, Down, Up
<1>6. ASSUME main' = [main EXCEPT !.at = "advance"] PROVE main'.at # "down"
  BY <1>1, <1>6 DEF Place
<1>7. CASE SendAsUser \/ Say \/ Close
  <2>1. main.at \in {"send", "say", "close"} /\ main' = [main EXCEPT !.at = "advance"]
    BY <1>7, Zenon DEF SendAsUser, Say, Close
  <2>2. OnUpdate
    BY <1>1, <2>1 DEF InHand, OnUpdate, Place
  <2> QED
    BY <1>4, <1>5, <1>6, <2>1, <2>2
<1>8. CASE SendFails \/ Advance \/ Start
  <2>1. main' = Up
    BY <1>8, Zenon DEF SendFails, Advance, Start
  <2> QED
    BY <2>1, AtRest DEF Up, Place
<1>9. CASE Stop \/ Crash
  <2>1. main' = Down
    BY <1>9, Zenon DEF Stop, Crash, Forgets
  <2> QED
    BY <2>1, AtRest DEF Up, Down, Place
<1>10. ASSUME main' = Rest PROVE Good
  BY <1>10, RestType, AtRest
<1>11. CASE StartScan
  <2>1. main' = [at |-> "scan", by |-> "update", n |-> 0, todo |-> DOMAIN inbox \ read]
    BY <1>11 DEF StartScan, Up
  <2>2. DOMAIN inbox \ read # {}
    BY <1>11, Zenon DEF StartScan
  <2> QED
    BY <2>1, <2>2, AtRest DEF Place
<1>12. CASE IsInflight
  <2>1. DOMAIN inbox \subseteq Nat
    <3>1. inbox \in Seq(Received)
      BY DEF TypeOK, Received
    <3> QED
      BY <3>1
  <2>2. main' \in Place
    BY <1>1, <1>12, <2>1, ScanEffect DEF Place, Up
  <2>3. UNCHANGED <<inbox, inflight>>
    BY <1>12, Zenon DEF IsInflight, store, out
  <2>4. CASE /\ main' = [at |-> "relay", by |-> "letter", n |-> main'.n, todo |-> main'.todo]
             /\ main'.n \in DOMAIN inbox \ inflight
    <3>1. main'.at = "relay" /\ main'.by = "letter"
      BY <2>4
    <3>2. main'.n \in DOMAIN inbox /\ main'.n \notin inflight'
      BY <2>3, <2>4
    <3>3. UNCHANGED inbox
      BY <2>3
    <3>4. InHand'
      BY <3>1, <3>2, <3>3, OnToLetter
    <3> QED
      BY <2>2, <3>4
  <2>5. CASE main' = Up
    BY <2>2, <2>5, AtRest DEF Up
  <2>6. CASE /\ main' = [at |-> "scan", by |-> "update", n |-> main.n, todo |-> main'.todo]
             /\ main'.todo # {}
    <3>1. main'.at = "scan" /\ main'.by = "update"
      BY <2>6
    <3> QED
      BY <2>2, <2>6, <3>1, AtRest
  <2> QED
    BY <1>12, <2>4, <2>5, <2>6, ScanEffect
<1>13. CASE RelayMessage
  <2>1. CASE main' = [main EXCEPT !.at = "create"] /\ UNCHANGED <<out, read>>
    <3>1. main.by = "letter" /\ main.n \in DOMAIN inbox \ inflight /\ main.n \notin read
      BY <1>13, RelayEffect DEF InHand
    <3>2. main' \in Place /\ main'.by = "letter" /\ main'.at = "create" /\ main'.n = main.n
      BY <1>1, <2>1, <3>1 DEF Place
    <3>3. UNCHANGED inbox /\ inflight' = inflight /\ read' = read
      BY <1>13, <2>1, RelayEffect DEF out
    <3> QED
      BY <3>1, <3>2, <3>3, OnToLetter
  <2> QED
    BY <1>10, <1>13, <2>1, RelayEffect
<1>14. CASE RelaySkipped
  BY <1>10, <1>14, Zenon DEF RelaySkipped
<1>15. ASSUME main.at \in {"create", "created"}, main' = Failed PROVE Good
  BY <1>4, <1>5, <1>6, <1>10, <1>15, FailedEffect
<1>16. CASE CreateTopic
  <2>1. main.at = "create"
    BY <1>16, Zenon DEF CreateTopic
  <2>2. threads' = Append(threads, [of |-> Wanted, state |-> "open"])
    BY <1>16, Zenon DEF CreateTopic
  <2>3. main' = [main EXCEPT !.at = "created"] \/ UNCHANGED main \/ main' = Failed
    BY <1>16, Zenon DEF CreateTopic
  <2>4. CASE main' = [main EXCEPT !.at = "created"]
    <3>1. /\ main' \in Place /\ main'.at = "created" /\ main'.by = main.by /\ main'.n = main.n
          /\ main.by \in {"update", "letter"}
      BY <1>1, <2>4 DEF Place
    <3>2. UNCHANGED chat /\ UNCHANGED inbox /\ UNCHANGED inflight /\ UNCHANGED confirmed
            /\ UNCHANGED mem /\ UNCHANGED read
      BY <1>16, Zenon DEF CreateTopic, store, out
    <3>3. Wanted' = Wanted
      BY <3>1, <3>2 DEF Wanted
    <3>4. threads' # <<>> /\ threads'[Len(threads')].of = Wanted
      <4>1. threads \in Seq(Topic) /\ [of |-> Wanted, state |-> "open"] \in Topic
        BY <2>1, WantedType DEF TypeOK, Topic
      <4> DEFINE topic == [of |-> Wanted, state |-> "open"]
      <4>2. topic.of = Wanted
        OBVIOUS
      <4> HIDE DEF topic
      <4>3. threads' # <<>> /\ threads'[Len(threads')] = topic
        BY <2>2, <4>1 DEF topic
      <4> QED
        BY <4>2, <4>3
    <3> QED
      BY <2>1, <3>1, <3>2, <3>3, <3>4 DEF InHand, OnUpdate
  <2> QED
    BY <1>2, <1>15, <2>1, <2>3, <2>4
<1>17. CASE CreateFails \/ Created
  BY <1>15, <1>17, Zenon DEF CreateFails, Created
<1> QED
  BY <1>2, <1>3, <1>7, <1>8, <1>9, <1>11, <1>12, <1>13, <1>14, <1>16, <1>17, MainSteps, Zenon

-----------------------------------------------------------------------------
(* The sender and what is in flight *)

Item == [thread : 0..Len(threads), ack : DOMAIN inbox]
Busy == [at : {"post", "forget", "hold", "ack", "done"}, item : Item]

LEMMA SeqMonotone ==
    ASSUME NEW S, NEW T, S \subseteq T
    PROVE  Seq(S) \subseteq Seq(T)
OBVIOUS

\* An item stays one: topics and letters do not go.
LEMMA ItemGrows ==
    ASSUME TypeOK, Linked, InHand, Next
    PROVE  /\ Item \subseteq Item' /\ Seq(Item) \subseteq Seq(Item') /\ Busy \subseteq Busy'
           /\ DOMAIN inbox \subseteq DOMAIN inbox'
<1>1. Len(threads) \in Nat /\ Len(threads') \in Nat /\ Len(threads) <= Len(threads')
  BY ThreadsGrow
<1>2. DOMAIN inbox \subseteq DOMAIN inbox'
  BY InboxGrows
<1>3. Item \subseteq Item'
  BY <1>1, <1>2 DEF Item
<1>4. Seq(Item) \subseteq Seq(Item')
  <2> DEFINE S == Item
             T == Item'
  <2> HIDE DEF S, T
  <2>1. S \subseteq T => Seq(S) \subseteq Seq(T)
    BY SeqMonotone
  <2> QED
    BY <1>3, <2>1 DEF S, T
<1>5. Busy \subseteq Busy'
  BY <1>3 DEF Busy
<1> QED
  BY <1>2, <1>3, <1>4, <1>5

LEMMA OutSteps ==
    ASSUME Next
    PROVE  \/ UNCHANGED <<queue, inflight, sender, read>>
           \/ RelayMessage \/ Created \/ Stop \/ Crash
           \/ Pop \/ Post \/ ForgetThread \/ Hold \/ AckRead \/ SenderDone
BY Zenon DEF Next, Environment, MainLoop, Sender, Write, Delete, Ask, Receive, Arrive, Age,
   HandleBatch, SendAsUser, SendFails, Say, Close, Advance, StartScan, IsInflight,
   RelaySkipped, CreateTopic, CreateFails, HoldExpires, Start, out, store

\* What the invariant says of the sender, in the parts that steps preserve.
LEMMA SenderType ==
    ASSUME TypeOK
    PROVE  /\ sender.at # "idle" => sender \in Busy /\ sender.item \in Item
           /\ sender = Waiting \/ sender \in Busy
           /\ queue \in Seq(Item)
BY DEF TypeOK, Busy, Item, Waiting

\* A letter that is neither in flight nor read joins the queue.
LEMMA EnqueueKeeps ==
    ASSUME TypeOK, InFlight, NEW l \in DOMAIN inbox \ inflight, l \notin read,
           NEW t \in 0..Len(threads), Enqueue(l, t), UNCHANGED <<sender, read>>
    PROVE  InFlight' /\ queue' \in Seq(Item) /\ inflight' \subseteq DOMAIN inbox
<1> DEFINE item == [thread |-> t, ack |-> l]
<1>1. item \in Item /\ item.ack = l
  BY DEF Item
<1>2. queue \in Seq(Item) /\ queue' = Append(queue, item) /\ inflight' = inflight \cup {l}
  BY SenderType DEF Enqueue
<1> HIDE DEF item
<1>3. /\ queue' \in Seq(Item) /\ DOMAIN queue' = DOMAIN queue \cup {Len(queue) + 1}
      /\ Len(queue) + 1 \notin DOMAIN queue
      /\ \A n \in DOMAIN queue : queue'[n] = queue[n]
      /\ queue'[Len(queue) + 1] = item
  BY <1>1, <1>2
<1>4. inflight' \subseteq DOMAIN inbox
  BY <1>2 DEF TypeOK
<1>5. InFlight'
  <2>1. \A n \in DOMAIN queue' : queue'[n].ack \in inflight' \ read'
    BY <1>1, <1>2, <1>3 DEF InFlight
  <2>2. \A n \in DOMAIN queue : queue[n].ack # l
    BY DEF InFlight
  <2>3. \A m, n \in DOMAIN queue' : queue'[m].ack = queue'[n].ack => m = n
    BY <1>1, <1>3, <2>2 DEF InFlight
  <2>4. sender.at # "idle" => sender.item.ack # l
    BY DEF InFlight
  <2>5. sender'.at # "idle" => \A n \in DOMAIN queue' : queue'[n].ack # sender'.item.ack
    BY <1>1, <1>3, <2>4 DEF InFlight
  <2> QED
    BY <1>2, <2>1, <2>3, <2>5 DEF InFlight
<1> QED
  BY <1>3, <1>4, <1>5

\* Nothing is left in flight.
LEMMA ForgetsKeeps ==
    ASSUME Forgets
    PROVE  InFlight' /\ queue' = <<>> /\ inflight' = {} /\ held' = {} /\ sender' = Waiting
BY DEF Forgets, InFlight, Waiting

\* A step of the sender that keeps its item.
LEMMA GoesKeeps ==
    ASSUME TypeOK, InFlight, sender.at # "idle",
           NEW at \in {"post", "forget", "hold", "ack", "done"}, Goes(at),
           UNCHANGED <<queue, inflight>>,
           read' = read \/ (read' = read \cup {sender.item.ack} /\ at = "done"),
           sender.at # "done"
    PROVE  InFlight' /\ sender' \in Busy /\ sender'.item = sender.item /\ sender'.at = at
<1>1. sender \in Busy
  BY SenderType
<1>2. sender' \in Busy /\ sender'.at = at /\ sender'.item = sender.item
  BY <1>1 DEF Goes, Busy
<1>3. \A n \in DOMAIN queue : queue[n].ack # sender.item.ack
  BY DEF InFlight
<1>4. InFlight'
  BY <1>2, <1>3 DEF InFlight
<1> QED
  BY <1>2, <1>4

\* Where a letter is posted: the topic of its sender, the thread of the text
\* that bounced, or General.
LEMMA ThreadOfLetter ==
    ASSUME TypeOK, Linked, NEW l \in DOMAIN inbox, inbox[l].kind # "notice",
           NEW t,
           t = IF inbox[l].kind = "bounce"
               THEN IF inbox[l].about \in mem.refs THEN chat[inbox[l].about].thread ELSE 0
               ELSE mem.topics[inbox[l].from]
    PROVE  t \in 0..Len(threads)
<1>1. inbox \in Seq(Received) /\ chat \in Seq(Posting) /\ threads \in Seq(Topic)
  BY DEF TypeOK, Received, Posting, Topic
<1>2. Len(threads) \in Nat
  BY <1>1
<1>3. CASE inbox[l].kind = "bounce" /\ inbox[l].about \in mem.refs
  <2>1. inbox[l].about \in DOMAIN chat
    BY <1>3 DEF Linked
  <2>2. chat[inbox[l].about] \in Posting /\ chat[inbox[l].about].thread <= Len(threads)
    BY <1>1, <2>1 DEF Linked
  <2> QED
    BY <1>2, <1>3, <2>2 DEF Posting
<1>4. CASE inbox[l].kind # "bounce"
  <2>1. inbox[l] \in Received
    BY <1>1
  <2>2. inbox[l].from \in Address
    BY <2>1 DEF Received
  <2> QED
    BY <1>4, <2>2 DEF TypeOK
<1> QED
  BY <1>2, <1>3, <1>4

LEMMA OutStep ==
    ASSUME TypeOK, Linked, InHand, InFlight, Next
    PROVE  /\ InFlight' /\ queue' \in Seq(Item) /\ inflight' \subseteq DOMAIN inbox
           /\ sender' = Waiting \/ sender' \in Busy
           /\ read' \subseteq DOMAIN inbox
<1> DEFINE Good == /\ InFlight' /\ queue' \in Seq(Item) /\ inflight' \subseteq DOMAIN inbox
                   /\ sender' = Waiting \/ sender' \in Busy
                   /\ read' \subseteq DOMAIN inbox
<1>1. /\ sender.at # "idle" => sender \in Busy /\ sender.item \in Item
      /\ sender = Waiting \/ sender \in Busy
      /\ queue \in Seq(Item)
  BY SenderType
<1>2. inflight \subseteq DOMAIN inbox /\ read \subseteq DOMAIN inbox
  BY DEF TypeOK
<1>3. CASE UNCHANGED <<queue, inflight, sender, read>>
  BY <1>1, <1>2, <1>3 DEF InFlight
<1>4. CASE RelayMessage
  <2>1. main.n \in DOMAIN inbox \ inflight /\ main.n \notin read
    BY <1>4, RelayEffect DEF InHand
  <2>2. UNCHANGED sender
    BY <1>4, Zenon DEF RelayMessage
  <2>3. ASSUME inbox[main.n].kind # "notice", read' = read,
               NEW t, Enqueue(main.n, t),
               t = IF inbox[main.n].kind = "bounce"
                   THEN IF inbox[main.n].about \in mem.refs
                        THEN chat[inbox[main.n].about].thread ELSE 0
                   ELSE mem.topics[inbox[main.n].from]
        PROVE  Good
    <3>1. t \in 0..Len(threads)
      BY <2>1, <2>3, ThreadOfLetter
    <3> QED
      BY <1>1, <1>2, <2>1, <2>2, <2>3, <3>1, EnqueueKeeps
  <2>4. ASSUME read' = read \/ read' = read \cup {main.n}, UNCHANGED out PROVE Good
    <3>1. UNCHANGED queue /\ UNCHANGED inflight
      BY <2>4 DEF out
    <3>2. InFlight'
      BY <2>1, <2>2, <2>4, <3>1 DEF InFlight
    <3> QED
      BY <1>1, <1>2, <2>1, <2>2, <2>4, <3>1, <3>2
  <2> HIDE DEF Good
  <2>5. ASSUME UNCHANGED out, read' = read \/ read' = read \cup {main.n} PROVE Good
    BY <2>4, <2>5
  <2>6. ASSUME read' = read, inbox[main.n].kind # "notice",
               \E t : Enqueue(main.n, t) /\
                  t = IF inbox[main.n].kind = "bounce"
                      THEN IF inbox[main.n].about \in mem.refs
                           THEN chat[inbox[main.n].about].thread ELSE 0
                      ELSE mem.topics[inbox[main.n].from]
        PROVE  Good
    BY <2>3, <2>6, Zenon
  <2>7. UNCHANGED <<out, read>> => UNCHANGED out /\ read' = read
    OBVIOUS
  <2>8. Good
    BY <1>4, <2>5, <2>6, <2>7, RelayEffect, Zenon
  <2> QED
    BY <2>8 DEF Good
<1>5. CASE Created
  <2>1. UNCHANGED sender /\ UNCHANGED read
    BY <1>5, Zenon DEF Created, store
  <2>2. CASE main.by = "letter" /\ Enqueue(main.n, Len(threads))
    <3>1. main.n \in DOMAIN inbox \ inflight /\ main.n \notin read
      BY <1>5, <2>2 DEF Created, InHand
    <3>2. Len(threads) \in 0..Len(threads)
      BY ThreadsGrow
    <3> QED
      BY <1>1, <1>2, <2>1, <2>2, <3>1, <3>2, EnqueueKeeps
  <2>3. CASE UNCHANGED out
    BY <1>1, <1>2, <2>1, <2>3 DEF InFlight, out
  <2>4. (main.by = "letter" /\ Enqueue(main.n, Len(threads))) \/ UNCHANGED out
    BY <1>5, Zenon DEF Created
  <2> QED
    BY <2>2, <2>3, <2>4
<1>6. CASE Stop \/ Crash
  <2>1. Forgets /\ UNCHANGED read
    BY <1>6, Zenon DEF Stop, Crash, store
  <2> QED
    BY <1>2, <2>1, ForgetsKeeps
<1>7. CASE Pop
  <2>1. /\ sender.at = "idle" /\ queue # <<>>
        /\ sender' = [at |-> "post", item |-> Head(queue)]
        /\ queue' = Tail(queue) /\ UNCHANGED <<inflight, read>>
    BY <1>7, Zenon DEF Pop, store
  <2>2. /\ Head(queue) = queue[1] /\ Head(queue) \in Item /\ 1 \in DOMAIN queue
        /\ Tail(queue) \in Seq(Item)
        /\ \A n \in DOMAIN Tail(queue) : /\ Tail(queue)[n] = queue[n + 1]
                                         /\ n + 1 \in DOMAIN queue /\ n + 1 # 1 /\ n \in Nat
    BY <1>1, <2>1
  <2>3. sender' \in Busy /\ sender'.item = queue[1] /\ sender'.at = "post"
    BY <2>1, <2>2 DEF Busy
  <2>4. InFlight'
    <3>1. \A n \in DOMAIN queue' : queue'[n].ack \in inflight' \ read'
      BY <2>1, <2>2 DEF InFlight
    <3>2. ASSUME NEW m \in DOMAIN queue', NEW n \in DOMAIN queue', queue'[m].ack = queue'[n].ack
          PROVE  m = n
      <4>1. m + 1 = n + 1
        BY <2>1, <2>2, <3>2 DEF InFlight
      <4> QED
        BY <4>1, <2>1, <2>2
    <3>3. sender'.item.ack \in inflight' /\ sender'.item.ack \notin read'
      BY <2>1, <2>2, <2>3 DEF InFlight
    <3>4. \A n \in DOMAIN queue' : queue'[n].ack # sender'.item.ack
      BY <2>1, <2>2, <2>3 DEF InFlight
    <3> QED
      BY <3>1, <3>2, <3>3, <3>4 DEF InFlight
  <2> QED
    BY <1>2, <2>1, <2>2, <2>3, <2>4
<1>8. CASE Post \/ ForgetThread \/ Hold
  <2>1. /\ sender.at \in {"post", "forget", "hold"}
        /\ \E at \in {"post", "forget", "hold", "ack", "done"} : Goes(at)
        /\ UNCHANGED <<queue, inflight, read>>
    BY <1>8, Zenon DEF Post, Answer, ForgetThread, Hold, store, out
  <2>2. PICK at \in {"post", "forget", "hold", "ack", "done"} : Goes(at)
    BY <2>1
  <2>3. InFlight' /\ sender' \in Busy
    BY <2>1, <2>2, GoesKeeps
  <2> QED
    BY <1>1, <1>2, <2>1, <2>3
<1>9. CASE AckRead
  <2>1. /\ sender.at = "ack" /\ Goes("done")
        /\ read' = read \/ read' = read \cup {sender.item.ack}
        /\ UNCHANGED <<queue, inflight>>
    BY <1>9, Zenon DEF AckRead, out
  <2>2. InFlight' /\ sender' \in Busy
    BY <2>1, GoesKeeps
  <2>3. sender.item.ack \in DOMAIN inbox
    BY <1>1, <2>1 DEF Item
  <2> QED
    BY <1>1, <1>2, <2>1, <2>2, <2>3
<1>10. CASE SenderDone
  <2>1. /\ sender.at = "done" /\ sender' = Waiting
        /\ inflight' = inflight \ {sender.item.ack} /\ UNCHANGED <<queue, read>>
    BY <1>10, Zenon DEF SenderDone, store
  <2>2. sender'.at = "idle"
    BY <2>1 DEF Waiting
  <2>3. InFlight'
    BY <2>1, <2>2 DEF InFlight
  <2> QED
    BY <1>1, <1>2, <2>1, <2>3
<1> QED
  BY <1>3, <1>4, <1>5, <1>6, <1>7, <1>8, <1>9, <1>10, OutSteps, Zenon

-----------------------------------------------------------------------------
(* Keyed sends *)

\* A keyed send makes at most the one letter of its key.
LEMMA SendsEffect ==
    ASSUME TypeOK, Keyed, NEW n \in Update, NEW upTo \in {"saved", "linked", "published"},
           Sends(n, upTo)
    PROVE  /\ ledger' \in [Update -> {"none", "saved", "published"}] /\ sent' \in [Update -> Nat]
           /\ Keyed'
           /\ \A u \in Update : sent[u] = 1 => sent'[u] = 1
           /\ \A u \in Update \ {n} : sent'[u] = sent[u]
           /\ upTo = "published" => sent'[n] = 1
<1>1. /\ ledger \in [Update -> {"none", "saved", "published"}]
      /\ sent \in [Update -> Nat]
  BY DEF TypeOK
<1>2. \A u \in Update : sent[u] <= 1 /\ (ledger[u] = "published" => sent[u] = 1)
  BY DEF Keyed
<1>3. ledger' = [ledger EXCEPT ![n] =
                   IF @ = "published" \/ upTo = "published" THEN "published" ELSE "saved"]
  BY DEF Sends
<1>4. sent' = [sent EXCEPT ![n] =
                 IF ledger[n] = "published" \/ @ > 0 \/ upTo = "saved" THEN @ ELSE @ + 1]
  BY DEF Sends
<1>5. /\ ledger' \in [Update -> {"none", "saved", "published"}]
      /\ \A u \in Update \ {n} : ledger'[u] = ledger[u]
      /\ ledger'[n] = "published" => ledger[n] = "published" \/ upTo = "published"
  BY <1>1, <1>3
<1>6. /\ sent' \in [Update -> Nat]
      /\ \A u \in Update \ {n} : sent'[u] = sent[u]
      /\ sent'[n] = IF ledger[n] = "published" \/ sent[n] > 0 \/ upTo = "saved"
                    THEN sent[n] ELSE sent[n] + 1
  BY <1>1, <1>4
<1>7. sent[n] \in {0, 1} /\ (ledger[n] = "published" => sent[n] = 1)
  BY <1>1, <1>2
<1>8. /\ sent'[n] \in {0, 1} /\ (sent[n] = 1 => sent'[n] = 1)
      /\ (upTo = "published" => sent'[n] = 1)
      /\ (ledger[n] = "published" => sent'[n] = 1)
  BY <1>6, <1>7
<1>9. Keyed'
  <2> SUFFICES ASSUME NEW u \in Update
               PROVE  sent'[u] <= 1 /\ (ledger'[u] = "published" => sent'[u] = 1)
    BY DEF Keyed
  <2>1. CASE u = n
    BY <2>1, <1>5, <1>8
  <2>2. CASE u # n
    BY <2>2, <1>2, <1>5, <1>6
  <2> QED
    BY <2>1, <2>2
<1> QED
  BY <1>5, <1>6, <1>8, <1>9

LEMMA SentStep ==
    ASSUME TypeOK, Linked, InHand, Keyed, Next
    PROVE  /\ ledger' \in [Update -> {"none", "saved", "published"}] /\ sent' \in [Update -> Nat]
           /\ Keyed'
           /\ \A u \in Update : sent[u] = 1 => sent'[u] = 1
           /\ \A u \in Update : sent'[u] > 0 => u \in DOMAIN chat
           /\ SendAsUser => sent'[main.n] = 1
<1>1. CASE UNCHANGED <<ledger, sent>> /\ ~SendAsUser
  BY <1>1 DEF TypeOK, Keyed, Linked
<1>2. CASE SendAsUser \/ SendFails
  <2>1. main.n \in DOMAIN chat /\ main.n \in Update
    <3>1. main.at = "send"
      BY <1>2, Zenon DEF SendAsUser, SendFails
    <3>2. main.n \in DOMAIN chat /\ chat \in Seq(Posting) /\ Len(chat) <= MaxUpdates
      BY <3>1 DEF InHand, OnUpdate, TypeOK, Posting
    <3> QED
      BY <3>2, Constants
  <2>2. ASSUME NEW upTo \in {"saved", "linked", "published"}, Sends(main.n, upTo),
               SendAsUser => upTo = "published"
        PROVE  /\ ledger' \in [Update -> {"none", "saved", "published"}]
               /\ sent' \in [Update -> Nat]
               /\ Keyed'
               /\ \A u \in Update : sent[u] = 1 => sent'[u] = 1
               /\ \A u \in Update : sent'[u] > 0 => u \in DOMAIN chat
               /\ SendAsUser => sent'[main.n] = 1
    <3>1. \A u \in Update : sent'[u] > 0 => u \in DOMAIN chat
      BY <2>1, <2>2, SendsEffect DEF Linked
    <3> QED
      BY <2>1, <2>2, <3>1, SendsEffect
  <2>3. CASE SendAsUser
    <3>1. Sends(main.n, "published")
      BY <2>3, Zenon DEF SendAsUser
    <3> QED
      BY <2>2, <3>1
  <2>4. CASE SendFails /\ ~SendAsUser
    <3>1. \/ UNCHANGED <<ledger, sent>>
          \/ \E upTo \in {"saved", "linked", "published"} : Sends(main.n, upTo)
      BY <2>4, Zenon DEF SendFails
    <3>2. CASE UNCHANGED <<ledger, sent>>
      BY <1>1, <2>4, <3>2
    <3>3. CASE \E upTo \in {"saved", "linked", "published"} : Sends(main.n, upTo)
      <4>1. PICK upTo \in {"saved", "linked", "published"} : Sends(main.n, upTo)
        BY <3>3
      <4> QED
        BY <2>2, <2>4, <4>1
    <3> QED
      BY <3>1, <3>2, <3>3
  <2> QED
    BY <1>2, <2>3, <2>4
<1> QED
  BY <1>1, <1>2, SentSteps

LEMMA LinkedStep ==
    ASSUME TypeOK, Linked, InHand, Keyed, Next
    PROVE  Linked'
<1>1. threads \in Seq(Topic) /\ chat \in Seq(Posting)
  BY DEF TypeOK, Topic, Posting
<1>2. ASSUME NEW u \in DOMAIN chat' PROVE chat'[u].thread <= Len(threads')
  <2>1. Len(threads) \in Nat /\ Len(threads') \in Nat /\ Len(threads) <= Len(threads')
    BY ThreadsGrow
  <2>2. CASE u \in DOMAIN chat
    <3>1. chat'[u] = chat[u] /\ chat[u] \in Posting
      BY <1>1, <2>2, ChatGrows
    <3>2. chat[u].thread <= Len(threads) /\ chat[u].thread \in Nat
      BY <2>2, <3>1 DEF Linked, Posting
    <3> QED
      BY <2>1, <3>1, <3>2
  <2>3. CASE u \notin DOMAIN chat
    <3>1. u = Len(chat) + 1
      BY <2>3, ChatGrows
    <3>2. ASSUME NEW t \in DOMAIN threads, Write(t) PROVE chat'[u].thread <= Len(threads')
      <4> DEFINE e == [kind |-> "text", of |-> threads[t].of, thread |-> t]
      <4>1. chat' = Append(chat, e)
        BY <3>2 DEF Write
      <4>2. e.thread = t /\ t \in 1..Len(threads)
        BY <1>1
      <4> HIDE DEF e
      <4>3. chat'[u] = e
        BY <1>1, <3>1, <4>1
      <4> QED
        BY <2>1, <4>2, <4>3
    <3>3. ASSUME NEW q \in Asks, Ask(q) PROVE chat'[u].thread <= Len(threads')
      <4> DEFINE e == [kind |-> q.kind, of |-> q.of, thread |-> 0]
      <4>1. chat' = Append(chat, e)
        BY <3>3 DEF Ask
      <4>2. e.thread = 0
        OBVIOUS
      <4> HIDE DEF e
      <4>3. chat'[u] = e
        BY <1>1, <3>1, <4>1
      <4> QED
        BY <2>1, <4>2, <4>3
    <3> QED
      BY <2>3, <3>2, <3>3, ChatSteps
  <2> QED
    BY <2>2, <2>3
<1>3. \A u \in Update : sent'[u] > 0 => u \in DOMAIN chat'
  BY SentStep, ChatGrows
<1>4. ASSUME NEW l \in DOMAIN inbox', inbox'[l].kind = "bounce"
      PROVE  inbox'[l].about \in DOMAIN chat'
  <2>1. inbox'[l].about \in DOMAIN chat
    BY <1>4, InboxGrows DEF Linked
  <2> QED
    BY <2>1, ChatGrows
<1>5. \A a \in Address : /\ disk'.topics[a] \in 0..Len(threads')
                         /\ disk'.topics[a] > 0 => threads'[disk'.topics[a]].of = a
  BY StateStep DEF Fit
<1> QED
  BY <1>2, <1>3, <1>4, <1>5 DEF Linked

-----------------------------------------------------------------------------
(* Posts and acknowledgements *)

\* A letter the sender is at work on is one of the inbox.
LEMMA SenderLetter ==
    ASSUME TypeOK, sender.at # "idle"
    PROVE  sender.item.ack \in DOMAIN inbox /\ sender.item.ack \in Letter
<1>1. sender.item \in Item
  BY SenderType
<1>2. inbox \in Seq(Received) /\ Len(inbox) <= MaxLetters
  BY DEF TypeOK, Received
<1> QED
  BY <1>1, <1>2, Constants DEF Item

\* What Post does to the counts.
LEMMA PostEffect ==
    ASSUME TypeOK, Post
    PROVE  LET l == sender.item.ack IN
           /\ sender.at = "post" /\ UNCHANGED read
           /\ \/ /\ posted' = [posted EXCEPT ![l] = @ + 1] /\ again' = again
                 /\ Goes("ack")
              \/ /\ posted' = [posted EXCEPT ![l] = @ + 1]
                 /\ again' = [again EXCEPT ![l] = @ + 1]
                 /\ Goes("post") \/ Goes("hold")
              \/ /\ posted' = posted /\ again' = again
                 /\ Goes("forget") \/ Goes("hold")
<1> DEFINE l == sender.item.ack
           t == sender.item.thread
<1>1. /\ sender.at = "post"
      /\ \/ ~Gone(t) /\ posted' = [posted EXCEPT ![l] = @ + 1] /\ Answer(l)
         \/ Refuses(t) /\ Goes("forget") /\ UNCHANGED <<posted, again, faults>>
         \/ Fault /\ Goes("hold") /\ UNCHANGED <<posted, again>>
      /\ UNCHANGED store
  BY Zenon DEF Post
<1>2. Answer(l) => \/ again' = again /\ Goes("ack")
                   \/ /\ again' = [again EXCEPT ![l] = @ + 1]
                      /\ Goes("post") \/ Goes("hold")
  BY DEF Answer
<1>3. UNCHANGED read
  BY <1>1 DEF store
<1> HIDE DEF t, l
<1>4. \/ /\ posted' = [posted EXCEPT ![l] = @ + 1] /\ again' = again
         /\ Goes("ack")
      \/ /\ posted' = [posted EXCEPT ![l] = @ + 1]
         /\ again' = [again EXCEPT ![l] = @ + 1]
         /\ Goes("post") \/ Goes("hold")
      \/ /\ posted' = posted /\ again' = again
         /\ Goes("forget") \/ Goes("hold")
  BY <1>1, <1>2
<1> QED
  BY <1>1, <1>3, <1>4 DEF l

\* What AckRead does to them.
LEMMA AckEffect ==
    ASSUME AckRead
    PROVE  /\ sender.at = "ack" /\ Goes("done") /\ posted' = posted
           /\ \/ read' = read \cup {sender.item.ack} /\ again' = again
              \/ read' = read /\ again' = [again EXCEPT ![sender.item.ack] = @ + 1]
BY Zenon DEF AckRead

\* What Crash does to them.
LEMMA CrashEffect ==
    ASSUME TypeOK, Crash
    PROVE  /\ posted' = posted /\ again' \in [Letter -> Nat] /\ UNCHANGED read
           /\ \A l \in Letter : /\ again'[l] >= again[l]
                                /\ l \notin read /\ posted[l] > again[l] => again'[l] = again[l] + 1
<1>1. /\ posted' = posted
      /\ again' = [l \in Letter |-> again[l] + IF l \notin read /\ posted[l] > again[l] THEN 1 ELSE 0]
      /\ UNCHANGED read
  BY Zenon DEF Crash, store
<1>2. again \in [Letter -> Nat]
  BY DEF TypeOK
<1> QED
  BY <1>1, <1>2

\* The counts stay counts.
LEMMA CountsStep ==
    ASSUME TypeOK, Next
    PROVE  posted' \in [Letter -> Nat] /\ again' \in [Letter -> Nat]
<1>1. posted \in [Letter -> Nat] /\ again \in [Letter -> Nat]
  BY DEF TypeOK
<1>2. CASE UNCHANGED <<posted, again>>
  BY <1>1, <1>2
<1>3. CASE Post
  <2>1. sender.item.ack \in Letter
    BY <1>3, PostEffect, SenderLetter
  <2> QED
    BY <1>1, <1>3, <2>1, PostEffect
<1>4. CASE AckRead
  <2>1. sender.item.ack \in Letter
    BY <1>4, AckEffect, SenderLetter
  <2> QED
    BY <1>1, <1>4, <2>1, AckEffect
<1>5. CASE Crash
  BY <1>1, <1>5, CrashEffect
<1> QED
  BY <1>2, <1>3, <1>4, <1>5, PostedSteps

-----------------------------------------------------------------------------
(* Type correctness *)

LEMMA HeldStep ==
    ASSUME TypeOK, Next
    PROVE  held' \subseteq DOMAIN inbox
<1>1. held \subseteq DOMAIN inbox
  BY DEF TypeOK
<1>2. CASE Hold
  <2>1. sender.at = "hold" /\ held' = held \cup {sender.item.ack}
    BY <1>2, Zenon DEF Hold
  <2> QED
    BY <1>1, <2>1, SenderLetter
<1>3. ASSUME NEW l \in Letter, HoldExpires(l) PROVE held' \subseteq DOMAIN inbox
  BY <1>1, <1>3 DEF HoldExpires
<1>4. Stop \/ Crash => held' = {}
  BY Zenon DEF Stop, Crash, Forgets
<1> QED
  BY <1>1, <1>2, <1>3, <1>4, HeldSteps

LEMMA SaidType ==
    ASSUME TypeOK, Next
    PROVE  said' \in [Update -> Nat]
<1>1. said \in [Update -> Nat]
  BY DEF TypeOK
<1>2. CASE Say
  BY <1>1, <1>2 DEF Say
<1> QED
  BY <1>1, <1>2, SaidSteps

\* What went wrong is counted.
LEMMA SpentStep ==
    ASSUME TypeOK, Next
    PROVE  faults' \in Nat /\ restarts' \in Nat /\ badSaves' \in Nat
<1>1. faults \in Nat /\ restarts \in Nat /\ badSaves \in Nat
  BY DEF TypeOK
<1>2. faults' \in Nat
  BY <1>1, FaultSteps
<1>3. restarts' \in Nat
  BY <1>1, RestartSteps DEF Stop, Crash, Forgets
<1>4. badSaves' = badSaves \/ badSaves' = badSaves + 1
  <2>1. SendAsUser \/ Stop \/ Crash \/ Start => badSaves' = badSaves
    BY DEF SendAsUser, Stop, Crash, Start, spent
  <2>2. Close \/ Advance \/ Created \/ ForgetThread =>
           badSaves' = badSaves \/ badSaves' = badSaves + 1
    BY Zenon DEF Close, Advance, Created, ForgetThread, Save
  <2> QED
    BY <2>1, <2>2, StateSteps
<1> QED
  BY <1>1, <1>2, <1>3, <1>4

\* How a daemon goes down, or stays so.
LEMMA DownSteps ==
    ASSUME TypeOK, Linked, InHand, Next, main'.at = "down"
    PROVE  Stop \/ Crash \/ UNCHANGED main
<1>1. main \in Place
  BY DEF TypeOK, Place
<1>2. ASSUME NEW at \in {"advance", "create", "created"}, main' = [main EXCEPT !.at = at]
      PROVE  FALSE
  BY <1>1, <1>2 DEF Place
<1>3. main' # Up /\ main' # Rest
  BY RestType DEF Up
<1>4. ~HandleBatch
  BY HandleEffect
<1>5. ~SendAsUser /\ ~Say /\ ~Close
  BY <1>2, Zenon DEF SendAsUser, Say, Close
<1>6. ~SendFails /\ ~Advance /\ ~Start
  BY <1>3, Zenon DEF SendFails, Advance, Start
<1>7. ~StartScan
  BY DEF StartScan, Up
<1>8. ~IsInflight
  <2>1. ASSUME NEW at \in {"relay", "scan"}, NEW by, NEW n, NEW todo,
               main' = [at |-> at, by |-> by, n |-> n, todo |-> todo]
        PROVE  FALSE
    BY <2>1
  <2> QED
    BY <1>3, <2>1, ScanEffect
<1>9. ~RelayMessage /\ ~RelaySkipped
  <2>1. RelayMessage => main' = Rest \/ main' = [main EXCEPT !.at = "create"]
    BY RelayEffect
  <2> QED
    BY <1>2, <1>3, <2>1, Zenon DEF RelaySkipped
<1>10. main.at \in {"create", "created"} => main' # Failed
  BY <1>2, <1>3, FailedEffect
<1>11. ~CreateFails /\ ~Created
  BY <1>10, Zenon DEF CreateFails, Created
<1>12. ~CreateTopic \/ UNCHANGED main
  <2>1. CreateTopic =>
          /\ main.at = "create"
          /\ main' = [main EXCEPT !.at = "created"] \/ main' = main \/ main' = Failed
    BY Zenon DEF CreateTopic
  <2> QED
    BY <1>2, <1>10, <2>1
<1> QED
  BY <1>4, <1>5, <1>6, <1>7, <1>8, <1>9, <1>11, <1>12, MainSteps, Zenon

\* A daemon that is down has forgotten its queue.
LEMMA DownStep ==
    ASSUME TypeOK, Linked, InHand, Next, main'.at = "down"
    PROVE  queue' = <<>> /\ sender'.at = "idle"
<1>1. CASE Stop \/ Crash
  BY <1>1 DEF Stop, Crash, Forgets, Waiting
<1>2. CASE UNCHANGED main /\ ~Stop /\ ~Crash
  <2>1. main.at = "down" /\ queue = <<>> /\ sender.at = "idle"
    BY <1>2 DEF TypeOK
  <2>2. ~RelayMessage /\ ~Created /\ ~Pop
    BY <2>1 DEF RelayMessage, Created, Pop
  <2>3. ~SenderDone /\ ~Sender
    BY <2>1 DEF SenderDone, Sender, Pop, Post, ForgetThread, Hold, AckRead
  <2> QED
    BY <1>2, <2>1, <2>2, <2>3, QueueSteps, SenderSteps
<1> QED
  BY <1>1, <1>2, DownSteps

LEMMA TypeStep ==
    ASSUME TypeOK, Linked, InHand, InFlight, Keyed, Next
    PROVE  TypeOK'
<1>1. /\ chat' \in Seq(Posting) /\ Len(chat') <= MaxUpdates
      /\ Len(chat) <= Len(chat') /\ Len(chat) \in Nat
      /\ DOMAIN chat = 1..Len(chat)
  <2>1. chat \in Seq(Posting)
    BY DEF TypeOK, Posting
  <2> QED
    BY <2>1, ChatGrows
<1>2. threads' \in Seq(Topic)
  BY ThreadsGrow
<1>3. confirmed' \in 0..Len(chat')
  <2>1. confirmed \in 0..Len(chat)
    BY DEF TypeOK
  <2>2. CASE HandleBatch
    <3>1. confirmed' \in Nat /\ main'.n > confirmed' /\ main'.n \in DOMAIN chat
      BY <2>2, HandleEffect
    <3> QED
      BY <1>1, <3>1
  <2> QED
    BY <1>1, <2>1, <2>2, ConfirmedSteps
<1>4. inbox' \in Seq(Received) /\ Len(inbox') <= MaxLetters /\ DOMAIN inbox \subseteq DOMAIN inbox'
  BY InboxGrows
<1>5. Fit(mem', chat', threads') /\ Fit(disk', chat', threads')
  BY StateStep
<1>6. main' \in Place
  BY MainStep
<1>7. main' \in [at : {"down", "idle", "send", "say", "close", "advance",
                       "scan", "relay", "create", "created"},
                 by : {"update", "letter"}, n : Nat, todo : SUBSET DOMAIN inbox']
  BY <1>4, <1>6 DEF Place
<1>8. /\ queue' \in Seq(Item) /\ inflight' \subseteq DOMAIN inbox
      /\ sender' = Waiting \/ sender' \in Busy
      /\ read' \subseteq DOMAIN inbox
  BY OutStep
<1>9. queue' \in Seq(Item') /\ (sender' = Waiting \/ sender' \in Busy')
  BY <1>8, ItemGrows
<1>10. sender' \in [at : {"idle"}, item : {None}]
                     \cup [at : {"post", "forget", "hold", "ack", "done"}, item : Item']
  BY <1>9 DEF Waiting, Busy
<1>11. held' \subseteq DOMAIN inbox
  BY HeldStep
<1>12. main'.at = "down" => queue' = <<>> /\ sender'.at = "idle"
  BY DownStep
<1>13. old' \subseteq Update
  BY OldSteps DEF TypeOK, Age
<1>14. refused' \subseteq Update
  <2>1. Len(chat) <= MaxUpdates
    BY DEF TypeOK
  <2>2. HandleBatch => main'.n \in Update
    BY <1>1, <2>1, HandleEffect, Constants
  <2> QED
    BY <2>2, HandleEffect, RefusedSteps DEF TypeOK
<1>15. ledger' \in [Update -> {"none", "saved", "published"}] /\ sent' \in [Update -> Nat]
  BY SentStep
<1>16. posted' \in [Letter -> Nat] /\ again' \in [Letter -> Nat] /\ said' \in [Update -> Nat]
  BY CountsStep, SaidType
<1>17. faults' \in Nat /\ restarts' \in Nat /\ badSaves' \in Nat
  BY SpentStep
<1>18. /\ read' \subseteq DOMAIN inbox' /\ inflight' \subseteq DOMAIN inbox'
       /\ held' \subseteq DOMAIN inbox'
  BY <1>4, <1>8, <1>11
<1>19. /\ disk' \in State /\ mem' \in State
       /\ disk'.offset <= Len(chat') + 1 /\ mem'.offset <= Len(chat') + 1
       /\ \A a \in Address : /\ mem'.topics[a] \in 0..Len(threads')
                             /\ mem'.topics[a] > 0 => threads'[mem'.topics[a]].of = a
  BY <1>5 DEF Fit
<1>20. /\ chat' \in Seq([kind : {"text", "open", "close", "say"}, of : Address, thread : Nat])
       /\ threads' \in Seq([of : Address, state : {"open", "closed", "deleted"}])
       /\ inbox' \in Seq([kind : Kinds, from : Address, about : {0} \cup Update])
  BY <1>1, <1>2, <1>4 DEF Posting, Topic, Received
<1>21. /\ queue' \in Seq([thread : 0..Len(threads'), ack : DOMAIN inbox'])
       /\ sender' \in [at : {"idle"}, item : {None}]
                     \cup [at : {"post", "forget", "hold", "ack", "done"},
                           item : [thread : 0..Len(threads'), ack : DOMAIN inbox']]
  BY <1>9, <1>10 DEF Item
<1> QED
  BY <1>1, <1>3, <1>4, <1>7, <1>12, <1>13, <1>14, <1>15, <1>16, <1>17, <1>18, <1>19, <1>20,
     <1>21, Zenon DEF TypeOK

-----------------------------------------------------------------------------
(* Letters *)

\* Whatever becomes of a sender's step, it is not at an acknowledgement.
LEMMA NotAcked ==
    ASSUME TypeOK, sender.at # "idle", NEW at \in {"post", "forget", "hold", "done"}, Goes(at)
    PROVE  \A l : ~Acked(l)'
<1>1. sender \in Busy
  BY SenderType
<1>2. sender'.at = at
  BY <1>1 DEF Goes, Busy
<1> QED
  BY <1>2 DEF Acked

LEMMA UnpostedStep ==
    ASSUME TypeOK, Linked, InHand, InFlight, Unposted, Next
    PROVE  Unposted'
<1>1. posted \in [Letter -> Nat] /\ again \in [Letter -> Nat]
  BY DEF TypeOK
<1>2. /\ \A l \in DOMAIN inbox : Acked(l) => posted[l] > 0
      /\ \A l \in Letter : /\ posted[l] <= 1 + again[l]
                           /\ l \notin read /\ ~Acked(l) => posted[l] <= again[l]
  BY <1>1 DEF Unposted
<1>3. \A l : Acked(l) => l \in DOMAIN inbox
  BY SenderLetter DEF Acked
<1>4. DOMAIN inbox \subseteq Letter /\ DOMAIN inbox' \subseteq Letter /\ DOMAIN inbox \subseteq DOMAIN inbox'
  BY InboxGrows
<1> SUFFICES /\ \A l \in DOMAIN inbox' : Acked(l)' => posted'[l] > 0
             /\ \A l \in Letter : /\ posted'[l] <= 1 + again'[l]
                                  /\ l \notin read' /\ ~Acked(l)' => posted'[l] <= again'[l]
  <2>1. posted' \in [Letter -> Nat] /\ again' \in [Letter -> Nat]
    BY CountsStep
  <2> QED
    BY <2>1 DEF Unposted
<1>5. ASSUME UNCHANGED <<posted, again>>, \A l : ~Acked(l)', \A l : ~Acked(l), read \subseteq read'
      PROVE  /\ \A l \in DOMAIN inbox' : Acked(l)' => posted'[l] > 0
             /\ \A l \in Letter : /\ posted'[l] <= 1 + again'[l]
                                  /\ l \notin read' /\ ~Acked(l)' => posted'[l] <= again'[l]
  BY <1>2, <1>5
<1>6. read \subseteq read'
  BY ReadSteps, RelayEffect, AckEffect
<1>7. CASE UNCHANGED <<posted, again, sender>>
  <2>1. \A l : Acked(l)' <=> Acked(l)
    BY <1>7 DEF Acked
  <2> QED
    BY <1>2, <1>3, <1>6, <1>7, <2>1
<1>8. CASE Post
  <2> DEFINE l == sender.item.ack
  <2>1. l \in Letter /\ l \in DOMAIN inbox /\ sender.at = "post" /\ l \notin read /\ sender \in Busy
    BY <1>8, PostEffect, SenderLetter, SenderType DEF InFlight
  <2>2. \A x : ~Acked(x)
    BY <2>1 DEF Acked
  <2>3. posted[l] <= again[l] /\ UNCHANGED read
    BY <1>2, <1>8, <2>1, <2>2, PostEffect
  <2>4. CASE posted' = [posted EXCEPT ![l] = @ + 1] /\ again' = again /\ Goes("ack")
    <3>1. sender'.at = "ack" /\ sender'.item = sender.item
      BY <2>1, <2>4 DEF Goes, Busy
    <3>2. \A x : Acked(x)' <=> x = l
      BY <3>1 DEF Acked
    <3>3. /\ posted'[l] > 0 /\ posted'[l] = posted[l] + 1
          /\ \A x \in Letter \ {l} : posted'[x] = posted[x]
      BY <1>1, <2>1, <2>4
    <3>4. posted'[l] <= 1 + again'[l]
      BY <1>1, <2>1, <2>3, <2>4, <3>3
    <3> QED
      BY <1>2, <2>2, <2>3, <2>4, <3>2, <3>3, <3>4
  <2>5. CASE /\ posted' = [posted EXCEPT ![l] = @ + 1] /\ again' = [again EXCEPT ![l] = @ + 1]
             /\ Goes("post") \/ Goes("hold")
    <3>1. \A x : ~Acked(x)'
      BY <2>1, <2>5, NotAcked
    <3>2. posted'[l] <= again'[l] /\ posted'[l] <= 1 + again'[l]
      BY <1>1, <2>1, <2>3, <2>5
    <3>3. \A x \in Letter \ {l} : posted'[x] = posted[x] /\ again'[x] = again[x]
      BY <1>1, <2>1, <2>5
    <3> QED
      BY <1>2, <2>2, <2>3, <3>1, <3>2, <3>3
  <2>6. CASE posted' = posted /\ again' = again /\ (Goes("forget") \/ Goes("hold"))
    <3>1. \A x : ~Acked(x)'
      BY <2>1, <2>6, NotAcked
    <3> QED
      BY <1>5, <1>6, <2>2, <2>6, <3>1
  <2> QED
    BY <1>8, <2>4, <2>5, <2>6, PostEffect
<1>9. CASE AckRead
  <2> DEFINE l == sender.item.ack
  <2>1. l \in Letter /\ sender.at = "ack" /\ sender \in Busy
    BY <1>9, AckEffect, SenderLetter, SenderType
  <2>2. \A x : ~Acked(x)'
    BY <1>9, <2>1, AckEffect, NotAcked
  <2>3. \A x \in Letter \ {l} : ~Acked(x)
    BY DEF Acked
  <2>4. CASE read' = read \cup {l} /\ again' = again /\ posted' = posted
    BY <1>2, <2>2, <2>3, <2>4
  <2>5. CASE read' = read /\ again' = [again EXCEPT ![l] = @ + 1] /\ posted' = posted
    <3>1. \A x \in Letter \ {l} : again'[x] = again[x]
      BY <1>1, <2>1, <2>5
    <3>2. again'[l] = again[l] + 1
      BY <1>1, <2>1, <2>5
    <3>3. posted[l] <= again'[l] /\ posted[l] <= 1 + again'[l]
      BY <1>1, <1>2, <2>1, <3>2
    <3> QED
      BY <1>2, <2>2, <2>3, <2>5, <3>1, <3>3
  <2> QED
    BY <1>9, <2>4, <2>5, AckEffect
<1>10. CASE Crash
  <2>1. \A l : ~Acked(l)'
    BY <1>10, ForgetsKeeps DEF Crash, Acked, Waiting
  <2> QED
    BY <1>1, <1>2, <1>10, <2>1, CrashEffect
<1>11. CASE UNCHANGED <<posted, again>> /\ ~AckRead /\ ~Post
             /\ (Pop \/ ForgetThread \/ Hold \/ SenderDone \/ Stop)
  <2>1. \A l : ~Acked(l)
    BY <1>11 DEF Pop, ForgetThread, Hold, SenderDone, Stop, Acked
  <2>2. sender'.at # "ack"
    <3>1. sender \in Busy \/ sender = Waiting
      BY SenderType
    <3>2. Pop \/ SenderDone \/ Stop => sender'.at # "ack"
      BY DEF Pop, SenderDone, Stop, Forgets, Waiting
    <3>3. ForgetThread \/ Hold => sender.at # "idle" /\ \E at \in {"hold", "done"} : Goes(at)
      BY Zenon DEF ForgetThread, Hold
    <3>4. ForgetThread \/ Hold => sender'.at # "ack"
      BY <3>1, <3>3 DEF Goes, Busy, Waiting
    <3> QED
      BY <1>11, <3>2, <3>4
  <2> QED
    BY <1>5, <1>6, <1>11, <2>1, <2>2 DEF Acked
<1>12. UNCHANGED sender \/ Post \/ AckRead \/ Pop \/ ForgetThread \/ Hold \/ SenderDone \/ Stop \/ Crash
  BY SenderSteps DEF Sender
<1> QED
  BY <1>7, <1>8, <1>9, <1>10, <1>11, <1>12, PostedSteps

LEMMA ReadAfterPostedStep ==
    ASSUME TypeOK, Linked, InHand, InFlight, Unposted, ReadAfterPosted, Next
    PROVE  ReadAfterPosted'
<1>1. posted \in [Letter -> Nat] /\ read \subseteq DOMAIN inbox /\ DOMAIN inbox \subseteq Letter
  BY InboxGrows DEF TypeOK
<1>2. \A l \in Letter : posted[l] > 0 => posted'[l] > 0
  <2>1. CASE Post
    <3>1. sender.item.ack \in Letter
      BY <2>1, PostEffect, SenderLetter
    <3> QED
      BY <1>1, <2>1, <3>1, PostEffect
  <2> QED
    BY <2>1, PostedSteps, AckEffect, CrashEffect
<1>3. ASSUME NEW l \in read' \ read, inbox[l].kind # "notice" PROVE l \in Letter /\ posted[l] > 0
  <2>1. ~RelayMessage
    BY <1>3, RelayEffect
  <2>2. AckRead /\ l = sender.item.ack /\ sender.at = "ack"
    BY <1>3, <2>1, ReadSteps, AckEffect
  <2>3. l \in DOMAIN inbox
    BY <2>2, SenderLetter
  <2> QED
    BY <1>1, <2>2, <2>3 DEF Unposted, Acked
<1>4. \A l \in read' : l \in DOMAIN inbox /\ inbox'[l] = inbox[l]
  BY OutStep, InboxGrows
<1> QED
  BY <1>1, <1>2, <1>3, <1>4 DEF ReadAfterPosted

-----------------------------------------------------------------------------
(* Updates *)

\* What a step writes to memory and file, and whether the file is written.
LEMMA Writes ==
    ASSUME TypeOK, Linked, InHand, Next
    PROVE  \/ UNCHANGED <<disk, mem, badSaves>>
           \/ /\ SendAsUser /\ UNCHANGED <<disk, badSaves>>
              /\ mem'.offset = mem.offset /\ mem'.refs = mem.refs \cup {main.n}
           \/ /\ mem'.refs = mem.refs \ old
              /\ \/ mem'.offset = mem.offset /\ main.at \notin {"advance", "down"}
                 \/ Advance /\ main.at = "advance" /\ mem'.offset = main.n + 1
              /\ \/ disk' = mem' /\ badSaves' = badSaves
                 \/ disk' = disk /\ badSaves' = badSaves + 1 /\ ~Stop
           \/ (Crash \/ Start) /\ mem' = disk /\ UNCHANGED <<disk, badSaves>>
<1>1. mem \in State
  BY DEF TypeOK
<1>2. CASE SendAsUser
  <2>1. mem' = [mem EXCEPT !.refs = @ \cup {main.n}] /\ UNCHANGED <<disk, badSaves>>
    BY <1>2, Zenon DEF SendAsUser, spent
  <2>2. mem'.offset = mem.offset /\ mem'.refs = mem.refs \cup {main.n}
    BY <1>1, <2>1 DEF State
  <2> QED
    BY <1>2, <2>1, <2>2
<1>3. ASSUME NEW st, st.refs = mem.refs, Save(st)
      PROVE  /\ mem'.refs = mem.refs \ old /\ mem'.offset = st.offset
             /\ \/ disk' = mem' /\ badSaves' = badSaves
                \/ disk' = disk /\ badSaves' = badSaves + 1
  <2>1. mem' = Pruned(st)
    BY <1>3, Zenon DEF Save
  <2>2. Pruned(st).refs = st.refs \ old /\ Pruned(st).offset = st.offset
    BY <1>3 DEF Pruned
  <2>3. \/ disk' = mem' /\ badSaves' = badSaves
        \/ disk' = disk /\ badSaves' = badSaves + 1
    BY <1>3, Zenon DEF Save
  <2> QED
    BY <1>3, <2>1, <2>2, <2>3
<1>4. main.at # "idle" => ~Stop
  BY Zenon DEF Stop
<1>5. CASE Close
  <2>1. Save([mem EXCEPT !.topics[chat[main.n].of] = 0]) /\ main.at = "close"
    BY <1>5, Zenon DEF Close
  <2>2. /\ [mem EXCEPT !.topics[chat[main.n].of] = 0].offset = mem.offset
        /\ [mem EXCEPT !.topics[chat[main.n].of] = 0].refs = mem.refs
    BY <1>1 DEF State
  <2> QED
    BY <1>3, <1>4, <2>1, <2>2
<1>6. CASE Created
  <2>1. Save([mem EXCEPT !.topics[Wanted] = Len(threads)]) /\ main.at = "created"
    BY <1>6, Zenon DEF Created
  <2>2. /\ [mem EXCEPT !.topics[Wanted] = Len(threads)].offset = mem.offset
        /\ [mem EXCEPT !.topics[Wanted] = Len(threads)].refs = mem.refs
    BY <1>1 DEF State
  <2> QED
    BY <1>3, <1>4, <2>1, <2>2
<1>7. CASE Advance
  <2>1. Save([mem EXCEPT !.offset = main.n + 1]) /\ main.at = "advance"
    BY <1>7, Zenon DEF Advance
  <2>2. /\ [mem EXCEPT !.offset = main.n + 1].offset = main.n + 1
        /\ [mem EXCEPT !.offset = main.n + 1].refs = mem.refs
    BY <1>1 DEF State
  <2> QED
    BY <1>3, <1>4, <1>7, <2>1, <2>2
<1>8. CASE ForgetThread
  <2> DEFINE stale == TopicFor(sender.item.thread)
             topics == [a \in Address |-> IF a \in stale THEN 0 ELSE mem.topics[a]]
  <2>1. /\ main.at = "idle" /\ sender.at = "forget"
        /\ UNCHANGED <<disk, mem, faults, badSaves>> \/ Save([mem EXCEPT !.topics = topics])
    BY <1>8, Zenon DEF ForgetThread
  <2>2. ~Stop
    BY <2>1 DEF Stop
  <2>3. /\ [mem EXCEPT !.topics = topics].offset = mem.offset
        /\ [mem EXCEPT !.topics = topics].refs = mem.refs
    BY <1>1 DEF State
  <2> QED
    BY <1>3, <2>1, <2>2, <2>3
<1>9. CASE Stop
  <2>1. mem' = Pruned(mem) /\ disk' = mem' /\ badSaves' = badSaves /\ main.at = "idle"
    BY <1>9, Zenon DEF Stop
  <2> QED
    BY <2>1, PrunedEffect
<1>10. CASE Crash \/ Start
  BY <1>10, Zenon DEF Crash, Start, spent
<1> QED
  BY <1>2, <1>5, <1>6, <1>7, <1>8, <1>9, <1>10, StateSteps, Zenon

\* How the loop comes to pass an update.
LEMMA ToAdvance ==
    ASSUME TypeOK, Linked, InHand, Next, main'.at = "advance"
    PROVE  \/ HandleBatch
           \/ /\ main'.n = main.n /\ ~HandleBatch
              /\ \/ main.at = "advance" /\ UNCHANGED main
                 \/ SendAsUser
                 \/ main.n \in DOMAIN chat /\ chat[main.n].kind # "text"
<1>1. main \in Place
  BY DEF TypeOK, Place
<1>2. main' # Up /\ main' # Down /\ main' # Rest
  BY RestType DEF Up, Down
<1>3. ASSUME main' = [main EXCEPT !.at = "advance"] PROVE main'.n = main.n
  BY <1>1, <1>3 DEF Place
<1>4. ~SendFails /\ ~Advance /\ ~Start /\ ~Stop /\ ~Crash /\ ~RelaySkipped
  BY <1>2, Zenon DEF SendFails, Advance, Start, Stop, Crash, Forgets, RelaySkipped
<1>5. ~StartScan
  BY DEF StartScan, Up
<1>6. ~IsInflight
  <2>1. ASSUME NEW at \in {"relay", "scan"}, NEW by, NEW n, NEW todo,
               main' = [at |-> at, by |-> by, n |-> n, todo |-> todo]
        PROVE  FALSE
    BY <2>1
  <2> QED
    BY <1>2, <2>1, ScanEffect
<1>7. ~RelayMessage
  <2>1. main' # [main EXCEPT !.at = "create"]
    BY <1>1 DEF Place
  <2> QED
    BY <1>2, <2>1, RelayEffect
<1>8. CASE SendAsUser \/ Say \/ Close
  <2>1. /\ main' = [main EXCEPT !.at = "advance"] /\ main.at \in {"send", "say", "close"}
        /\ main.at = "send" => SendAsUser
    BY <1>8, Zenon DEF SendAsUser, Say, Close
  <2>2. main.at \in {"say", "close"} => main.n \in DOMAIN chat /\ chat[main.n].kind # "text"
    BY <1>1 DEF InHand, OnUpdate, Place
  <2>3. ~HandleBatch
    BY <2>1 DEF HandleBatch
  <2> QED
    BY <1>3, <2>1, <2>2, <2>3
<1>9. CASE CreateTopic \/ CreateFails \/ Created
  <2>1. main.at \in {"create", "created"}
    BY <1>9, Zenon DEF CreateTopic, CreateFails, Created
  <2>2. main' \in {[main EXCEPT !.at = "created"], main, Failed}
    BY <1>9, Zenon DEF CreateTopic, CreateFails, Created
  <2>3. main' = Failed
    BY <1>1, <2>1, <2>2 DEF Place
  <2>4. OnUpdate /\ main' = [main EXCEPT !.at = "advance"]
    BY <1>2, <2>1, <2>3, FailedEffect
  <2>5. main.n \in DOMAIN chat /\ chat[main.n].kind # "text"
    BY <2>1, <2>4 DEF InHand
  <2>6. ~HandleBatch
    BY <2>1 DEF HandleBatch
  <2> QED
    BY <1>3, <2>4, <2>5, <2>6
<1>10. CASE UNCHANGED main
  <2>1. ~HandleBatch
    BY <1>10 DEF HandleBatch
  <2> QED
    BY <1>10, <2>1
<1> QED
  BY <1>4, <1>5, <1>6, <1>7, <1>8, <1>9, <1>10, MainSteps, Zenon

\* An update that was carried out stays so.
LEMMA CarriedStays ==
    ASSUME TypeOK, Linked, InHand, Keyed, Next, NEW u \in DOMAIN chat, Carried(u)
    PROVE  Carried(u)'
<1>1. u \in Update
  <2>1. chat \in Seq(Posting) /\ Len(chat) <= MaxUpdates
    BY DEF TypeOK, Posting
  <2> QED
    BY <2>1, Constants
<1>2. chat'[u] = chat[u]
  BY ChatGrows
<1>3. refused \subseteq refused'
  BY RefusedSteps, HandleEffect
<1>4. sent[u] = 1 => sent'[u] = 1
  BY <1>1, SentStep
<1> QED
  BY <1>2, <1>3, <1>4 DEF Carried

\* The update the loop is about to pass was carried out or answered.
LEMMA AdvanceCarried ==
    ASSUME TypeOK, Linked, InHand, Keyed, Passed, Next, main'.at = "advance",
           NEW u, u = main'.n
    PROVE  u \in DOMAIN chat /\ Carried(u)'
<1>1. CASE HandleBatch
  <2>1. u \in DOMAIN chat /\ (chat[u].kind = "text" => u \in refused')
    BY <1>1, HandleEffect
  <2>2. chat'[u] = chat[u]
    BY <2>1, ChatGrows
  <2> QED
    BY <2>1, <2>2 DEF Carried
<1>2. CASE u = main.n /\ main.at = "advance"
  <2>1. u \in DOMAIN chat
    BY <1>2 DEF InHand, OnUpdate, TypeOK
  <2>2. Carried(u)
    BY <1>2, <2>1 DEF Passed
  <2> QED
    BY <2>1, <2>2, CarriedStays
<1>3. CASE u = main.n /\ SendAsUser
  <2>1. u \in DOMAIN chat
    BY <1>3 DEF SendAsUser, InHand, OnUpdate, TypeOK
  <2>2. sent'[u] = 1
    BY <1>3, SentStep
  <2> QED
    BY <2>1, <2>2 DEF Carried
<1>4. CASE u = main.n /\ u \in DOMAIN chat /\ chat[u].kind # "text"
  BY <1>4, ChatGrows DEF Carried
<1> QED
  BY <1>1, <1>2, <1>3, <1>4, ToAdvance

LEMMA PassedStep ==
    ASSUME TypeOK, Linked, InHand, Keyed, Passed, Next
    PROVE  Passed'
<1> SUFFICES ASSUME NEW u \in DOMAIN chat',
                    \/ u < mem'.offset \/ u < disk'.offset \/ u <= confirmed'
                    \/ main'.at = "advance" /\ u = main'.n
             PROVE  Carried(u)'
  BY DEF Passed
<1>1. CASE main'.at = "advance" /\ u = main'.n
  BY <1>1, AdvanceCarried
<1>2. /\ chat \in Seq(Posting) /\ confirmed \in 0..Len(chat)
      /\ mem \in State /\ disk \in State
      /\ mem.offset <= Len(chat) + 1 /\ disk.offset <= Len(chat) + 1
  BY DEF TypeOK, Posting
<1>3. mem.offset \in Nat /\ disk.offset \in Nat /\ Len(chat) \in Nat
  BY <1>2, Constants DEF State
<1>4. u \in Nat
  BY ChatGrows
<1>5. \A v \in DOMAIN chat : v < mem.offset \/ v < disk.offset \/ v <= confirmed => Carried(v)
  BY DEF Passed
<1>6. \/ mem'.offset = mem.offset
      \/ mem'.offset = disk.offset
      \/ Advance /\ main.at = "advance" /\ mem'.offset = main.n + 1
  BY Writes
<1>7. disk'.offset = disk.offset \/ disk'.offset = mem'.offset
  BY Writes
<1>8. confirmed' \in Nat /\ (confirmed' <= confirmed \/ confirmed' < mem.offset)
  BY <1>2, <1>3, ConfirmedSteps, HandleEffect
<1>9. ASSUME Advance, main.at = "advance", u < main.n + 1
      PROVE  u \in DOMAIN chat /\ Carried(u)
  <2>1. /\ main.n \in DOMAIN chat
        /\ main.n <= mem.offset \/ main.n <= confirmed + 1
    BY <1>9 DEF InHand, OnUpdate, TypeOK
  <2>2. u \in DOMAIN chat
    BY <1>2, <1>4, <1>9, <2>1, ChatGrows
  <2>3. main.n \in Nat /\ (u = main.n \/ u < mem.offset \/ u <= confirmed)
    BY <1>2, <1>3, <1>4, <1>9, <2>1
  <2> QED
    BY <1>9, <2>2, <2>3 DEF Passed
<1>10. ASSUME u < mem.offset \/ u < disk.offset \/ u <= confirmed
       PROVE  u \in DOMAIN chat /\ Carried(u)
  <2>1. u <= Len(chat)
    BY <1>2, <1>3, <1>4, <1>10
  <2>2. u \in DOMAIN chat
    BY <1>2, <1>4, <2>1, ChatGrows
  <2> QED
    BY <1>5, <1>10, <2>2
<1>11. CASE ~(main'.at = "advance" /\ u = main'.n)
  <2>1. u \in DOMAIN chat /\ Carried(u)
    BY <1>2, <1>3, <1>4, <1>6, <1>7, <1>8, <1>9, <1>10, <1>11
  <2> QED
    BY <2>1, CarriedStays
<1> QED
  BY <1>1, <1>11

LEMMA ReferencedStep ==
    ASSUME TypeOK, Linked, InHand, Referenced, Next
    PROVE  Referenced'
<1> SUFFICES ASSUME badSaves' = 0
             PROVE  /\ disk'.offset = mem'.offset /\ confirmed' < mem'.offset
                    /\ \A u \in DOMAIN chat' : chat'[u].kind = "text" /\ u \notin refused' =>
                          /\ u < mem'.offset => u \in disk'.refs \cup old' /\ u \in mem'.refs \cup old'
                          /\ main'.at = "advance" /\ u = main'.n => u \in mem'.refs
  BY DEF Referenced
<1>1. /\ chat \in Seq(Posting) /\ confirmed \in 0..Len(chat) /\ badSaves \in Nat
      /\ mem \in State /\ disk \in State
      /\ mem.offset <= Len(chat) + 1
  BY DEF TypeOK, Posting
<1>2. mem.offset \in Nat /\ Len(chat) \in Nat /\ confirmed \in Nat
  BY <1>1, Constants DEF State
<1>3. badSaves = 0
  BY <1>1, Writes
<1>4. /\ disk.offset = mem.offset /\ confirmed < mem.offset
      /\ \A u \in DOMAIN chat : chat[u].kind = "text" /\ u \notin refused =>
            /\ u < mem.offset => u \in disk.refs \cup old /\ u \in mem.refs \cup old
            /\ main.at = "advance" /\ u = main.n => u \in mem.refs
  BY <1>3 DEF Referenced
<1>5. \/ UNCHANGED <<disk, mem>>
      \/ /\ SendAsUser /\ UNCHANGED disk
         /\ mem'.offset = mem.offset /\ mem'.refs = mem.refs \cup {main.n}
      \/ /\ mem'.refs = mem.refs \ old
         /\ \/ mem'.offset = mem.offset /\ main.at \notin {"advance", "down"}
            \/ Advance /\ main.at = "advance" /\ mem'.offset = main.n + 1
         /\ disk' = mem'
      \/ (Crash \/ Start) /\ mem' = disk /\ UNCHANGED disk
  BY <1>1, <1>3, Writes
<1>6. main.at = "advance" => /\ main.n \in DOMAIN chat /\ main.n \in Nat
                             /\ main.n >= mem.offset /\ main.n <= mem.offset
  <2>1. main.at = "advance" => /\ main.n \in DOMAIN chat /\ main.n >= mem.offset
                               /\ main.n <= mem.offset \/ main.n <= confirmed + 1
    BY DEF InHand, OnUpdate, TypeOK
  <2> QED
    BY <1>1, <1>2, <1>4, <2>1
<1>7. mem'.offset \in Nat /\ mem'.offset >= mem.offset
  BY <1>2, <1>4, <1>5, <1>6
<1>8. disk'.offset = mem'.offset
  BY <1>4, <1>5
<1>9. confirmed' < mem'.offset
  <2>1. confirmed' \in Nat /\ (confirmed' = confirmed \/ confirmed' = mem.offset - 1)
    BY <1>2, ConfirmedSteps, HandleEffect
  <2> QED
    BY <1>2, <1>4, <1>7, <2>1
<1>10. old \subseteq old' /\ refused \subseteq refused'
  BY OldSteps, RefusedSteps, HandleEffect DEF Age
<1>11. ASSUME NEW u \in DOMAIN chat', chat'[u].kind = "text", u \notin refused', u < mem'.offset
       PROVE  u \in disk'.refs \cup old' /\ u \in mem'.refs \cup old'
  <2>1. u \in Nat
    BY ChatGrows
  <2>2. CASE u < mem.offset
    <3>1. u \in DOMAIN chat
      BY <1>1, <1>2, <2>1, <2>2, ChatGrows
    <3>2. chat[u].kind = "text" /\ u \notin refused
      BY <1>10, <1>11, <3>1, ChatGrows
    <3>3. u \in disk.refs \cup old /\ u \in mem.refs \cup old
      BY <1>4, <2>2, <3>1, <3>2
    <3> QED
      BY <1>5, <1>10, <3>3
  <2>3. CASE u >= mem.offset
    <3>1. /\ main.at = "advance" /\ mem'.offset = main.n + 1
          /\ mem'.refs = mem.refs \ old /\ disk' = mem'
      BY <1>2, <1>4, <1>5, <1>11, <2>1, <2>3
    <3>2. u = main.n
      BY <1>2, <1>6, <1>11, <2>1, <2>3, <3>1
    <3>3. chat[u].kind = "text" /\ u \notin refused /\ u \in DOMAIN chat
      BY <1>6, <1>10, <1>11, <3>1, <3>2, ChatGrows
    <3>4. u \in mem.refs
      BY <1>4, <3>1, <3>2, <3>3
    <3> QED
      BY <1>10, <3>1, <3>4
  <2> QED
    BY <1>2, <2>1, <2>2, <2>3
<1>12. ASSUME NEW u \in DOMAIN chat', chat'[u].kind = "text", u \notin refused',
              main'.at = "advance", u = main'.n
       PROVE  u \in mem'.refs
  <2>1. CASE HandleBatch
    <3>1. u \in DOMAIN chat /\ (chat[u].kind = "text" => u \in refused')
      BY <1>12, <2>1, HandleEffect
    <3> QED
      BY <1>12, <3>1, ChatGrows
  <2>2. CASE UNCHANGED main /\ main.at = "advance" /\ ~HandleBatch
    <3>1. chat[u].kind = "text" /\ u \notin refused /\ u \in DOMAIN chat
      BY <1>6, <1>10, <1>12, <2>2, ChatGrows
    <3>2. u \in mem.refs
      BY <1>4, <1>12, <2>2, <3>1
    <3>3. ~Advance /\ ~Crash /\ ~Start /\ ~SendAsUser
      BY <2>2 DEF Advance, Crash, Start, SendAsUser, Forgets, Up, Down
    <3> QED
      BY <1>5, <2>2, <3>2, <3>3
  <2>3. CASE SendAsUser /\ main'.n = main.n
    <3>1. main.at = "send" /\ mem' = [mem EXCEPT !.refs = @ \cup {main.n}]
      BY <2>3, Zenon DEF SendAsUser
    <3> QED
      BY <1>1, <1>12, <2>3, <3>1 DEF State
  <2>4. CASE main'.n = main.n /\ main.n \in DOMAIN chat /\ chat[main.n].kind # "text"
    BY <1>12, <2>4, ChatGrows
  <2> QED
    BY <1>12, <2>1, <2>2, <2>3, <2>4, ToAdvance
<1> QED
  BY <1>8, <1>9, <1>11, <1>12

\* How the loop leaves an update it is about to pass, or comes up again.
LEMMA LeavesAdvance ==
    ASSUME TypeOK, InHand, Next
    PROVE  /\ main.at = "advance" => UNCHANGED main \/ Advance \/ Crash
           /\ main.at = "down" => UNCHANGED main \/ Start
<1>1. main.at \in {"advance", "down"} =>
        /\ ~HandleBatch /\ ~SendAsUser /\ ~SendFails /\ ~Say /\ ~Close
        /\ ~StartScan /\ ~IsInflight /\ ~RelayMessage /\ ~RelaySkipped
        /\ ~CreateTopic /\ ~CreateFails /\ ~Created /\ ~Stop
  BY DEF HandleBatch, SendAsUser, SendFails, Say, Close, StartScan, IsInflight,
     RelayMessage, RelaySkipped, CreateTopic, CreateFails, Created, Stop
<1>2. (main.at = "advance" => ~Start) /\ (main.at = "down" => ~Advance /\ ~Crash)
  BY DEF Start, Advance, Crash
<1> QED
  BY <1>1, <1>2, MainSteps

LEMMA SaidOnceStep ==
    ASSUME TypeOK, Linked, InHand, SaidOnce, Next
    PROVE  SaidOnce'
<1>1. /\ main \in Place /\ mem \in State /\ disk \in State
      /\ said \in [Update -> Nat] /\ restarts \in Nat /\ restarts' \in Nat
  BY SpentStep DEF TypeOK, Place
<1>2. mem.offset \in Nat /\ disk.offset \in Nat
  BY <1>1, Constants DEF State
<1>3. main'.at = "down" => mem' = disk'
  <2>1. CASE Stop \/ Crash
    BY <2>1 DEF Stop, Crash
  <2>2. CASE UNCHANGED main /\ main.at = "down"
    <3>1. mem = disk
      BY <2>2 DEF SaidOnce
    <3>2. ~SendAsUser /\ ~Advance /\ ~Crash /\ ~Start
      BY <2>2 DEF SendAsUser, Advance, Crash, Start, Up
    <3>3. UNCHANGED <<disk, mem>>
      BY <2>2, <3>2, Writes
    <3> QED
      BY <3>1, <3>3
  <2>3. main'.at = "down" => Stop \/ Crash \/ UNCHANGED main
    BY DownSteps
  <2> QED
    BY <2>1, <2>2, <2>3
<1>4. \A u \in Update :
        said[u] <= restarts + (IF u < mem.offset \/ (main.at = "advance" /\ u = main.n) THEN 1 ELSE 0)
  BY DEF SaidOnce
<1> SUFFICES ASSUME NEW u \in Update
             PROVE  said'[u] <= restarts' +
                      (IF u < mem'.offset \/ (main'.at = "advance" /\ u = main'.n) THEN 1 ELSE 0)
  BY <1>3 DEF SaidOnce
<1>5. u \in Nat
  BY Constants
<1>6. CASE Say
  <2>1. /\ main.at = "say" /\ main' = [main EXCEPT !.at = "advance"]
        /\ said' = [said EXCEPT ![main.n] = @ + 1] \/ UNCHANGED said
        /\ UNCHANGED mem /\ UNCHANGED restarts
    BY <1>6, Zenon DEF Say
  <2>2. main'.at = "advance" /\ main'.n = main.n
    BY <1>1, <2>1 DEF Place
  <2>3. main.n >= mem.offset
    BY <1>1, <2>1 DEF InHand, OnUpdate, Place
  <2>4. CASE u = main.n
    <3>1. said[u] <= restarts
      BY <1>1, <1>2, <1>4, <1>5, <2>1, <2>3, <2>4
    <3>2. said'[u] <= said[u] + 1
      BY <1>1, <2>1
    <3> QED
      BY <1>1, <2>1, <2>2, <2>4, <3>1, <3>2, SaidType
  <2>5. CASE u # main.n
    <3>1. said'[u] = said[u]
      BY <1>1, <2>1, <2>5
    <3> QED
      BY <1>1, <1>2, <1>4, <2>1, <2>2, <2>5, <3>1
  <2> QED
    BY <2>4, <2>5
<1>7. CASE UNCHANGED said /\ (Stop \/ Crash)
  <2>1. restarts' = restarts + 1
    BY <1>7, Zenon DEF Stop, Crash, Forgets
  <2> QED
    BY <1>1, <1>4, <1>7, <2>1
<1>8. CASE UNCHANGED said /\ ~Stop /\ ~Crash
  <2>1. UNCHANGED restarts
    BY <1>8, RestartSteps
  <2>2. u < mem.offset => u < mem'.offset
    <3>1. CASE Start
      <4>1. mem' = disk /\ mem = disk
        BY <3>1 DEF Start, SaidOnce
      <4> QED
        BY <4>1
    <3>2. CASE Advance
      <4>1. mem'.offset = main.n + 1 /\ main.n >= mem.offset /\ main.n \in Nat
        <5>1. main.at = "advance"
          BY <3>2 DEF Advance
        <5>2. main.n >= mem.offset
          BY <1>1, <5>1 DEF InHand, OnUpdate, Place
        <5>3. Save([mem EXCEPT !.offset = main.n + 1])
          BY <3>2, Zenon DEF Advance
        <5>4. mem' = Pruned([mem EXCEPT !.offset = main.n + 1])
          BY <5>3, Zenon DEF Save
        <5>5. mem'.offset = main.n + 1
          BY <1>1, <5>4 DEF Pruned, State
        <5> QED
          BY <1>1, <5>2, <5>5 DEF Place
      <4> QED
        BY <1>2, <1>5, <4>1
    <3> QED
      BY <1>8, <3>1, <3>2, OffsetSteps
  <2>3. main.at = "advance" /\ u = main.n =>
          u < mem'.offset \/ (main'.at = "advance" /\ u = main'.n)
    <3>1. main.at = "advance" /\ Advance => mem'.offset = main.n + 1
      <4>1. Advance => Save([mem EXCEPT !.offset = main.n + 1])
        BY Zenon DEF Advance
      <4>2. Advance => mem' = Pruned([mem EXCEPT !.offset = main.n + 1])
        BY <4>1, Zenon DEF Save
      <4> QED
        BY <1>1, <4>2 DEF Pruned, State
    <3> QED
      BY <1>5, <1>8, <3>1, LeavesAdvance
  <2> QED
    BY <1>1, <1>4, <1>8, <2>1, <2>2, <2>3
<1> QED
  BY <1>6, <1>7, <1>8, SaidSteps

-----------------------------------------------------------------------------
(* The theorems *)

LEMMA InvInit == Init => GatewayInv
<1> SUFFICES ASSUME Init PROVE GatewayInv
  OBVIOUS
<1> USE DEF Init
<1>1. Len(chat) = 0 /\ DOMAIN chat = {} /\ Len(threads) = 0 /\ Len(inbox) = 0 /\ DOMAIN inbox = {}
        /\ DOMAIN queue = {}
  OBVIOUS
<1>2. mem \in State /\ mem = [offset |-> 1, topics |-> [a \in Address |-> 0], refs |-> {}]
  BY Constants DEF State
<1>3. main \in Place /\ main.at = "idle" /\ main.by = "update"
  BY DEF Up, Place
<1>4. TypeOK
  <2>1. /\ chat \in Seq([kind : {"text", "open", "close", "say"}, of : Address, thread : Nat])
        /\ threads \in Seq([of : Address, state : {"open", "closed", "deleted"}])
        /\ inbox \in Seq([kind : Kinds, from : Address, about : {0} \cup Update])
        /\ queue \in Seq([thread : 0..Len(threads), ack : DOMAIN inbox])
    OBVIOUS
  <2>2. /\ Len(chat) <= MaxUpdates /\ confirmed \in 0..Len(chat)
        /\ Len(inbox) <= MaxLetters /\ read \subseteq DOMAIN inbox
    BY <1>1, Constants
  <2>3. /\ ledger \in [Update -> {"none", "saved", "published"}] /\ sent \in [Update -> Nat]
        /\ posted \in [Letter -> Nat] /\ again \in [Letter -> Nat] /\ said \in [Update -> Nat]
    OBVIOUS
  <2>4. /\ disk \in State /\ mem \in State
        /\ disk.offset <= Len(chat) + 1 /\ mem.offset <= Len(chat) + 1
        /\ \A a \in Address : /\ mem.topics[a] \in 0..Len(threads)
                              /\ mem.topics[a] > 0 => threads[mem.topics[a]].of = a
    BY <1>1, <1>2
  <2>5. main \in [at : {"down", "idle", "send", "say", "close", "advance",
                        "scan", "relay", "create", "created"},
                  by : {"update", "letter"}, n : Nat, todo : SUBSET DOMAIN inbox]
    BY <1>3 DEF Place
  <2>6. sender \in [at : {"idle"}, item : {None}]
    BY DEF Waiting
  <2>7. /\ inflight \subseteq DOMAIN inbox /\ held \subseteq DOMAIN inbox
        /\ old \subseteq Update /\ refused \subseteq Update
        /\ faults \in Nat /\ restarts \in Nat /\ badSaves \in Nat
        /\ (main.at = "down" => queue = <<>> /\ sender.at = "idle")
    BY <1>3
  <2> QED
    BY <2>1, <2>2, <2>3, <2>4, <2>5, <2>6, <2>7, Zenon DEF TypeOK
<1>5. Linked
  BY <1>1, <1>2 DEF Linked
<1>6. InHand
  BY <1>3 DEF InHand, OnUpdate
<1>7. InFlight
  BY <1>1 DEF InFlight, Waiting
<1>8. Unposted
  BY <1>1 DEF Unposted, Acked
<1>9. Keyed /\ ReadAfterPosted
  BY DEF Keyed, ReadAfterPosted
<1>10. Passed /\ Referenced
  BY <1>1, <1>2, <1>3 DEF Passed, Referenced
<1>11. SaidOnce
  BY <1>3 DEF SaidOnce
<1> QED
  BY <1>4, <1>5, <1>6, <1>7, <1>8, <1>9, <1>10, <1>11 DEF GatewayInv

LEMMA InvStutter == GatewayInv /\ UNCHANGED vars => GatewayInv'
<1> SUFFICES ASSUME GatewayInv, UNCHANGED vars PROVE GatewayInv'
  OBVIOUS
<1>1. /\ UNCHANGED <<service, store, disk, mem, main, out, sender, old, spent, history>>
  BY Zenon DEF vars
<1>2. /\ UNCHANGED <<chat, threads, confirmed, inbox, read, ledger, sent>>
      /\ UNCHANGED <<disk, mem, main, queue, inflight, held, sender, old>>
      /\ UNCHANGED <<faults, restarts, badSaves, posted, again, said, refused>>
  BY <1>1 DEF service, store, out, spent, history
<1>3. TypeOK'
  BY <1>2 DEF GatewayInv, TypeOK
<1>4. Linked' /\ InHand' /\ InFlight' /\ ReadAfterPosted'
  BY <1>2 DEF GatewayInv, Linked, InHand, OnUpdate, Wanted, InFlight, ReadAfterPosted
<1>5. Unposted' /\ Keyed'
  BY <1>2 DEF GatewayInv, Unposted, Acked, Keyed
<1>6. Passed' /\ Referenced' /\ SaidOnce'
  BY <1>2 DEF GatewayInv, Passed, Carried, Referenced, SaidOnce
<1> QED
  BY <1>3, <1>4, <1>5, <1>6 DEF GatewayInv

LEMMA GatewayAlways == Spec => []GatewayInv
<1>1. GatewayInv /\ Next => GatewayInv'
  BY TypeStep, LinkedStep, MainStep, OutStep, UnpostedStep, SentStep, PassedStep,
     ReferencedStep, SaidOnceStep, ReadAfterPostedStep DEF GatewayInv
<1> QED
  BY <1>1, InvInit, InvStutter, PTL DEF Spec

(* Every variable keeps its type: queue, sender and scan hold letters of    *)
(* the inbox, and the memory maps a session to a topic made for it.         *)
THEOREM TypeCorrect == Spec => []TypeOK
BY GatewayAlways, PTL DEF GatewayInv

(* Whatever the scan saw while the sender was at work, a letter is marked   *)
(* read only after it was posted.                                           *)
THEOREM PostedBeforeRead == Spec => []ReadAfterPosted
BY GatewayAlways, PTL DEF GatewayInv

(* A scan that runs into the sender does not queue a letter twice: every    *)
(* further post has a crash, a lost answer or a failed ack-read to account  *)
(* for it.                                                                  *)
THEOREM RepeatsAccounted == Spec => []Repeats
<1>1. GatewayInv => Repeats
  <2> SUFFICES ASSUME GatewayInv, NEW l \in DOMAIN inbox PROVE posted[l] <= 1 + again[l]
    BY DEF Repeats
  <2>1. l \in Letter /\ posted \in [Letter -> Nat] /\ again \in [Letter -> Nat]
    <3>1. inbox \in Seq(Received) /\ Len(inbox) <= MaxLetters
      BY DEF GatewayInv, TypeOK, Received
    <3>2. posted \in [Letter -> Nat] /\ again \in [Letter -> Nat]
      BY DEF GatewayInv, TypeOK
    <3>3. DOMAIN inbox = 1..Len(inbox) /\ Len(inbox) \in Nat
      BY <3>1
    <3>4. l \in Letter
      BY <3>1, <3>3, Constants
    <3> QED
      BY <3>2, <3>4
  <2> QED
    BY <2>1 DEF GatewayInv, Unposted
<1> QED
  BY <1>1, GatewayAlways, PTL

(* Every update the stored offset has passed was carried out: a text became *)
(* one letter, with its reference kept, or was answered; a /say was         *)
(* repeated at most once per restart.                                       *)
THEOREM UpdatesHandled == Spec => []Handled
<1>1. GatewayInv => Handled
  <2> SUFFICES ASSUME GatewayInv, NEW u \in DOMAIN chat
               PROVE  /\ sent[u] <= 1 /\ said[u] <= 1 + restarts
                      /\ (u < disk.offset /\ chat[u].kind = "text" /\ u \notin refused) =>
                            sent[u] = 1 /\ (u \in disk.refs \cup old \/ badSaves > 0)
    BY DEF Handled
  <2>1. /\ u \in Update /\ said \in [Update -> Nat] /\ restarts \in Nat /\ badSaves \in Nat
    <3>1. chat \in Seq(Posting) /\ Len(chat) <= MaxUpdates
      BY DEF GatewayInv, TypeOK, Posting
    <3>2. said \in [Update -> Nat] /\ restarts \in Nat /\ badSaves \in Nat
      BY DEF GatewayInv, TypeOK
    <3>3. DOMAIN chat = 1..Len(chat) /\ Len(chat) \in Nat
      BY <3>1
    <3>4. u \in Update
      BY <3>1, <3>3, Constants
    <3> QED
      BY <3>2, <3>4
  <2>2. sent[u] <= 1
    BY <2>1 DEF GatewayInv, Keyed
  <2>3. said[u] <= 1 + restarts
    BY <2>1 DEF GatewayInv, SaidOnce
  <2>4. ASSUME u < disk.offset, chat[u].kind = "text", u \notin refused
        PROVE  sent[u] = 1 /\ (u \in disk.refs \cup old \/ badSaves > 0)
    <3>1. sent[u] = 1
      BY <2>4 DEF GatewayInv, Passed, Carried
    <3>2. badSaves = 0 => u \in disk.refs \cup old
      BY <2>4 DEF GatewayInv, Referenced
    <3> QED
      BY <2>1, <3>1, <3>2
  <2> QED
    BY <2>2, <2>3, <2>4
<1> QED
  BY <1>1, GatewayAlways, PTL
=============================================================================
