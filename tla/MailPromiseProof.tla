-------------------------- MODULE MailPromiseProof --------------------------
(***************************************************************************)
(* Theorem about Mail for any network, any letters and any number of       *)
(* crashes and lost links: the protocol implements MailPromise, what       *)
(* `khala send' promises to sender and reader.  It needs that no evidence  *)
(* of a delivery is lost, so it is stated for systems in which no single   *)
(* file operation fails while its process lives on, or in which retention  *)
(* never throws anything away.                                             *)
(***************************************************************************)
EXTENDS MailOnceProof

USE MailAssumption

-----------------------------------------------------------------------------
(* Only sent letters travel *)

\* A loop that starts finds sent letters only, and expire_outbox queued ones.
LEMMA EnterSent ==
    ASSUME TypeOK, SentInv, NEW n \in Node, NEW p \in Phase, Enter(n, p),
           step[n] = "scan", UNCHANGED <<outbox, spool, sendPc, xtodo>>
    PROVE  SentInv'
<1>1. p \in {"copy", "deliver"} => \A m \in Glob(n, p) : outbox[m] # "unsent"
  BY DEF Glob, Queue, Arrived, SentInv, Message
<1>2. p = "expire" => \A m \in Glob(n, p) : outbox[m] = "new"
  BY DEF Glob, Queue
<1>3. /\ todo' = [todo EXCEPT ![n] = Glob(n, p)]
      /\ phase' = [phase EXCEPT ![n] = p]
      /\ UNCHANGED <<step, cur>>
  BY DEF Enter
<1> QED
  BY <1>1, <1>2, <1>3 DEF SentInv, TypeOK

\* No step sends a letter but send, and no step but expire_outbox's own takes
\* a letter it found out of outbox/new.
LEMMA SentStep ==
    ASSUME TypeOK, LoopInv, SentInv, [Next]_vars
    PROVE  SentInv'
<1> USE DEF store, core, xchg
<1>1. CASE UNCHANGED vars
  BY <1>1 DEF vars, SentInv, TypeOK
<1>2. ASSUME NEW m \in Letter, Send(m) \/ SendCopy(m) \/ SendDies(m)
      PROVE  SentInv'
  BY <1>2 DEF Send, SendCopy, SendDies, Fault, SentInv, TypeOK
<1>3. ASSUME NEW m \in Letter, SendLink(m)
      PROVE  SentInv'
  BY <1>3, Tokens DEF SendLink, SentInv, TypeOK
<1>4. ASSUME NEW n \in Node, StartReconcile(n)
      PROVE  SentInv'
  BY <1>4, AdvanceEnters, EnterSent DEF StartReconcile, LoopInv
<1>5. ASSUME NEW n \in Node, NextPhase(n)
      PROVE  SentInv'
  BY <1>5, AdvanceEnters, EnterSent DEF NextPhase, LoopDone, InBody
<1>6. ASSUME NEW n \in Node, RecordDelivered(n)
      PROVE  SentInv'
  BY <1>6 DEF RecordDelivered, InBody, Hold, SentInv, TypeOK
<1>7. ASSUME NEW n \in Node, QueueAck(n)
      PROVE  SentInv'
  BY <1>7, Tokens DEF QueueAck, InBody, Hold, SentInv, TypeOK
<1>8. ASSUME NEW n \in Node, ConsumeDelivered(n)
      PROVE  SentInv'
  BY <1>8 DEF ConsumeDelivered, InBody, Finish, SentInv, TypeOK
<1>9. ASSUME NEW n \in Node, SettleUnspool(n)
      PROVE  SentInv'
  BY <1>9 DEF SettleUnspool, InBody, Hold, SentInv, TypeOK
<1>10. ASSUME NEW n \in Node, ConsumeAck(n)
      PROVE  SentInv'
  BY <1>10 DEF ConsumeAck, InBody, Finish, SentInv, TypeOK
<1>11. ASSUME NEW n \in Node, ExpireBury(n)
      PROVE  SentInv'
  BY <1>11 DEF ExpireBury, InBody, Hold, LoopInv, SentInv, TypeOK
<1>12. ASSUME NEW n \in Node, ExpireUnspool(n)
      PROVE  SentInv'
  BY <1>12 DEF ExpireUnspool, InBody, Finish, SentInv, TypeOK
<1>13. ASSUME NEW n \in Node, PruneDeliveredLog(n)
      PROVE  SentInv'
  BY <1>13, EnterSent DEF PruneDeliveredLog, LoopInv, Phase
<1>14. ASSUME NEW n \in Node, Drain(n)
      PROVE  SentInv'
  BY <1>14 DEF Drain, SentInv, TypeOK
<1>15. ASSUME NEW n \in Node, StartExchange(n)
      PROVE  SentInv'
  BY <1>15 DEF StartExchange, PullList, SentInv, TypeOK
<1>16. ASSUME NEW n \in Node, PullDone(n)
      PROVE  SentInv'
  <2>1. PICK t \in SUBSET spool[n] : UNCHANGED xtodo \/ xtodo' = [xtodo EXCEPT ![n] = t]
    BY <1>16 DEF PullDone, PushedInfrastructure, Outgoing
  <2>2. UNCHANGED <<store, core, sendPc>>
    BY <1>16 DEF PullDone
  <2> QED
    BY <2>1, <2>2 DEF SentInv, TypeOK
<1>17. ASSUME NEW n \in Node, StartPreSettle(n)
      PROVE  SentInv'
  <2>1. CASE Arrived(n, "ack") = {}
    BY <1>17, <2>1 DEF StartPreSettle, StartPush, Outgoing, SentInv, TypeOK
  <2>2. CASE Arrived(n, "ack") # {}
    BY <1>17, <2>2, EnterSent DEF StartPreSettle, LoopInv, Phase
  <2> QED
    BY <2>1, <2>2
<1>18. ASSUME NEW n \in Node, PreSettleDone(n)
      PROVE  SentInv'
  <2>1. PICK t \in SUBSET spool[n] : xtodo' = [xtodo EXCEPT ![n] = t]
    BY <1>18 DEF PreSettleDone, StartPush, Outgoing
  <2> QED
    BY <1>18, <2>1 DEF PreSettleDone, Enter, LoopDone, InBody, SentInv, TypeOK
<1>19. ASSUME NEW n \in Node, PushDone(n)
      PROVE  SentInv'
  BY <1>19 DEF PushDone, PullList, SentInv, TypeOK
<1>20. ASSUME NEW n \in Node, ExchangeDone(n)
      PROVE  SentInv'
  BY <1>20 DEF ExchangeDone, SentInv, TypeOK
<1>21. ASSUME NEW n \in Node, CoreDies(n)
      PROVE  SentInv'
  BY <1>21 DEF CoreDies, SentInv, TypeOK
<1>22. ASSUME NEW n \in Node, OperationFails(n)
      PROVE  SentInv'
  <2>1. PICK m \in Letter \cup {None} : Finish(n, m) /\ (step[n] # "scan" => m = cur[n])
    BY <1>22 DEF OperationFails, TypeOK
  <2> QED
    BY <1>22, <2>1 DEF OperationFails, Finish, SentInv, TypeOK
<1>23. ASSUME NEW n \in Node, ExchangeFails(n)
      PROVE  SentInv'
  BY <1>23 DEF ExchangeFails, SentInv, TypeOK
<1>24. ASSUME NEW n \in Node, NEW m \in Letter, CopyOutboxToSpool(n, m)
      PROVE  SentInv'
  BY <1>24, Tokens DEF CopyOutboxToSpool, AtLoop, Finish, InBody, SentInv, TypeOK
<1>25. ASSUME NEW n \in Node, NEW m \in Letter, DropExpired(n, m)
      PROVE  SentInv'
  BY <1>25 DEF DropExpired, AtLoop, Finish, InBody, SentInv, TypeOK
<1>26. ASSUME NEW n \in Node, NEW m \in Letter, Deliver(n, m)
      PROVE  SentInv'
  BY <1>26 DEF Deliver, DeliverKnowing, AtLoop, Hold, InBody, SentInv, TypeOK
<1>27. ASSUME NEW n \in Node, NEW m \in Letter, SettleAck(n, m)
      PROVE  SentInv'
  <2>1. phase[n] \in {"settle", "presettle"} /\ m \in todo[n] /\ Origin[m] = n
    BY <1>27 DEF SettleAck, AtLoop, InBody, LoopInv
  <2>2. /\ outbox' = [outbox EXCEPT ![m] = IF @ = "new" THEN "acked" ELSE @]
        /\ \E s \in Step : Hold(n, m, s)
        /\ UNCHANGED <<spool, sendPc, xtodo>>
    BY <1>27 DEF SettleAck, Step
  <2>3. \A k \in Node : phase[k] = "expire" => \A l \in todo[k] : l \in Letter /\ l # m
    BY <2>1 DEF LoopInv, TypeOK
  <2>4. \A l \in Letter : outbox'[l] = "unsent" <=> outbox[l] = "unsent"
    BY <2>2 DEF TypeOK
  <2> QED
    BY <2>1, <2>2, <2>3, <2>4 DEF Hold, SentInv, TypeOK
<1>28. ASSUME NEW n \in Node, NEW m \in Letter, ExpireQueueBounce(n, m)
      PROVE  SentInv'
  BY <1>28, Tokens DEF ExpireQueueBounce, AtLoop, Hold, InBody, SentInv, TypeOK
<1>29. ASSUME NEW n \in Node, NEW m \in Letter, PruneMessageArchives(n, m)
      PROVE  SentInv'
  <2>1. /\ phase[n] = "archives"
        /\ \/ outbox' = outbox
           \/ /\ Origin[m] = n /\ outbox[m] \in {"acked", "dead"}
              /\ outbox' = [outbox EXCEPT ![m] = "pruned"]
        /\ Finish(n, m)
        /\ UNCHANGED <<spool, sendPc, xtodo>>
    BY <1>29 DEF PruneMessageArchives, AtLoop, InBody
  <2>2. \A k \in Node : phase[k] = "expire" => k # n /\ \A l \in todo[k] : l \in Letter /\ Origin[l] = k
    BY <2>1 DEF LoopInv, TypeOK
  <2>3. \A l \in Letter : /\ outbox'[l] = "unsent" <=> outbox[l] = "unsent"
                          /\ Origin[l] # n => outbox'[l] = outbox[l]
    BY <2>1 DEF TypeOK
  <2> QED
    BY <2>1, <2>2, <2>3 DEF Finish, SentInv, TypeOK
<1>30. ASSUME NEW n \in Node, NEW m \in Letter, Lapse(n, m)
      PROVE  SentInv'
  BY <1>30 DEF Lapse, SentInv, TypeOK
<1>31. ASSUME NEW n \in Node, NEW f \in File, AckRead(n, f)
      PROVE  SentInv'
  BY <1>31 DEF AckRead, SentInv, TypeOK
<1>32. ASSUME NEW n \in Node, NEW f \in File, PullCopy(n, f)
      PROVE  SentInv'
  BY <1>32 DEF PullCopy, SentInv, TypeOK
<1>33. ASSUME NEW n \in Node, NEW f \in File, PullRemove(n, f)
      PROVE  SentInv'
  BY <1>33 DEF PullRemove, SentInv, TypeOK
<1>34. ASSUME NEW n \in Node, NEW f \in File, PushFile(n, f)
      PROVE  SentInv'
  BY <1>34 DEF PushFile, Outgoing, SentInv, TypeOK
<1>35. ASSUME NEW n \in Node, NEW f \in File, RemovePushedInfrastructure(n, f)
      PROVE  SentInv'
  BY <1>35 DEF RemovePushedInfrastructure, SentInv, TypeOK
<1> QED
  BY <1>1, <1>2, <1>3, <1>4, <1>5, <1>6, <1>7, <1>8, <1>9, <1>10, <1>11, <1>12, <1>13,
      <1>14, <1>15, <1>16, <1>17, <1>18, <1>19, <1>20, <1>21, <1>22, <1>23, <1>24,
      <1>25, <1>26, <1>27, <1>28, <1>29, <1>30, <1>31, <1>32, <1>33, <1>34, <1>35 DEF
      Next, CoreStep, ExchangeStep, SendStep

-----------------------------------------------------------------------------
(* Without retention nothing is forgotten *)

\* retention_due keeps the two sweeps out of the pass.
LEMMA AdvanceWithoutSweeps ==
    ASSUME NEW n \in Node, Advance(n), Retention = FALSE
    PROVE  \E p \in Phase \ Sweep : Enter(n, p)
<1>1. \/ Ahead(n, FALSE) = {} /\ Enter(n, "idle")
      \/ \E p \in Ahead(n, FALSE) : Enter(n, p)
  BY DEF Advance
<1>2. "idle" \in Phase \ Sweep /\ Ahead(n, FALSE) \subseteq Phase \ Sweep
  BY DEF Phase, Sweep, Ahead
<1> QED
  BY <1>1, <1>2

\* Outside the sweeps, log/delivered and the inbox lose nothing together.
LEMMA KeptStep ==
    ASSUME TypeOK, LoopInv, LandedInv, KeptInv, [Next]_vars
    PROVE  KeptInv'
<1> SUFFICES ASSUME Retention = FALSE
             PROVE  /\ \A n \in Node : phase'[n] \notin Sweep
                    /\ landed' \subseteq log' \cup inNew' \cup inCur'
  BY DEF KeptInv
<1> USE DEF store, core, xchg
<1>0. /\ \A n \in Node : phase[n] \notin Sweep
      /\ landed \subseteq log \cup inNew \cup inCur
  BY DEF KeptInv
<1> DEFINE Held == UNCHANGED <<log, inNew, inCur, landed>>
<1>1. CASE UNCHANGED vars
  BY <1>0, <1>1 DEF vars
<1>2. ASSUME NEW m \in Letter, Send(m) \/ SendStep(m) \/ SendDies(m)
      PROVE  Held /\ UNCHANGED phase
  BY <1>2 DEF SendStep, Send, SendCopy, SendLink, SendDies
<1>3. ASSUME NEW n \in Node, StartReconcile(n) \/ NextPhase(n)
      PROVE  Held /\ \E p \in Phase \ Sweep : phase' = [phase EXCEPT ![n] = p]
  BY <1>3, AdvanceWithoutSweeps DEF StartReconcile, NextPhase, Enter
<1>4. ASSUME NEW n \in Node, PreSettleDone(n) \/ StartPreSettle(n) \/ CoreDies(n)
      PROVE  Held /\ \E p \in Phase \ Sweep : phase' = [phase EXCEPT ![n] = p]
  <2>1. {"idle", "presettle"} \subseteq Phase \ Sweep /\ phase[n] \in Phase \ Sweep
    BY <1>0 DEF Phase, Sweep, TypeOK
  <2>2. phase = [phase EXCEPT ![n] = phase[n]]
    BY DEF TypeOK
  <2> QED
    BY <1>4, <2>1, <2>2 DEF PreSettleDone, StartPreSettle, CoreDies, Enter
<1>5. ASSUME NEW n \in Node, NEW m \in Letter, PruneMessageArchives(n, m)
      PROVE  FALSE
  BY <1>0, <1>5 DEF PruneMessageArchives, AtLoop, InBody, Sweep
<1>6. ASSUME NEW n \in Node, PruneDeliveredLog(n)
      PROVE  FALSE
  BY <1>0, <1>6 DEF PruneDeliveredLog, Sweep
<1>7. ASSUME NEW n \in Node, NEW m \in Letter, Deliver(n, m)
      PROVE  /\ landed' \subseteq log' \cup inNew' \cup inCur'
             /\ UNCHANGED phase
  BY <1>0, <1>7 DEF Deliver, DeliverKnowing, Hold
<1>8. ASSUME NEW n \in Node, RecordDelivered(n)
      PROVE  log \subseteq log' /\ UNCHANGED <<landed, inNew, inCur, phase>>
  BY <1>8 DEF RecordDelivered, Hold
<1>9. ASSUME NEW n \in Node, Drain(n) \/ \E f \in File : AckRead(n, f)
      PROVE  inNew' \cup inCur' = inNew \cup inCur /\ UNCHANGED <<log, landed, phase>>
  BY <1>9 DEF Drain, AckRead
<1>10. ASSUME NEW n \in Node,
              \/ QueueAck(n) \/ ConsumeDelivered(n) \/ SettleUnspool(n) \/ ConsumeAck(n)
              \/ ExpireBury(n) \/ ExpireUnspool(n) \/ OperationFails(n)
              \/ \E m \in Letter : \/ CopyOutboxToSpool(n, m) \/ DropExpired(n, m)
                                    \/ SettleAck(n, m) \/ ExpireQueueBounce(n, m)
       PROVE  Held /\ UNCHANGED phase
  BY <1>10 DEF QueueAck, ConsumeDelivered, SettleUnspool, ConsumeAck, ExpireBury,
     ExpireUnspool, OperationFails, CopyOutboxToSpool, DropExpired, SettleAck,
     ExpireQueueBounce, Hold, Finish
<1>11. ASSUME NEW n \in Node,
              \/ StartExchange(n) \/ ExchangeFails(n)
              \/ PullDone(n) \/ PushDone(n) \/ ExchangeDone(n)
              \/ \E f \in File : \/ PullCopy(n, f) \/ PullRemove(n, f)
                                  \/ PushFile(n, f) \/ RemovePushedInfrastructure(n, f)
              \/ \E m \in Letter : Lapse(n, m)
       PROVE  Held /\ UNCHANGED phase
  BY <1>11 DEF StartExchange, ExchangeFails, PullDone, PushDone, ExchangeDone, PullCopy,
     PullRemove, PushFile, RemovePushedInfrastructure, Lapse
<1>12. ASSUME NEW n \in Node, \E p \in Phase \ Sweep : phase' = [phase EXCEPT ![n] = p]
       PROVE  \A k \in Node : phase'[k] \notin Sweep
  BY <1>0, <1>12 DEF TypeOK
<1> QED
  BY <1>0, <1>1, <1>2, <1>3, <1>4, <1>5, <1>6, <1>7, <1>8, <1>9, <1>10, <1>11, <1>12
     DEF Next, CoreStep, ExchangeStep

-----------------------------------------------------------------------------
(* The inductive invariant *)

\* Enough evidence is kept: what the theorem assumes of the system.
EvidenceKept == IOFaults = FALSE \/ Retention = FALSE

\* The invariant of the protocol under which every step keeps the promise.
PromiseInv ==
    /\ SafeInv /\ SentInv /\ KeptInv
    /\ IOFaults = FALSE => DedupInv

\* It holds of empty stores, and every step keeps it.
LEMMA PromiseAlways == Spec => []PromiseInv
<1>1. Init => PromiseInv
  BY SafeInit DEF Init, PromiseInv, SentInv, KeptInv, Sweep, DedupInv, Unrecorded
<1>2. PromiseInv /\ [Next]_vars => PromiseInv'
  BY SafeStep, SentStep, KeptStep, DedupStep DEF PromiseInv, SafeInv
<1> QED
  BY <1>1, <1>2, PTL DEF Spec

\* So a letter that Deliver installs is one its reader has never been given.
LEMMA InstallsOnlyTheNew ==
    ASSUME EvidenceKept, PromiseInv, NEW n \in Node, NEW k \in Letter, Deliver(n, k),
           NEW m \in Letter, Message(m) \in inNew' \ inNew
    PROVE  Message(m) \notin landed
<1>1. CASE Retention = FALSE
  BY <1>1 DEF PromiseInv, KeptInv, Deliver, DeliverKnowing
<1>2. CASE IOFaults = FALSE
  <2>1. OnceInv
    BY <1>2 DEF PromiseInv, OnceInv
  <2>2. [Next]_vars
    BY DEF Next, CoreStep
  <2> QED
    BY <2>1, <2>2, OnceStep
<1> QED
  BY <1>1, <1>2 DEF EvidenceKept

-----------------------------------------------------------------------------
(* Every step keeps the promise: it is a step of MailPromise, or invisible.  *)

\* What leaves the outboxes and the readers' view alone is invisible.
LEMMA Invisible ==
    ASSUME UNCHANGED outbox, \A m \in Letter : Seen(m)' = Seen(m)
    PROVE  UNCHANGED Promise!vars
BY DEF Promise!vars

\* The readers' view changes only with the unread mail and the installations.
LEMMA SeenSame ==
    ASSUME UNCHANGED <<inNew, landed>>
    PROVE  \A m \in Letter : Seen(m)' = Seen(m)
BY DEF Seen

\* khala send is the promise's Send.
LEMMA SendPromised ==
    ASSUME PromiseInv, NEW m \in Letter, Send(m)
    PROVE  Promise!Next
<1>1. /\ outbox[m] = "unsent"
      /\ outbox' = [outbox EXCEPT ![m] = "new"]
      /\ UNCHANGED <<inNew, landed>>
  BY DEF Send, PromiseInv, SentInv
<1>2. [k \in Letter |-> Seen(k)]' = [k \in Letter |-> Seen(k)]
  BY <1>1, SeenSame
<1> QED
  BY <1>1, <1>2 DEF Promise!Next, Promise!Send, Promise!Move

\* The burial by expire_outbox is the promise's GiveUp.
LEMMA GiveUpPromised ==
    ASSUME PromiseInv, NEW n \in Node, ExpireBury(n)
    PROVE  Promise!Next
<1>1. cur[n] \in Letter /\ outbox[cur[n]] = "new"
  BY DEF ExpireBury, InBody, PromiseInv, SafeInv, TypeOK, LoopInv, SentInv
<1>2. /\ outbox' = [outbox EXCEPT ![cur[n]] = "dead"]
      /\ UNCHANGED <<inNew, landed>>
  BY DEF ExpireBury
<1>3. [k \in Letter |-> Seen(k)]' = [k \in Letter |-> Seen(k)]
  BY <1>2, SeenSame
<1> QED
  BY <1>1, <1>2, <1>3 DEF Promise!Next, Promise!GiveUp, Promise!Move

\* The settlement by settle_acks is the promise's Settle, the first time.
LEMMA SettlePromised ==
    ASSUME PromiseInv, NEW n \in Node, NEW m \in Letter, SettleAck(n, m)
    PROVE  [Promise!Next]_(Promise!vars)
<1>1. /\ outbox' = [outbox EXCEPT ![m] = IF @ = "new" THEN "acked" ELSE @]
      /\ UNCHANGED <<inNew, landed>>
  BY DEF SettleAck
<1>2. \A k \in Letter : Seen(k)' = Seen(k)
  BY <1>1, SeenSame
<1>3. CASE outbox[m] = "new"
  <2>1. Message(m) \in landed
    BY DEF SettleAck, AtLoop, InBody, PromiseInv, SafeInv, LandedInv
  <2>2. Seen(m) # "none"
    BY <2>1 DEF Seen
  <2> QED
    BY <1>1, <1>2, <1>3, <2>2 DEF Promise!Next, Promise!Settle, Promise!Move
<1>4. CASE outbox[m] # "new"
  <2>1. outbox' = outbox
    BY <1>1, <1>4 DEF PromiseInv, SafeInv, TypeOK
  <2> QED
    BY <1>2, <2>1, Invisible
<1> QED
  BY <1>3, <1>4

\* Retention's sweep over settled letters is the promise's Forget.
LEMMA ForgetPromised ==
    ASSUME PromiseInv, NEW n \in Node, NEW m \in Letter, PruneMessageArchives(n, m)
    PROVE  [Promise!Next]_(Promise!vars)
<1>1. UNCHANGED <<inNew, landed>>
  BY DEF PruneMessageArchives
<1>2. \A k \in Letter : Seen(k)' = Seen(k)
  BY <1>1, SeenSame
<1>3. CASE UNCHANGED outbox
  BY <1>2, <1>3, Invisible
<1>4. CASE /\ outbox[m] \in {"acked", "dead"}
           /\ outbox' = [outbox EXCEPT ![m] = "pruned"]
  BY <1>2, <1>4 DEF Promise!Next, Promise!Forget, Promise!Move
<1> QED
  BY <1>3, <1>4 DEF PruneMessageArchives

\* The first installation of a letter is the promise's Land; of a bounce, or
\* of a letter already there, it is invisible.
LEMMA LandPromised ==
    ASSUME EvidenceKept, PromiseInv, NEW n \in Node, NEW k \in Letter, Deliver(n, k)
    PROVE  [Promise!Next]_(Promise!vars)
<1> DEFINE f == <<Delivering(n), k>>
<1>0. outbox' = outbox
  BY DEF Deliver, DeliverKnowing
<1>1. CASE UNCHANGED <<inNew, landed>>
  BY <1>0, <1>1, SeenSame, Invisible
<1>2. CASE /\ f \notin log \cup inNew \cup inCur
           /\ inNew' = inNew \cup {f}
           /\ landed' = landed \cup {f}
  <2>1. CASE phase[n] = "infra"
    <3>1. \A m \in Letter : Message(m) # f
      BY <2>1 DEF Message, Delivering
    <3>2. \A m \in Letter : Seen(m)' = Seen(m)
      BY <1>2, <3>1 DEF Seen
    <3> QED
      BY <1>0, <3>2, Invisible
  <2>2. CASE phase[n] = "deliver"
    <3>1. f = Message(k)
      BY <2>2 DEF Message, Delivering
    <3>2. k \in todo[n]
      BY DEF Deliver, DeliverKnowing, AtLoop
    <3>3. outbox[k] # "unsent"
      BY <2>2, <3>2 DEF PromiseInv, SentInv
    <3>4. Message(k) \notin landed
      BY <1>2, <3>1, InstallsOnlyTheNew
    <3>5. Seen(k) = "none" /\ Seen(k)' = "unread"
      BY <1>2, <3>1, <3>4 DEF Seen
    <3>6. \A m \in Letter \ {k} : Seen(m)' = Seen(m)
      BY <1>2, <3>1, Tokens DEF Seen
    <3>7. [m \in Letter |-> Seen(m)]' =
             [[m \in Letter |-> Seen(m)] EXCEPT ![k] = "unread"]
      BY <3>5, <3>6
    <3> QED
      BY <1>0, <3>3, <3>5, <3>7 DEF Promise!Next, Promise!Land, Promise!Move
  <2> QED
    BY <2>1, <2>2 DEF Deliver, DeliverKnowing, AtLoop, InBody
<1> QED
  BY <1>1, <1>2 DEF Deliver, DeliverKnowing

\* Moving mail from new to cur is the promise's Read of the messages moved.
LEMMA ReadPromised ==
    ASSUME PromiseInv, NEW read \in SUBSET inNew, inNew' = inNew \ read,
           UNCHANGED <<outbox, landed>>
    PROVE  Promise!Next
<1> DEFINE ms == {m \in Letter : Message(m) \in read}
<1>1. inNew \subseteq landed
  BY DEF PromiseInv, SafeInv, LandedInv
<1>2. \A m \in ms : Seen(m) = "unread" /\ Seen(m)' = "taken"
  BY <1>1 DEF Seen
<1>3. \A m \in Letter \ ms : Seen(m)' = Seen(m)
  BY DEF Seen
<1>4. Promise!Read(ms)
  BY <1>2, <1>3 DEF Promise!Read
<1> QED
  BY <1>4 DEF Promise!Next

\* One step of the protocol.
LEMMA PromiseStep ==
    ASSUME EvidenceKept, PromiseInv, [Next]_vars
    PROVE  [Promise!Next]_(Promise!vars)
<1> USE DEF store, core, xchg
<1> DEFINE Kept == UNCHANGED <<outbox, inNew, landed>>
           Promised == [Promise!Next]_(Promise!vars)
<1>0. Kept => Promised
  BY SeenSame, Invisible
<1>1. ASSUME UNCHANGED vars
      PROVE  Kept
  BY <1>1 DEF vars
<1>2. ASSUME NEW m \in Letter, SendStep(m) \/ SendDies(m)
      PROVE  Kept
  BY <1>2 DEF SendStep, SendCopy, SendLink, SendDies
<1>3. ASSUME NEW m \in Letter, Send(m)
      PROVE  Promised
  BY <1>3, SendPromised
<1>4. ASSUME NEW n \in Node, CoreStep(n)
      PROVE  Promised
  <2>1. CASE ExpireBury(n)
    BY <2>1, GiveUpPromised
  <2>2. ASSUME NEW m \in Letter,
               Deliver(n, m) \/ SettleAck(n, m) \/ PruneMessageArchives(n, m)
        PROVE  Promised
    BY <2>2, LandPromised, SettlePromised, ForgetPromised
  <2>3. ASSUME NEW m \in Letter,
               CopyOutboxToSpool(n, m) \/ DropExpired(n, m) \/ ExpireQueueBounce(n, m)
        PROVE  Kept
    BY <2>3 DEF CopyOutboxToSpool, DropExpired, ExpireQueueBounce
  <2>4. CASE NextPhase(n) \/ RecordDelivered(n) \/ QueueAck(n) \/ ConsumeDelivered(n)
               \/ SettleUnspool(n) \/ ConsumeAck(n) \/ ExpireUnspool(n)
               \/ PruneDeliveredLog(n) \/ PreSettleDone(n)
    <3>1. Kept
      BY <2>4 DEF NextPhase, RecordDelivered, QueueAck, ConsumeDelivered, SettleUnspool,
         ConsumeAck, ExpireUnspool, PruneDeliveredLog, PreSettleDone
    <3> QED
      BY <1>0, <3>1
  <2> HIDE DEF Promised, Kept
  <2> QED
    BY <1>0, <1>4, <2>1, <2>2, <2>3, <2>4 DEF CoreStep
<1>5. ASSUME NEW n \in Node, ExchangeStep(n)
      PROVE  Kept
  BY <1>5 DEF ExchangeStep, PullDone, PushDone, ExchangeDone, PullCopy, PullRemove,
     PushFile, RemovePushedInfrastructure
<1>6. ASSUME NEW n \in Node,
             \/ StartReconcile(n) \/ StartExchange(n) \/ StartPreSettle(n)
             \/ CoreDies(n) \/ OperationFails(n) \/ ExchangeFails(n)
             \/ \E m \in Letter : Lapse(n, m)
      PROVE  Kept
  BY <1>6 DEF StartReconcile, StartExchange, StartPreSettle, CoreDies, OperationFails,
     ExchangeFails, Lapse
<1>7. ASSUME NEW n \in Node, Drain(n)
      PROVE  Promised
  <2>1. PICK read \in SUBSET {f \in inNew : Home(f) = n} : inNew' = inNew \ read
    BY <1>7 DEF Drain
  <2>2. read \in SUBSET inNew /\ UNCHANGED <<outbox, landed>>
    BY <1>7 DEF Drain
  <2> QED
    BY <2>1, <2>2, ReadPromised
<1>8. ASSUME NEW n \in Node, NEW f \in File, AckRead(n, f)
      PROVE  Promised
  <2>1. {f} \in SUBSET inNew /\ inNew' = inNew \ {f} /\ UNCHANGED <<outbox, landed>>
    BY <1>8 DEF AckRead
  <2> QED
    BY <2>1, ReadPromised
<1> HIDE DEF Promised, Kept
<1>9. Promised
  BY <1>0, <1>1, <1>2, <1>3, <1>4, <1>5, <1>6, <1>7, <1>8 DEF Next
<1> QED
  BY <1>9 DEF Promised

\* For every network and any number of crashes and lost links: spools, locks,
\* retransmissions and retention together do what `khala send' promises.  A
\* letter is put before its reader at most once, and only after it was sent;
\* its sender reads "acked" only if it was; and it leaves the queue once.
THEOREM ProtocolKeepsPromise ==
    ASSUME EvidenceKept
    PROVE  Spec => KeepsPromise
<1>1. Init => Promise!Init
  BY DEF Init, Promise!Init, Seen
<1>2. PromiseInv /\ [Next]_vars => [Promise!Next]_(Promise!vars)
  BY PromiseStep
<1> QED
  BY <1>1, <1>2, PromiseAlways, PTL DEF Spec, KeepsPromise, Promise!Spec
=============================================================================
