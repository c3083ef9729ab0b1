----------------------------- MODULE MailProof ------------------------------
(***************************************************************************)
(* Theorems about Mail for any network, any letters and any number of      *)
(* faults: its type invariant, that acks prove delivery, and that no       *)
(* letter dies without a bounce.  One lemma per part of the inductive      *)
(* invariant of Mail, each with one step per action.                       *)
(***************************************************************************)
EXTENDS Mail, TLAPS

USE MailAssumption

-----------------------------------------------------------------------------
(* Files and loops *)

\* The three files of a letter are different files, and different letters have
\* different files; a message goes to its Dest, an ack or a bounce to its Origin
\* (infrastructure_message_id, queue_infrastructure_message).
LEMMA Tokens ==
    /\ \A m, k \in Letter :
          /\ Message(m) # Ack(k) /\ Message(m) # Bounce(k) /\ Ack(m) # Bounce(k)
          /\ Message(m) = Message(k) => m = k
          /\ Ack(m) = Ack(k) => m = k
          /\ Bounce(m) = Bounce(k) => m = k
    /\ \A m \in Letter :
          /\ Home(Message(m)) = Dest[m]
          /\ Home(Ack(m)) = Origin[m]
          /\ Home(Bounce(m)) = Origin[m]
BY DEF Message, Ack, Bounce, Home

\* The loops of reconcile_cycle run over letters.
LEMMA GlobType ==
    ASSUME NEW n, NEW p
    PROVE  Glob(n, p) \subseteq Letter
BY DEF Glob

\* Starting a loop keeps the bookkeeping well typed.
LEMMA EnterType ==
    ASSUME TypeOK, NEW n \in Node, NEW p \in Phase, Enter(n, p)
    PROVE  /\ phase' \in [Node -> Phase]
           /\ todo' \in [Node -> SUBSET Letter]
           /\ step' = step
           /\ cur' = cur
BY GlobType DEF Enter, TypeOK

\* So does moving on to the next loop that has something to do.
LEMMA AdvanceType ==
    ASSUME TypeOK, NEW n \in Node, Advance(n)
    PROVE  /\ phase' \in [Node -> Phase]
           /\ todo' \in [Node -> SUBSET Letter]
           /\ step' = step
           /\ cur' = cur
<1>1. PICK p \in Phase : Enter(n, p)
  BY DEF Advance, Ahead, Phase
<1> QED
  BY <1>1, EnterType



\* A pass starts no settlement of the exchange, and does not pass over the
\* delivery loop while spool/for/<self> holds a message.
LEMMA AdvanceEnters ==
    ASSUME NEW n \in Node, Advance(n)
    PROVE  \E p \in Phase \ {"presettle"} :
              /\ Enter(n, p)
              /\ phase[n] \in {"idle", "copy"} /\ Glob(n, "deliver") # {} => p \in {"copy", "deliver"}
<1>1. PICK due \in {FALSE, Retention} :
         \/ Ahead(n, due) = {} /\ Enter(n, "idle")
         \/ \E p \in Ahead(n, due) :
               (\A q \in Ahead(n, due) : Rank[p] <= Rank[q]) /\ Enter(n, p)
  BY DEF Advance
<1>2. phase[n] \in {"idle", "copy"} /\ Glob(n, "deliver") # {} => "deliver" \in Ahead(n, due)
  BY DEF Ahead, Rank, Phase, Sweep
<1>3. CASE Ahead(n, due) = {} /\ Enter(n, "idle")
  BY <1>2, <1>3 DEF Phase
<1>4. ASSUME NEW p \in Ahead(n, due), \A q \in Ahead(n, due) : Rank[p] <= Rank[q], Enter(n, p)
      PROVE  /\ p \in Phase \ {"presettle"}
             /\ phase[n] \in {"idle", "copy"} /\ Glob(n, "deliver") # {} => p \in {"copy", "deliver"}
  BY <1>2, <1>4 DEF Ahead, Rank, Phase
<1> QED
  BY <1>1, <1>3, <1>4

-----------------------------------------------------------------------------
(* Type correctness *)

\* Every step of every process keeps the shape of the store.
LEMMA TypeStep ==
    ASSUME TypeOK, [Next]_vars
    PROVE  TypeOK'
<1> USE DEF store, core, xchg
<1>1. CASE UNCHANGED vars
  BY <1>1 DEF vars, TypeOK, File, Kind, Outbox, SendPc, Phase, Step, XPc
<1>2. ASSUME NEW m \in Letter, Send(m)
      PROVE  TypeOK'
  BY <1>2 DEF Send, TypeOK, File, Kind, Outbox, SendPc, Phase, Step, XPc
<1>3. ASSUME NEW m \in Letter, SendCopy(m)
      PROVE  TypeOK'
  BY <1>3 DEF SendCopy, TypeOK, File, Kind, Outbox, SendPc, Phase, Step, XPc
<1>4. ASSUME NEW m \in Letter, SendLink(m)
      PROVE  TypeOK'
  BY <1>4 DEF SendLink, Message, TypeOK, File, Kind, Outbox, SendPc, Phase, Step, XPc
<1>5. ASSUME NEW m \in Letter, SendDies(m)
      PROVE  TypeOK'
  BY <1>5 DEF SendDies, Fault, TypeOK, File, Kind, Outbox, SendPc, Phase, Step, XPc
<1>6. ASSUME NEW n \in Node, StartReconcile(n)
      PROVE  TypeOK'
  BY <1>6, AdvanceType DEF StartReconcile, TypeOK
<1>7. ASSUME NEW n \in Node, NextPhase(n)
      PROVE  TypeOK'
  BY <1>7, AdvanceType DEF NextPhase, TypeOK
<1>8. ASSUME NEW n \in Node, RecordDelivered(n)
      PROVE  TypeOK'
  BY <1>8 DEF RecordDelivered, InBody, Delivering, Hold, AfterLog, TypeOK, File, Kind,
      Outbox, SendPc, Phase, Step, XPc
<1>9. ASSUME NEW n \in Node, QueueAck(n)
      PROVE  TypeOK'
  BY <1>9 DEF QueueAck, InBody, Ack, Hold, TypeOK, File, Kind, Outbox, SendPc, Phase,
      Step, XPc
<1>10. ASSUME NEW n \in Node, ConsumeDelivered(n)
      PROVE  TypeOK'
  BY <1>10 DEF ConsumeDelivered, InBody, Delivering, Finish, TypeOK, File, Kind, Outbox,
      SendPc, Phase, Step, XPc
<1>11. ASSUME NEW n \in Node, SettleUnspool(n)
      PROVE  TypeOK'
  BY <1>11 DEF SettleUnspool, InBody, Message, Hold, TypeOK, File, Kind, Outbox, SendPc,
      Phase, Step, XPc
<1>12. ASSUME NEW n \in Node, ConsumeAck(n)
      PROVE  TypeOK'
  BY <1>12 DEF ConsumeAck, InBody, Ack, Finish, TypeOK, File, Kind, Outbox, SendPc, Phase,
      Step, XPc
<1>13. ASSUME NEW n \in Node, ExpireBury(n)
      PROVE  TypeOK'
  BY <1>13 DEF ExpireBury, InBody, Hold, TypeOK, File, Kind, Outbox, SendPc, Phase, Step,
      XPc
<1>14. ASSUME NEW n \in Node, ExpireUnspool(n)
      PROVE  TypeOK'
  BY <1>14 DEF ExpireUnspool, InBody, Message, Finish, TypeOK, File, Kind, Outbox, SendPc,
      Phase, Step, XPc
<1>15. ASSUME NEW n \in Node, PruneDeliveredLog(n)
      PROVE  TypeOK'
  BY <1>15, EnterType DEF PruneDeliveredLog, TypeOK, Phase
<1>16. ASSUME NEW n \in Node, Drain(n)
      PROVE  TypeOK'
  BY <1>16 DEF Drain, Home, TypeOK, File, Kind, Outbox, SendPc, Phase, Step, XPc
<1>17. ASSUME NEW n \in Node, StartExchange(n)
      PROVE  TypeOK'
  BY <1>17 DEF StartExchange, PullList, Home, TypeOK, File, Kind, Outbox, SendPc, Phase,
      Step, XPc
<1>18. ASSUME NEW n \in Node, PullDone(n)
      PROVE  TypeOK'
  BY <1>18 DEF PullDone, PushedInfrastructure, Outgoing, TypeOK, XPc
<1>19. ASSUME NEW n \in Node, StartPreSettle(n)
      PROVE  TypeOK'
  <2>1. CASE Arrived(n, "ack") = {}
    <3>1. /\ UNCHANGED <<store, core, lapsed, sendPc, faults, xmoved>>
          /\ xpc' = [xpc EXCEPT ![n] = "push"]
          /\ xtodo' = [xtodo EXCEPT ![n] = Outgoing(n)]
      BY <1>19, <2>1 DEF StartPreSettle, StartPush
    <3>2. Outgoing(n) \subseteq File
      BY DEF Outgoing, TypeOK
    <3>3. xtodo' \in [Node -> SUBSET File] /\ xpc' \in [Node -> XPc]
      BY <3>1, <3>2 DEF TypeOK, XPc
    <3> QED
      BY <3>1, <3>3 DEF TypeOK
  <2>2. CASE Arrived(n, "ack") # {}
    BY <1>19, <2>2, EnterType DEF StartPreSettle, TypeOK, Phase
  <2> QED
    BY <2>1, <2>2
<1>20. ASSUME NEW n \in Node, PreSettleDone(n)
      PROVE  TypeOK'
  BY <1>20, EnterType DEF PreSettleDone, StartPush, Outgoing, TypeOK, Phase, XPc
<1>21. ASSUME NEW n \in Node, PushDone(n)
      PROVE  TypeOK'
  BY <1>21 DEF PushDone, PullList, Home, TypeOK, File, Kind, Outbox, SendPc, Phase, Step,
      XPc
<1>22. ASSUME NEW n \in Node, ExchangeDone(n)
      PROVE  TypeOK'
  BY <1>22 DEF ExchangeDone, TypeOK, File, Kind, Outbox, SendPc, Phase, Step, XPc
<1>23. ASSUME NEW n \in Node, CoreDies(n)
      PROVE  TypeOK'
  BY <1>23 DEF CoreDies, Fault, TypeOK, File, Kind, Outbox, SendPc, Phase, Step, XPc
<1>24. ASSUME NEW n \in Node, OperationFails(n)
      PROVE  TypeOK'
  <2>1. PICK m \in Letter \cup {None} : Finish(n, m)
    BY <1>24 DEF OperationFails, TypeOK
  <2>2. faults' \in 0..MaxFaults
    BY <1>24 DEF OperationFails, Fault, TypeOK
  <2> QED
    BY <1>24, <2>1, <2>2 DEF OperationFails, Finish, TypeOK, Step
<1>25. ASSUME NEW n \in Node, ExchangeFails(n)
      PROVE  TypeOK'
  BY <1>25 DEF ExchangeFails, Fault, TypeOK, File, Kind, Outbox, SendPc, Phase, Step, XPc
<1>26. ASSUME NEW n \in Node, NEW m \in Letter, CopyOutboxToSpool(n, m)
      PROVE  TypeOK'
  BY <1>26 DEF CopyOutboxToSpool, AtLoop, Message, Finish, InBody, TypeOK, File, Kind,
      Outbox, SendPc, Phase, Step, XPc
<1>27. ASSUME NEW n \in Node, NEW m \in Letter, DropExpired(n, m)
      PROVE  TypeOK'
  BY <1>27 DEF DropExpired, AtLoop, Message, Finish, InBody, TypeOK, File, Kind, Outbox,
      SendPc, Phase, Step, XPc
<1>28. ASSUME NEW n \in Node, NEW m \in Letter, Deliver(n, m)
      PROVE  TypeOK'
  <2>1. <<Delivering(n), m>> \in File
    BY DEF Delivering, File, Kind
  <2>2. inNew' \subseteq File /\ log' \subseteq File /\ landed' \subseteq File
    BY <1>28, <2>1 DEF Deliver, DeliverKnowing, TypeOK
  <2>3. \E s \in Step \ {"scan"} : Hold(n, m, s)
    BY <1>28 DEF Deliver, DeliverKnowing, AfterLog, Step
  <2> QED
    BY <1>28, <2>2, <2>3 DEF Deliver, DeliverKnowing, Hold, TypeOK
<1>29. ASSUME NEW n \in Node, NEW m \in Letter, SettleAck(n, m)
      PROVE  TypeOK'
  BY <1>29 DEF SettleAck, AtLoop, Hold, InBody, TypeOK, File, Kind, Outbox, SendPc, Phase,
      Step, XPc
<1>30. ASSUME NEW n \in Node, NEW m \in Letter, ExpireQueueBounce(n, m)
      PROVE  TypeOK'
  BY <1>30 DEF ExpireQueueBounce, AtLoop, Bounce, Hold, InBody, TypeOK, File, Kind,
      Outbox, SendPc, Phase, Step, XPc
<1>31. ASSUME NEW n \in Node, NEW m \in Letter, PruneMessageArchives(n, m)
      PROVE  TypeOK'
  BY <1>31 DEF PruneMessageArchives, AtLoop, Home, Finish, InBody, TypeOK, File, Kind,
      Outbox, SendPc, Phase, Step, XPc
<1>32. ASSUME NEW n \in Node, NEW m \in Letter, Lapse(n, m)
      PROVE  TypeOK'
  BY <1>32 DEF Lapse, TypeOK, File, Kind, Outbox, SendPc, Phase, Step, XPc
<1>33. ASSUME NEW n \in Node, NEW f \in File, AckRead(n, f)
      PROVE  TypeOK'
  BY <1>33 DEF AckRead, Home, TypeOK, File, Kind, Outbox, SendPc, Phase, Step, XPc
<1>34. ASSUME NEW n \in Node, NEW f \in File, PullCopy(n, f)
      PROVE  TypeOK'
  BY <1>34 DEF PullCopy, TypeOK, File, Kind, Outbox, SendPc, Phase, Step, XPc
<1>35. ASSUME NEW n \in Node, NEW f \in File, PullRemove(n, f)
      PROVE  TypeOK'
  BY <1>35 DEF PullRemove, TypeOK, File, Kind, Outbox, SendPc, Phase, Step, XPc
<1>36. ASSUME NEW n \in Node, NEW f \in File, PushFile(n, f)
      PROVE  TypeOK'
  BY <1>36 DEF PushFile, Outgoing, Home, TypeOK, File, Kind, Outbox, SendPc, Phase, Step,
      XPc
<1>37. ASSUME NEW n \in Node, NEW f \in File, RemovePushedInfrastructure(n, f)
      PROVE  TypeOK'
  BY <1>37 DEF RemovePushedInfrastructure, TypeOK, File, Kind, Outbox, SendPc, Phase,
      Step, XPc
<1> QED
  BY <1>1, <1>2, <1>3, <1>4, <1>5, <1>6, <1>7, <1>8, <1>9, <1>10, <1>11, <1>12, <1>13,
      <1>14, <1>15, <1>16, <1>17, <1>18, <1>19, <1>20, <1>21, <1>22, <1>23, <1>24,
      <1>25, <1>26, <1>27, <1>28, <1>29, <1>30, <1>31, <1>32, <1>33, <1>34, <1>35,
      <1>36, <1>37 DEF Next, CoreStep, ExchangeStep, SendStep

-----------------------------------------------------------------------------
(* The lock holder's loops and the exchange's transfers *)

\* A loop's glob yields letters of the loop's kind.
LEMMA EnterLoop ==
    ASSUME TypeOK, LoopInv, NEW n \in Node, NEW p \in Phase, Enter(n, p), step[n] = "scan",
           lapsed' = lapsed
    PROVE  LoopInv'
BY DEF Enter, LoopInv, TypeOK, Glob, Queue, Arrived, Home

\* The bodies of the loops only ever work on such letters.
LEMMA LoopStep ==
    ASSUME TypeOK, LoopInv, [Next]_vars
    PROVE  LoopInv'
<1> USE DEF store, core, xchg
<1>1. CASE UNCHANGED vars
  BY <1>1 DEF vars, LoopInv, TypeOK
<1>2. ASSUME NEW m \in Letter, Send(m) \/ SendCopy(m) \/ SendLink(m) \/ SendDies(m)
      PROVE  LoopInv'
  BY <1>2 DEF Send, SendCopy, SendLink, SendDies, Fault, LoopInv, TypeOK
<1>3. ASSUME NEW n \in Node, StartReconcile(n)
      PROVE  LoopInv'
  BY <1>3, AdvanceEnters, EnterLoop DEF StartReconcile, LoopInv
<1>4. ASSUME NEW n \in Node, NextPhase(n)
      PROVE  LoopInv'
  BY <1>4, AdvanceEnters, EnterLoop DEF NextPhase, LoopDone, InBody
<1>5. ASSUME NEW n \in Node, RecordDelivered(n) \/ QueueAck(n) \/ ConsumeDelivered(n) \/
             SettleUnspool(n) \/ ConsumeAck(n) \/ ExpireBury(n) \/ ExpireUnspool(n)
      PROVE  LoopInv'
  BY <1>5 DEF RecordDelivered, QueueAck, ConsumeDelivered, SettleUnspool, ConsumeAck,
      ExpireBury, ExpireUnspool, InBody, Delivering, Hold, AfterLog, Finish, LoopInv,
      TypeOK
<1>6. ASSUME NEW n \in Node, PruneDeliveredLog(n)
      PROVE  LoopInv'
  BY <1>6 DEF PruneDeliveredLog, Enter, Glob, LoopInv, TypeOK
<1>7. ASSUME NEW n \in Node, Drain(n) \/ StartExchange(n) \/ PullDone(n) \/ PushDone(n)
             \/ ExchangeDone(n) \/ ExchangeFails(n)
      PROVE  LoopInv'
  BY <1>7 DEF Drain, StartExchange, PullDone, PushDone, ExchangeDone, ExchangeFails,
      PullList, PushedInfrastructure, Fault, Outgoing, LoopInv, TypeOK
<1>8. ASSUME NEW n \in Node, StartPreSettle(n)
      PROVE  LoopInv'
  <2>1. CASE UNCHANGED core
    BY <1>8, <2>1 DEF StartPreSettle, LoopInv
  <2>2. CASE Enter(n, "presettle")
    BY <1>8, <2>2, EnterLoop DEF StartPreSettle, LoopInv, Phase
  <2> QED
    BY <1>8, <2>1, <2>2 DEF StartPreSettle
<1>9. ASSUME NEW n \in Node, PreSettleDone(n)
      PROVE  LoopInv'
  BY <1>9 DEF PreSettleDone, LoopDone, Enter, StartPush, InBody, Glob, Outgoing, LoopInv,
      TypeOK
<1>10. ASSUME NEW n \in Node, CoreDies(n)
      PROVE  LoopInv'
  BY <1>10 DEF CoreDies, Fault, LoopInv, TypeOK
<1>11. ASSUME NEW n \in Node, OperationFails(n)
      PROVE  LoopInv'
  BY <1>11 DEF OperationFails, Fault, Finish, LoopInv, TypeOK
<1>12. ASSUME NEW n \in Node, NEW m \in Letter, CopyOutboxToSpool(n, m)
      PROVE  LoopInv'
  BY <1>12 DEF CopyOutboxToSpool, AtLoop, Finish, InBody, LoopInv, TypeOK
<1>13. ASSUME NEW n \in Node, NEW m \in Letter, DropExpired(n, m)
      PROVE  LoopInv'
  BY <1>13 DEF DropExpired, AtLoop, Finish, InBody, LoopInv, TypeOK
<1>14. ASSUME NEW n \in Node, NEW m \in Letter, Deliver(n, m)
      PROVE  LoopInv'
  BY <1>14 DEF Deliver, DeliverKnowing, Delivering, AtLoop, Hold, AfterLog, InBody,
      LoopInv, TypeOK
<1>15. ASSUME NEW n \in Node, NEW m \in Letter, SettleAck(n, m)
      PROVE  LoopInv'
  BY <1>15 DEF SettleAck, AtLoop, Hold, InBody, LoopInv, TypeOK
<1>16. ASSUME NEW n \in Node, NEW m \in Letter, ExpireQueueBounce(n, m)
      PROVE  LoopInv'
  BY <1>16 DEF ExpireQueueBounce, AtLoop, Hold, InBody, LoopInv, TypeOK
<1>17. ASSUME NEW n \in Node, NEW m \in Letter, PruneMessageArchives(n, m)
      PROVE  LoopInv'
  BY <1>17 DEF PruneMessageArchives, AtLoop, Finish, InBody, LoopInv, TypeOK
<1>18. ASSUME NEW n \in Node, NEW m \in Letter, Lapse(n, m)
      PROVE  LoopInv'
  BY <1>18 DEF Lapse, LoopInv, TypeOK
<1>19. ASSUME NEW n \in Node, NEW f \in File, AckRead(n, f) \/ PullCopy(n, f) \/
             PullRemove(n, f) \/ PushFile(n, f) \/ RemovePushedInfrastructure(n, f)
      PROVE  LoopInv'
  BY <1>19 DEF AckRead, PullCopy, PullRemove, PushFile, RemovePushedInfrastructure,
      Outgoing, LoopInv, TypeOK
<1> QED
  BY <1>1, <1>2, <1>3, <1>4, <1>5, <1>6, <1>7, <1>8, <1>9, <1>10, <1>11, <1>12, <1>13,
      <1>14, <1>15, <1>16, <1>17, <1>18, <1>19 DEF Next, CoreStep, ExchangeStep,
      SendStep

\* Transfers stay within the direction they were started for.
LEMMA LinkStep ==
    ASSUME TypeOK, LinkInv, [Next]_vars
    PROVE  LinkInv'
<1> USE DEF store, core, xchg
<1>1. CASE UNCHANGED vars
  BY <1>1 DEF vars, LinkInv, TypeOK, Home
<1>2. ASSUME NEW m \in Letter, Send(m) \/ SendCopy(m) \/ SendLink(m) \/ SendDies(m)
      PROVE  LinkInv'
  BY <1>2 DEF Send, SendCopy, SendLink, SendDies, Fault, LinkInv, TypeOK, Home
<1>3. ASSUME NEW n \in Node, StartReconcile(n)
      PROVE  LinkInv'
  BY <1>3, AdvanceEnters DEF StartReconcile, Enter, LinkInv, TypeOK
<1>4. ASSUME NEW n \in Node, NextPhase(n)
      PROVE  LinkInv'
  BY <1>4, AdvanceEnters DEF NextPhase, Enter, LinkInv, TypeOK
<1>5. ASSUME NEW n \in Node, RecordDelivered(n) \/ QueueAck(n) \/ ConsumeDelivered(n) \/
             SettleUnspool(n) \/ ConsumeAck(n) \/ ExpireBury(n) \/ ExpireUnspool(n) \/
             Drain(n) \/ OperationFails(n)
      PROVE  LinkInv'
  BY <1>5 DEF RecordDelivered, QueueAck, ConsumeDelivered, SettleUnspool, ConsumeAck,
      ExpireBury, ExpireUnspool, Drain, OperationFails, InBody, Delivering, Hold,
      AfterLog, Finish, Fault, LinkInv, TypeOK, Home
<1>6. ASSUME NEW n \in Node, PruneDeliveredLog(n)
      PROVE  LinkInv'
  BY <1>6 DEF PruneDeliveredLog, Enter, Glob, LinkInv, TypeOK, Home
<1>7. ASSUME NEW n \in Node, StartExchange(n)
      PROVE  LinkInv'
  BY <1>7 DEF StartExchange, PullList, LinkInv, TypeOK, Home
<1>8. ASSUME NEW n \in Node, PullDone(n)
      PROVE  LinkInv'
  BY <1>8 DEF PullDone, PushedInfrastructure, Outgoing, LinkInv, TypeOK, Home
<1>9. ASSUME NEW n \in Node, StartPreSettle(n)
      PROVE  LinkInv'
  BY <1>9 DEF StartPreSettle, StartPush, Enter, Outgoing, Glob, LinkInv, TypeOK, Home
<1>10. ASSUME NEW n \in Node, PreSettleDone(n)
      PROVE  LinkInv'
  BY <1>10 DEF PreSettleDone, LoopDone, Enter, StartPush, InBody, Glob, Outgoing, LinkInv,
      TypeOK, Home
<1>11. ASSUME NEW n \in Node, PushDone(n)
      PROVE  LinkInv'
  BY <1>11 DEF PushDone, PullList, LinkInv, TypeOK, Home
<1>12. ASSUME NEW n \in Node, ExchangeDone(n)
      PROVE  LinkInv'
  BY <1>12 DEF ExchangeDone, LinkInv, TypeOK, Home
<1>13. ASSUME NEW n \in Node, CoreDies(n)
      PROVE  LinkInv'
  BY <1>13 DEF CoreDies, Fault, LinkInv, TypeOK, Home
<1>14. ASSUME NEW n \in Node, ExchangeFails(n)
      PROVE  LinkInv'
  BY <1>14 DEF ExchangeFails, Fault, LinkInv, TypeOK, Home
<1>15. ASSUME NEW n \in Node, NEW m \in Letter, CopyOutboxToSpool(n, m) \/
             DropExpired(n, m) \/ Deliver(n, m) \/ SettleAck(n, m) \/
             ExpireQueueBounce(n, m) \/ PruneMessageArchives(n, m) \/ Lapse(n, m)
      PROVE  LinkInv'
  BY <1>15 DEF CopyOutboxToSpool, DropExpired, Deliver, SettleAck, ExpireQueueBounce,
      PruneMessageArchives, Lapse, AtLoop, Finish, DeliverKnowing, Hold, InBody,
      Delivering, AfterLog, LinkInv, TypeOK, Home
<1>16. ASSUME NEW n \in Node, NEW f \in File, AckRead(n, f)
      PROVE  LinkInv'
  BY <1>16 DEF AckRead, LinkInv, TypeOK, Home
<1>17. ASSUME NEW n \in Node, NEW f \in File, PullCopy(n, f)
      PROVE  LinkInv'
  BY <1>17 DEF PullCopy, LinkInv, TypeOK, Home
<1>18. ASSUME NEW n \in Node, NEW f \in File, PullRemove(n, f)
      PROVE  LinkInv'
  BY <1>18 DEF PullRemove, LinkInv, TypeOK, Home
<1>19. ASSUME NEW n \in Node, NEW f \in File, PushFile(n, f)
      PROVE  LinkInv'
  BY <1>19 DEF PushFile, Outgoing, LinkInv, TypeOK, Home
<1>20. ASSUME NEW n \in Node, NEW f \in File, RemovePushedInfrastructure(n, f)
      PROVE  LinkInv'
  BY <1>20 DEF RemovePushedInfrastructure, LinkInv, TypeOK, Home
<1> QED
  BY <1>1, <1>2, <1>3, <1>4, <1>5, <1>6, <1>7, <1>8, <1>9, <1>10, <1>11, <1>12, <1>13,
      <1>14, <1>15, <1>16, <1>17, <1>18, <1>19, <1>20 DEF Next, CoreStep, ExchangeStep,
      SendStep

-----------------------------------------------------------------------------
(* Nothing speaks of a delivery before it happened *)

\* An ack found by a glob is for a delivered letter.
LEMMA EnterLanded ==
    ASSUME TypeOK, LandedInv, NEW n \in Node, NEW p \in Phase, Enter(n, p), step[n] = "scan",
           UNCHANGED <<outbox, spool, inNew, inCur, landed, xtodo>>, log' \subseteq log
    PROVE  LandedInv'
<1>1. p \in {"settle", "presettle"} => \A m \in Glob(n, p) : Message(m) \in landed
  BY DEF Glob, Arrived, LandedInv, Ack
<1> QED
  BY <1>1 DEF Enter, LandedInv, TypeOK, Delivering

\* Acks, dedup records and inbox files all come after the installation.
LEMMA LandedStep ==
    ASSUME TypeOK, LoopInv, LandedInv, [Next]_vars
    PROVE  LandedInv'
<1> USE DEF store, core, xchg
<1>1. CASE UNCHANGED vars
  BY <1>1 DEF vars, LandedInv, TypeOK, Delivering
<1>2. ASSUME NEW m \in Letter, Send(m) \/ SendCopy(m) \/ SendDies(m)
      PROVE  LandedInv'
  BY <1>2 DEF Send, SendCopy, SendDies, Fault, LandedInv, TypeOK, Delivering
<1>3. ASSUME NEW m \in Letter, SendLink(m)
      PROVE  LandedInv'
  BY <1>3, Tokens DEF SendLink, LandedInv, TypeOK, Delivering
<1>4. ASSUME NEW n \in Node, StartReconcile(n)
      PROVE  LandedInv'
  BY <1>4, AdvanceEnters, EnterLanded DEF StartReconcile, LoopInv
<1>5. ASSUME NEW n \in Node, NextPhase(n)
      PROVE  LandedInv'
  BY <1>5, AdvanceEnters, EnterLanded DEF NextPhase, LoopDone, InBody
<1>6. ASSUME NEW n \in Node, RecordDelivered(n)
      PROVE  LandedInv'
  BY <1>6 DEF RecordDelivered, InBody, Delivering, Hold, AfterLog, LandedInv, TypeOK
<1>7. ASSUME NEW n \in Node, QueueAck(n)
      PROVE  LandedInv'
  <2>1. Message(cur[n]) \in landed
    BY <1>7 DEF QueueAck, InBody, LandedInv, Delivering, Message
  <2>2. \A m \in Letter : Ack(m) = Ack(cur[n]) => m = cur[n]
    BY DEF Ack
  <2> QED
    BY <1>7, <2>1, <2>2 DEF QueueAck, InBody, Hold, LandedInv, TypeOK, Delivering
<1>8. ASSUME NEW n \in Node, ConsumeDelivered(n)
      PROVE  LandedInv'
  BY <1>8 DEF ConsumeDelivered, InBody, Delivering, Finish, LandedInv, TypeOK
<1>9. ASSUME NEW n \in Node, SettleUnspool(n)
      PROVE  LandedInv'
  BY <1>9 DEF SettleUnspool, InBody, Hold, LandedInv, TypeOK, Delivering
<1>10. ASSUME NEW n \in Node, ConsumeAck(n)
      PROVE  LandedInv'
  BY <1>10 DEF ConsumeAck, InBody, Finish, LandedInv, TypeOK, Delivering
<1>11. ASSUME NEW n \in Node, ExpireBury(n)
      PROVE  LandedInv'
  BY <1>11 DEF ExpireBury, InBody, Hold, LandedInv, TypeOK, Delivering
<1>12. ASSUME NEW n \in Node, ExpireUnspool(n)
      PROVE  LandedInv'
  BY <1>12 DEF ExpireUnspool, InBody, Finish, LandedInv, TypeOK, Delivering
<1>13. ASSUME NEW n \in Node, PruneDeliveredLog(n)
      PROVE  LandedInv'
  BY <1>13, EnterLanded DEF PruneDeliveredLog, LoopInv, Phase
<1>14. ASSUME NEW n \in Node, Drain(n)
      PROVE  LandedInv'
  BY <1>14 DEF Drain, LandedInv, TypeOK, Delivering
<1>15. ASSUME NEW n \in Node, StartExchange(n)
      PROVE  LandedInv'
  BY <1>15 DEF StartExchange, PullList, LandedInv, TypeOK, Delivering
<1>16. ASSUME NEW n \in Node, PullDone(n)
      PROVE  LandedInv'
  BY <1>16 DEF PullDone, PushedInfrastructure, Outgoing, LandedInv, TypeOK, Delivering
<1>17. ASSUME NEW n \in Node, StartPreSettle(n)
      PROVE  LandedInv'
  <2>1. CASE Arrived(n, "ack") = {}
    BY <1>17, <2>1 DEF StartPreSettle, StartPush, Outgoing, LandedInv, TypeOK, Delivering
  <2>2. CASE Arrived(n, "ack") # {}
    BY <1>17, <2>2, EnterLanded DEF StartPreSettle, LoopInv, Phase
  <2> QED
    BY <2>1, <2>2
<1>18. ASSUME NEW n \in Node, PreSettleDone(n)
      PROVE  LandedInv'
  <2>1. PICK t \in SUBSET spool[n] : xtodo' = [xtodo EXCEPT ![n] = t]
    BY <1>18 DEF PreSettleDone, StartPush, Outgoing
  <2> QED
    BY <1>18, <2>1 DEF PreSettleDone, Enter, LoopDone, InBody, LandedInv, TypeOK, Delivering
<1>19. ASSUME NEW n \in Node, PushDone(n)
      PROVE  LandedInv'
  BY <1>19 DEF PushDone, PullList, LandedInv, TypeOK, Delivering
<1>20. ASSUME NEW n \in Node, ExchangeDone(n)
      PROVE  LandedInv'
  BY <1>20 DEF ExchangeDone, LandedInv, TypeOK, Delivering
<1>21. ASSUME NEW n \in Node, CoreDies(n)
      PROVE  LandedInv'
  BY <1>21 DEF CoreDies, Fault, LandedInv, TypeOK, Delivering
<1>22. ASSUME NEW n \in Node, OperationFails(n)
      PROVE  LandedInv'
  <2>1. PICK m \in Letter \cup {None} : Finish(n, m)
    BY <1>22 DEF OperationFails, TypeOK
  <2> QED
    BY <1>22, <2>1 DEF OperationFails, Finish, LandedInv, TypeOK, Delivering
<1>23. ASSUME NEW n \in Node, ExchangeFails(n)
      PROVE  LandedInv'
  BY <1>23 DEF ExchangeFails, Fault, LandedInv, TypeOK, Delivering
<1>24. ASSUME NEW n \in Node, NEW m \in Letter, CopyOutboxToSpool(n, m)
      PROVE  LandedInv'
  BY <1>24, Tokens DEF CopyOutboxToSpool, AtLoop, Finish, InBody, LandedInv, TypeOK,
      Delivering
<1>25. ASSUME NEW n \in Node, NEW m \in Letter, DropExpired(n, m)
      PROVE  LandedInv'
  BY <1>25 DEF DropExpired, AtLoop, Finish, InBody, LandedInv, TypeOK, Delivering
<1>26. ASSUME NEW n \in Node, NEW m \in Letter, Deliver(n, m)
      PROVE  LandedInv'
  <2> DEFINE known == log \cup inNew \cup inCur
             g == <<Delivering(n), m>>
  <2>1. /\ phase[n] \in {"deliver", "infra"}
        /\ cur' = [cur EXCEPT ![n] = m]
        /\ UNCHANGED <<outbox, spool, inCur, xchg, phase, todo>>
        /\ \E s \in Step : step' = [step EXCEPT ![n] = s]
    BY <1>26 DEF Deliver, DeliverKnowing, AtLoop, InBody, Hold, AfterLog, Step
  <2>2. /\ log' \cup inNew' \cup inCur' = known \cup {g}
        /\ landed' = landed \cup {g}
    BY <1>26 DEF Deliver, DeliverKnowing, LandedInv
  <2>3. <<Delivering(n), m>>' \in landed'
    BY <2>1, <2>2 DEF Delivering
  <2> QED
    BY <2>1, <2>2, <2>3 DEF LandedInv, TypeOK, Delivering
<1>27. ASSUME NEW n \in Node, NEW m \in Letter, SettleAck(n, m)
      PROVE  LandedInv'
  BY <1>27 DEF SettleAck, AtLoop, Hold, InBody, LandedInv, TypeOK, Delivering
<1>28. ASSUME NEW n \in Node, NEW m \in Letter, ExpireQueueBounce(n, m)
      PROVE  LandedInv'
  BY <1>28 DEF ExpireQueueBounce, AtLoop, Hold, InBody, Ack, Bounce, LandedInv, TypeOK,
      Delivering
<1>29. ASSUME NEW n \in Node, NEW m \in Letter, PruneMessageArchives(n, m)
      PROVE  LandedInv'
  BY <1>29 DEF PruneMessageArchives, AtLoop, Finish, InBody, LandedInv, TypeOK, Delivering
<1>30. ASSUME NEW n \in Node, NEW m \in Letter, Lapse(n, m)
      PROVE  LandedInv'
  BY <1>30 DEF Lapse, LandedInv, TypeOK, Delivering
<1>31. ASSUME NEW n \in Node, NEW f \in File, AckRead(n, f)
      PROVE  LandedInv'
  BY <1>31 DEF AckRead, LandedInv, TypeOK, Delivering
<1>32. ASSUME NEW n \in Node, NEW f \in File, PullCopy(n, f)
      PROVE  LandedInv'
  BY <1>32 DEF PullCopy, LandedInv, TypeOK, Delivering
<1>33. ASSUME NEW n \in Node, NEW f \in File, PullRemove(n, f)
      PROVE  LandedInv'
  BY <1>33 DEF PullRemove, LandedInv, TypeOK, Delivering
<1>34. ASSUME NEW n \in Node, NEW f \in File, PushFile(n, f)
      PROVE  LandedInv'
  <2>1. \A k \in Node, m \in Letter :
           Ack(m) \in spool'[k] \cup xtodo'[k] => Message(m) \in landed'
    BY <1>34 DEF PushFile, Outgoing, TypeOK, LandedInv
  <2> QED
    BY <1>34, <2>1 DEF PushFile, LandedInv, TypeOK, Delivering
<1>35. ASSUME NEW n \in Node, NEW f \in File, RemovePushedInfrastructure(n, f)
      PROVE  LandedInv'
  BY <1>35 DEF RemovePushedInfrastructure, LandedInv, TypeOK, Delivering
<1> QED
  BY <1>1, <1>2, <1>3, <1>4, <1>5, <1>6, <1>7, <1>8, <1>9, <1>10, <1>11, <1>12, <1>13,
      <1>14, <1>15, <1>16, <1>17, <1>18, <1>19, <1>20, <1>21, <1>22, <1>23, <1>24,
      <1>25, <1>26, <1>27, <1>28, <1>29, <1>30, <1>31, <1>32, <1>33, <1>34, <1>35 DEF
      Next, CoreStep, ExchangeStep, SendStep

-----------------------------------------------------------------------------
(* A letter is buried after its bounce is queued *)

\* Only ExpireBury makes a letter dead.
LEMMA OnlyBuryKills ==
    ASSUME [Next]_vars, NEW m \in Letter, outbox \in [Letter -> Outbox],
           outbox'[m] = "dead", outbox[m] # "dead"
    PROVE  \E n \in Node : ExpireBury(n) /\ cur[n] = m
<1> USE DEF store, core, xchg
<1>1. CASE UNCHANGED vars
  BY <1>1 DEF vars
<1>2. CASE \E l \in Letter : Send(l) \/ SendStep(l) \/ SendDies(l)
  BY <1>2 DEF SendStep, Send, SendCopy, SendLink, SendDies
<1>3. ASSUME NEW n \in Node, CoreStep(n)
      PROVE  ExpireBury(n) /\ cur[n] = m
  <2>1. CASE ExpireBury(n)
    BY <2>1 DEF ExpireBury
  <2>2. ASSUME NEW k \in Letter, SettleAck(n, k)
        PROVE  FALSE
    BY <2>2 DEF SettleAck
  <2>3. ASSUME NEW k \in Letter, PruneMessageArchives(n, k)
        PROVE  FALSE
    BY <2>3 DEF PruneMessageArchives
  <2>4. ASSUME NEW k \in Letter,
               CopyOutboxToSpool(n, k) \/ DropExpired(n, k) \/ Deliver(n, k)
                 \/ ExpireQueueBounce(n, k)
        PROVE  FALSE
    BY <2>4 DEF CopyOutboxToSpool, DropExpired, Deliver, DeliverKnowing, ExpireQueueBounce
  <2>5. CASE NextPhase(n) \/ RecordDelivered(n) \/ QueueAck(n) \/ ConsumeDelivered(n)
               \/ SettleUnspool(n) \/ ConsumeAck(n) \/ ExpireUnspool(n)
               \/ PruneDeliveredLog(n) \/ PreSettleDone(n)
    BY <2>5 DEF NextPhase, RecordDelivered, QueueAck, ConsumeDelivered, SettleUnspool,
       ConsumeAck, ExpireUnspool, PruneDeliveredLog, PreSettleDone
  <2> QED
    BY <1>3, <2>1, <2>2, <2>3, <2>4, <2>5 DEF CoreStep
<1>4. ASSUME NEW n \in Node, ExchangeStep(n)
      PROVE  FALSE
  BY <1>4 DEF ExchangeStep, PullDone, PushDone, ExchangeDone, PullCopy, PullRemove,
     PushFile, RemovePushedInfrastructure
<1>5. ASSUME NEW n \in Node,
             \/ StartReconcile(n) \/ Drain(n) \/ StartExchange(n)
             \/ StartPreSettle(n) \/ CoreDies(n) \/ OperationFails(n)
             \/ ExchangeFails(n)
             \/ \E f \in File : AckRead(n, f)
             \/ \E k \in Letter : Lapse(n, k)
      PROVE  FALSE
  BY <1>5 DEF StartReconcile, Drain, StartExchange, StartPreSettle, CoreDies,
     OperationFails, ExchangeFails, AckRead, Lapse
<1> QED
  BY <1>1, <1>2, <1>3, <1>4, <1>5 DEF Next

\* A bounce leaves the sender's spool only into the sender's inbox: neither the
\* purge nor the upstream's side of a pull can take it on its way.
LEMMA BounceStays ==
    ASSUME TypeOK, LoopInv, LinkInv, LandedInv, [Next]_vars,
           NEW m \in Letter, Bounce(m) \in spool[Origin[m]] \cup landed
    PROVE  Bounce(m) \in spool'[Origin[m]] \cup landed'
<1> USE DEF store, core, xchg
<1> DEFINE Stays == Bounce(m) \in spool'[Origin[m]] \cup landed'
<1>0. /\ Origin[m] \in Node
      /\ spool \in [Node -> SUBSET File]
      /\ \A k \in Letter : Message(k) # Bounce(m) /\ Ack(k) # Bounce(m)
      /\ Home(Bounce(m)) = Origin[m]
  BY Tokens DEF TypeOK
<1>1. CASE UNCHANGED vars
  BY <1>1 DEF vars
<1>2. ASSUME NEW l \in Letter, Send(l) \/ SendStep(l) \/ SendDies(l)
      PROVE  Stays
  BY <1>0, <1>2 DEF SendStep, Send, SendCopy, SendLink, SendDies
<1>3. ASSUME NEW n \in Node, CoreStep(n)
      PROVE  Stays
  <2>0. \A k \in Letter \cup {None} : cur[n] = k /\ step[n] # "scan" => k \in Letter
    BY DEF TypeOK
  <2>1. CASE ConsumeDelivered(n)
    <3>1. /\ <<Delivering(n), cur[n]>> \in landed
          /\ landed' = landed
          /\ spool' = [spool EXCEPT ![n] = @ \ {<<Delivering(n), cur[n]>>}]
      BY <2>1 DEF ConsumeDelivered, InBody, LandedInv
    <3> QED
      BY <1>0, <3>1
  <2>2. ASSUME NEW k \in Letter,
               \/ CopyOutboxToSpool(n, k) \/ ExpireQueueBounce(n, k)
               \/ SettleAck(n, k) \/ PruneMessageArchives(n, k) \/ Deliver(n, k)
        PROVE  Stays
    BY <1>0, <2>2 DEF CopyOutboxToSpool, ExpireQueueBounce, SettleAck,
       PruneMessageArchives, Deliver, DeliverKnowing
  <2>3. ASSUME NEW k \in Letter, DropExpired(n, k)
        PROVE  Stays
    BY <1>0, <2>3 DEF DropExpired
  <2>4. CASE SettleUnspool(n) \/ ConsumeAck(n) \/ ExpireUnspool(n)
    <3>1. cur[n] \in Letter
      BY <2>4 DEF SettleUnspool, ConsumeAck, ExpireUnspool, InBody, TypeOK
    <3> QED
      BY <1>0, <2>4, <3>1 DEF SettleUnspool, ConsumeAck, ExpireUnspool
  <2>5. CASE NextPhase(n) \/ RecordDelivered(n) \/ QueueAck(n) \/ ExpireBury(n)
               \/ PruneDeliveredLog(n) \/ PreSettleDone(n)
    BY <1>0, <2>5 DEF NextPhase, RecordDelivered, QueueAck, ExpireBury,
       PruneDeliveredLog, PreSettleDone
  <2> QED
    BY <1>3, <2>1, <2>2, <2>3, <2>4, <2>5 DEF CoreStep
<1>4. ASSUME NEW n \in Node, ExchangeStep(n)
      PROVE  Stays
  <2>1. ASSUME NEW f \in File, PullRemove(n, f)
        PROVE  Stays
    <3>1. Home(f) = n /\ n # Hub
      BY <2>1 DEF PullRemove, LinkInv
    <3> QED
      BY <1>0, <2>1, <3>1, MailAssumption DEF PullRemove
  <2>2. ASSUME NEW f \in File, RemovePushedInfrastructure(n, f)
        PROVE  Stays
    <3>1. Home(f) # n
      BY <2>2 DEF RemovePushedInfrastructure, LinkInv
    <3> QED
      BY <1>0, <2>2, <3>1 DEF RemovePushedInfrastructure
  <2>3. ASSUME NEW f \in File, PullCopy(n, f) \/ PushFile(n, f)
        PROVE  Stays
    BY <1>0, <2>3, MailAssumption DEF PullCopy, PushFile
  <2>4. CASE PullDone(n) \/ PushDone(n) \/ ExchangeDone(n)
    BY <2>4 DEF PullDone, PushDone, ExchangeDone
  <2> QED
    BY <1>4, <2>1, <2>2, <2>3, <2>4 DEF ExchangeStep
<1>5. ASSUME NEW n \in Node,
             \/ StartReconcile(n) \/ Drain(n) \/ StartExchange(n)
             \/ StartPreSettle(n) \/ CoreDies(n) \/ OperationFails(n)
             \/ ExchangeFails(n)
             \/ \E f \in File : AckRead(n, f)
             \/ \E k \in Letter : Lapse(n, k)
      PROVE  Stays
  BY <1>5 DEF StartReconcile, Drain, StartExchange, StartPreSettle, CoreDies,
     OperationFails, ExchangeFails, AckRead, Lapse
<1> QED
  BY <1>1, <1>2, <1>3, <1>4, <1>5 DEF Next

\* A loop body comes before the burial only by queueing the bounce.
LEMMA OnlyBounceLeadsToBury ==
    ASSUME TypeOK, LoopInv, [Next]_vars, NEW n \in Node,
           phase'[n] = "expire", step'[n] = "bury"
    PROVE  \/ \E m \in Letter : ExpireQueueBounce(n, m)
           \/ phase[n] = "expire" /\ step[n] = "bury" /\ cur'[n] = cur[n]
<1> USE DEF store, core, xchg
<1> DEFINE Waits == phase[n] = "expire" /\ step[n] = "bury" /\ cur'[n] = cur[n]
<1>0. /\ phase \in [Node -> Phase]
      /\ step \in [Node -> Step]
      /\ cur \in [Node -> Letter \cup {None}]
  BY DEF TypeOK
<1>1. CASE UNCHANGED vars
  BY <1>1 DEF vars
<1>2. ASSUME NEW l \in Letter, Send(l) \/ SendStep(l) \/ SendDies(l)
      PROVE  Waits
  BY <1>2 DEF SendStep, Send, SendCopy, SendLink, SendDies
<1>3. ASSUME NEW i \in Node, CoreStep(i)
      PROVE  Waits \/ \E m \in Letter : ExpireQueueBounce(n, m)
  <2>1. CASE NextPhase(i)
    BY <1>0, <2>1 DEF NextPhase, Advance, Enter, LoopDone, InBody
  <2>2. CASE PruneDeliveredLog(i) \/ PreSettleDone(i)
    BY <1>0, <2>2 DEF PruneDeliveredLog, PreSettleDone, Enter
  <2>3. ASSUME NEW k \in Letter,
               \/ CopyOutboxToSpool(i, k) \/ DropExpired(i, k)
               \/ PruneMessageArchives(i, k)
        PROVE  Waits
    BY <1>0, <2>3 DEF CopyOutboxToSpool, DropExpired, PruneMessageArchives, Finish
  <2>4. ASSUME NEW k \in Letter, Deliver(i, k) \/ SettleAck(i, k)
        PROVE  Waits
    <3>1. phase' = phase /\ (step'[i] = "bury" => FALSE)
      BY <1>0, <2>4 DEF Deliver, DeliverKnowing, SettleAck, Hold, AfterLog
    <3>2. \A j \in Node \ {i} : step'[j] = step[j] /\ cur'[j] = cur[j]
      BY <1>0, <2>4 DEF Deliver, DeliverKnowing, SettleAck, Hold
    <3> QED
      BY <3>1, <3>2
  <2>5. ASSUME NEW k \in Letter, ExpireQueueBounce(i, k)
        PROVE  Waits \/ \E m \in Letter : ExpireQueueBounce(n, m)
    BY <1>0, <2>5 DEF ExpireQueueBounce, Hold
  <2>6. CASE RecordDelivered(i) \/ QueueAck(i) \/ SettleUnspool(i) \/ ExpireBury(i)
    BY <1>0, <2>6 DEF RecordDelivered, QueueAck, SettleUnspool, ExpireBury, Hold, AfterLog
  <2>7. CASE ConsumeDelivered(i) \/ ConsumeAck(i) \/ ExpireUnspool(i)
    BY <1>0, <2>7 DEF ConsumeDelivered, ConsumeAck, ExpireUnspool, Finish
  <2> QED
    BY <1>3, <2>1, <2>2, <2>3, <2>4, <2>5, <2>6, <2>7 DEF CoreStep
<1>4. ASSUME NEW i \in Node, ExchangeStep(i)
      PROVE  Waits
  BY <1>4 DEF ExchangeStep, PullDone, PushDone, ExchangeDone, PullCopy, PullRemove,
     PushFile, RemovePushedInfrastructure
<1>5. ASSUME NEW i \in Node, StartReconcile(i)
      PROVE  Waits
  <2>1. step[i] = "scan"
    BY <1>5 DEF StartReconcile, LoopInv
  <2> QED
    BY <1>0, <1>5, <2>1 DEF StartReconcile, Advance, Enter
<1>6. ASSUME NEW i \in Node, StartPreSettle(i)
      PROVE  Waits
  BY <1>0, <1>6 DEF StartPreSettle, StartPush, Enter
<1>7. ASSUME NEW i \in Node, CoreDies(i) \/ OperationFails(i)
      PROVE  Waits
  BY <1>0, <1>7 DEF CoreDies, OperationFails, Finish
<1>8. ASSUME NEW i \in Node,
             \/ Drain(i) \/ StartExchange(i) \/ ExchangeFails(i)
             \/ \E f \in File : AckRead(i, f)
             \/ \E k \in Letter : Lapse(i, k)
      PROVE  Waits
  BY <1>8 DEF Drain, StartExchange, ExchangeFails, AckRead, Lapse
<1> QED
  BY <1>1, <1>2, <1>3, <1>4, <1>5, <1>6, <1>7, <1>8 DEF Next

\* So a letter is buried only when its bounce is queued or has arrived.
LEMMA BounceStep ==
    ASSUME TypeOK, LoopInv, LinkInv, LandedInv, BounceInv, [Next]_vars
    PROVE  BounceInv'
<1>1. ASSUME NEW n \in Node, phase[n] = "expire", step[n] = "bury"
      PROVE  cur[n] \in Letter /\ Origin[cur[n]] = n
             /\ Bounce(cur[n]) \in spool'[n] \cup landed'
  <2>1. cur[n] \in Letter /\ Origin[cur[n]] = n
    BY <1>1 DEF TypeOK, LoopInv
  <2>2. Bounce(cur[n]) \in spool[Origin[cur[n]]] \cup landed
    BY <1>1, <2>1 DEF BounceInv
  <2> QED
    BY <2>1, <2>2, BounceStays
<1>2. NoSilentDeath'
  <2> SUFFICES ASSUME NEW m \in Letter, outbox'[m] = "dead"
               PROVE  Bounce(m) \in spool'[Origin[m]] \cup landed'
    BY DEF NoSilentDeath
  <2>1. CASE outbox[m] = "dead"
    BY <2>1, BounceStays DEF BounceInv, NoSilentDeath
  <2>2. CASE outbox[m] # "dead"
    <3>1. PICK n \in Node : ExpireBury(n) /\ cur[n] = m
      BY <2>2, OnlyBuryKills DEF TypeOK
    <3>2. phase[n] = "expire" /\ step[n] = "bury"
      BY <3>1 DEF ExpireBury, InBody
    <3> QED
      BY <1>1, <3>1, <3>2
  <2> QED
    BY <2>1, <2>2
<1>3. ASSUME NEW n \in Node, phase'[n] = "expire", step'[n] = "bury"
      PROVE  Bounce(cur'[n]) \in spool'[n] \cup landed'
  <2>1. ASSUME NEW m \in Letter, ExpireQueueBounce(n, m)
        PROVE  Bounce(cur'[n]) \in spool'[n]
    BY <2>1 DEF ExpireQueueBounce, Hold, TypeOK
  <2>2. CASE phase[n] = "expire" /\ step[n] = "bury" /\ cur'[n] = cur[n]
    BY <1>1, <2>2
  <2> QED
    BY <1>3, <2>1, <2>2, OnlyBounceLeadsToBury
<1> QED
  BY <1>2, <1>3 DEF BounceInv

-----------------------------------------------------------------------------
(* The theorems *)

\* The inductive invariant behind the theorems of this module.
SafeInv == TypeOK /\ LoopInv /\ LinkInv /\ LandedInv /\ BounceInv

\* It holds of empty stores.
LEMMA SafeInit == Init => SafeInv
<1> SUFFICES ASSUME Init PROVE SafeInv
  OBVIOUS
<1>1. TypeOK
  BY DEF Init, TypeOK, Outbox, SendPc, Phase, Step, XPc
<1>2. LoopInv /\ LinkInv
  BY DEF Init, LoopInv, LinkInv
<1>3. LandedInv /\ BounceInv
  BY DEF Init, LandedInv, BounceInv, NoSilentDeath
<1> QED
  BY <1>1, <1>2, <1>3 DEF SafeInv

\* Every step of send, reconcile, exchange and inbox read keeps it.
LEMMA SafeStep == SafeInv /\ [Next]_vars => SafeInv'
BY TypeStep, LoopStep, LinkStep, LandedStep, BounceStep DEF SafeInv

\* It holds of every state the system reaches.
THEOREM SafeAlways == Spec => []SafeInv
BY SafeInit, SafeStep, PTL DEF Spec

\* Whatever is interleaved, lost or killed, the stores of all nodes keep their
\* shape, and a lock holder has a letter in hand just while in a loop body.
THEOREM TypeCorrect == Spec => []TypeOK
<1>1. SafeInv => TypeOK
  BY DEF SafeInv
<1> QED
  BY <1>1, SafeAlways, PTL

\* For every network and any number of crashes and failed operations: an ack,
\* in a spool or settled into outbox/acked, is for a letter that
\* deliver_regular_message installed in its recipient's inbox.
THEOREM AcksAreProofOfDelivery == Spec => []AckMeansDelivered
<1>1. SafeInv => AckMeansDelivered
  BY DEF SafeInv, LandedInv, AckMeansDelivered
<1> QED
  BY <1>1, SafeAlways, PTL

\* For every network and any number of crashes and failed operations: a letter
\* that expire_outbox buried has its bounce in the sender's spool or inbox.
THEOREM DeadLettersBounce == Spec => []NoSilentDeath
<1>1. SafeInv => NoSilentDeath
  BY DEF SafeInv, BounceInv
<1> QED
  BY <1>1, SafeAlways, PTL
=============================================================================
