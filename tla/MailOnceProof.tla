----------------------------- MODULE MailOnceProof --------------------------
(***************************************************************************)
(* Theorems about Mail for any network, any letters and any number of      *)
(* crashes and lost links, when no single file operation fails on its own: *)
(* the dedup evidence always covers deliverable letters, and therefore no  *)
(* letter is put before its reader twice.                                  *)
(***************************************************************************)
EXTENDS MailProof

USE MailAssumption

-----------------------------------------------------------------------------
(* Dedup *)

\* Starting a loop at or before delivery, or with nothing unrecorded, is harmless.
LEMMA EnterDedup ==
    ASSUME TypeOK, LandedInv, DedupInv, NEW n \in Node, NEW p \in Phase, Enter(n, p),
           step[n] = "scan", UNCHANGED <<store, lapsed, xtodo>>,
           \A m \in Letter : Unrecorded(m) /\ Dest[m] = n =>
              p \in {"idle", "copy", "presettle", "deliver"}
    PROVE  DedupInv'
<1> USE DEF store
<1>1. \A m \in Letter : Unrecorded(m)' <=> Unrecorded(m)
  BY DEF Unrecorded
<1>2. p \in {"settle", "presettle"} => \A m \in Glob(n, p) : ~Unrecorded(m)
  BY DEF Glob, Arrived, DedupInv, Ack
<1>3. p = "deliver" => \A m \in Letter : Unrecorded(m) /\ Dest[m] = n => m \in Glob(n, p)
  BY Tokens DEF Glob, Arrived, DedupInv, Message
<1>4. ASSUME NEW m \in Letter, Unrecorded(m)'
      PROVE  /\ Message(m) \in spool'[Dest[m]]
             /\ Message(m) \in inNew' \cup inCur'
             /\ phase'[Dest[m]] \in {"idle", "copy", "presettle", "deliver"}
             /\ phase'[Dest[m]] = "deliver" => m \in todo'[Dest[m]]
  BY <1>1, <1>3, <1>4 DEF Enter, DedupInv, TypeOK
<1>5. p = "deliver" => \A m \in Glob(n, p) : Message(m) \in spool[n]
  BY DEF Glob, Arrived, Message
<1>6. ASSUME NEW k \in Node
      PROVE  /\ phase'[k] = "deliver" => \A m \in todo'[k] : Message(m) \in spool'[k]
             /\ phase'[k] = "deliver" /\ step'[k] \in {"ack", "remove"} => Message(cur'[k]) \in log'
             /\ phase'[k] \in {"settle", "presettle"} => \A m \in todo'[k] : ~Unrecorded(m)
             /\ \A m \in Letter : Ack(m) \in spool'[k] \cup xtodo'[k] => ~Unrecorded(m)
  BY <1>2, <1>5, <1>6 DEF Enter, DedupInv, TypeOK
<1> QED
  BY <1>1, <1>4, <1>6, GlobType DEF Enter, DedupInv, TypeOK

\* No step loses the dedup evidence of a deliverable letter.
LEMMA DedupStep ==
    ASSUME ~IOFaults, TypeOK, LoopInv, LinkInv, LandedInv, DedupInv, [Next]_vars
    PROVE  DedupInv'
<1> USE DEF store, core, xchg
<1>1. CASE UNCHANGED vars
  BY <1>1 DEF vars, DedupInv, LandedInv, TypeOK, LoopInv, LinkInv, Unrecorded
<1>2. ASSUME NEW m \in Letter, Send(m) \/ SendCopy(m) \/ SendDies(m)
      PROVE  DedupInv'
  BY <1>2, Tokens DEF Send, SendCopy, SendDies, Fault, DedupInv, LandedInv, TypeOK,
      LoopInv, LinkInv, Unrecorded
<1>3. ASSUME NEW m \in Letter, SendLink(m)
      PROVE  DedupInv'
  BY <1>3, Tokens DEF SendLink, DedupInv, LandedInv, TypeOK, LoopInv, LinkInv, Unrecorded
<1>4. ASSUME NEW n \in Node, StartReconcile(n)
      PROVE  DedupInv'
  <2>1. PICK p \in Phase \ {"presettle"} :
           /\ Enter(n, p)
           /\ Glob(n, "deliver") # {} => p \in {"copy", "deliver"}
    BY <1>4, AdvanceEnters DEF StartReconcile
  <2>2. \A m \in Letter : Unrecorded(m) /\ Dest[m] = n => m \in Glob(n, "deliver")
    BY Tokens DEF Glob, Arrived, DedupInv, Message
  <2> QED
    BY <1>4, <2>1, <2>2, EnterDedup DEF StartReconcile, LoopInv
<1>5. ASSUME NEW n \in Node, NextPhase(n)
      PROVE  DedupInv'
  <2>1. PICK p \in Phase \ {"presettle"} :
           /\ Enter(n, p)
           /\ phase[n] = "copy" /\ Glob(n, "deliver") # {} => p \in {"copy", "deliver"}
    BY <1>5, AdvanceEnters DEF NextPhase
  <2>2. \A m \in Letter : Unrecorded(m) /\ Dest[m] = n =>
           phase[n] = "copy" /\ m \in Glob(n, "deliver")
    BY <1>5, Tokens DEF NextPhase, LoopDone, InBody, Glob, Arrived, DedupInv, Message
  <2> QED
    BY <1>5, <2>1, <2>2, EnterDedup DEF NextPhase, LoopDone, InBody
<1>6. ASSUME NEW n \in Node, RecordDelivered(n)
      PROVE  DedupInv'
  <2>1. CASE phase[n] = "infra"
    <3>1. \A m \in Letter : Unrecorded(m)' <=> Unrecorded(m)
      BY <1>6, <2>1 DEF RecordDelivered, Delivering, Unrecorded, Message
    <3> QED
      BY <1>6, <2>1, <3>1 DEF RecordDelivered, InBody, Hold, DedupInv, TypeOK
  <2>2. CASE phase[n] = "deliver"
    <3>1. log' = log \cup {Message(cur[n])}
      BY <1>6, <2>2 DEF RecordDelivered, Delivering, Message
    <3>2. \A m \in Letter : Unrecorded(m)' => Unrecorded(m)
      BY <1>6, <3>1 DEF RecordDelivered, Unrecorded
    <3> QED
      BY <1>6, <2>2, <3>1, <3>2 DEF RecordDelivered, InBody, Hold, DedupInv, TypeOK
  <2> QED
    BY <1>6, <2>1, <2>2 DEF RecordDelivered, InBody
<1>7. ASSUME NEW n \in Node, QueueAck(n)
      PROVE  DedupInv'
  BY <1>7, Tokens DEF QueueAck, InBody, Hold, DedupInv, LandedInv, TypeOK, LoopInv,
      LinkInv, Unrecorded
<1>8. ASSUME NEW n \in Node, ConsumeDelivered(n)
      PROVE  DedupInv'
  <2> DEFINE m == cur[n]
  <2>0. m \in Letter /\ (phase[n] = "deliver" => ~Unrecorded(m))
    BY <1>8 DEF ConsumeDelivered, InBody, DedupInv, Unrecorded, TypeOK
  <2>1. \A k \in Letter : Unrecorded(k) =>
           Message(k) \in spool'[Dest[k]] /\ (phase[n] = "deliver" => k # m)
    <3>1. ASSUME NEW k \in Letter, Unrecorded(k)
          PROVE  <<Delivering(n), m>> # Message(k)
      BY <1>8, <2>0, <3>1 DEF Delivering, Message, ConsumeDelivered, InBody
    <3> QED
      BY <1>8, <2>0, <3>1 DEF ConsumeDelivered, DedupInv, TypeOK
  <2>2. \A k \in Letter : Unrecorded(k)' <=> Unrecorded(k)
    BY <1>8 DEF ConsumeDelivered, Unrecorded
  <2>3. ASSUME NEW k \in Node, phase'[k] = "deliver", NEW l \in todo'[k]
        PROVE  Message(l) \in spool'[k]
    <3>1. l \in Letter /\ Message(l) \in spool[k] /\ (k = n => l # m)
      BY <1>8, <2>3 DEF ConsumeDelivered, InBody, Finish, DedupInv, TypeOK
    <3>2. k = n => <<Delivering(n), m>> = Message(m)
      BY <1>8, <2>3 DEF ConsumeDelivered, Finish, Delivering, Message
    <3> QED
      BY <1>8, <2>0, <3>1, <3>2, Tokens DEF ConsumeDelivered, TypeOK
  <2> QED
    BY <1>8, <2>1, <2>2, <2>3 DEF ConsumeDelivered, InBody, Finish, DedupInv, TypeOK
<1>9. ASSUME NEW n \in Node, SettleUnspool(n)
      PROVE  DedupInv'
  BY <1>9, Tokens DEF SettleUnspool, InBody, Hold, DedupInv, LandedInv, TypeOK, LoopInv,
      LinkInv, Unrecorded
<1>10. ASSUME NEW n \in Node, ConsumeAck(n)
      PROVE  DedupInv'
  BY <1>10, Tokens DEF ConsumeAck, InBody, Finish, DedupInv, LandedInv, TypeOK, LoopInv,
      LinkInv, Unrecorded
<1>11. ASSUME NEW n \in Node, ExpireBury(n)
      PROVE  DedupInv'
  BY <1>11, Tokens DEF ExpireBury, InBody, Hold, DedupInv, LandedInv, TypeOK, LoopInv,
      LinkInv, Unrecorded
<1>12. ASSUME NEW n \in Node, ExpireUnspool(n)
      PROVE  DedupInv'
  BY <1>12, Tokens DEF ExpireUnspool, InBody, Finish, DedupInv, LandedInv, TypeOK,
      LoopInv, LinkInv, Unrecorded
<1>13. ASSUME NEW n \in Node, PruneDeliveredLog(n)
      PROVE  DedupInv'
  <2>1. PICK old \in SUBSET StaleLog(n) : log' = log \ old
    BY <1>13 DEF PruneDeliveredLog
  <2>2. \A m \in Letter : Message(m) \in old => Dest[m] = n /\ m \in lapsed[n]
    BY <2>1, Tokens DEF StaleLog, Message
  <2>3. \A m \in Letter : Unrecorded(m)' <=> Unrecorded(m)
    BY <1>13, <2>1, <2>2 DEF PruneDeliveredLog, Unrecorded
  <2>4. \A k \in Node : k # n /\ phase[k] = "deliver" /\ step[k] # "scan" =>
           cur[k] \in Letter /\ Message(cur[k]) \notin old
    BY <2>2 DEF LoopInv, TypeOK
  <2> QED
    BY <1>13, <2>1, <2>3, <2>4 DEF PruneDeliveredLog, Enter, DedupInv, TypeOK
<1>14. ASSUME NEW n \in Node, Drain(n)
      PROVE  DedupInv'
  BY <1>14, Tokens DEF Drain, DedupInv, LandedInv, TypeOK, LoopInv, LinkInv, Unrecorded
<1>15. ASSUME NEW n \in Node, StartExchange(n)
      PROVE  DedupInv'
  BY <1>15, Tokens DEF StartExchange, PullList, DedupInv, LandedInv, TypeOK, LoopInv,
      LinkInv, Unrecorded
<1>16. ASSUME NEW n \in Node, PullDone(n)
      PROVE  DedupInv'
  BY <1>16, Tokens DEF PullDone, PushedInfrastructure, Outgoing, DedupInv, LandedInv,
      TypeOK, LoopInv, LinkInv, Unrecorded
<1>17. ASSUME NEW n \in Node, StartPreSettle(n)
      PROVE  DedupInv'
  <2>1. CASE Arrived(n, "ack") = {}
    <3>1. UNCHANGED <<store, core, lapsed>> /\ xtodo' = [xtodo EXCEPT ![n] = Outgoing(n)]
      BY <1>17, <2>1 DEF StartPreSettle, StartPush
    <3>2. \A k \in Node : xtodo'[k] \subseteq spool[k] \cup xtodo[k]
      BY <3>1 DEF Outgoing, TypeOK
    <3>3. \A m \in Letter : Unrecorded(m)' <=> Unrecorded(m)
      BY <3>1 DEF Unrecorded
    <3>4. UNCHANGED <<spool, inNew, inCur, phase, todo, step, cur, log>>
      BY <3>1
    <3>5. \A m \in Letter : Unrecorded(m)' =>
            /\ Message(m) \in spool'[Dest[m]]
            /\ Message(m) \in inNew' \cup inCur'
            /\ phase'[Dest[m]] \in {"idle", "copy", "presettle", "deliver"}
            /\ phase'[Dest[m]] = "deliver" => m \in todo'[Dest[m]]
      BY <3>3, <3>4 DEF DedupInv
    <3>6. ASSUME NEW k \in Node
          PROVE  \A m \in Letter : Ack(m) \in spool'[k] \cup xtodo'[k] => ~Unrecorded(m)'
      BY <3>2, <3>3, <3>4 DEF DedupInv
    <3>7. ASSUME NEW k \in Node
          PROVE  /\ phase'[k] = "deliver" => \A m \in todo'[k] : Message(m) \in spool'[k]
                 /\ phase'[k] = "deliver" /\ step'[k] \in {"ack", "remove"} => Message(cur'[k]) \in log'
                 /\ phase'[k] \in {"settle", "presettle"} => \A m \in todo'[k] : ~Unrecorded(m)'
      <4>1. phase[k] \in {"settle", "presettle"} => todo[k] \subseteq Letter
        BY DEF TypeOK
      <4> QED
        BY <3>3, <3>4, <4>1 DEF DedupInv
    <3> QED
      BY <3>5, <3>6, <3>7, Zenon DEF DedupInv
  <2>2. CASE Arrived(n, "ack") # {}
    BY <1>17, <2>2, EnterDedup DEF StartPreSettle, LoopInv, Phase
  <2> QED
    BY <2>1, <2>2
<1>18. ASSUME NEW n \in Node, PreSettleDone(n)
      PROVE  DedupInv'
  BY <1>18, Tokens DEF PreSettleDone, LoopDone, Enter, StartPush, InBody, Glob, Outgoing,
      DedupInv, LandedInv, TypeOK, LoopInv, LinkInv, Unrecorded
<1>19. ASSUME NEW n \in Node, PushDone(n)
      PROVE  DedupInv'
  BY <1>19, Tokens DEF PushDone, PullList, DedupInv, LandedInv, TypeOK, LoopInv, LinkInv,
      Unrecorded
<1>20. ASSUME NEW n \in Node, ExchangeDone(n)
      PROVE  DedupInv'
  BY <1>20, Tokens DEF ExchangeDone, DedupInv, LandedInv, TypeOK, LoopInv, LinkInv,
      Unrecorded
<1>21. ASSUME NEW n \in Node, CoreDies(n)
      PROVE  DedupInv'
  BY <1>21, Tokens DEF CoreDies, Fault, DedupInv, LandedInv, TypeOK, LoopInv, LinkInv,
      Unrecorded
<1>22. ASSUME NEW n \in Node, OperationFails(n)
      PROVE  DedupInv'
  BY <1>22, Tokens DEF OperationFails, Fault, Finish, DedupInv, LandedInv, TypeOK,
      LoopInv, LinkInv, Unrecorded
<1>23. ASSUME NEW n \in Node, ExchangeFails(n)
      PROVE  DedupInv'
  BY <1>23, Tokens DEF ExchangeFails, Fault, DedupInv, LandedInv, TypeOK, LoopInv,
      LinkInv, Unrecorded
<1>24. ASSUME NEW n \in Node, NEW m \in Letter, CopyOutboxToSpool(n, m)
      PROVE  DedupInv'
  BY <1>24, Tokens DEF CopyOutboxToSpool, AtLoop, Finish, InBody, DedupInv, LandedInv,
      TypeOK, LoopInv, LinkInv, Unrecorded
<1>25. ASSUME NEW n \in Node, NEW m \in Letter, DropExpired(n, m)
      PROVE  DedupInv'
  BY <1>25, Tokens DEF DropExpired, AtLoop, Finish, InBody, DedupInv, LandedInv, TypeOK,
      LoopInv, LinkInv, Unrecorded
<1>26. ASSUME NEW n \in Node, NEW m \in Letter, Deliver(n, m)
      PROVE  DedupInv'
  <2>1. CASE phase[n] = "infra"
    <3>1. \A k \in Letter : Unrecorded(k)' <=> Unrecorded(k)
      BY <1>26, <2>1 DEF Deliver, DeliverKnowing, Delivering, Unrecorded, Message
    <3>2. inNew \subseteq inNew' /\ inCur' = inCur
      BY <1>26 DEF Deliver, DeliverKnowing
    <3> QED
      BY <1>26, <2>1, <3>1, <3>2 DEF Deliver, DeliverKnowing, AtLoop, InBody, Hold, DedupInv, TypeOK
  <2>2. CASE phase[n] = "deliver"
    <3>1. /\ <<Delivering(n), m>> = Message(m)
          /\ Dest[m] = n /\ m \in todo[n] /\ m \notin lapsed[n]
          /\ Message(m) \in spool[n]
      BY <1>26, <2>2 DEF Deliver, DeliverKnowing, Delivering, Message, AtLoop, InBody, LoopInv, DedupInv
    <3>2. CASE Message(m) \in log \cup inNew \cup inCur
      <4>1. /\ log' = log \cup {Message(m)}
            /\ UNCHANGED <<inNew, inCur, landed, spool, lapsed, xtodo, phase, todo>>
            /\ cur' = [cur EXCEPT ![n] = m]
            /\ \A k \in Node \ {n} : step'[k] = step[k]
        BY <1>26, <3>1, <3>2 DEF Deliver, DeliverKnowing, Hold, TypeOK
      <4>2. \A k \in Letter : Unrecorded(k)' => Unrecorded(k)
        BY <4>1 DEF Unrecorded
      <4>3. \A k \in Node : phase'[k] = "deliver" /\ step'[k] \in {"ack", "remove"} =>
               Message(cur'[k]) \in log'
        BY <4>1 DEF DedupInv, TypeOK
      <4> QED
        BY <4>1, <4>2, <4>3 DEF DedupInv, TypeOK
    <3>3. CASE Message(m) \notin log \cup inNew \cup inCur
      <4>1. /\ inNew' = inNew \cup {Message(m)}
            /\ landed' = landed \cup {Message(m)}
            /\ step' = [step EXCEPT ![n] = "log"]
            /\ UNCHANGED <<log, inCur, spool, lapsed, xtodo, phase, todo>>
            /\ cur' = [cur EXCEPT ![n] = m]
        BY <1>26, <3>1, <3>3 DEF Deliver, DeliverKnowing, Hold
      <4>2. \A k \in Letter : Unrecorded(k)' => Unrecorded(k) \/ k = m
        BY <4>1, Tokens DEF Unrecorded
      <4>3. Message(m) \notin landed
        BY <3>1, <3>3 DEF DedupInv, Unrecorded
      <4>4. \A k \in Letter : Message(k) \in landed => (Unrecorded(k)' => Unrecorded(k))
        BY <4>2, <4>3
      <4>5. ASSUME NEW k \in Letter, Unrecorded(k)'
            PROVE  /\ Message(k) \in spool'[Dest[k]]
                   /\ Message(k) \in inNew' \cup inCur'
                   /\ phase'[Dest[k]] \in {"idle", "copy", "presettle", "deliver"}
                   /\ phase'[Dest[k]] = "deliver" => k \in todo'[Dest[k]]
        BY <2>2, <3>1, <4>1, <4>2, <4>5 DEF DedupInv
      <4>6. ASSUME NEW k \in Node
            PROVE  /\ phase'[k] \in {"settle", "presettle"} => \A l \in todo'[k] : ~Unrecorded(l)'
                   /\ \A l \in Letter : Ack(l) \in spool'[k] \cup xtodo'[k] => ~Unrecorded(l)'
        BY <4>1, <4>4 DEF DedupInv, LandedInv, TypeOK
      <4>7. ASSUME NEW k \in Node
            PROVE  /\ phase'[k] = "deliver" => \A l \in todo'[k] : Message(l) \in spool'[k]
                   /\ phase'[k] = "deliver" /\ step'[k] \in {"ack", "remove"} =>
                         Message(cur'[k]) \in log'
        BY <4>1 DEF DedupInv, TypeOK
      <4> QED
        BY <4>5, <4>6, <4>7 DEF DedupInv
    <3> QED
      BY <3>2, <3>3
  <2> QED
    BY <1>26, <2>1, <2>2 DEF Deliver, DeliverKnowing, AtLoop, InBody
<1>27. ASSUME NEW n \in Node, NEW m \in Letter, SettleAck(n, m)
      PROVE  DedupInv'
  BY <1>27, Tokens DEF SettleAck, AtLoop, Hold, InBody, DedupInv, LandedInv, TypeOK,
      LoopInv, LinkInv, Unrecorded
<1>28. ASSUME NEW n \in Node, NEW m \in Letter, ExpireQueueBounce(n, m)
      PROVE  DedupInv'
  BY <1>28, Tokens DEF ExpireQueueBounce, AtLoop, Hold, InBody, DedupInv, LandedInv,
      TypeOK, LoopInv, LinkInv, Unrecorded
<1>29. ASSUME NEW n \in Node, NEW m \in Letter, PruneMessageArchives(n, m)
      PROVE  DedupInv'
  BY <1>29, Tokens DEF PruneMessageArchives, AtLoop, Finish, InBody, DedupInv, LandedInv,
      TypeOK, LoopInv, LinkInv, Unrecorded
<1>30. ASSUME NEW n \in Node, NEW m \in Letter, Lapse(n, m)
      PROVE  DedupInv'
  BY <1>30, Tokens DEF Lapse, DedupInv, LandedInv, TypeOK, LoopInv, LinkInv, Unrecorded
<1>31. ASSUME NEW n \in Node, NEW f \in File, AckRead(n, f)
      PROVE  DedupInv'
  BY <1>31, Tokens DEF AckRead, DedupInv, LandedInv, TypeOK, LoopInv, LinkInv, Unrecorded
<1>32. ASSUME NEW n \in Node, NEW f \in File, PullCopy(n, f)
      PROVE  DedupInv'
  BY <1>32, Tokens DEF PullCopy, DedupInv, LandedInv, TypeOK, LoopInv, LinkInv, Unrecorded
<1>33. ASSUME NEW n \in Node, NEW f \in File, PullRemove(n, f)
      PROVE  DedupInv'
  BY <1>33, Tokens DEF PullRemove, DedupInv, LandedInv, TypeOK, LoopInv, LinkInv,
      Unrecorded
<1>34. ASSUME NEW n \in Node, NEW f \in File, PushFile(n, f)
      PROVE  DedupInv'
  BY <1>34, Tokens DEF PushFile, Outgoing, DedupInv, LandedInv, TypeOK, LoopInv, LinkInv,
      Unrecorded
<1>35. ASSUME NEW n \in Node, NEW f \in File, RemovePushedInfrastructure(n, f)
      PROVE  DedupInv'
  BY <1>35, Tokens DEF RemovePushedInfrastructure, DedupInv, LandedInv, TypeOK, LoopInv,
      LinkInv, Unrecorded
<1> QED
  BY <1>1, <1>2, <1>3, <1>4, <1>5, <1>6, <1>7, <1>8, <1>9, <1>10, <1>11, <1>12, <1>13,
      <1>14, <1>15, <1>16, <1>17, <1>18, <1>19, <1>20, <1>21, <1>22, <1>23, <1>24,
      <1>25, <1>26, <1>27, <1>28, <1>29, <1>30, <1>31, <1>32, <1>33, <1>34, <1>35 DEF
      Next, CoreStep, ExchangeStep, SendStep

-----------------------------------------------------------------------------
(* The theorems *)

\* The inductive invariant, with the dedup part.
OnceInv == SafeInv /\ DedupInv

\* It holds of every state reached without failing file operations.
THEOREM OnceAlways ==
    ASSUME ~IOFaults
    PROVE  Spec => []OnceInv
<1>1. Init => OnceInv
  BY SafeInit DEF Init, OnceInv, DedupInv, Unrecorded
<1>2. OnceInv /\ [Next]_vars => OnceInv'
  BY SafeStep, DedupStep DEF OnceInv, SafeInv
<1> QED
  BY <1>1, <1>2, PTL DEF Spec

\* For every network and any number of crashes: an installed letter that has
\* not expired is known to delivered_or_inbox.
THEOREM DedupAlwaysCovers ==
    ASSUME ~IOFaults
    PROVE  Spec => []DedupCovers
<1>1. OnceInv => DedupCovers
  BY DEF OnceInv, DedupInv, DedupCovers, Unrecorded
<1> QED
  BY <1>1, OnceAlways, PTL

\* Only Deliver puts a letter before the reader, and it asks first.
LEMMA OnceStep ==
    ASSUME OnceInv, [Next]_vars, NEW m \in Letter, Message(m) \in inNew' \ inNew
    PROVE  Message(m) \notin landed
<1> USE DEF store, core, xchg
<1>1. ASSUME NEW n \in Node, NEW k \in Letter, Deliver(n, k)
      PROVE  Message(m) \notin landed
  <2> DEFINE f == <<Delivering(n), k>>
  <2>1. /\ f \notin log \cup inNew \cup inCur
        /\ Message(m) = f
        /\ phase[n] \in {"deliver", "infra"}
        /\ phase[n] = "deliver" => k \in todo[n] /\ k \notin lapsed[n]
    BY <1>1 DEF Deliver, DeliverKnowing, AtLoop, InBody
  <2>2. m = k /\ phase[n] = "deliver"
    BY <2>1 DEF Message, Delivering
  <2>3. Dest[m] = n
    BY <2>1, <2>2 DEF OnceInv, SafeInv, LoopInv
  <2>4. ~Unrecorded(m)
    BY <2>1 DEF OnceInv, DedupInv
  <2> QED
    BY <2>1, <2>2, <2>3, <2>4 DEF Unrecorded
<1>2. CASE UNCHANGED vars
  BY <1>2 DEF vars
<1>3. CASE \E l \in Letter : Send(l) \/ SendStep(l) \/ SendDies(l)
  BY <1>3 DEF SendStep, Send, SendCopy, SendLink, SendDies
<1>4. ASSUME NEW n \in Node, CoreStep(n)
      PROVE  inNew' \subseteq inNew \/ \E k \in Letter : Deliver(n, k)
  BY <1>4 DEF CoreStep, NextPhase, CopyOutboxToSpool, DropExpired, SettleAck,
      PruneMessageArchives, ExpireQueueBounce, RecordDelivered, QueueAck,
      ConsumeDelivered, SettleUnspool, ConsumeAck, ExpireBury, ExpireUnspool,
      PruneDeliveredLog, PreSettleDone
<1>5. ASSUME NEW n \in Node, ExchangeStep(n)
      PROVE  inNew' = inNew
  BY <1>5 DEF ExchangeStep, PullDone, PushDone, ExchangeDone, PullCopy, PullRemove,
     PushFile, RemovePushedInfrastructure
<1>6. ASSUME NEW n \in Node,
             \/ StartReconcile(n) \/ Drain(n) \/ StartExchange(n)
             \/ StartPreSettle(n) \/ CoreDies(n) \/ OperationFails(n)
             \/ ExchangeFails(n)
             \/ \E f \in File : AckRead(n, f)
             \/ \E k \in Letter : Lapse(n, k)
      PROVE  inNew' \subseteq inNew
  BY <1>6 DEF StartReconcile, Drain, StartExchange, StartPreSettle, CoreDies,
     OperationFails, ExchangeFails, AckRead, Lapse
<1> QED
  BY <1>1, <1>2, <1>3, <1>4, <1>5, <1>6 DEF Next

\* For every network and any number of crashes and lost links: no letter is
\* put before its reader twice, although sender, upstream and recipient
\* retransmit it until they see it settled.
THEOREM ReadersSeeLettersOnce ==
    ASSUME ~IOFaults
    PROVE  Spec => AtMostOnce
<1>1. OnceInv /\ [Next]_vars =>
        [\A m \in Letter :
            Message(m) \in inNew' \ inNew => Message(m) \notin landed]_vars
  BY OnceStep
<1> QED
  BY <1>1, OnceAlways, PTL DEF Spec, AtMostOnce
=============================================================================
