----------------------------- MODULE RelayProof -----------------------------
(***************************************************************************)
(* Theorems about Relay for any files, contents, clocks and any number of  *)
(* sessions and kills: its type invariant (with the bound on the candidate *)
(* queue), that mail and stream entries never change under their name, and *)
(* -- when no install outlasts its session -- that what is in place is     *)
(* whole, that watcher declarations never go back, and that nothing is     *)
(* unlinked that the peer has not had.                                     *)
(***************************************************************************)
EXTENDS Relay, FiniteSetTheorems, TLAPS

-----------------------------------------------------------------------------
(* Sides, frames and installers *)

\* There are two sides, and each is the other's other.
LEMMA Sides ==
    \A s \in Side : Other(s) \in Side /\ Other(s) # s /\ Other(Other(s)) = s
BY DEF Side, Other

\* What the constants give the proofs.
LEMMA Constants ==
    /\ Kind \in [Obj -> {"letter", "infra", "watcher", "stream"}]
    /\ Bytes \subseteq Nat
    /\ \A p \in Obj : Content[p] \subseteq Bytes
    /\ None \notin Bytes /\ Torn \notin Bytes /\ None # Torn
    /\ None \notin Run
    /\ Standing \subseteq Side \X Obj \X Bytes
    /\ QueueCap \in Nat \ {0} /\ MaxSessions \in Nat /\ MaxPuts \in Nat
BY RelayAssumption DEF Run

\* The frames a side sends.
LEMMA Frames ==
    /\ \A t \in Transfer, type \in {"OFFER", "NEED", "HAVE", "DATA", "STORED"} :
          Msg(type, t) \in Seq(Frame) /\ Len(Msg(type, t)) = 1
    /\ Error \in Seq(Frame) /\ Len(Error) = 1
    /\ \A f \in Frame : f.type # "ERROR" => f.of \in Transfer
BY DEF Msg, Error, Frame, Transfer

\* The file at a path, with the path, is a transfer.
LEMMA CurrentType ==
    ASSUME NEW s \in Side, NEW p \in Obj, file[s][p] \in Bytes
    PROVE  Current(s, p) \in Transfer
BY DEF Current, Transfer

\* An install that goes on stays an install.
LEMMA ReachType ==
    ASSUME TypeOK, NEW s \in Side, NEW r \in Run, NEW was, At(s, r, was),
           NEW at \in {"begun", "writing", "synced", "stored", "refused"},
           Reach(s, r, at)
    PROVE  /\ install[s][r].of \in Transfer
           /\ install[s][r].of.obj \in Obj /\ install[s][r].of.bytes \in Bytes
           /\ install' \in [Side -> [Run -> Installing \cup {None}]]
           /\ install'[s][r] = [of |-> install[s][r].of, at |-> at]
           /\ \A u \in Side, q \in Run : <<u, q>> # <<s, r>> => install'[u][q] = install[u][q]
<1>1. install[s][r] \in Installing
  BY DEF At, TypeOK
<1>2. /\ install[s][r].of \in Transfer
      /\ install[s][r].of.obj \in Obj /\ install[s][r].of.bytes \in Bytes
  BY <1>1 DEF Installing, Transfer
<1> DEFINE new == [install[s][r] EXCEPT !.at = at]
<1>3. new = [of |-> install[s][r].of, at |-> at] /\ new \in Installing
  BY <1>1 DEF Installing
<1>4. install' = [install EXCEPT ![s] = [install[s] EXCEPT ![r] = new]]
  BY DEF Reach
<1> HIDE DEF new
<1>5. install \in [Side -> [Run -> Installing \cup {None}]]
  BY DEF TypeOK
<1> QED
  BY <1>2, <1>3, <1>4, <1>5

\* What a side tells the other is added to the frames under way to it.
LEMMA TellType ==
    ASSUME wire \in [Side -> Seq(Frame)], NEW s \in Side, NEW f \in Seq(Frame),
           wire' = Tell(s, f)
    PROVE  wire' \in [Side -> Seq(Frame)]
<1>1. Other(s) \in Side
  BY Sides
<1>2. wire[Other(s)] \o f \in Seq(Frame)
  BY <1>1
<1> QED
  BY <1>1, <1>2 DEF Tell

\* The frame it reads goes off the wire, its answers on to it.
LEMMA ConsumeType ==
    ASSUME wire \in [Side -> Seq(Frame)], NEW s \in Side, wire[s] # <<>>,
           NEW f \in Seq(Frame), Consume(s, f)
    PROVE  /\ wire' \in [Side -> Seq(Frame)]
           /\ wire'[s] = Tail(wire[s])
           /\ wire'[Other(s)] = wire[Other(s)] \o f
<1>1. Other(s) \in Side /\ Other(s) # s
  BY Sides
<1>2. wire[Other(s)] \o f \in Seq(Frame) /\ Tail(wire[s]) \in Seq(Frame)
  BY <1>1
<1> QED
  BY <1>1, <1>2 DEF Consume

\* A file written at a path.
LEMMA FileType ==
    ASSUME file \in [Side -> [Obj -> Bytes \cup {None, Torn}]], NEW s \in Side,
           NEW p \in Obj, NEW x \in Bytes \cup {None, Torn},
           file' = [file EXCEPT ![s][p] = x]
    PROVE  file' \in [Side -> [Obj -> Bytes \cup {None, Torn}]]
OBVIOUS

\* A rename leaves the path alone, or puts there what the temporary holds: the
\* bytes of this install, unless another install is still writing it.
LEMMA RenameEffect ==
    ASSUME NEW s \in Side, NEW r \in Run, Rename(s, r)
    PROVE  LET t == install[s][r].of
               owner == staged[s][t.obj]
           IN
           /\ \/ UNCHANGED <<file, landed>>
              \/ /\ ~StaleWatcher(s, t)
                 /\ file[s][t.obj] = None \/ Replaces(t.obj)
                 /\ \/ /\ file' = [file EXCEPT ![s][t.obj] = t.bytes]
                       /\ landed' = landed \cup {<<s, t.obj, t.bytes>>}
                    \/ /\ owner # None /\ At(s, owner, "writing")
                       /\ file' = [file EXCEPT ![s][t.obj] = Torn]
                       /\ landed' = landed
           /\ staged' = [staged EXCEPT ![s][t.obj] = None]
BY DEF Rename

-----------------------------------------------------------------------------
(* Type correctness *)

\* What ends with a session is empty afterwards.
LEMMA ForgetType ==
    ASSUME Forget
    PROVE  /\ wire' \in [Side -> Seq(Frame)] /\ answers' \in [Side -> Seq(Frame)]
           /\ queue' \in [Side -> SUBSET Obj]
           /\ \A s \in Side : IsFiniteSet(queue'[s]) /\ Cardinality(queue'[s]) <= QueueCap
           /\ send' \in [Side -> [of : Transfer, phase : {"first", "second"}] \cup {None}]
           /\ incoming' \in [Side -> Transfer \cup {None}]
           /\ known' \in [Side -> SUBSET Transfer]
           /\ rejected' \in [Side -> SUBSET Transfer]
           /\ origins' \in [Side -> SUBSET Transfer]
<1>1. IsFiniteSet({}) /\ Cardinality({}) = 0
  BY FS_EmptySet
<1> QED
  BY <1>1, Constants DEF Forget, Blank

\* So a session can end at any moment.
LEMMA CloseType ==
    ASSUME TypeOK, Close
    PROVE  TypeOK'
<1>1. install' \in [Side -> [Run -> Installing \cup {None}]]
  BY DEF Close, TypeOK, Side, Run
<1>2. staged' \in [Side -> [Obj -> Run \cup {None}]]
  BY DEF Close, TypeOK, Side, Run
<1>3. UNCHANGED <<disk, sessions>> /\ Forget /\ up' = FALSE
  BY DEF Close
<1> QED
  BY <1>1, <1>2, <1>3, ForgetType DEF TypeOK, disk

\* Taking a candidate frees its place in the queue.
LEMMA DequeueType ==
    ASSUME TypeOK, NEW s \in Side, NEW p \in Obj, Dequeue(s, p)
    PROVE  /\ queue' \in [Side -> SUBSET Obj]
           /\ \A t \in Side : IsFiniteSet(queue'[t]) /\ Cardinality(queue'[t]) <= QueueCap
           /\ UNCHANGED <<link, answers, incoming, install, staged, memory>>
<1>1. IsFiniteSet(queue[s] \ {p}) /\ Cardinality(queue[s] \ {p}) <= QueueCap
  <2>1. IsFiniteSet(queue[s]) /\ Cardinality(queue[s]) <= QueueCap /\ p \in queue[s]
    BY DEF TypeOK, Dequeue
  <2>2. IsFiniteSet(queue[s] \ {p}) /\ Cardinality(queue[s] \ {p}) = Cardinality(queue[s]) - 1
    BY <2>1, FS_RemoveElement
  <2>3. Cardinality(queue[s]) \in Nat
    BY <2>1, FS_CardinalityType
  <2> QED
    BY <2>1, <2>2, <2>3, Constants
<1> QED
  BY <1>1 DEF Dequeue, TypeOK

\* Every step of both daemons and of their neighbours keeps the shape of the
\* state, and the candidate queue within its capacity.
LEMMA TypeStep ==
    ASSUME TypeOK, [Next]_vars
    PROVE  TypeOK'
<1> USE Constants DEF disk, link, memory
<1>1. CASE UNCHANGED vars
  BY <1>1 DEF vars, TypeOK
<1>2. ASSUME NEW s \in Side, NEW p \in Obj, Take(s, p)
      PROVE  TypeOK'
  BY <1>2 DEF Take, TypeOK
<1>3. ASSUME NEW s \in Side, NEW p \in Obj, Enqueue(s, p)
      PROVE  TypeOK'
  <2>1. /\ IsFiniteSet(queue[s] \cup {p})
        /\ Cardinality(queue[s] \cup {p}) <= QueueCap
    <3>1. IsFiniteSet(queue[s]) /\ Cardinality(queue[s]) < QueueCap /\ p \notin queue[s]
      BY <1>3 DEF TypeOK, Enqueue, Room
    <3>2. IsFiniteSet(queue[s] \cup {p}) /\ Cardinality(queue[s] \cup {p}) = Cardinality(queue[s]) + 1
      BY <3>1, FS_AddElement
    <3>3. Cardinality(queue[s]) \in Nat
      BY <3>1, FS_CardinalityType
    <3> QED
      BY <3>1, <3>2, <3>3
  <2> QED
    BY <1>3, <2>1 DEF Enqueue, TypeOK
<1>4. ASSUME NEW s \in Side, NEW p \in Obj, NEW b \in Bytes, Put(s, p, b)
      PROVE  TypeOK'
  BY <1>4 DEF Put, TypeOK
<1>5. CASE Connect
  BY <1>5, ForgetType DEF Connect, TypeOK
<1>6. CASE Break
  BY <1>6, CloseType DEF Break
<1>7. CASE DialDies
  <2>1. /\ install' \in [Side -> [Run -> Installing \cup {None}]]
        /\ staged' \in [Side -> [Obj -> Run \cup {None}]]
    BY <1>7 DEF DialDies, Blank
  <2> QED
    BY <1>7, <2>1, ForgetType DEF DialDies, TypeOK
<1>8. ASSUME NEW s \in Side, NEW p \in Obj, SkipCandidate(s, p)
      PROVE  TypeOK'
  BY <1>8, DequeueType DEF SkipCandidate, TypeOK
<1>9. ASSUME NEW s \in Side, NEW p \in Obj, RefuseOversized(s, p)
      PROVE  TypeOK'
  <2>1. wire' \in [Side -> Seq(Frame)]
    BY <1>9, Frames, Sides DEF RefuseOversized, Tell, TypeOK
  <2> QED
    BY <1>9, <2>1, DequeueType DEF RefuseOversized, TypeOK
<1>10. ASSUME NEW s \in Side, NEW p \in Obj, DropKnown(s, p)
       PROVE  TypeOK'
  BY <1>10, DequeueType DEF DropKnown, RemoveTransit, Current, TypeOK
<1>11. ASSUME NEW s \in Side, NEW p \in Obj, QuarantineFuture(s, p)
       PROVE  TypeOK'
  BY <1>11, DequeueType DEF QuarantineFuture, TypeOK
<1>12. ASSUME NEW s \in Side, NEW p \in Obj, MakeOffer(s, p)
       PROVE  TypeOK'
  <2>1. Current(s, p) \in Transfer
    BY <1>12, CurrentType DEF MakeOffer, Fresh, Offerable
  <2>2. wire' \in [Side -> Seq(Frame)]
    BY <1>12, <2>1, Frames, Sides DEF MakeOffer, Tell, TypeOK
  <2>3. send' \in [Side -> [of : Transfer, phase : {"first", "second"}] \cup {None}]
    BY <1>12, <2>1 DEF MakeOffer, TypeOK
  <2> QED
    BY <1>12, <2>2, <2>3, DequeueType DEF MakeOffer, TypeOK
<1>13. ASSUME NEW s \in Side, NEW type, Answer(s, type)
       PROVE  /\ answers' \in [Side -> Seq(Frame)]
              /\ send[s] \in [of : Transfer, phase : {"first", "second"}]
              /\ send[s].of \in Transfer /\ send[s].of.obj \in Obj
              /\ UNCHANGED <<landed, puts, link, queue, incoming, install, staged, origins>>
  BY <1>13 DEF Answer, TypeOK, Transfer
<1>14. ASSUME NEW s \in Side, AnswerNeed(s) \/ AnswerHave(s)
       PROVE  TypeOK'
  <2>1. PICK type : Answer(s, type)
    BY <1>14 DEF AnswerNeed, AnswerHave
  <2>2. send' = [send EXCEPT ![s] = [send[s] EXCEPT !.phase = "second"]]
    BY <1>14 DEF AnswerNeed, AnswerHave
  <2>3. [send[s] EXCEPT !.phase = "second"] \in [of : Transfer, phase : {"first", "second"}]
    BY <1>13, <2>1
  <2>4. send' \in [Side -> [of : Transfer, phase : {"first", "second"}] \cup {None}]
    BY <2>2, <2>3 DEF TypeOK
  <2>5. wire' \in [Side -> Seq(Frame)]
    <3>1. wire' = wire \/ wire' = Tell(s, Msg("DATA", send[s].of))
      BY <1>14 DEF AnswerNeed, AnswerHave
    <3>2. Msg("DATA", send[s].of) \in Seq(Frame)
      BY <1>13, <2>1, Frames
    <3> QED
      BY <3>1, <3>2, TellType DEF TypeOK
  <2> QED
    BY <1>13, <1>14, <2>1, <2>4, <2>5 DEF AnswerNeed, AnswerHave, TypeOK
<1>15. ASSUME NEW s \in Side, AnswerStored(s)
       PROVE  TypeOK'
  <2>1. Answer(s, "STORED")
    BY <1>15 DEF AnswerStored
  <2>2. /\ known' \in [Side -> SUBSET Transfer] /\ rejected' \in [Side -> SUBSET Transfer]
        /\ send' \in [Side -> [of : Transfer, phase : {"first", "second"}] \cup {None}]
    BY <1>13, <1>15, <2>1 DEF AnswerStored, ClearPending, TypeOK
  <2>3. file' \in [Side -> [Obj -> Bytes \cup {None, Torn}]]
    <3> DEFINE o == send[s].of.obj
    <3>1. o \in Obj
      BY <1>13, <2>1
    <3>2. \/ file' = file
          \/ file' = [file EXCEPT ![s][o] = IF @ = send[s].of.bytes THEN None ELSE @]
      BY <1>15 DEF AnswerStored, RemoveTransit
    <3> DEFINE x == IF file[s][o] = send[s].of.bytes THEN None ELSE file[s][o]
    <3>3. file \in [Side -> [Obj -> Bytes \cup {None, Torn}]]
      BY DEF TypeOK
    <3>4. x \in Bytes \cup {None, Torn}
      BY <3>1, <3>3
    <3>5. file' = file \/ file' = [file EXCEPT ![s][o] = x]
      BY <3>2
    <3> HIDE DEF o, x
    <3> QED
      BY <3>1, <3>3, <3>4, <3>5, FileType
  <2> QED
    <3>1. UNCHANGED <<wire, landed, puts, link, queue, incoming, install, staged, origins>>
      BY <1>13, <1>15, <2>1 DEF AnswerStored
    <3>2. answers' \in [Side -> Seq(Frame)]
      BY <1>13, <2>1
    <3> QED
      BY <2>2, <2>3, <3>1, <3>2 DEF TypeOK
<1>16. ASSUME NEW s \in Side, AnswerError(s)
       PROVE  TypeOK'
  <2>1. Answer(s, "ERROR")
    BY <1>16 DEF AnswerError
  <2>2. /\ send' \in [Side -> [of : Transfer, phase : {"first", "second"}] \cup {None}]
        /\ rejected' \in [Side -> SUBSET Transfer]
    BY <1>13, <1>16, <2>1 DEF AnswerError, ClearPending, TypeOK
  <2>3. UNCHANGED <<wire, file, known, landed, puts, link, queue, incoming, install, staged, origins>>
    BY <1>13, <1>16, <2>1 DEF AnswerError
  <2>4. answers' \in [Side -> Seq(Frame)]
    BY <1>13, <2>1
  <2> QED
    BY <2>2, <2>3, <2>4 DEF TypeOK
<1>17. ASSUME NEW s \in Side, WrongAnswer(s)
       PROVE  TypeOK'
  BY <1>17, CloseType DEF WrongAnswer
<1>18. ASSUME NEW s \in Side, NEW type, Read(s, type)
       PROVE  /\ Head(wire[s]) \in Frame
              /\ type # "ERROR" => Head(wire[s]).of \in Transfer
              /\ \A f \in Seq(Frame) : Consume(s, f) => wire' \in [Side -> Seq(Frame)]
  <2>1. /\ wire[s] \in Seq(Frame) /\ wire[s] # <<>>
        /\ Head(wire[s]).type = type
    BY <1>18 DEF Read, TypeOK
  <2>2. Head(wire[s]) \in Frame /\ Tail(wire[s]) \in Seq(Frame)
    BY <2>1
  <2>3. ASSUME NEW f \in Seq(Frame), Consume(s, f)
        PROVE  wire' \in [Side -> Seq(Frame)]
    BY <2>1, <2>3, ConsumeType DEF TypeOK
  <2> QED
    BY <2>1, <2>2, <2>3, Frames
<1>19. ASSUME NEW s \in Side, ReadOffer(s)
       PROVE  TypeOK'
  <2> DEFINE t == Head(wire[s]).of
  <2>1. t \in Transfer /\ t.obj \in Obj
    BY <1>18, <1>19 DEF ReadOffer, Transfer
  <2>2. \E f \in Seq(Frame) : Consume(s, f)
    <3>1. Error \in Seq(Frame) /\ Msg("NEED", t) \in Seq(Frame)
          /\ Msg("HAVE", t) \o Msg("STORED", t) \in Seq(Frame)
      BY <2>1, Frames
    <3>2. \/ Consume(s, Error) \/ Consume(s, Msg("NEED", t))
          \/ Consume(s, Msg("HAVE", t) \o Msg("STORED", t))
      BY <1>19 DEF ReadOffer
    <3> QED
      BY <3>1, <3>2
  <2>3. wire' \in [Side -> Seq(Frame)]
    BY <1>18, <1>19, <2>2 DEF ReadOffer
  <2>4. /\ incoming' \in [Side -> Transfer \cup {None}]
        /\ origins' \in [Side -> SUBSET Transfer]
    <3>1. incoming' = incoming \/ incoming' = [incoming EXCEPT ![s] = t]
      BY <1>19 DEF ReadOffer
    <3>2. \/ origins' = origins
          \/ origins' = [origins EXCEPT ![s] = {u \in @ : u.obj # t.obj} \cup {t}]
      BY <1>19 DEF ReadOffer
    <3>3. /\ incoming \in [Side -> Transfer \cup {None}]
          /\ origins \in [Side -> SUBSET Transfer]
      BY DEF TypeOK
    <3> HIDE DEF t
    <3> QED
      BY <2>1, <3>1, <3>2, <3>3
  <2> QED
    BY <1>19, <2>3, <2>4 DEF ReadOffer, TypeOK
<1>20. ASSUME NEW s \in Side, ReadData(s)
       PROVE  TypeOK'
  <2>1. incoming[s] \in Transfer
    BY <1>20 DEF ReadData, TypeOK
  <2>2. [of |-> incoming[s], at |-> "begun"] \in Installing
    BY <2>1 DEF Installing
  <2>3. /\ install' \in [Side -> [Run -> Installing \cup {None}]]
        /\ incoming' \in [Side -> Transfer \cup {None}]
    BY <1>20, <2>2 DEF ReadData, TypeOK, Run
  <2>4. wire' \in [Side -> Seq(Frame)]
    BY <1>18, <1>20, <<>> \in Seq(Frame) DEF ReadData
  <2> QED
    BY <1>20, <2>3, <2>4 DEF ReadData, TypeOK
<1>21. ASSUME NEW s \in Side, ReadAnswer(s)
       PROVE  TypeOK'
  <2>1. PICK type : Read(s, type)
    BY <1>21 DEF ReadAnswer
  <2>2. answers' \in [Side -> Seq(Frame)] /\ wire' \in [Side -> Seq(Frame)]
    <3>1. Head(wire[s]) \in Frame /\ Consume(s, <<>>) /\ <<>> \in Seq(Frame)
      BY <1>18, <1>21, <2>1 DEF ReadAnswer
    <3>2. wire' \in [Side -> Seq(Frame)]
      BY <1>18, <2>1, <3>1
    <3>3. Append(answers[s], Head(wire[s])) \in Seq(Frame)
      BY <3>1 DEF TypeOK
    <3>4. answers' = [answers EXCEPT ![s] = Append(@, Head(wire[s]))]
      BY <1>21 DEF ReadAnswer
    <3> QED
      BY <3>2, <3>3, <3>4 DEF TypeOK
  <2> QED
    BY <1>21, <2>2 DEF ReadAnswer, TypeOK
<1>22. ASSUME NEW s \in Side, ReadIdleError(s)
       PROVE  TypeOK'
  <2>1. wire' \in [Side -> Seq(Frame)]
    BY <1>18, <1>22, <<>> \in Seq(Frame) DEF ReadIdleError
  <2> QED
    BY <1>22, <2>1 DEF ReadIdleError, TypeOK
<1>23. ASSUME NEW s \in Side, Fatal(s)
       PROVE  TypeOK'
  BY <1>23, CloseType DEF Fatal
<1>24. ASSUME NEW s \in Side, NEW r \in Run, OpenTemp(s, r)
       PROVE  TypeOK'
  BY <1>24, ReachType DEF OpenTemp, TypeOK
<1>25. ASSUME NEW s \in Side, NEW r \in Run, WriteTemp(s, r)
       PROVE  TypeOK'
  <2>1. /\ install' \in [Side -> [Run -> Installing \cup {None}]]
        /\ install[s][r].of.obj \in Obj /\ install[s][r].of.bytes \in Bytes
    BY <1>25, ReachType DEF WriteTemp
  <2>2. /\ file' \in [Side -> [Obj -> Bytes \cup {None, Torn}]]
        /\ landed' \subseteq Side \X Obj \X Bytes
    <3> DEFINE o == install[s][r].of.obj
               b == install[s][r].of.bytes
    <3>1. \/ UNCHANGED <<file, landed>>
          \/ file' = [file EXCEPT ![s][o] = b] /\ landed' = landed \cup {<<s, o, b>>}
      BY <1>25 DEF WriteTemp
    <3>2. o \in Obj /\ b \in Bytes
      BY <2>1
    <3>3. /\ file \in [Side -> [Obj -> Bytes \cup {None, Torn}]]
          /\ landed \subseteq Side \X Obj \X Bytes
          /\ staged \in [Side -> [Obj -> Run \cup {None}]]
      BY DEF TypeOK
    <3> HIDE DEF o, b
    <3>4. file' = file \/ file' = [file EXCEPT ![s][o] = b]
      BY <3>1
    <3>5. file' \in [Side -> [Obj -> Bytes \cup {None, Torn}]]
      BY <3>2, <3>3, <3>4, FileType
    <3>6. landed' = landed \/ landed' = landed \cup {<<s, o, b>>}
      BY <3>1
    <3>7. landed' \subseteq Side \X Obj \X Bytes
      BY <3>2, <3>3, <3>6
    <3> QED
      BY <3>5, <3>7
  <2> QED
    BY <1>25, <2>1, <2>2 DEF WriteTemp, TypeOK
<1>26. ASSUME NEW s \in Side, NEW r \in Run, Rename(s, r)
       PROVE  TypeOK'
  <2>1. At(s, r, "synced") /\ \E at \in {"stored", "refused"} : Reach(s, r, at)
    BY <1>26 DEF Rename, Written
  <2>2. /\ install' \in [Side -> [Run -> Installing \cup {None}]]
        /\ install[s][r].of.obj \in Obj /\ install[s][r].of.bytes \in Bytes
    BY <2>1, ReachType
  <2>3. /\ file' \in [Side -> [Obj -> Bytes \cup {None, Torn}]]
        /\ landed' \subseteq Side \X Obj \X Bytes
        /\ staged' \in [Side -> [Obj -> Run \cup {None}]]
    <3> DEFINE o == install[s][r].of.obj
               b == install[s][r].of.bytes
    <3>1. /\ \/ file' = file
             \/ \E x \in {b, Torn} : file' = [file EXCEPT ![s][o] = x]
          /\ landed' = landed \/ landed' = landed \cup {<<s, o, b>>}
          /\ staged' = [staged EXCEPT ![s][o] = None]
      BY <1>26, RenameEffect
    <3>2. o \in Obj /\ b \in Bytes
      BY <2>2
    <3>3. /\ file \in [Side -> [Obj -> Bytes \cup {None, Torn}]]
          /\ landed \subseteq Side \X Obj \X Bytes
          /\ staged \in [Side -> [Obj -> Run \cup {None}]]
      BY DEF TypeOK
    <3> HIDE DEF o, b
    <3>4. file' \in [Side -> [Obj -> Bytes \cup {None, Torn}]]
      BY <3>1, <3>2, <3>3, FileType
    <3>5. landed' \subseteq Side \X Obj \X Bytes
      BY <3>1, <3>2, <3>3
    <3>6. staged' \in [Side -> [Obj -> Run \cup {None}]]
      BY <3>1, <3>2, <3>3
    <3> QED
      BY <3>4, <3>5, <3>6
  <2> QED
    BY <1>26, <2>2, <2>3 DEF Rename, TypeOK
<1>27. ASSUME NEW s \in Side, NEW r \in Run, Reply(s, r)
       PROVE  TypeOK'
  <2>1. install[s][r].of \in Transfer /\ install[s][r].of.obj \in Obj
    BY <1>27 DEF Reply, At, TypeOK, Installing, Transfer
  <2>2. install' \in [Side -> [Run -> Installing \cup {None}]]
    BY <1>27 DEF Reply, TypeOK
  <2>3. wire' \in [Side -> Seq(Frame)]
    <3>1. \/ wire' = wire \/ wire' = Tell(s, Error)
          \/ wire' = Tell(s, Msg("STORED", install[s][r].of))
      BY <1>27 DEF Reply
    <3> QED
      BY <2>1, <3>1, Frames, TellType DEF TypeOK
  <2>4. origins' \in [Side -> SUBSET Transfer]
    <3> DEFINE t == install[s][r].of
    <3>1. \/ origins' = origins
          \/ origins' = [origins EXCEPT ![s] = {u \in @ : u.obj # t.obj} \cup {t}]
      BY <1>27 DEF Reply
    <3>2. t \in Transfer /\ origins \in [Side -> SUBSET Transfer]
      BY <2>1 DEF TypeOK
    <3> HIDE DEF t
    <3> QED
      BY <3>1, <3>2
  <2> QED
    BY <1>27, <2>2, <2>3, <2>4 DEF Reply, TypeOK
<1> QED
  BY <1>1, <1>2, <1>3, <1>4, <1>5, <1>6, <1>7, <1>8, <1>9, <1>10, <1>11, <1>12, <1>14,
     <1>15, <1>16, <1>17, <1>19, <1>20, <1>21, <1>22, <1>23, <1>24, <1>25, <1>26, <1>27
     DEF Next, Sending, Reading, Writing

\* It holds of the files there at the start.
LEMMA TypeInit ==
    ASSUME Init
    PROVE  TypeOK
<1> USE Constants
<1>1. /\ wire \in [Side -> Seq(Frame)] /\ answers \in [Side -> Seq(Frame)]
      /\ queue \in [Side -> SUBSET Obj]
      /\ send \in [Side -> [of : Transfer, phase : {"first", "second"}] \cup {None}]
      /\ incoming \in [Side -> Transfer \cup {None}]
      /\ install \in [Side -> [Run -> Installing \cup {None}]]
      /\ staged \in [Side -> [Obj -> Run \cup {None}]]
      /\ known \in [Side -> SUBSET Transfer] /\ rejected \in [Side -> SUBSET Transfer]
      /\ origins \in [Side -> SUBSET Transfer]
  BY DEF Init, Blank
<1>2. \A s \in Side : IsFiniteSet(queue[s]) /\ Cardinality(queue[s]) <= QueueCap
  BY FS_EmptySet DEF Init, Blank
<1>3. ASSUME NEW s \in Side, NEW p \in Obj
      PROVE  file[s][p] \in Bytes \cup {None, Torn}
  <2>1. file[s][p] = IF \E b \in Bytes : <<s, p, b>> \in Standing
                     THEN CHOOSE b \in Bytes : <<s, p, b>> \in Standing ELSE None
    BY DEF Init
  <2> QED
    BY <2>1
<1>4. file \in [Side -> [Obj -> Bytes \cup {None, Torn}]]
  <2>1. /\ file = [s \in Side |-> file[s]]
        /\ \A s \in Side : file[s] = [p \in Obj |-> file[s][p]]
    BY DEF Init
  <2>2. ASSUME NEW s \in Side
        PROVE  file[s] \in [Obj -> Bytes \cup {None, Torn}]
    BY <1>3, <2>1
  <2> QED
    BY <2>1, <2>2
<1>5. /\ landed \subseteq Side \X Obj \X Bytes
      /\ puts \in 0..MaxPuts /\ sessions \in 0..MaxSessions
  BY DEF Init
<1>6. up \in BOOLEAN
  BY DEF Init
<1> QED
  BY <1>1, <1>2, <1>4, <1>5, <1>6 DEF TypeOK

\* Whatever is offered, interrupted, dialled again or killed: both daemons and
\* their directories keep their shape, and enqueue never overfills the channel.
THEOREM TypeCorrect == Spec => []TypeOK
<1>1. TypeOK /\ [Next]_vars => TypeOK'
  BY TypeStep
<1> QED
  BY <1>1, TypeInit, PTL DEF Spec

-----------------------------------------------------------------------------
(* What changes files *)

\* The ways a file of either machine can change.
LEMMA FileSteps ==
    ASSUME [Next]_vars
    PROVE  \/ UNCHANGED <<file, landed>>
           \/ \E s \in Side, p \in Obj :
                 \/ Take(s, p) \/ DropKnown(s, p) \/ QuarantineFuture(s, p)
                 \/ \E b \in Bytes : Put(s, p, b)
           \/ \E s \in Side : AnswerStored(s)
           \/ \E s \in Side, r \in Run : WriteTemp(s, r) \/ Rename(s, r)
<1> USE DEF disk, link, memory
<1>1. CASE UNCHANGED vars
  BY <1>1 DEF vars
<1>2. ASSUME NEW s \in Side, NEW p \in Obj,
             Enqueue(s, p) \/ SkipCandidate(s, p) \/ RefuseOversized(s, p) \/ MakeOffer(s, p)
      PROVE  UNCHANGED <<file, landed>>
  BY <1>2 DEF Enqueue, SkipCandidate, RefuseOversized, MakeOffer
<1>3. CASE Connect \/ Break \/ DialDies
  BY <1>3 DEF Connect, Break, DialDies, Close
<1>4. ASSUME NEW s \in Side,
             AnswerNeed(s) \/ AnswerHave(s) \/ AnswerError(s) \/ WrongAnswer(s) \/ Reading(s)
      PROVE  UNCHANGED <<file, landed>>
  BY <1>4 DEF AnswerNeed, AnswerHave, AnswerError, Answer, WrongAnswer, Close, Reading,
     ReadOffer, ReadData, ReadAnswer, ReadIdleError, Fatal
<1>5. ASSUME NEW s \in Side, NEW r \in Run, OpenTemp(s, r) \/ Reply(s, r)
      PROVE  UNCHANGED <<file, landed>>
  BY <1>5 DEF OpenTemp, Reply
<1> QED
  BY <1>1, <1>2, <1>3, <1>4, <1>5 DEF Next, Sending, Writing

\* An install of a path, and what it installs.
LEMMA InstallOf ==
    ASSUME TypeOK, NEW s \in Side, NEW r \in Run, NEW at, At(s, r, at)
    PROVE  /\ install[s][r].of \in Transfer
           /\ install[s][r].of.obj \in Obj /\ install[s][r].of.bytes \in Bytes
BY DEF At, TypeOK, Installing, Transfer

\* Unlinking a transit copy removes these bytes or nothing.
LEMMA RemoveEffect ==
    ASSUME TypeOK, NEW s \in Side, NEW t \in Transfer, RemoveTransit(s, t)
    PROVE  \A u \in Side, p \in Obj :
              \/ file'[u][p] = file[u][p]
              \/ u = s /\ p = t.obj /\ file[u][p] = t.bytes /\ file'[u][p] = None
<1> DEFINE o == t.obj
           x == IF file[s][o] = t.bytes THEN None ELSE file[s][o]
<1>1. file' = [file EXCEPT ![s][o] = x] /\ o \in Obj
  BY DEF RemoveTransit, Transfer
<1>2. file \in [Side -> [Obj -> Bytes \cup {None, Torn}]]
  BY DEF TypeOK
<1>3. x = file[s][o] \/ (file[s][o] = t.bytes /\ x = None)
  OBVIOUS
<1> HIDE DEF x
<1> QED
  BY <1>1, <1>2, <1>3

\* Only acks, bounces and letters are ever unlinked as stored.
LEMMA DisposableKind ==
    ASSUME NEW s \in Side, NEW p \in Obj, Disposable(s, p)
    PROVE  Kind[p] \in {"letter", "infra"}
BY DEF Disposable

\* An answer is about the transfer under way.
LEMMA AnswerOf ==
    ASSUME TypeOK, NEW s \in Side, NEW type, Answer(s, type)
    PROVE  send[s].of \in Transfer /\ send[s].of.obj \in Obj
BY DEF Answer, TypeOK, Transfer

-----------------------------------------------------------------------------
(* Files do not change under their name *)

\* One step.
LEMMA ImmutableStep ==
    ASSUME TypeOK, [Next]_vars, NEW s \in Side, NEW p \in Obj,
           Kind[p] # "watcher", file[s][p] \in Bytes
    PROVE  file'[s][p] \in {file[s][p], None}
<1> USE Constants DEF disk
<1> DEFINE Same == file'[s][p] \in {file[s][p], None}
<1>0. file \in [Side -> [Obj -> Bytes \cup {None, Torn}]]
  BY DEF TypeOK
<1>1. ASSUME NEW u \in Side, NEW q \in Obj, Take(u, q) \/ QuarantineFuture(u, q)
      PROVE  Same
  BY <1>0, <1>1 DEF Take, QuarantineFuture
<1>2. ASSUME NEW u \in Side, NEW q \in Obj, DropKnown(u, q)
      PROVE  Same
  <2>1. Current(u, q) \in Transfer /\ RemoveTransit(u, Current(u, q))
    BY <1>2, CurrentType DEF DropKnown, Offerable
  <2> QED
    BY <2>1, RemoveEffect
<1>3. ASSUME NEW u \in Side, NEW q \in Obj, NEW b \in Bytes, Put(u, q, b)
      PROVE  Same
  BY <1>0, <1>3 DEF Put
<1>4. ASSUME NEW u \in Side, AnswerStored(u)
      PROVE  Same
  <2>1. send[u].of \in Transfer
    BY <1>4, AnswerOf DEF AnswerStored
  <2> QED
    BY <1>4, <2>1, RemoveEffect DEF AnswerStored
<1>5. ASSUME NEW u \in Side, NEW r \in Run, WriteTemp(u, r)
      PROVE  Same
  <2> DEFINE o == install[u][r].of.obj
             b == install[u][r].of.bytes
  <2>1. \/ file' = file
        \/ file[u][o] = Torn /\ file' = [file EXCEPT ![u][o] = b]
    BY <1>5 DEF WriteTemp
  <2> HIDE DEF o, b
  <2> QED
    BY <1>0, <2>1
<1>6. ASSUME NEW u \in Side, NEW r \in Run, Rename(u, r)
      PROVE  Same
  <2> DEFINE o == install[u][r].of.obj
  <2>1. \/ file' = file
        \/ /\ file[u][o] = None \/ Replaces(o)
           /\ \E x : file' = [file EXCEPT ![u][o] = x]
    BY <1>6, RenameEffect
  <2> HIDE DEF o
  <2> QED
    BY <1>0, <2>1 DEF Replaces
<1> QED
  BY <1>1, <1>2, <1>3, <1>4, <1>5, <1>6, FileSteps

\* For any contents, writers, sessions, kills and even installs that meet those
\* of an earlier session: a letter or a stream entry in place is never
\* overwritten (RENAME_NOREPLACE or link(2)), only ever removed.
THEOREM FilesAreImmutable == Spec => Immutable
<1>1. TypeOK /\ [Next]_vars =>
        [\A s \in Side, p \in Obj :
           Kind[p] # "watcher" /\ file[s][p] \in Bytes
           => file'[s][p] \in {file[s][p], None}]_vars
  BY ImmutableStep
<1> QED
  BY <1>1, TypeCorrect, PTL DEF Spec, Immutable

-----------------------------------------------------------------------------
(* One installer at a time *)

\* Sessions hand over to their successors only when their installs have ended.
LEMMA OneInstallerStep ==
    ASSUME TypeOK, OneInstaller, [Next]_vars
    PROVE  OneInstaller'
<1> USE DEF disk, link, memory
<1>0. /\ install["serve"]["before"] = None
      /\ ~Linger => \A s \in Side : /\ up => install[s]["before"] = None
                                    /\ ~up => install[s]["now"] = None
  BY DEF OneInstaller
<1>1. /\ install \in [Side -> [Run -> Installing \cup {None}]]
      /\ "now" \in Run /\ "before" \in Run /\ up \in BOOLEAN
      /\ Run = {"now", "before"} /\ "now" # "before"
  BY DEF TypeOK, Run
<1> DEFINE Good ==
             /\ install'["serve"]["before"] = None
             /\ ~Linger => \A s \in Side : /\ up' => install'[s]["before"] = None
                                           /\ ~up' => install'[s]["now"] = None
<1>2. ASSUME UNCHANGED <<up, install>>
      PROVE  Good
  BY <1>0, <1>2
<1>3. ASSUME Connect
      PROVE  Good
  <2>1. ~up /\ up' /\ install' = install
    BY <1>3 DEF Connect
  <2> QED
    BY <1>0, <1>3, <2>1 DEF Connect, Side
<1>4. ASSUME Close
      PROVE  Good
  BY <1>0, <1>1, <1>4 DEF Close, Side
<1>5. ASSUME DialDies
      PROVE  Good
  BY <1>1, <1>5 DEF DialDies, Blank, Side
<1>6. ASSUME NEW s \in Side, ReadData(s)
      PROVE  Good
  BY <1>0, <1>1, <1>6 DEF ReadData, Read
<1>7. ASSUME NEW s \in Side, NEW r \in Run, Writing(s, r)
      PROVE  /\ up' = up /\ install[s][r] # None
             /\ \A u \in Side, q \in Run :
                   <<u, q>> # <<s, r>> => install'[u][q] = install[u][q]
  <2>1. CASE Reply(s, r)
    BY <1>1, <2>1 DEF Reply, At
  <2>2. CASE OpenTemp(s, r) \/ WriteTemp(s, r) \/ Rename(s, r)
    <3>1. \E was, at \in {"begun", "writing", "synced", "stored", "refused"} :
             At(s, r, was) /\ Reach(s, r, at)
      BY <2>2 DEF OpenTemp, WriteTemp, Rename, Written
    <3> QED
      BY <2>2, <3>1, ReachType DEF OpenTemp, WriteTemp, Rename, At
  <2> QED
    BY <1>7, <2>1, <2>2 DEF Writing
<1>8. ASSUME NEW s \in Side, NEW r \in Run, Writing(s, r)
      PROVE  Good
  BY <1>0, <1>1, <1>7, <1>8 DEF Side
<1>9. ASSUME NEW s \in Side, Sending(s)
      PROVE  UNCHANGED <<up, install>> \/ Close
  BY <1>9 DEF Sending, SkipCandidate, RefuseOversized, DropKnown, QuarantineFuture,
     MakeOffer, Dequeue, AnswerNeed, AnswerHave, AnswerStored, AnswerError, Answer,
     WrongAnswer
<1>10. ASSUME NEW s \in Side, Reading(s)
       PROVE  UNCHANGED <<up, install>> \/ Close \/ ReadData(s)
  BY <1>10 DEF Reading, ReadOffer, ReadAnswer, ReadIdleError, Fatal
<1>11. ASSUME NEW s \in Side, NEW p \in Obj,
              Take(s, p) \/ Enqueue(s, p) \/ \E b \in Bytes : Put(s, p, b)
       PROVE  UNCHANGED <<up, install>>
  BY <1>11 DEF Take, Enqueue, Put
<1> QED
  BY <1>2, <1>3, <1>4, <1>5, <1>6, <1>8, <1>9, <1>10, <1>11 DEF Next, Break, vars, OneInstaller

\* Two installs of one side are the same install.
LEMMA SoleInstaller ==
    ASSUME ~Linger, TypeOK, OneInstaller, NEW s \in Side, NEW r \in Run, NEW q \in Run,
           install[s][r] # None, install[s][q] # None
    PROVE  r = q
BY DEF OneInstaller, Run, TypeOK

\* So a rename never meets a temporary that is still being written.
LEMMA RenameWhole ==
    ASSUME ~Linger, TypeOK, OneInstaller, NEW s \in Side, NEW r \in Run, Rename(s, r)
    PROVE  LET t == install[s][r].of IN
           \/ UNCHANGED <<file, landed>>
           \/ /\ ~StaleWatcher(s, t)
              /\ file[s][t.obj] = None \/ Replaces(t.obj)
              /\ file' = [file EXCEPT ![s][t.obj] = t.bytes]
              /\ landed' = landed \cup {<<s, t.obj, t.bytes>>}
<1> DEFINE t == install[s][r].of
           owner == staged[s][t.obj]
<1>1. At(s, r, "synced")
  BY DEF Rename, Written
<1>2. owner \in Run \cup {None}
  BY <1>1, InstallOf DEF TypeOK
<1>3. ASSUME owner # None, At(s, owner, "writing")
      PROVE  FALSE
  <2>1. owner = r
    BY <1>1, <1>2, <1>3, SoleInstaller DEF At
  <2> QED
    BY <1>1, <1>3, <2>1 DEF At
<1> QED
  BY <1>3, RenameEffect

\* Nothing torn is ever put in place.
LEMMA WholeStep ==
    ASSUME ~Linger, TypeOK, OneInstaller, Whole, [Next]_vars
    PROVE  Whole'
<1> USE Constants DEF disk
<1>0. /\ file \in [Side -> [Obj -> Bytes \cup {None, Torn}]]
      /\ \A s \in Side, p \in Obj : file[s][p] # Torn
  BY DEF TypeOK, Whole
<1>1. ASSUME NEW u \in Side, NEW q \in Obj, Take(u, q) \/ QuarantineFuture(u, q)
      PROVE  Whole'
  BY <1>0, <1>1 DEF Take, QuarantineFuture, Whole
<1>2. ASSUME NEW u \in Side, NEW t \in Transfer, RemoveTransit(u, t)
      PROVE  Whole'
  BY <1>0, <1>2, RemoveEffect DEF Whole
<1>3. ASSUME NEW u \in Side, NEW q \in Obj, DropKnown(u, q)
      PROVE  Whole'
  BY <1>2, <1>3, CurrentType DEF DropKnown, Offerable
<1>4. ASSUME NEW u \in Side, NEW q \in Obj, NEW b \in Bytes, Put(u, q, b)
      PROVE  Whole'
  BY <1>0, <1>4 DEF Put, Whole
<1>5. ASSUME NEW u \in Side, AnswerStored(u)
      PROVE  Whole'
  <2>1. send[u].of \in Transfer
    BY <1>5, AnswerOf DEF AnswerStored
  <2>2. CASE file' = file
    BY <1>0, <2>2 DEF Whole
  <2> QED
    BY <1>2, <1>5, <2>1, <2>2 DEF AnswerStored
<1>6. ASSUME NEW u \in Side, NEW r \in Run, WriteTemp(u, r) \/ Rename(u, r)
      PROVE  Whole'
  <2> DEFINE o == install[u][r].of.obj
             b == install[u][r].of.bytes
  <2>1. o \in Obj /\ b \in Bytes
    BY <1>6, InstallOf DEF WriteTemp, Rename, Written
  <2>2. file' = file \/ file' = [file EXCEPT ![u][o] = b]
    BY <1>6, RenameWhole DEF WriteTemp
  <2> HIDE DEF o, b
  <2> QED
    BY <1>0, <2>1, <2>2 DEF Whole
<1>7. CASE UNCHANGED file
  BY <1>0, <1>7 DEF Whole
<1> QED
  BY <1>1, <1>3, <1>4, <1>5, <1>6, <1>7, FileSteps

\* A declaration gives way to newer ones only.
LEMMA WatcherStep ==
    ASSUME ~Linger, TypeOK, OneInstaller, [Next]_vars, NEW s \in Side, NEW p \in Obj,
           Kind[p] = "watcher", file[s][p] \in Bytes
    PROVE  file'[s][p] \in Bytes /\ file'[s][p] >= file[s][p]
<1> USE Constants DEF disk
<1> DEFINE Forward == file'[s][p] \in Bytes /\ file'[s][p] >= file[s][p]
<1>0. /\ file \in [Side -> [Obj -> Bytes \cup {None, Torn}]]
      /\ file[s][p] \in Nat /\ file[s][p] >= file[s][p]
  <2>1. file[s][p] \in Nat
    OBVIOUS
  <2>2. file[s][p] >= file[s][p]
    BY <2>1
  <2> QED
    BY <2>1, <2>2 DEF TypeOK
<1>1. ASSUME NEW u \in Side, NEW q \in Obj, Take(u, q) \/ QuarantineFuture(u, q)
      PROVE  Forward
  BY <1>0, <1>1 DEF Take, QuarantineFuture, Fresh, Future
<1>2. ASSUME NEW u \in Side, NEW t \in Transfer, RemoveTransit(u, t), Disposable(u, t.obj)
      PROVE  Forward
  <2>1. t.obj \in Obj
    BY DEF Transfer
  <2>2. Kind[t.obj] # "watcher"
    BY <1>2, <2>1, DisposableKind
  <2> QED
    BY <1>0, <1>2, <2>2, RemoveEffect
<1>3. ASSUME NEW u \in Side, NEW q \in Obj, DropKnown(u, q)
      PROVE  Forward
  <2>1. Current(u, q) \in Transfer /\ Current(u, q).obj = q
    BY <1>3, CurrentType DEF DropKnown, Offerable, Current
  <2> QED
    BY <1>2, <1>3, <2>1 DEF DropKnown
<1>4. ASSUME NEW u \in Side, NEW q \in Obj, NEW b \in Bytes, Put(u, q, b)
      PROVE  Forward
  <2>1. file' = [file EXCEPT ![u][q] = b] /\ (file[u][q] # None => b > file[u][q])
    BY <1>4 DEF Put
  <2>2. CASE u = s /\ q = p
    <3>1. file'[s][p] = b /\ b > file[s][p]
      BY <1>0, <2>1, <2>2
    <3>2. b \in Nat /\ file[s][p] \in Nat
      BY <1>0
    <3> QED
      BY <3>1, <3>2
  <2>3. CASE ~(u = s /\ q = p)
    BY <1>0, <2>1, <2>3
  <2> QED
    BY <2>2, <2>3
<1>5. ASSUME NEW u \in Side, AnswerStored(u)
      PROVE  Forward
  <2>1. send[u].of \in Transfer
    BY <1>5, AnswerOf DEF AnswerStored
  <2> QED
    BY <1>0, <1>2, <1>5, <2>1 DEF AnswerStored
<1>6. ASSUME NEW u \in Side, NEW r \in Run, WriteTemp(u, r)
      PROVE  Forward
  <2> DEFINE o == install[u][r].of.obj
             b == install[u][r].of.bytes
  <2>1. \/ file' = file
        \/ file[u][o] = Torn /\ file' = [file EXCEPT ![u][o] = b]
    BY <1>6 DEF WriteTemp
  <2> HIDE DEF o, b
  <2> QED
    BY <1>0, <2>1
<1>7. ASSUME NEW u \in Side, NEW r \in Run, Rename(u, r)
      PROVE  Forward
  <2> DEFINE t == install[u][r].of
             o == t.obj
             b == t.bytes
  <2>1. o \in Obj /\ b \in Bytes
    BY <1>7, InstallOf DEF Rename, Written
  <2>2. \/ file' = file
        \/ ~StaleWatcher(u, t) /\ file' = [file EXCEPT ![u][o] = b]
    BY <1>7, RenameWhole
  <2>3. ~StaleWatcher(u, t) /\ u = s /\ o = p => ~(b < file[s][p])
    BY DEF StaleWatcher
  <2> HIDE DEF t, o, b
  <2>4. CASE u = s /\ o = p
    BY <1>0, <2>1, <2>2, <2>3, <2>4
  <2>5. CASE ~(u = s /\ o = p)
    BY <1>0, <2>2, <2>5
  <2> QED
    BY <2>4, <2>5
<1>8. CASE UNCHANGED file
  BY <1>0, <1>8
<1> QED
  BY <1>1, <1>3, <1>4, <1>5, <1>6, <1>7, <1>8, FileSteps

-----------------------------------------------------------------------------
(* What a side says of its files is true *)

\* The history only grows.
LEMMA LandedGrows ==
    ASSUME [Next]_vars
    PROVE  landed \subseteq landed'
<1> USE DEF disk
<1>1. ASSUME NEW s \in Side, NEW p \in Obj,
             Take(s, p) \/ DropKnown(s, p) \/ QuarantineFuture(s, p)
             \/ \E b \in Bytes : Put(s, p, b)
      PROVE  landed \subseteq landed'
  BY <1>1 DEF Take, DropKnown, QuarantineFuture, Put
<1>2. ASSUME NEW s \in Side, AnswerStored(s)
      PROVE  landed \subseteq landed'
  BY <1>2 DEF AnswerStored, Answer
<1>3. ASSUME NEW s \in Side, NEW r \in Run, WriteTemp(s, r) \/ Rename(s, r)
      PROVE  landed \subseteq landed'
  BY <1>3, RenameEffect DEF WriteTemp
<1> QED
  BY <1>1, <1>2, <1>3, FileSteps

\* What is in place has been put there.
LEMMA FilesTruthful ==
    ASSUME TypeOK, TruthfulInv, [Next]_vars, NEW s \in Side, NEW p \in Obj,
           file'[s][p] \in Bytes
    PROVE  <<s, p, file'[s][p]>> \in landed'
<1> USE Constants DEF disk
<1> DEFINE Goal == <<s, p, file'[s][p]>> \in landed'
<1>0. /\ file \in [Side -> [Obj -> Bytes \cup {None, Torn}]]
      /\ file[s][p] \in Bytes => <<s, p, file[s][p]>> \in landed
  BY DEF TypeOK, TruthfulInv
<1>1. CASE file'[s][p] = file[s][p]
  BY <1>0, <1>1, LandedGrows
<1>2. ASSUME NEW u \in Side, NEW q \in Obj, NEW x, file' = [file EXCEPT ![u][q] = x],
             x \in Bytes => landed' = landed \cup {<<u, q, x>>}
      PROVE  Goal
  <2>1. file'[s][p] = IF u = s /\ q = p THEN x ELSE file[s][p]
    BY <1>0, <1>2
  <2>2. CASE u = s /\ q = p
    BY <1>2, <2>1, <2>2
  <2> QED
    BY <1>1, <2>1, <2>2
<1>3. ASSUME NEW u \in Side, NEW t \in Transfer, RemoveTransit(u, t)
      PROVE  Goal
  BY <1>1, <1>3, RemoveEffect
<1>4. ASSUME NEW u \in Side, NEW q \in Obj, Take(u, q) \/ QuarantineFuture(u, q)
      PROVE  Goal
  <2>1. file' = [file EXCEPT ![u][q] = None]
    BY <1>4 DEF Take, QuarantineFuture
  <2> QED
    BY <1>2, <2>1
<1>5. ASSUME NEW u \in Side, NEW q \in Obj, DropKnown(u, q)
      PROVE  Goal
  BY <1>3, <1>5, CurrentType DEF DropKnown, Offerable
<1>6. ASSUME NEW u \in Side, NEW q \in Obj, NEW b \in Bytes, Put(u, q, b)
      PROVE  Goal
  <2>1. file' = [file EXCEPT ![u][q] = b] /\ landed' = landed \cup {<<u, q, b>>}
    BY <1>6 DEF Put
  <2> QED
    BY <1>2, <2>1
<1>7. ASSUME NEW u \in Side, AnswerStored(u)
      PROVE  Goal
  <2>1. send[u].of \in Transfer
    BY <1>7, AnswerOf DEF AnswerStored
  <2> QED
    BY <1>1, <1>3, <1>7, <2>1 DEF AnswerStored
<1>8. ASSUME NEW u \in Side, NEW r \in Run, WriteTemp(u, r) \/ Rename(u, r)
      PROVE  Goal
  <2> DEFINE o == install[u][r].of.obj
             b == install[u][r].of.bytes
  <2>1. o \in Obj /\ b \in Bytes
    BY <1>8, InstallOf DEF WriteTemp, Rename, Written
  <2>2. \/ file' = file
        \/ file' = [file EXCEPT ![u][o] = b] /\ landed' = landed \cup {<<u, o, b>>}
        \/ file' = [file EXCEPT ![u][o] = Torn]
    BY <1>8, RenameEffect DEF WriteTemp
  <2> HIDE DEF o, b
  <2>3. CASE file' = file
    BY <1>1, <2>3
  <2>4. CASE file' = [file EXCEPT ![u][o] = b] /\ landed' = landed \cup {<<u, o, b>>}
    BY <1>2, <2>1, <2>4
  <2>5. CASE file' = [file EXCEPT ![u][o] = Torn]
    BY <1>2, <2>1, <2>5
  <2> QED
    BY <2>2, <2>3, <2>4, <2>5
<1>9. CASE UNCHANGED file
  BY <1>1, <1>9
<1> QED
  BY <1>4, <1>5, <1>6, <1>7, <1>8, <1>9, FileSteps

\* A rename ends in STORED only when the bytes are in place, were there before,
\* or have been superseded by a newer declaration.
LEMMA RenameStored ==
    ASSUME ~Linger, TypeOK, OneInstaller, TruthfulInv, NEW s \in Side, NEW r \in Run,
           Rename(s, r), [Next]_vars, install'[s][r].at = "stored",
           NEW t \in Transfer, t = install[s][r].of
    PROVE  HasHad(s, t)'
<1> DEFINE owner == staged[s][t.obj]
<1>1. At(s, r, "synced") /\ t.obj \in Obj /\ t.bytes \in Bytes
  BY DEF Rename, Written, Transfer
<1>2. owner \in Run \cup {None}
  BY <1>1 DEF TypeOK
<1>3. ~(owner # None /\ At(s, owner, "writing"))
  <2> SUFFICES ASSUME owner # None, At(s, owner, "writing") PROVE FALSE
    OBVIOUS
  <2>1. owner = r
    BY <1>1, <1>2, SoleInstaller DEF At
  <2> QED
    BY <1>1, <2>1 DEF At
<1>4. \/ Reach(s, r, "refused")
      \/ StaleWatcher(s, t)
      \/ landed' = landed \cup {<<s, t.obj, t.bytes>>}
      \/ Equal(s, t)
  BY <1>3 DEF Rename
<1>5. ~Reach(s, r, "refused")
  <2> SUFFICES ASSUME Reach(s, r, "refused") PROVE FALSE
    OBVIOUS
  <2>1. install'[s][r] = [of |-> install[s][r].of, at |-> "refused"]
    BY <1>1, ReachType
  <2> QED
    BY <2>1
<1>6. CASE StaleWatcher(s, t)
  BY <1>6 DEF StaleWatcher, HasHad
<1>7. CASE Equal(s, t)
  <2>1. <<s, t.obj, t.bytes>> \in landed
    BY <1>1, <1>7 DEF Equal, TruthfulInv
  <2> QED
    BY <2>1, LandedGrows DEF HasHad
<1>8. CASE landed' = landed \cup {<<s, t.obj, t.bytes>>}
  BY <1>8 DEF HasHad
<1> QED
  BY <1>4, <1>5, <1>6, <1>7, <1>8

\* Sequences of fewer things are sequences of more.
LEMMA SeqMonotone ==
    ASSUME NEW S, NEW T, S \subseteq T, NEW q \in Seq(S)
    PROVE  q \in Seq(T)
OBVIOUS

\* Only STORED needs a reason.
LEMMA TruthOf ==
    ASSUME NEW s \in Side
    PROVE  /\ \A t \in Transfer, type \in {"OFFER", "NEED", "HAVE", "DATA"} :
                Msg(type, t) \in Seq(Truths(Other(s))')
           /\ Error \in Seq(Truths(Other(s))')
           /\ \A t \in Transfer :
                HasHad(s, t)' => Msg("STORED", t) \in Seq(Truths(Other(s))')
<1>1. Other(s) \in Side /\ Other(Other(s)) = s
  BY Sides
<1>2. \A t \in Transfer, type \in {"OFFER", "NEED", "HAVE", "DATA"} :
         [type |-> type, of |-> t] \in Truths(Other(s))'
  BY DEF Truths, Frame
<1>3. [type |-> "ERROR"] \in Truths(Other(s))'
  BY DEF Truths, Frame
<1>4. \A t \in Transfer :
         HasHad(s, t)' => [type |-> "STORED", of |-> t] \in Truths(Other(s))'
  BY <1>1 DEF Truths, Frame
<1> QED
  BY <1>2, <1>3, <1>4 DEF Msg, Error

\* Answers and memories stay true, whatever is read, answered or interrupted.
LEMMA TruthfulStep ==
    ASSUME TypeOK, OneInstaller, TruthfulInv, [Next]_vars
    PROVE  TruthfulInv'
<1> SUFFICES ASSUME ~Linger, NEW u \in Side
             PROVE  /\ \A t \in known'[u] : HasHad(Other(u), t)'
                    /\ wire'[u] \in Seq(Truths(u)') /\ answers'[u] \in Seq(Truths(u)')
                    /\ \A r \in Run, t \in Transfer :
                          /\ install'[u][r] # None /\ install'[u][r].at = "stored"
                          /\ t = install'[u][r].of
                          => HasHad(u, t)'
  <2>1. TypeOK'
    BY TypeStep
  <2>2. \A s \in Side, r \in Run : At(s, r, "stored")' => install'[s][r].of \in Transfer
    BY <2>1 DEF At, TypeOK, Installing
  <2> QED
    BY <2>2, FilesTruthful DEF TruthfulInv, At, HasHad
<1> USE DEF disk, link, memory
<1> DEFINE Known(s) == \A t \in known'[s] : HasHad(Other(s), t)'
           Wire(s) == wire'[s] \in Seq(Truths(s)')
           Answers(s) == answers'[s] \in Seq(Truths(s)')
           Stored(s) == \A r \in Run, t \in Transfer :
                           /\ install'[s][r] # None /\ install'[s][r].at = "stored"
                           /\ t = install'[s][r].of
                           => HasHad(s, t)'
           Good == Known(u) /\ Wire(u) /\ Answers(u) /\ Stored(u)
<1>1. /\ landed \subseteq landed'
      /\ \A s \in Side, t \in Transfer : HasHad(s, t) => HasHad(s, t)'
      /\ \A s \in Side : Truths(s) \subseteq Truths(s)'
  <2>1. landed \subseteq landed'
    BY LandedGrows
  <2>2. \A s \in Side, t \in Transfer : HasHad(s, t) => HasHad(s, t)'
    BY <2>1 DEF HasHad
  <2>3. \A s \in Side, f \in Frame : f.type = "STORED" => f.of \in Transfer /\ Other(s) \in Side
    BY Frames, Sides
  <2>4. ASSUME NEW s \in Side, NEW f \in Truths(s)
        PROVE  f \in Truths(s)'
    BY <2>2, <2>3, <2>4 DEF Truths
  <2> QED
    BY <2>1, <2>2, <2>4
<1>2. \A s \in Side : wire[s] \in Seq(Truths(s)') /\ answers[s] \in Seq(Truths(s)')
  BY <1>1, SeqMonotone DEF TruthfulInv
<1>3. \A s \in Side : \A t \in known[s] : HasHad(Other(s), t)' /\ t \in Transfer
  BY <1>1, Sides DEF TruthfulInv, TypeOK
<1>4. \A r \in Run, t \in Transfer :
         install[u][r] # None /\ install[u][r].at = "stored" /\ t = install[u][r].of
         => HasHad(u, t)'
  BY <1>1 DEF TruthfulInv, At
<1>5. /\ wire \in [Side -> Seq(Frame)] /\ answers \in [Side -> Seq(Frame)]
      /\ known \in [Side -> SUBSET Transfer]
      /\ install \in [Side -> [Run -> Installing \cup {None}]]
  BY DEF TypeOK
<1>6. Other(u) \in Side /\ Other(u) # u /\ Other(Other(u)) = u
      /\ \A s \in Side : Other(s) = u => s = Other(u)
  BY Sides
<1>7. (known' = known => Known(u)) /\ (wire' = wire => Wire(u))
      /\ (answers' = answers => Answers(u)) /\ (install' = install => Stored(u))
  BY <1>2, <1>3, <1>4
<1>8. ASSUME NEW s \in Side, NEW f \in Seq(Truths(Other(s))'), wire' = Tell(s, f)
      PROVE  Wire(u)
  <2>1. wire'[u] = IF u = Other(s) THEN wire[u] \o f ELSE wire[u]
    BY <1>5, <1>8, Sides DEF Tell
  <2>2. u = Other(s) => wire[u] \o f \in Seq(Truths(u)')
    BY <1>2
  <2> QED
    BY <1>2, <2>1, <2>2
<1>9. ASSUME NEW s \in Side, NEW f \in Seq(Truths(Other(s))'), Consume(s, f), wire[s] # <<>>
      PROVE  Wire(u)
  <2>1. wire'[u] = IF u = Other(s) THEN wire[u] \o f
                   ELSE IF u = s THEN Tail(wire[s]) ELSE wire[u]
    BY <1>5, <1>9, Sides DEF Consume
  <2>2. u = Other(s) => wire[u] \o f \in Seq(Truths(u)')
    BY <1>2
  <2>3. Tail(wire[s]) \in Seq(Truths(s)')
    BY <1>2, <1>9
  <2> QED
    BY <1>2, <2>1, <2>2, <2>3
<1>10. ASSUME NEW s \in Side, answers[s] # <<>>, answers' = [answers EXCEPT ![s] = Tail(@)]
       PROVE  Answers(u)
  <2>1. Tail(answers[s]) \in Seq(Truths(s)')
    BY <1>2, <1>10
  <2> QED
    BY <1>2, <1>5, <1>10, <2>1
<1>11. ASSUME Forget
       PROVE  Known(u) /\ Wire(u) /\ Answers(u)
  BY <1>11 DEF Forget, Blank
<1> HIDE DEF Known, Wire, Answers
<1>12. ASSUME Close
       PROVE  Good
  <2>1. \A r \in Run : \/ install'[u][r] = None
                       \/ \E q \in Run : install'[u][r] = install[u][q]
    BY <1>5, <1>12 DEF Close, Side, Run
  <2>2. Stored(u)
    BY <1>4, <2>1
  <2> QED
    BY <1>11, <1>12, <2>2 DEF Close
<1>13. ASSUME Connect \/ DialDies
       PROVE  Good
  <2>1. \A r \in Run : install'[u][r] = None \/ install'[u][r] = install[u][r]
    BY <1>13 DEF Connect, DialDies, Blank
  <2>2. Stored(u)
    BY <1>4, <2>1
  <2> QED
    BY <1>11, <1>13, <2>2 DEF Connect, DialDies
<1> HIDE DEF Stored
<1>14. ASSUME UNCHANGED vars
       PROVE  Good
  BY <1>7, <1>14 DEF vars
<1>15. ASSUME NEW s \in Side, NEW p \in Obj,
              Take(s, p) \/ Enqueue(s, p) \/ \E b \in Bytes : Put(s, p, b)
       PROVE  Good
  BY <1>7, <1>15 DEF Take, Enqueue, Put
<1>16. ASSUME NEW s \in Side, Sending(s)
       PROVE  Good
  <2>1. ASSUME NEW p \in Obj, SkipCandidate(s, p) \/ DropKnown(s, p) \/ QuarantineFuture(s, p)
        PROVE  Good
    BY <1>7, <2>1 DEF SkipCandidate, DropKnown, QuarantineFuture, Dequeue
  <2>2. ASSUME NEW p \in Obj, RefuseOversized(s, p)
        PROVE  Good
    BY <1>7, <1>8, <2>2, TruthOf DEF RefuseOversized, Dequeue
  <2>3. ASSUME NEW p \in Obj, MakeOffer(s, p)
        PROVE  Good
    <3>1. Current(s, p) \in Transfer
      BY <2>3, CurrentType DEF MakeOffer, Fresh, Offerable
    <3>2. wire' = Tell(s, Msg("OFFER", Current(s, p)))
          /\ UNCHANGED <<answers, install, known>>
      BY <2>3 DEF MakeOffer, Dequeue
    <3>3. Wire(u)
      BY <1>8, <3>1, <3>2, TruthOf
    <3> QED
      BY <1>7, <3>2, <3>3
  <2>4. ASSUME NEW type, Answer(s, type)
        PROVE  Answers(u) /\ Stored(u)
    BY <1>7, <1>10, <2>4 DEF Answer
  <2>5. CASE AnswerNeed(s)
    <3>1. send[s].of \in Transfer
      BY <2>5, AnswerOf DEF AnswerNeed
    <3>2. wire' = Tell(s, Msg("DATA", send[s].of))
      BY <2>5 DEF AnswerNeed
    <3>3. Wire(u)
      BY <1>8, <3>1, <3>2, TruthOf
    <3> QED
      BY <1>7, <2>4, <2>5, <3>3 DEF AnswerNeed
  <2>6. CASE AnswerHave(s) \/ AnswerError(s)
    BY <1>7, <2>4, <2>6 DEF AnswerHave, AnswerError
  <2>7. CASE AnswerStored(s)
    <3>1. PICK t \in Transfer : t = send[s].of
      BY <2>7, AnswerOf DEF AnswerStored
    <3>2. HasHad(Other(s), t)
      <4>1. answers[s] # <<>> /\ Head(answers[s]).type = "STORED" /\ Head(answers[s]).of = t
        BY <2>7, <3>1 DEF AnswerStored, Answer
      <4>2. Head(answers[s]) \in Truths(s)
        BY <4>1 DEF TruthfulInv
      <4> QED
        BY <4>1, <4>2 DEF Truths
    <3>3. HasHad(Other(s), t)'
      BY <1>1, <3>1, <3>2, Sides DEF HasHad
    <3>4. known' = [known EXCEPT ![s] = {k \in @ : k.obj # t.obj} \cup {t}]
      BY <2>7, <3>1 DEF AnswerStored
    <3>5. \A k \in known'[u] : k \in known[u] \/ (u = s /\ k = t)
      BY <1>5, <3>4
    <3>6. Known(u)
      BY <1>3, <3>3, <3>5 DEF Known, HasHad
    <3> QED
      BY <1>7, <2>4, <2>7, <3>6 DEF AnswerStored
  <2>8. CASE WrongAnswer(s)
    BY <1>12, <2>8 DEF WrongAnswer
  <2> HIDE DEF Good
  <2> QED
    BY <1>16, <2>1, <2>2, <2>3, <2>5, <2>6, <2>7, <2>8 DEF Sending
<1>17. ASSUME NEW s \in Side, Reading(s)
       PROVE  Good
  <2>1. CASE ReadOffer(s)
    <3> DEFINE t == Head(wire[s]).of
    <3>1. wire[s] # <<>> /\ Head(wire[s]).type = "OFFER"
      BY <2>1 DEF ReadOffer, Read
    <3>2. t \in Transfer
      BY <1>5, <3>1, Frames
    <3>3. \/ Consume(s, Error) \/ Consume(s, Msg("NEED", t))
          \/ Equal(s, t) /\ Consume(s, Msg("HAVE", t) \o Msg("STORED", t))
      BY <2>1 DEF ReadOffer
    <3>4. Equal(s, t) => HasHad(s, t)
      BY <3>2 DEF Equal, HasHad, TruthfulInv, Transfer
    <3> HIDE DEF t
    <3>5. Equal(s, t) => Msg("HAVE", t) \o Msg("STORED", t) \in Seq(Truths(Other(s))')
      BY <1>1, <3>2, <3>4, TruthOf
    <3>6. Wire(u)
      BY <1>9, <3>1, <3>2, <3>3, <3>5, TruthOf
    <3> QED
      BY <1>7, <2>1, <3>6 DEF ReadOffer
  <2>2. ASSUME Consume(s, <<>>), wire[s] # <<>>
        PROVE  Wire(u)
    BY <1>9, <2>2, <<>> \in Seq(Truths(Other(s))')
  <2>3. CASE ReadData(s)
    <3>1. install' = [install EXCEPT ![s]["now"] = [of |-> incoming[s], at |-> "begun"]]
      BY <2>3 DEF ReadData
    <3>2. \A r \in Run : install'[u][r] = install[u][r] \/ install'[u][r].at = "begun"
      BY <1>5, <3>1
    <3>3. Stored(u)
      BY <1>4, <3>2 DEF Stored
    <3> QED
      BY <1>7, <2>2, <2>3, <3>3 DEF ReadData, Read
  <2>4. CASE ReadAnswer(s)
    <3>1. wire[s] # <<>> /\ Consume(s, <<>>)
      BY <2>4 DEF ReadAnswer, Read
    <3>2. answers' = [answers EXCEPT ![s] = Append(@, Head(wire[s]))]
      BY <2>4 DEF ReadAnswer
    <3>3. Append(answers[s], Head(wire[s])) \in Seq(Truths(s)')
      BY <1>2, <3>1
    <3>4. Answers(u)
      BY <1>2, <1>5, <3>2, <3>3 DEF Answers
    <3> QED
      BY <1>7, <2>2, <2>4, <3>1, <3>4 DEF ReadAnswer
  <2>5. CASE ReadIdleError(s)
    BY <1>7, <2>2, <2>5 DEF ReadIdleError, Read
  <2>6. CASE Fatal(s)
    BY <1>12, <2>6 DEF Fatal
  <2> HIDE DEF Good
  <2> QED
    BY <1>17, <2>1, <2>3, <2>4, <2>5, <2>6 DEF Reading
<1>18. ASSUME NEW s \in Side, NEW r \in Run, Writing(s, r)
       PROVE  Good
  <2>1. CASE OpenTemp(s, r) \/ WriteTemp(s, r) \/ Rename(s, r)
    <3>1. PICK was, at \in {"begun", "writing", "synced", "stored", "refused"} :
             /\ At(s, r, was) /\ Reach(s, r, at)
             /\ at \in {"writing", "synced"} \/ Rename(s, r)
      BY <2>1 DEF OpenTemp, WriteTemp, Rename, Written
    <3>2. /\ install'[s][r] = [of |-> install[s][r].of, at |-> at]
          /\ \A v \in Side, q \in Run : <<v, q>> # <<s, r>> => install'[v][q] = install[v][q]
          /\ install[s][r].of \in Transfer
      BY <3>1, ReachType
    <3>3. ASSUME install'[s][r].at = "stored", NEW t \in Transfer, t = install'[s][r].of
          PROVE  HasHad(s, t)'
      <4>1. Rename(s, r) /\ t = install[s][r].of
        BY <3>1, <3>2, <3>3
      <4> QED
        BY <3>3, <4>1, RenameStored
    <3>4. Stored(u)
      BY <1>4, <3>2, <3>3 DEF Stored
    <3>5. UNCHANGED <<wire, answers, known>>
      BY <2>1 DEF OpenTemp, WriteTemp, Rename
    <3> QED
      BY <1>7, <3>4, <3>5
  <2>2. CASE Reply(s, r)
    <3> DEFINE t == install[s][r].of
    <3>1. t \in Transfer
      BY <2>2, InstallOf DEF Reply
    <3>2. \/ wire' = wire \/ wire' = Tell(s, Error)
          \/ At(s, r, "stored") /\ wire' = Tell(s, Msg("STORED", t))
      BY <2>2 DEF Reply
    <3>3. At(s, r, "stored") => HasHad(s, t)
      BY DEF TruthfulInv
    <3> HIDE DEF t
    <3>4. Wire(u)
      BY <1>1, <1>7, <1>8, <3>1, <3>2, <3>3, TruthOf
    <3>5. install' = [install EXCEPT ![s][r] = None]
      BY <2>2 DEF Reply
    <3>6. \A q \in Run : install'[u][q] = install[u][q] \/ install'[u][q] = None
      BY <1>5, <3>5
    <3>7. Stored(u)
      BY <1>4, <3>6 DEF Stored
    <3> QED
      BY <1>7, <2>2, <3>4, <3>7 DEF Reply
  <2> HIDE DEF Good
  <2> QED
    BY <1>18, <2>1, <2>2 DEF Writing
<1> HIDE DEF Good
<1>19. Good
  BY <1>12, <1>13, <1>14, <1>15, <1>16, <1>17, <1>18 DEF Next, Break
<1> QED
  BY <1>19 DEF Good, Known, Wire, Answers, Stored

-----------------------------------------------------------------------------
(* The theorems about installs that end with their sessions *)

\* The inductive invariant behind the theorems below.
RelayInv == TypeOK /\ OneInstaller /\ Whole /\ TruthfulInv

\* It holds at the start and is kept by every step.
LEMMA RelayAlways ==
    ASSUME ~Linger
    PROVE  Spec => []RelayInv
<1>1. ASSUME Init
      PROVE  RelayInv
  <2>1. TypeOK
    BY <1>1, TypeInit
  <2>2. OneInstaller
    BY <1>1 DEF Init, Blank, OneInstaller, Run, Side
  <2>3. \A s \in Side, p \in Obj :
           \/ file[s][p] = None
           \/ file[s][p] \in Bytes /\ <<s, p, file[s][p]>> \in landed
    BY <1>1 DEF Init
  <2>4. Whole
    BY <2>3, Constants DEF Whole
  <2>5. \A s \in Side : /\ known[s] = {} /\ wire[s] = <<>> /\ answers[s] = <<>>
                        /\ \A r \in Run : install[s][r] = None
    BY <1>1 DEF Init, Blank
  <2>6. TruthfulInv
    <3>1. \A s \in Side : <<>> \in Seq(Truths(s))
      OBVIOUS
    <3>2. \A s \in Side : wire[s] \in Seq(Truths(s)) /\ answers[s] \in Seq(Truths(s))
      BY <2>5, <3>1
    <3>3. \A s \in Side, r \in Run : ~At(s, r, "stored")
      BY <2>5 DEF At
    <3>4. \A s \in Side, p \in Obj : file[s][p] \in Bytes => <<s, p, file[s][p]>> \in landed
      BY <2>3, Constants
    <3> QED
      BY <2>5, <3>2, <3>3, <3>4 DEF TruthfulInv
  <2> QED
    BY <2>1, <2>2, <2>4, <2>6 DEF RelayInv
<1>2. RelayInv /\ [Next]_vars => RelayInv'
  BY TypeStep, OneInstallerStep, WholeStep, TruthfulStep DEF RelayInv
<1> QED
  BY <1>1, <1>2, PTL DEF Spec

\* As long as no install meets one of an earlier session of its process:
\* whatever was interrupted, what is in place is whole.
THEOREM FilesAreWhole ==
    ASSUME ~Linger
    PROVE  Spec => []Whole
<1>1. RelayInv => Whole
  BY DEF RelayInv
<1> QED
  BY <1>1, RelayAlways, PTL

\* Under the same condition: a delayed or re-offered watcher declaration never
\* replaces a newer one, on either side.
THEOREM DeclarationsGoForward ==
    ASSUME ~Linger
    PROVE  Spec => WatcherForward
<1>1. RelayInv /\ [Next]_vars =>
        [\A s \in Side, p \in Obj :
           Kind[p] = "watcher" /\ file[s][p] \in Bytes
           => file'[s][p] \in Bytes /\ file'[s][p] >= file[s][p]]_vars
  BY WatcherStep DEF RelayInv
<1> QED
  BY <1>1, RelayAlways, PTL DEF Spec, WatcherForward

\* sendLoop unlinks what its session has seen STORED, and a STORED is true.
LEMMA UnlinkStep ==
    ASSUME ~Linger, RelayInv, [Next]_vars, NEW s \in Side, NEW p \in Obj,
           file[s][p] \in Bytes, file'[s][p] = None, queue' # queue \/ send' # send,
           Age[s][p] # "future"
    PROVE  <<Other(s), p, file[s][p]>> \in landed
<1> USE Constants DEF disk
<1> DEFINE Had == <<Other(s), p, file[s][p]>> \in landed
<1>0. /\ TypeOK /\ TruthfulInv
      /\ file \in [Side -> [Obj -> Bytes \cup {None, Torn}]]
      /\ file'[s][p] # file[s][p]
  BY DEF RelayInv, TypeOK
<1>1. ASSUME NEW u \in Side, NEW t \in Transfer, RemoveTransit(u, t), Disposable(u, t.obj),
             HasHad(Other(u), t)
      PROVE  Had
  <2>1. u = s /\ p = t.obj /\ file[s][p] = t.bytes
    BY <1>0, <1>1, RemoveEffect
  <2>2. Kind[p] # "watcher"
    BY <1>1, <2>1, DisposableKind
  <2> QED
    BY <1>1, <2>1, <2>2 DEF HasHad
<1>2. ASSUME NEW u \in Side, NEW q \in Obj, DropKnown(u, q)
      PROVE  Had
  <2>1. PICK t \in Transfer : t = Current(u, q)
    BY <1>2, CurrentType DEF DropKnown, Offerable
  <2>2. t.obj = q /\ t \in known[u] /\ RemoveTransit(u, t) /\ Disposable(u, q)
    BY <1>2, <2>1 DEF DropKnown, Current
  <2>3. HasHad(Other(u), t)
    BY <1>0, <2>2 DEF TruthfulInv
  <2> QED
    BY <1>1, <2>2, <2>3
<1>3. ASSUME NEW u \in Side, AnswerStored(u)
      PROVE  Had
  <2>1. PICK t \in Transfer : t = send[u].of
    BY <1>0, <1>3, AnswerOf DEF AnswerStored
  <2>2. answers[u] # <<>> /\ Head(answers[u]).type = "STORED" /\ Head(answers[u]).of = t
    BY <1>3, <2>1 DEF AnswerStored, Answer
  <2>3. Head(answers[u]) \in Truths(u)
    BY <1>0, <2>2 DEF TruthfulInv
  <2>4. HasHad(Other(u), t)
    BY <2>2, <2>3 DEF Truths
  <2>5. Disposable(u, t.obj) /\ RemoveTransit(u, t)
    BY <1>0, <1>3, <2>1 DEF AnswerStored
  <2> QED
    BY <1>1, <2>4, <2>5
<1>4. ASSUME NEW u \in Side, NEW q \in Obj, QuarantineFuture(u, q)
      PROVE  FALSE
  <2>1. file' = [file EXCEPT ![u][q] = None] /\ Age[u][q] = "future"
    BY <1>4 DEF QuarantineFuture, Future
  <2> QED
    BY <1>0, <2>1
<1>5. ASSUME NEW u \in Side, NEW q \in Obj, Take(u, q) \/ \E b \in Bytes : Put(u, q, b)
      PROVE  FALSE
  BY <1>5 DEF Take, Put
<1>6. ASSUME NEW u \in Side, NEW r \in Run, WriteTemp(u, r) \/ Rename(u, r)
      PROVE  FALSE
  BY <1>6 DEF WriteTemp, Rename
<1> QED
  BY <1>0, <1>2, <1>3, <1>4, <1>5, <1>6, FileSteps

\* Under the same condition: however frames, breaks and re-offers interleave,
\* an ack, a bounce or the upstream's copy of a letter is unlinked only when the
\* peer has had the same bytes on disk.
THEOREM UnlinksAreSafe ==
    ASSUME ~Linger
    PROVE  Spec => SafeUnlink
<1>1. RelayInv /\ [Next]_vars =>
        [\A s \in Side, p \in Obj :
         /\ file[s][p] \in Bytes /\ file'[s][p] = None
         /\ queue' # queue \/ send' # send
         /\ Age[s][p] # "future"
         => <<Other(s), p, file[s][p]>> \in landed]_vars
  BY UnlinkStep
<1> QED
  BY <1>1, RelayAlways, PTL DEF Spec, SafeUnlink
=============================================================================
