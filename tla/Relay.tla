------------------------------- MODULE Relay -------------------------------
(***************************************************************************)
(* The relay daemon of link/: one connection between a client ("dial") and *)
(* its upstream ("serve"), over which each side offers the files the other *)
(* one lacks: OFFER, then HAVE or NEED and DATA, then STORED or ERROR.     *)
(* Both directions share the connection.  Sessions end at any moment and   *)
(* are dialled again; what a session remembers (known, rejected, origins)  *)
(* ends with it, files and the client's install goroutines do not.         *)
(***************************************************************************)
EXTENDS Naturals, Sequences, FiniteSets

CONSTANTS
    Obj,          \* paths below the home directory, the same on both sides
    Kind,         \* what each path is: "letter", "infra", "watcher", "stream"
    From,         \* the side whose watcher finds the path eligible
    Writers,      \* the sides where the core CLI or rsync may put each file
    Bytes,        \* contents; of a watcher declaration, its epoch
    Content,      \* the contents each path may have
    None, Torn,   \* no file; a file whose writer has not finished
    Standing,     \* <<side, path, bytes>> of the files there at the start
    Age,          \* each side's judgement of a stream entry's epoch
    Oversized,    \* <<path, bytes>> of more than max-object-bytes
    Streams,      \* has HELLO negotiated a minor that carries streams?
    Linger,       \* may an install outlast its session and meet the next one?
    QueueCap,     \* capacity of the candidate queue
    AnswerCap,    \* capacity of the channel from readLoop to sendCandidate
    MaxSessions,  \* bound on connections
    MaxPuts,      \* bound on files appearing on the two machines
    MaxWire       \* bound on frames under way when one more is oversized

Side == {"dial", "serve"}
Other(s) == CHOOSE t \in Side : t # s

ASSUME RelayAssumption ==
    /\ Kind \in [Obj -> {"letter", "infra", "watcher", "stream"}]
    /\ From \in [Obj -> SUBSET Side] /\ Writers \in [Obj -> SUBSET Side]
    /\ Bytes \subseteq Nat
    /\ Content \in [Obj -> SUBSET Bytes]
    /\ {None, Torn} \cap Bytes = {} /\ None # Torn /\ None \notin {"now", "before"}
    /\ Age \in [Side -> [Obj -> {"ok", "expired", "future"}]]
    /\ Standing \subseteq Side \X Obj \X Bytes
    /\ Oversized \subseteq Obj \X Bytes
    /\ Streams \in BOOLEAN /\ Linger \in BOOLEAN
    /\ QueueCap \in Nat \ {0} /\ AnswerCap \in Nat \ {0}
    /\ MaxSessions \in Nat /\ MaxPuts \in Nat /\ MaxWire \in Nat

VARIABLES
    file,      \* what is at each path
    landed,    \* history: bytes a side has had durably at the path
    puts,      \* files that have appeared so far
    up,        \* is there a session?
    sessions,  \* sessions so far
    wire,      \* frames on their way to each side
    queue,     \* candidates
    send,      \* the offer sendCandidate is waiting for, and for what
    answers,   \* responses: frames readLoop has handed to sendCandidate
    incoming,  \* the offer whose DATA is due
    install,   \* installIncoming of this session and of the one before
    staged,    \* whose file is at tmp/link.<id>.<pid>
    known, rejected, origins   \* what the session remembers: path -> bytes

disk == <<file, landed, puts>>
link == <<up, sessions>>
memory == <<known, rejected, origins>>
vars == <<disk, link, wire, queue, send, answers, incoming, install, staged, memory>>

Transfer == [obj : Obj, bytes : Bytes]
Frame == [type : {"OFFER", "NEED", "HAVE", "DATA", "STORED"}, of : Transfer]
             \cup [type : {"ERROR"}]
Run == {"now", "before"}
Installing == [of : Transfer,
               at : {"begun", "writing", "synced", "stored", "refused"}]

TypeOK ==
    /\ file \in [Side -> [Obj -> Bytes \cup {None, Torn}]]
    /\ landed \subseteq Side \X Obj \X Bytes
    /\ puts \in 0..MaxPuts /\ sessions \in 0..MaxSessions
    /\ up \in BOOLEAN
    /\ wire \in [Side -> Seq(Frame)] /\ answers \in [Side -> Seq(Frame)]
    /\ queue \in [Side -> SUBSET Obj]
    /\ \A s \in Side : IsFiniteSet(queue[s]) /\ Cardinality(queue[s]) <= QueueCap
    /\ send \in [Side -> [of : Transfer, phase : {"first", "second"}] \cup {None}]
    /\ incoming \in [Side -> Transfer \cup {None}]
    /\ install \in [Side -> [Run -> Installing \cup {None}]]
    /\ staged \in [Side -> [Obj -> Run \cup {None}]]
    /\ \A m \in {known, rejected, origins} : m \in [Side -> SUBSET Transfer]

Blank(x) == [s \in Side |-> x]

Init ==
    /\ file = [s \in Side |-> [p \in Obj |->
         IF \E b \in Bytes : <<s, p, b>> \in Standing
         THEN CHOOSE b \in Bytes : <<s, p, b>> \in Standing ELSE None]]
    /\ landed = Standing /\ puts = 0
    /\ up = FALSE /\ sessions = 0
    /\ wire = Blank(<<>>) /\ answers = Blank(<<>>)
    /\ queue = Blank({})
    /\ send = Blank(None) /\ incoming = Blank(None)
    /\ install = Blank([r \in Run |-> None])
    /\ staged = Blank([p \in Obj |-> None])
    /\ known = Blank({}) /\ rejected = Blank({}) /\ origins = Blank({})

-----------------------------------------------------------------------------
(* The core CLI, rsync and other downstreams, which share the directories *)

\* A file appears: mail and stream entries where there is none, a watcher
\* declaration over an older one.
Put(s, p, b) ==
    /\ puts < MaxPuts /\ s \in Writers[p] /\ b \in Content[p]
    /\ file[s][p] # None => Kind[p] = "watcher" /\ b > file[s][p]
    /\ file' = [file EXCEPT ![s][p] = b]
    /\ landed' = landed \cup {<<s, p, b>>}
    /\ puts' = puts + 1
    /\ UNCHANGED <<link, wire, queue, send, answers, incoming, install, staged, memory>>

\* reconcile consumes mail, or an exchange takes it away.
Take(s, p) ==
    /\ Kind[p] # "watcher" /\ file[s][p] \in Bytes
    /\ file' = [file EXCEPT ![s][p] = None]
    /\ UNCHANGED <<landed, puts, link, wire, queue, send, answers, incoming,
                   install, staged, memory>>

-----------------------------------------------------------------------------
(* Sessions *)

\* Everything a session holds, gone.
Forget ==
    /\ wire' = Blank(<<>>) /\ answers' = Blank(<<>>) /\ queue' = Blank({})
    /\ send' = Blank(None) /\ incoming' = Blank(None)
    /\ known' = Blank({}) /\ rejected' = Blank({}) /\ origins' = Blank({})

\* HELLO in both directions, empty caches.
Connect ==
    /\ ~up /\ sessions < MaxSessions
    /\ Linger \/ install["dial"]["before"] = None
    /\ up' = TRUE /\ sessions' = sessions + 1
    /\ Forget
    /\ UNCHANGED <<disk, install, staged>>

\* The session is over.  The serve process exits; the dial process goes on and
\* so does its install goroutine.
Close ==
    /\ up /\ up' = FALSE
    /\ Forget
    /\ install["dial"]["now"] # None => install["dial"]["before"] = None
    /\ install' = [install EXCEPT
         !["serve"] = [r \in Run |-> None],
         !["dial"]["before"] = IF install["dial"]["now"] = None THEN @
                               ELSE install["dial"]["now"],
         !["dial"]["now"] = None]
    /\ staged' = [staged EXCEPT
         !["serve"] = [p \in Obj |-> None],
         !["dial"] = [p \in Obj |-> IF staged["dial"][p] = "now" THEN "before" ELSE @[p]]]
    /\ UNCHANGED <<disk, sessions>>

\* Carrier lost, BYE, or no frame within the quiet timeout.
Break == sessions < MaxSessions /\ Close

\* The dial process is killed: its goroutines stop where they are.
DialDies ==
    /\ up /\ sessions < MaxSessions
    /\ up' = FALSE
    /\ Forget
    /\ install' = Blank([r \in Run |-> None])
    /\ staged' = Blank([p \in Obj |-> None])
    /\ UNCHANGED <<disk, sessions>>

-----------------------------------------------------------------------------
(* sendLoop *)

\* Variant: one more than the channel holds.
Room_OffByOne(s) == Cardinality(queue[s]) <= QueueCap

\* A full queue drops the candidate; a later scan finds it again.
Room(s) == Cardinality(queue[s]) < QueueCap

\* What the scans of the tree find on this side.
Eligible(s, p) == s \in From[p] /\ file[s][p] # None

\* A scan or an fsnotify event.
Enqueue(s, p) ==
    /\ up /\ Eligible(s, p)
    /\ p \notin queue[s] /\ Room(s)
    /\ queue' = [queue EXCEPT ![s] = @ \cup {p}]
    /\ UNCHANGED <<disk, link, wire, send, answers, incoming, install, staged, memory>>

\* The next candidate, when no other transfer of this side is under way.
Dequeue(s, p) ==
    /\ send[s] = None /\ p \in queue[s]
    /\ queue' = [queue EXCEPT ![s] = @ \ {p}]
    /\ UNCHANGED <<link, answers, incoming, install, staged, memory>>

Current(s, p) == [obj |-> p, bytes |-> file[s][p]]

\* deleteAfterStored of the server, removeOriginAfterStored of acks and bounces.
Disposable(s, p) == Kind[p] \in (IF s = "serve" THEN {"letter", "infra"} ELSE {"infra"})

Tell(s, f) == [wire EXCEPT ![Other(s)] = @ \o f]
Msg(type, t) == <<[type |-> type, of |-> t]>>
Error == <<[type |-> "ERROR"]>>

Huge(s, p) == <<p, file[s][p]>> \in Oversized

Expired(s, p) == Kind[p] = "stream" /\ Age[s][p] = "expired"
Future(s, p) == Kind[p] = "stream" /\ Age[s][p] = "future"

Offerable(s, p) ==
    /\ file[s][p] \in Bytes
    /\ Kind[p] = "stream" => Streams
    /\ ~Expired(s, p)

\* Gone by now, too old, refused or brought by the peer itself: nothing to do.
SkipCandidate(s, p) ==
    /\ Dequeue(s, p)
    /\ \/ ~Offerable(s, p)
       \/ ~Huge(s, p) /\ Current(s, p) \in origins[s] \cup rejected[s]
       \/ /\ ~Huge(s, p) /\ Current(s, p) \in known[s] /\ ~Disposable(s, p)
    /\ UNCHANGED <<disk, wire, send>>

\* Too large: say so to the peer, which has not been offered it.
RefuseOversized(s, p) ==
    /\ Dequeue(s, p)
    /\ Offerable(s, p) /\ Huge(s, p)
    /\ Len(wire[Other(s)]) < MaxWire
    /\ wire' = Tell(s, Error)
    /\ UNCHANGED <<disk, send>>

\* Variant: by name only.
RemoveTransit_ByName(s, t) == file' = [file EXCEPT ![s][t.obj] = None]

\* removeTransit: unlink the copy, if it still is what the peer stored.
RemoveTransit(s, t) ==
    file' = [file EXCEPT ![s][t.obj] = IF @ = t.bytes THEN None ELSE @]

\* What the peer has stored in this session reappears: drop it again.
DropKnown(s, p) ==
    /\ Dequeue(s, p)
    /\ Offerable(s, p) /\ ~Huge(s, p) /\ Disposable(s, p)
    /\ Current(s, p) \in known[s] \ (origins[s] \cup rejected[s])
    /\ RemoveTransit(s, Current(s, p))
    /\ UNCHANGED <<landed, puts, wire, send>>

Fresh(s, p) ==
    /\ Offerable(s, p) /\ ~Huge(s, p)
    /\ Current(s, p) \notin origins[s] \cup rejected[s] \cup known[s]

\* A stream entry from beyond tomorrow is moved to spool/dead.
QuarantineFuture(s, p) ==
    /\ Dequeue(s, p)
    /\ Fresh(s, p) /\ Future(s, p)
    /\ file' = [file EXCEPT ![s][p] = None]
    /\ UNCHANGED <<landed, puts, wire, send>>

MakeOffer(s, p) ==
    /\ Dequeue(s, p)
    /\ Fresh(s, p) /\ ~Future(s, p)
    /\ send' = [send EXCEPT ![s] = [of |-> Current(s, p), phase |-> "first"]]
    /\ wire' = Tell(s, Msg("OFFER", Current(s, p)))
    /\ UNCHANGED disk

\* Variant: the pending offer stays.
ClearPending_Not(s) == UNCHANGED send

ClearPending(s) == send' = [send EXCEPT ![s] = None]

\* waitResponse: the next answer, when it is about the transfer under way.
Answer(s, type) ==
    /\ up /\ send[s] # None /\ answers[s] # <<>>
    /\ Head(answers[s]).type = type
    /\ type # "ERROR" => Head(answers[s]).of = send[s].of
    /\ answers' = [answers EXCEPT ![s] = Tail(@)]
    /\ UNCHANGED <<landed, puts, link, queue, incoming, install, staged, origins>>

AnswerNeed(s) ==
    /\ Answer(s, "NEED") /\ send[s].phase = "first"
    /\ send' = [send EXCEPT ![s].phase = "second"]
    /\ wire' = Tell(s, Msg("DATA", send[s].of))
    /\ UNCHANGED <<file, known, rejected>>

AnswerHave(s) ==
    /\ Answer(s, "HAVE") /\ send[s].phase = "first"
    /\ send' = [send EXCEPT ![s].phase = "second"]
    /\ UNCHANGED <<file, wire, known, rejected>>

AnswerStored(s) ==
    /\ Answer(s, "STORED") /\ send[s].phase = "second"
    /\ ClearPending(s)
    /\ known' = [known EXCEPT ![s] =
         {t \in @ : t.obj # send[s].of.obj} \cup {send[s].of}]
    /\ rejected' = [rejected EXCEPT ![s] = {t \in @ : t.obj # send[s].of.obj}]
    /\ IF Disposable(s, send[s].of.obj)
       THEN RemoveTransit(s, send[s].of) ELSE UNCHANGED file
    /\ UNCHANGED wire

\* An ERROR names no transfer: whichever is under way is taken to be refused.
AnswerError(s) ==
    /\ Answer(s, "ERROR")
    /\ ClearPending(s)
    /\ rejected' = [rejected EXCEPT ![s] =
         {t \in @ : t.obj # send[s].of.obj} \cup {send[s].of}]
    /\ UNCHANGED <<file, wire, known>>

\* An answer about another transfer, or out of turn, ends the session.
WrongAnswer(s) ==
    /\ up /\ send[s] # None /\ answers[s] # <<>>
    /\ LET a == Head(answers[s]) IN
         /\ a.type # "ERROR"
         /\ \/ a.of # send[s].of
            \/ (a.type = "STORED") # (send[s].phase = "second")
    /\ Close

-----------------------------------------------------------------------------
(* readLoop *)

Read(s, type) ==
    /\ up /\ wire[s] # <<>> /\ Head(wire[s]).type = type

\* Take the frame off the wire and answer with the frames f.
Consume(s, f) == wire' = [wire EXCEPT ![s] = Tail(@), ![Other(s)] = @ \o f]

Busy(s) == incoming[s] # None \/ install[s]["now"] # None

Refused(s, p) == (Kind[p] = "stream" /\ ~Streams) \/ Expired(s, p)

\* inspect: the destination holds the same bytes.
Equal(s, t) == file[s][t.obj] = t.bytes

ReadOffer(s) ==
    /\ Read(s, "OFFER") /\ ~Busy(s)
    /\ LET t == Head(wire[s]).of IN
         \/ /\ Refused(s, t.obj)
            /\ Consume(s, Error)
            /\ UNCHANGED <<incoming, origins>>
         \/ /\ ~Refused(s, t.obj) /\ Equal(s, t)
            /\ origins' = [origins EXCEPT ![s] =
                 {u \in @ : u.obj # t.obj} \cup {t}]
            /\ Consume(s, Msg("HAVE", t) \o Msg("STORED", t))
            /\ UNCHANGED incoming
         \/ /\ ~Refused(s, t.obj) /\ ~Equal(s, t)
            /\ incoming' = [incoming EXCEPT ![s] = t]
            /\ Consume(s, Msg("NEED", t))
            /\ UNCHANGED origins
    /\ UNCHANGED <<disk, link, queue, send, answers, install, staged, known, rejected>>

ReadData(s) ==
    /\ Read(s, "DATA") /\ incoming[s] # None
    /\ install' = [install EXCEPT ![s]["now"] = [of |-> incoming[s], at |-> "begun"]]
    /\ incoming' = [incoming EXCEPT ![s] = None]
    /\ Consume(s, <<>>)
    /\ UNCHANGED <<disk, link, queue, send, answers, staged, memory>>

ReadAnswer(s) ==
    /\ \E type \in {"NEED", "HAVE", "STORED", "ERROR"} : Read(s, type)
    /\ send[s] # None /\ Len(answers[s]) < AnswerCap
    /\ answers' = [answers EXCEPT ![s] = Append(@, Head(wire[s]))]
    /\ Consume(s, <<>>)
    /\ UNCHANGED <<disk, link, queue, send, incoming, install, staged, memory>>

\* A recoverable ERROR that nobody waits for is only logged.
ReadIdleError(s) ==
    /\ Read(s, "ERROR") /\ send[s] = None
    /\ Consume(s, <<>>)
    /\ UNCHANGED <<disk, link, queue, send, answers, incoming, install, staged, memory>>

\* fatal(): the peer has broken the protocol.  (DATA always finds its offer.)
Fatal(s) ==
    \/ Read(s, "OFFER") /\ Busy(s) /\ Close
    \/ /\ \E type \in {"NEED", "HAVE", "STORED"} : Read(s, type)
       /\ send[s] = None
       /\ Close

-----------------------------------------------------------------------------
(* installIncoming: the goroutine of this session or of the one before *)

At(s, r, at) == install[s][r] # None /\ install[s][r].at = at
Reach(s, r, at) == install' = [install EXCEPT ![s][r].at = at]

\* A temporary of the same name is moved aside, whoever is writing it.
OpenTemp(s, r) ==
    /\ At(s, r, "begun") /\ Reach(s, r, "writing")
    /\ staged' = [staged EXCEPT ![s][install[s][r].of.obj] = r]
    /\ UNCHANGED <<disk, link, wire, queue, send, answers, incoming, memory>>

\* write, fsync, close: the file the descriptor refers to is whole now.
WriteTemp(s, r) ==
    /\ At(s, r, "writing") /\ Reach(s, r, "synced")
    /\ LET t == install[s][r].of IN
         IF file[s][t.obj] = Torn /\ staged[s][t.obj] # r
         THEN /\ file' = [file EXCEPT ![s][t.obj] = t.bytes]
              /\ landed' = landed \cup {<<s, t.obj, t.bytes>>}
         ELSE UNCHANGED <<file, landed>>
    /\ UNCHANGED <<puts, link, wire, queue, send, answers, incoming, staged, memory>>

\* Variant: no guard.
StaleWatcher_Never(s, t) == FALSE

\* A delayed older declaration must not replace a newer one.
StaleWatcher(s, t) ==
    Kind[t.obj] = "watcher" /\ file[s][t.obj] # None /\ t.bytes < file[s][t.obj]

\* Variant: rename(2), which replaces.
Replaces_Always(p) == TRUE

\* Presence is renamed over; everything else with RENAME_NOREPLACE or link(2).
Replaces(p) == Kind[p] = "watcher"

\* Variant: the temporary is renamed while it is being written.
Written_Not(s, r) == At(s, r, "writing")

Written(s, r) == At(s, r, "synced")

Rename(s, r) ==
    /\ Written(s, r)
    /\ LET t     == install[s][r].of
           owner == staged[s][t.obj]
           whole == owner # None => ~At(s, owner, "writing")
       IN
       \/ /\ Expired(s, t.obj) \/ Future(s, t.obj)
          /\ Reach(s, r, "refused")
          /\ UNCHANGED <<file, landed>>
       \/ /\ ~(Expired(s, t.obj) \/ Future(s, t.obj))
          /\ \/ /\ StaleWatcher(s, t)
                /\ Reach(s, r, "stored")
                /\ UNCHANGED <<file, landed>>
             \/ /\ ~StaleWatcher(s, t) /\ owner = None
                /\ Reach(s, r, "refused")
                /\ UNCHANGED <<file, landed>>
             \/ /\ ~StaleWatcher(s, t) /\ owner # None
                /\ file[s][t.obj] = None \/ Replaces(t.obj)
                /\ file' = [file EXCEPT ![s][t.obj] = IF whole THEN t.bytes ELSE Torn]
                /\ landed' = IF whole THEN landed \cup {<<s, t.obj, t.bytes>>} ELSE landed
                /\ Reach(s, r, "stored")
             \/ /\ ~StaleWatcher(s, t) /\ owner # None
                /\ file[s][t.obj] # None /\ ~Replaces(t.obj)
                /\ Reach(s, r, IF Equal(s, t) THEN "stored" ELSE "refused")
                /\ UNCHANGED <<file, landed>>
    /\ staged' = [staged EXCEPT ![s][install[s][r].of.obj] = None]
    /\ UNCHANGED <<puts, link, wire, queue, send, answers, incoming, memory>>

\* STORED or ERROR, once installing is cleared; what an old session's goroutine says is lost.
Reply(s, r) ==
    /\ At(s, r, "stored") \/ At(s, r, "refused")
    /\ install' = [install EXCEPT ![s][r] = None]
    /\ LET t == install[s][r].of IN
       IF r = "before" THEN UNCHANGED <<wire, origins>>
       ELSE IF At(s, r, "refused") THEN wire' = Tell(s, Error) /\ UNCHANGED origins
       ELSE /\ wire' = Tell(s, Msg("STORED", t))
            /\ origins' = [origins EXCEPT ![s] = {u \in @ : u.obj # t.obj} \cup {t}]
    /\ UNCHANGED <<disk, link, queue, send, answers, incoming, staged, known, rejected>>

-----------------------------------------------------------------------------
Sending(s) ==
    \/ \E p \in Obj : \/ SkipCandidate(s, p) \/ RefuseOversized(s, p) \/ DropKnown(s, p)
                      \/ QuarantineFuture(s, p) \/ MakeOffer(s, p)
    \/ AnswerNeed(s) \/ AnswerHave(s) \/ AnswerStored(s) \/ AnswerError(s)
    \/ WrongAnswer(s)

Reading(s) == ReadOffer(s) \/ ReadData(s) \/ ReadAnswer(s) \/ ReadIdleError(s) \/ Fatal(s)

Writing(s, r) == OpenTemp(s, r) \/ WriteTemp(s, r) \/ Rename(s, r) \/ Reply(s, r)

Next ==
    \/ \E s \in Side, p \in Obj : Take(s, p) \/ Enqueue(s, p)
    \/ \E s \in Side, p \in Obj, b \in Bytes : Put(s, p, b)
    \/ Connect \/ Break \/ DialDies
    \/ \E s \in Side : Sending(s) \/ Reading(s)
    \/ \E s \in Side, r \in Run : Writing(s, r)

Spec == Init /\ [][Next]_vars

\* Dialling, reading, answering and installing go on; a scan comes every 30
\* seconds and offers whatever is there once the queue has room, in turn.
FairSpec ==
    /\ Spec
    /\ WF_vars(Connect)
    /\ \A s \in Side : WF_vars(Sending(s)) /\ WF_vars(Reading(s))
    /\ \A p \in Obj : \A s \in From[p] : SF_vars(Enqueue(s, p))
    /\ \A s \in Side, r \in Run : WF_vars(Writing(s, r))

-----------------------------------------------------------------------------
\* The relay unlinks a copy only when the peer has had the same bytes on disk.
SafeUnlink ==
    [][\A s \in Side, p \in Obj :
         /\ file[s][p] \in Bytes /\ file'[s][p] = None
         /\ queue' # queue \/ send' # send
         /\ Age[s][p] # "future"
         => <<Other(s), p, file[s][p]>> \in landed]_vars

\* Mail and stream entries never change under their name, whoever else writes
\* there and however many installers are at work.
Immutable ==
    [][\A s \in Side, p \in Obj :
         Kind[p] # "watcher" /\ file[s][p] \in Bytes
         => file'[s][p] \in {file[s][p], None}]_vars

\* A watcher declaration never gives way to an older one.
WatcherForward ==
    [][\A s \in Side, p \in Obj :
         Kind[p] = "watcher" /\ file[s][p] \in Bytes
         => file'[s][p] \in Bytes /\ file'[s][p] >= file[s][p]]_vars

\* What is in place is whole, whatever was interrupted before -- as long as no
\* install meets one of an earlier session of its process (Linger), with
\* which it shares the name of the temporary.
Whole == \A s \in Side, p \in Obj : file[s][p] # Torn

-----------------------------------------------------------------------------
(* Why the safety properties hold: the inductive invariant.                  *)

\* One installer at a time: of this session while it is up, of the one before
\* otherwise; no goroutine outlives a serve process.
OneInstaller ==
    /\ install["serve"]["before"] = None
    /\ ~Linger => \A s \in Side : /\ up => install[s]["before"] = None
                                  /\ ~up => install[s]["now"] = None

\* The side t has had these bytes; for a watcher declaration STORED may also
\* mean that it has a newer one.
HasHad(s, t) == Kind[t.obj] # "watcher" => <<s, t.obj, t.bytes>> \in landed

\* What s may be told: STORED only of what the other side has had.
Truths(s) == {f \in Frame : f.type = "STORED" => HasHad(Other(s), f.of)}

\* Files, answers under way and the sender's memory all speak of bytes that
\* are, or were, durably in place on the side they came from.
TruthfulInv ==
    /\ \A s \in Side, p \in Obj :
          file[s][p] \in Bytes => <<s, p, file[s][p]>> \in landed
    /\ ~Linger => \A s \in Side :
          /\ \A t \in known[s] : HasHad(Other(s), t)
          /\ wire[s] \in Seq(Truths(s)) /\ answers[s] \in Seq(Truths(s))
          /\ \A r \in Run : At(s, r, "stored") => HasHad(s, install[s][r].of)

-----------------------------------------------------------------------------
(* Liveness. *)

\* In a session that lasts, with nothing oversized about, whatever stays
\* eligible reaches the peer or is refused, in spite of full queues and of all
\* that earlier sessions left behind.
Settled(s, p) ==
    \/ file[s][p] \notin Bytes
    \/ <<Other(s), p, file[s][p]>> \in landed
    \/ Current(s, p) \in rejected[s]
    \/ Kind[p] = "stream" /\ Age[s][p] = "expired"

Converges ==
    <>[](up /\ \A s \in Side, p \in Obj : ~Huge(s, p))
        => <>[](\A p \in Obj : \A s \in From[p] : Settled(s, p))
=============================================================================
