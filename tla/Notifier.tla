------------------------------ MODULE Notifier ------------------------------
(***************************************************************************)
(* The doorbell of one identity (link/conduit.go, with the stamps of       *)
(* link/ears.go): the notifier scans the inbox, decides from its memory    *)
(* whether to ring the session that owns the identity, writes one frame to *)
(* it, journals the attempt and remembers it.  Its memory is lost with it; *)
(* a new notifier restores it from the journals, the sidecar and the stamp *)
(* that `khala inbox' leaves.  Times are seconds; what a frame says, the   *)
(* listener's snapshots and parent notices are left out.                   *)
(***************************************************************************)
EXTENDS Naturals, Sequences, FiniteSets, FiniteSetsExt

CONSTANTS
    Proc,         \* processes that may own the identity
    First,        \* the ones that may own it at the start
    Of,           \* the registration each process runs under
    Letter,       \* letters to ring for; info alerts are not
    None,
    Backoff,      \* seconds before another try after a failure
    RetryAfter,   \* seconds before an unread frame is repeated
    DegradeAt,    \* failures in a row until native delivery is degraded
    MaxNow, MaxDrains, MaxMoves, MaxFaults   \* bounds

ASSUME NotifierAssumption ==
    /\ DOMAIN Of = Proc /\ First \subseteq Proc
    /\ None \notin Proc
    /\ Backoff \in Seq(Nat) \ {<<>>} /\ RetryAfter \in Seq(Nat \ {0}) \ {<<>>}
    /\ DegradeAt \in Nat \ {0}
    /\ MaxNow \in Nat \ {0} /\ MaxDrains \in Nat /\ MaxMoves \in Nat /\ MaxFaults \in Nat

VARIABLES
    now,
    inbox,      \* the notifiable letters in inbox/<identity>/new; their digest
    sent,       \* letters that have arrived
    reading,    \* is a `khala inbox' between moving letters and its stamp?
    drained,    \* run/drained/<identity>: [at, token]
    turn,       \* run/turns/<identity>
    owner,      \* the lease's owner, if its registration is there
    ready,      \* has the owner's registration been verified?
    native,     \* native failure count in each registration
    journal,    \* deliveries/<identity>/<instance>, in order of time
    sidecar,    \* lastWritten in ears/<identity>.json
    mem,        \* notifierState of the identity
    scan,       \* where the notifier's scan is
    scanned,    \* has it scanned in this second?
    moves, faults,   \* what sessions do, and faults, so far
    rung,       \* history: frames the process got and has not read; why one was forgotten
    quiet       \* history: whole seconds a ready owner has waited, unrung

mail == <<inbox, sent, reading, drained, turn>>
session == <<owner, ready, moves>>
disk == <<native, journal, sidecar>>
vars == <<now, mail, session, disk, mem, scan, scanned, faults, rung, quiet>>

Inst == {Of[p] : p \in Proc}

Attempt == [at : 1..MaxNow, written : BOOLEAN, index : Nat, digest : SUBSET Letter]

State ==
    [digest : SUBSET Letter, index : Nat, failures : Nat,
     out : Nat,                    \* outstandingNotifications
     outAt : 0..MaxNow,            \* outstandingWritten; 0 for no time
     target : Proc \cup {None},
     last : 0..MaxNow,             \* lastAttempt
     lastWritten : 0..MaxNow,
     next : Nat,                   \* nextAttempt
     token : 0..MaxDrains]         \* lastInboxReadToken

ASSUME NoState == None \notin State

TypeOK ==
    /\ now \in 1..MaxNow
    /\ inbox \subseteq sent /\ sent \subseteq Letter
    /\ reading \in BOOLEAN
    /\ drained \in [at : 0..now, token : 0..MaxDrains]
    /\ reading => drained.token < MaxDrains
    /\ turn \in 1..now \cup {None}
    /\ owner \in Proc \cup {None} /\ ready \in BOOLEAN
    /\ native \in [Inst -> Nat]
    /\ DOMAIN journal = Inst /\ \A i \in Inst : journal[i] \in Seq(Attempt)
    /\ sidecar \in 0..now
    /\ mem \in State \cup {None}
    /\ mem # None => (mem.out > 0 <=> mem.outAt > 0)
    /\ scan \in [at : {"down", "idle", "write", "journal", "note"}, target : Proc \cup {None},
                 ready : BOOLEAN, digest : SUBSET Letter, now : 0..now, written : BOOLEAN]
    /\ scanned \in BOOLEAN
    /\ moves \in 0..MaxMoves /\ faults \in 0..MaxFaults /\ quiet \in Nat
    /\ rung \in [to : Proc \cup {None}, n : Nat, at : 0..now,
                 forgot : SUBSET {"no owner", "no journal"}]

NoScan == [at |-> "idle", target |-> None, ready |-> FALSE, digest |-> {}, now |-> 0,
           written |-> FALSE]
NoRung == [to |-> None, n |-> 0, at |-> 0, forgot |-> {}]

Init ==
    /\ now = 1
    /\ inbox = {} /\ sent = {} /\ reading = FALSE
    /\ drained = [at |-> 0, token |-> 0] /\ turn = None
    /\ owner \in First /\ ready = TRUE
    /\ native = [i \in Inst |-> 0] /\ journal = [i \in Inst |-> <<>>] /\ sidecar = 0
    /\ mem = None /\ scan = NoScan /\ scanned = FALSE
    /\ moves = 0 /\ faults = 0 /\ rung = NoRung /\ quiet = 0

-----------------------------------------------------------------------------
\* readPending and queueDigest: what the doorbell is for.  Two digests differ
\* when the sets of letters do.
Pending == inbox

\* readInboxReadMarker: a drain at t or later
DrainedSince(t) == drained.at >= t

\* readTurnMarker: there is one, and no turn has begun since t
NoTurnSince(t) == turn # None /\ turn < t

\* journals of i that no drain has answered
Unread(i) == {k \in DOMAIN journal[i] :
                journal[i][k].written /\ ~DrainedSince(journal[i][k].at)}

\* rewriteDelayIndex; one more than the code's, sequences start at 1
DelayIndex(n, length) == IF n < 1 THEN 1 ELSE IF n > length THEN length ELSE n

Delay(schedule, n) == schedule[DelayIndex(n, Len(schedule))]

-----------------------------------------------------------------------------
(* Senders, sessions and the clock *)

Arrive(l) ==
    /\ l \notin sent
    /\ inbox' = inbox \cup {l} /\ sent' = sent \cup {l}
    /\ quiet' = IF inbox = {} THEN 0 ELSE quiet
    /\ UNCHANGED <<now, reading, drained, turn, session, disk, mem, scan, scanned, faults, rung>>

\* khala inbox: the letters, or only alerts that are not rung for
Drain(set) ==
    /\ ~reading /\ drained.token < MaxDrains
    /\ reading' = TRUE /\ inbox' = inbox \ set
    /\ quiet' = 0
    /\ UNCHANGED <<now, sent, drained, turn, session, disk, mem, scan, scanned, faults, rung>>

Stamp ==
    /\ reading /\ reading' = FALSE
    /\ drained' = [at |-> now, token |-> drained.token + 1]
    /\ quiet' = 0
    /\ UNCHANGED <<now, inbox, sent, turn, session, disk, mem, scan, scanned, faults, rung>>

\* It is killed before it stamps.
DrainKilled ==
    /\ reading /\ reading' = FALSE /\ faults < MaxFaults /\ faults' = faults + 1
    /\ UNCHANGED <<now, inbox, sent, drained, turn, session, disk, mem, scan, scanned, rung, quiet>>

\* The hook at the start of a turn
Turn ==
    /\ turn # now /\ turn' = now
    /\ moves < MaxMoves /\ moves' = moves + 1
    /\ UNCHANGED <<now, inbox, sent, reading, drained, owner, ready, disk, mem, scan, scanned, faults,
                   rung, quiet>>

\* The lease moves to another process, or is given up; a registration is
\* verified or is not any more.
Move(p) ==
    /\ p # owner
    /\ moves < MaxMoves /\ moves' = moves + 1
    /\ owner' = p /\ ready' \in BOOLEAN /\ quiet' = 0
    /\ UNCHANGED <<now, mail, disk, mem, scan, scanned, faults, rung>>

Verify ==
    /\ ready' = ~ready /\ quiet' = 0
    /\ moves < MaxMoves /\ moves' = moves + 1
    /\ UNCHANGED <<now, mail, owner, disk, mem, scan, scanned, faults, rung>>

\* The turn stamp holds a repeat back.
Held(m) == m.out > 0 /\ NoTurnSince(m.outAt)

Waits == /\ owner # None /\ ready /\ inbox # {} /\ ~reading
         /\ scan.at = "idle" /\ (mem # None => ~Held(mem))

\* The notifier scans every second while it runs.
Tick ==
    /\ now < MaxNow /\ now' = now + 1
    /\ scan.at = "down" \/ scanned
    /\ scanned' = FALSE
    /\ quiet' = IF Waits THEN quiet + 1 ELSE 0
    /\ UNCHANGED <<mail, session, disk, mem, scan, faults, rung>>

-----------------------------------------------------------------------------
(* The notifier *)

\* The state of an identity nobody owns
Blank(digest) ==
    [digest |-> digest, index |-> 0, failures |-> 0, out |-> 0, outAt |-> 0, target |-> None,
     last |-> 0, lastWritten |-> 0, next |-> 0, token |-> 0]

\* restoreState
Restored(i, digest) ==
    LET J == journal[i]
        written == {k \in DOMAIN J : J[k].written}
        same == {k \in DOMAIN J : J[k].digest = digest}
        lastWritten == Max({sidecar} \cup {J[k].at : k \in written})
        latest == J[Len(J)]
        out == Cardinality(Unread(i))
        outAt == IF out = 0 THEN 0 ELSE J[Max(Unread(i))].at
        failed == ~latest.written /\ (lastWritten = 0 \/ latest.at > lastWritten)
    IN [digest |-> digest, token |-> drained.token, target |-> None,
        out |-> out, outAt |-> outAt,
        index |-> IF same = {} THEN 0 ELSE J[Max(same)].index,
        failures |-> IF J = <<>> THEN 0 ELSE Len(J) - Max(written \cup {0}),
        last |-> IF J = <<>> THEN 0 ELSE latest.at,
        lastWritten |-> lastWritten,
        next |-> IF J = <<>> THEN 0
                 ELSE IF failed THEN latest.at + Delay(Backoff, latest.index)
                 ELSE IF out > 0 THEN outAt + Delay(RetryAfter, out) ELSE 0]

\* not before the first delay after the last attempt
Paused(m) == IF m.last = 0 THEN now ELSE Max({now, m.last + Backoff[1]})

\* The memory the scan starts from: restored, adopted, kept, or with the
\* schedule of another process dropped.
Aimed(m, p) ==
    IF m.target \in {None, p} THEN [m EXCEPT !.target = p]
    ELSE [m EXCEPT !.target = p, !.index = 0, !.out = 0, !.outAt = 0,
                   !.failures = 0, !.next = Paused(m)]

\* Variant: a frame is outstanding for good.
Answered_Never(m) == FALSE

Answered(m) == m.out > 0 /\ drained.token # m.token /\ DrainedSince(m.outAt)

\* Variant: the time of the frame is left behind.
Consumed_Half(m) ==
    [(IF Answered(m) THEN [m EXCEPT !.out = 0, !.next = now] ELSE m)
        EXCEPT !.token = drained.token]

Consumed(m) ==
    [(IF Answered(m) THEN [m EXCEPT !.out = 0, !.outAt = 0, !.next = now] ELSE m)
        EXCEPT !.token = drained.token]

\* Variant: new mail starts a new schedule.
Renewed_Always(m, digest) ==
    IF m.digest = digest THEN m
    ELSE [m EXCEPT !.digest = digest, !.index = 0, !.next = Paused(m)]

Renewed(m, digest) ==
    IF m.digest = digest THEN m
    ELSE [m EXCEPT !.digest = digest, !.index = 0,
                   !.next = IF m.out = 0 THEN Paused(m) ELSE @]

\* writeListenerSidecar
WriteSidecar(m) == sidecar' = m.lastWritten

\* updateNativeStatus
UpdateNative(i, failures) == native' = [native EXCEPT ![i] = failures]

\* Nothing to ring for: the memory of the identity is dropped.
ScanEmpty ==
    /\ scan.at = "idle" /\ Pending = {}
    /\ scanned' = TRUE /\ mem' = None
    /\ UNCHANGED <<now, mail, session, disk, scan, faults, rung, quiet>>

\* observeQueueDigest, when there is no owner: no instance to restore from.
Observe ==
    /\ scan.at = "idle" /\ Pending # {} /\ owner = None
    /\ scanned' = TRUE
    /\ mem' = IF mem = None THEN Blank(Pending)
              ELSE IF mem.digest = Pending THEN mem
              ELSE [mem EXCEPT !.digest = Pending, !.index = 0]
    /\ IF mem' # mem THEN WriteSidecar(mem') ELSE UNCHANGED sidecar
    /\ rung' = [rung EXCEPT !.forgot = IF mem = None THEN @ \cup {"no owner"} ELSE @]
    /\ UNCHANGED <<now, mail, session, native, journal, scan, faults, quiet>>

\* Registrations, the lease and the letters are read, then the first half of
\* maybeNotify under the lock of its state.
Decide ==
    /\ scan.at = "idle" /\ Pending # {} /\ owner # None
    /\ scanned' = TRUE
    /\ LET start == IF mem = None THEN Restored(Of[owner], Pending) ELSE Aimed(mem, owner)
           m == Renewed(Consumed([start EXCEPT !.target = owner]), Pending)
       IN /\ IF mem = None \/ m.digest # mem.digest THEN WriteSidecar(m) ELSE UNCHANGED sidecar
          /\ rung' = IF rung.to = owner THEN rung ELSE [NoRung EXCEPT !.to = owner]
          /\ IF now >= m.next /\ ~Held(m)
             THEN /\ mem' = [m EXCEPT !.index = @ + 1]
                  /\ scan' = [at |-> "write", target |-> owner, ready |-> ready,
                              digest |-> Pending, now |-> now, written |-> FALSE]
             ELSE /\ mem' = m /\ UNCHANGED scan
    /\ UNCHANGED <<now, mail, session, native, journal, faults, quiet>>

\* The letters are read again; what has changed since is left to the scan that
\* the change itself asks for.
Skip ==
    /\ scan.at = "write" /\ scan.ready /\ Pending # scan.digest
    /\ mem' = IF Pending = {} THEN None ELSE mem
    /\ scan' = NoScan /\ scanned' = FALSE
    /\ UNCHANGED <<now, mail, session, disk, faults, rung, quiet>>

\* The frame is written to the process the scan saw, read or not by now.
Ring ==
    /\ scan.at = "write" /\ scan.ready /\ Pending = scan.digest
    /\ scan' = [scan EXCEPT !.at = "journal", !.written = TRUE]
    /\ rung' = [to |-> scan.target, at |-> scan.now, forgot |-> {},
                n |-> IF rung.forgot # {} \/ DrainedSince(rung.at) THEN 1 ELSE rung.n + 1]
    /\ quiet' = 0
    /\ UNCHANGED <<now, mail, session, disk, mem, scanned, faults>>

\* The registration was not ready, or its socket refused the frame.
Fail ==
    /\ scan.at = "write"
    /\ \/ ~scan.ready /\ faults' = faults
       \/ /\ scan.ready /\ Pending = scan.digest
          /\ faults < MaxFaults /\ faults' = faults + 1
    /\ scan' = [scan EXCEPT !.at = "journal"]
    /\ quiet' = 0
    /\ UNCHANGED <<now, mail, session, disk, mem, scanned, rung>>

Journal ==
    /\ scan.at = "journal"
    /\ journal' = [journal EXCEPT ![Of[scan.target]] =
         Append(@, [at |-> scan.now, written |-> scan.written, index |-> mem.index,
                    digest |-> scan.digest])]
    /\ scan' = [scan EXCEPT !.at = "note"]
    /\ UNCHANGED <<now, mail, session, native, sidecar, mem, scanned, faults, rung, quiet>>

\* Variant: a frame that was written does not end a run of failures.
Noted_Failing(m) ==
    IF scan.written
    THEN [m EXCEPT !.last = scan.now, !.lastWritten = scan.now,
                   !.out = @ + 1, !.outAt = scan.now,
                   !.next = scan.now + Delay(RetryAfter, m.out + 1)]
    ELSE [m EXCEPT !.last = scan.now, !.failures = @ + 1,
                   !.next = scan.now + Delay(Backoff, m.index)]

Noted(m) ==
    IF scan.written
    THEN [m EXCEPT !.last = scan.now, !.failures = 0, !.lastWritten = scan.now,
                   !.out = @ + 1, !.outAt = scan.now,
                   !.next = scan.now + Delay(RetryAfter, m.out + 1)]
    ELSE [m EXCEPT !.last = scan.now, !.failures = @ + 1,
                   !.next = scan.now + Delay(Backoff, m.index)]

\* The second half: memory, sidecar and the native status of the registration.
Note ==
    /\ scan.at = "note"
    /\ mem' = Noted(mem)
    /\ IF scan.written THEN WriteSidecar(mem') ELSE UNCHANGED sidecar
    /\ UpdateNative(Of[scan.target], mem'.failures)
    /\ scan' = NoScan
    /\ UNCHANGED <<now, mail, session, journal, scanned, faults, rung, quiet>>

\* The notifier dies, with its memory; a new one takes the singleton lock.
Crash ==
    /\ scan.at # "down"
    /\ faults < MaxFaults /\ faults' = faults + 1
    /\ scan' = [NoScan EXCEPT !.at = "down"] /\ mem' = None /\ quiet' = 0
    /\ rung' = [rung EXCEPT !.forgot =
                  IF scan.at = "journal" /\ scan.written THEN @ \cup {"no journal"} ELSE @]
    /\ UNCHANGED <<now, mail, session, disk, scanned>>

Restart ==
    /\ scan.at = "down"
    /\ scan' = NoScan /\ scanned' = FALSE
    /\ UNCHANGED <<now, mail, session, disk, mem, faults, rung, quiet>>

-----------------------------------------------------------------------------
Notify == ScanEmpty \/ Observe \/ Decide \/ Skip \/ Ring \/ Fail \/ Journal \/ Note

Next ==
    \/ \E l \in Letter : Arrive(l)
    \/ \E set \in {inbox, {}} : Drain(set)
    \/ Stamp \/ DrainKilled \/ Turn \/ Verify \/ Tick
    \/ \E p \in Proc \cup {None} : Move(p)
    \/ Notify \/ Crash \/ Restart

Spec == Init /\ [][Next]_vars

-----------------------------------------------------------------------------
Early == /\ scan.at = "write" /\ scan'.written
         /\ rung.to = scan.target /\ rung.n > 0 /\ ~DrainedSince(rung.at)
         /\ rung'.at < rung.at + Delay(RetryAfter, rung.n)

\* Whatever arrives, and however often the notifier restarts, a process is not
\* rung again before the schedule of the frames it has not read allows it --
\* unless a frame never got into the journal, or the memory was made while
\* nobody owned the identity.
Paced == [][Early => rung.forgot # {}]_vars

Longest(schedule) == schedule[Len(schedule)]

\* Letters are not left waiting: a ready owner is rung as soon as a schedule
\* allows, for new letters the short one, for unread frames the long one.
Prompt ==
    LET unread(J) == \E k \in DOMAIN J : J[k].written /\ drained.at <= J[k].at
    IN owner # None =>
         quiet <= Longest(IF unread(journal[Of[owner]]) THEN RetryAfter ELSE Backoff)

\* A registration is degraded only by failures in a row of its own.
Degraded ==
    \A i \in Inst : native[i] >= DegradeAt =>
      LET J == journal[i] IN
        \E k \in DOMAIN J : /\ k >= DegradeAt
                            /\ \A j \in (k - DegradeAt + 1)..k : ~J[j].written

-----------------------------------------------------------------------------
(* Why the safety properties hold *)

(* Nothing is stamped later than now. *)
Past ==
    /\ \A i \in Inst : \A k \in DOMAIN journal[i] : journal[i][k].at <= now
    /\ mem # None => mem.last <= now /\ mem.lastWritten <= now /\ mem.outAt <= now

(* A scan that is at work has its memory, aimed at the process it rings;    *)
(* the memory is about the process that was rung last, or was made while    *)
(* nobody owned the identity.                                               *)
Working == scan.at \in {"write", "journal", "note"}

AtWork ==
    /\ Working => mem # None /\ scan.target \in Proc /\ scan.now > 0 /\ mem.target = scan.target
    /\ scan.at = "write" => ~scan.written
    /\ scan.at = "down" => mem = None
    /\ mem # None => IF mem.target = None THEN mem.failures = 0 /\ rung.forgot # {}
                     ELSE rung.to = mem.target

(* The last n attempts of a journal up to the k-th are failures.            *)
FailedRun(J, k, n) == n <= k /\ \A j \in (k - n + 1)..k : ~J[j].written

(* The failures the memory counts end the journal of its target; those of a *)
(* registration are somewhere in the journal of its own.                    *)
Failing ==
    /\ \A i \in Inst : \E k \in 0..Len(journal[i]) : FailedRun(journal[i], k, native[i])
    /\ mem # None /\ mem.target # None =>
         LET J == journal[Of[mem.target]] IN
           FailedRun(J, Len(J), IF scan.at # "note" THEN mem.failures
                                ELSE IF scan.written THEN 0 ELSE mem.failures + 1)

(* While the process has frames it has not read, none of them forgotten,    *)
(* the next is not due before their schedule allows.                        *)
Outstanding == rung.n > 0 /\ rung.forgot = {} /\ ~DrainedSince(rung.at)

Due == rung.at + Delay(RetryAfter, rung.n)

(* its last frame, not journalled or not remembered yet                     *)
Unjournalled == scan.at = "journal" /\ scan.written
Unnoted == scan.at \in {"journal", "note"} /\ scan.written

Scheduled ==
    Outstanding =>
      LET J == journal[Of[rung.to]] IN
      /\ rung.to \in Proc
      /\ Cardinality(Unread(Of[rung.to])) + (IF Unjournalled THEN 1 ELSE 0) >= rung.n
      /\ ~Unjournalled =>
           \E k \in DOMAIN J : /\ J[k].written /\ J[k].at = rung.at
                               /\ \A j \in DOMAIN J : j > k => ~J[j].written /\ J[j].at >= Due
      /\ Unnoted => rung.at = scan.now /\ rung.to = scan.target /\ mem.out + 1 >= rung.n
      /\ mem # None /\ ~Unnoted => /\ mem.out >= rung.n /\ mem.outAt = rung.at
                                   /\ mem.next >= Due
      /\ Working /\ ~Unnoted => scan.now >= Due

(* While a ready owner waits nothing is attempted, and whoever reads the    *)
(* inbox, or changes the owner, ends the wait.                              *)
Since == now - quiet

Undisturbed ==
    /\ quiet < now
    /\ quiet > 0 => /\ owner # None /\ ready /\ inbox # {} /\ ~reading
                    /\ scan.at \in {"idle", "write"}
    /\ \A i \in Inst : \A k \in DOMAIN journal[i] : journal[i][k].at <= Since
    /\ mem # None => mem.last <= Since

(* A frame the memory counts is in the journal of its target, and unread by *)
(* any drain the memory has seen.                                           *)
WrittenAt(i, t) == \E k \in DOMAIN journal[i] : journal[i][k].written /\ journal[i][k].at = t

Accounted ==
    /\ mem # None =>
         /\ mem.token <= drained.token
         /\ mem.out > 0 =>
              /\ mem.target # None /\ WrittenAt(Of[mem.target], mem.outAt)
              /\ mem.token = drained.token => drained.at <= mem.outAt
         /\ Working /\ mem.token = drained.token => drained.at <= scan.now
    /\ scan.at = "note" /\ scan.written => WrittenAt(Of[scan.target], scan.now)

(* The next attempt is never further off than a schedule is long.           *)
Foreseeable ==
    mem # None =>
      \/ mem.next <= now
      \/ mem.next <= Since + Longest(Backoff)
      \/ mem.out > 0 /\ mem.next <= Since + Longest(RetryAfter)

(* A wait goes on only when a scan for this owner found it is not yet time, *)
(* but for the seconds in which an empty inbox, another owner or the turn   *)
(* stamp ends; those come first.                                            *)
Scanned ==
    /\ quiet > 0 /\ scanned /\ scan.at = "idle" =>
         /\ mem # None /\ mem.target = owner /\ mem.token = drained.token
         /\ mem.next > now \/ Held(mem) \/ (quiet = 1 /\ mem.out > 0)
    /\ quiet > 0 /\ (mem = None \/ Held(mem)) => quiet = 1
=============================================================================
