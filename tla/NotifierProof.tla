---------------------------- MODULE NotifierProof ---------------------------
(***************************************************************************)
(* Theorems about Notifier for any processes, registrations, letters,      *)
(* schedules and bounds: its type invariant, that only failures of its own *)
(* degrade a registration, and, of schedules that never get shorter, that  *)
(* nobody is rung ahead of the schedule or left waiting beyond it.         *)
(***************************************************************************)
EXTENDS Notifier, FiniteSetTheorems, WellFoundedInduction, TLAPS

\* The inductive invariant of the first two; Scheduled joins it for the third, and
\* WaitInv for the last.
NotifierInv == TypeOK /\ Past /\ AtWork /\ Failing

Frame == [to : Proc \cup {None}, n : Nat, at : Nat, forgot : SUBSET {"no owner", "no journal"}]
Stage == [at : {"down", "idle", "write", "journal", "note"}, target : Proc \cup {None},
          ready : BOOLEAN, digest : SUBSET Letter, now : Nat, written : BOOLEAN]

-----------------------------------------------------------------------------
(* Which actions change what *)

LEMMA NowSteps ==
    ASSUME Next
    PROVE  UNCHANGED now \/ Tick
BY Zenon DEF Next, Notify, Arrive, Drain, Stamp, DrainKilled, Turn, Verify, Move, ScanEmpty,
   Observe, Decide, Skip, Ring, Fail, Journal, Note, Crash, Restart

LEMMA MailSteps ==
    ASSUME Next
    PROVE  \/ UNCHANGED mail
           \/ (\E l \in Letter : Arrive(l)) \/ (\E set \in {inbox, {}} : Drain(set))
           \/ Stamp \/ DrainKilled \/ Turn
BY Zenon DEF Next, Notify, Verify, Tick, Move, ScanEmpty, Observe, Decide, Skip, Ring, Fail,
   Journal, Note, Crash, Restart

LEMMA DrainedSteps ==
    ASSUME Next
    PROVE  UNCHANGED drained \/ Stamp
BY Zenon DEF Next, Notify, Arrive, Drain, DrainKilled, Turn, Verify, Tick, Move, ScanEmpty,
   Observe, Decide, Skip, Ring, Fail, Journal, Note, Crash, Restart, mail

LEMMA SessionSteps ==
    ASSUME Next
    PROVE  \/ UNCHANGED session
           \/ Turn \/ Verify \/ (\E p \in Proc \cup {None} : Move(p))
BY Zenon DEF Next, Notify, Arrive, Drain, Stamp, DrainKilled, Tick, ScanEmpty, Observe, Decide,
   Skip, Ring, Fail, Journal, Note, Crash, Restart

LEMMA NativeSteps ==
    ASSUME Next
    PROVE  UNCHANGED native \/ Note
BY Zenon DEF Next, Notify, Arrive, Drain, Stamp, DrainKilled, Turn, Verify, Tick, Move,
   ScanEmpty, Observe, Decide, Skip, Ring, Fail, Journal, Crash, Restart, disk

LEMMA JournalSteps ==
    ASSUME Next
    PROVE  UNCHANGED journal \/ Journal
BY Zenon DEF Next, Notify, Arrive, Drain, Stamp, DrainKilled, Turn, Verify, Tick, Move,
   ScanEmpty, Observe, Decide, Skip, Ring, Fail, Note, Crash, Restart, disk

LEMMA SidecarSteps ==
    ASSUME Next
    PROVE  UNCHANGED sidecar \/ Observe \/ Decide \/ Note
BY Zenon DEF Next, Notify, Arrive, Drain, Stamp, DrainKilled, Turn, Verify, Tick, Move,
   ScanEmpty, Skip, Ring, Fail, Journal, Crash, Restart, disk

LEMMA MemSteps ==
    ASSUME Next
    PROVE  UNCHANGED mem \/ Observe \/ Decide \/ Note \/ ScanEmpty \/ Skip \/ Crash
BY Zenon DEF Next, Notify, Arrive, Drain, Stamp, DrainKilled, Turn, Verify, Tick, Move,
   Ring, Fail, Journal, Restart

LEMMA ScanSteps ==
    ASSUME Next
    PROVE  \/ UNCHANGED scan
           \/ Decide \/ Skip \/ Ring \/ Fail \/ Journal \/ Note \/ Crash \/ Restart
BY Zenon DEF Next, Notify, Arrive, Drain, Stamp, DrainKilled, Turn, Verify, Tick, Move,
   ScanEmpty, Observe

LEMMA RungSteps ==
    ASSUME Next
    PROVE  UNCHANGED rung \/ Observe \/ Decide \/ Ring \/ Crash
BY Zenon DEF Next, Notify, Arrive, Drain, Stamp, DrainKilled, Turn, Verify, Tick, Move,
   ScanEmpty, Skip, Fail, Journal, Note, Restart

-----------------------------------------------------------------------------
(* What the constants, the journals and the operators on them are *)

LEMMA Constants ==
    /\ MaxNow \in Nat \ {0} /\ MaxDrains \in Nat /\ MaxMoves \in Nat /\ MaxFaults \in Nat
    /\ None \notin Proc /\ First \subseteq Proc /\ DegradeAt \in Nat \ {0}
    /\ \A p \in Proc : Of[p] \in Inst
BY NotifierAssumption DEF Inst

\* A schedule always has a next delay.
LEMMA DelayType ==
    ASSUME NEW n \in Nat
    PROVE  /\ Delay(Backoff, n) \in Nat /\ Backoff[1] \in Nat
           /\ Delay(RetryAfter, n) \in Nat /\ Delay(RetryAfter, n) > 0
<1>1. /\ Backoff \in Seq(Nat) /\ Len(Backoff) \in Nat /\ Len(Backoff) > 0
      /\ DOMAIN Backoff = 1..Len(Backoff)
  BY NotifierAssumption
<1>2. /\ RetryAfter \in Seq(Nat \ {0}) /\ Len(RetryAfter) \in Nat /\ Len(RetryAfter) > 0
      /\ DOMAIN RetryAfter = 1..Len(RetryAfter)
  BY NotifierAssumption
<1>3. DelayIndex(n, Len(Backoff)) \in DOMAIN Backoff /\ 1 \in DOMAIN Backoff
  BY <1>1 DEF DelayIndex
<1>4. DelayIndex(n, Len(RetryAfter)) \in DOMAIN RetryAfter
  BY <1>2 DEF DelayIndex
<1>5. Backoff[DelayIndex(n, Len(Backoff))] \in Nat /\ Backoff[1] \in Nat
  BY <1>1, <1>3
<1>6. RetryAfter[DelayIndex(n, Len(RetryAfter))] \in Nat \ {0}
  BY <1>2, <1>4
<1> QED
  BY <1>5, <1>6 DEF Delay

\* A set of numbers that has a bound has a largest.
LEMMA MaxOf ==
    ASSUME NEW S \in SUBSET Nat, S # {}, NEW b \in Nat, \A x \in S : x <= b
    PROVE  Max(S) \in S /\ \A y \in S : y <= Max(S)
<1> DEFINE R == OpToRel(<, Nat)
           D == {k \in Nat : b - k \in S}
<1>1. IsWellFoundedOn(R, Nat)
  BY NatLessThanWellFounded
<1>2. \A x, y \in Nat : <<y, x>> \in R <=> y < x
  BY DEF OpToRel
<1>3. D \subseteq Nat /\ D # {}
  <2>1. PICK x \in S : TRUE
    OBVIOUS
  <2>2. b - x \in Nat /\ b - (b - x) = x
    BY <2>1
  <2>3. b - x \in D
    BY <2>1, <2>2
  <2> QED
    BY <2>3
<1>4. \A y \in S : b - y \in D
  <2> SUFFICES ASSUME NEW y \in S PROVE b - y \in D
    OBVIOUS
  <2>1. b - y \in Nat /\ b - (b - y) = y
    OBVIOUS
  <2> QED
    BY <2>1
<1>5. \A k \in D : b - k \in S
  OBVIOUS
<1> HIDE DEF R, D
<1>6. \E x \in D : \A y \in D : ~(<<y, x>> \in R)
  BY <1>1, <1>3, WFMin
<1>7. PICK m \in D : \A y \in D : ~(<<y, m>> \in R)
  BY <1>6
<1>8. \A y \in D : ~(y < m) /\ y \in Nat /\ m \in Nat
  BY <1>2, <1>3, <1>7
<1>9. b - m \in S /\ \A y \in S : b - m >= y
  <2> SUFFICES ASSUME NEW y \in S PROVE b - m >= y
    BY <1>5, <1>7
  <2>1. b - y \in Nat /\ m \in Nat /\ ~(b - y < m) /\ y \in Nat
    BY <1>4, <1>8
  <2> QED
    BY <2>1
<1>10. /\ (CHOOSE x \in S : \A y \in S : x >= y) \in S
       /\ \A y \in S : (CHOOSE x \in S : \A y2 \in S : x >= y2) >= y
  BY <1>9
<1>11. Max(S) \in S /\ \A y \in S : Max(S) >= y
  BY <1>10 DEF Max
<1>12. \A y \in S : Max(S) >= y => y <= Max(S)
  BY <1>11
<1> QED
  BY <1>11, <1>12

\* What a journal holds
LEMMA JournalType ==
    ASSUME TypeOK, NEW i \in Inst
    PROVE  LET J == journal[i] IN
           /\ J \in Seq(Attempt) /\ Len(J) \in Nat /\ DOMAIN J = 1..Len(J)
           /\ (J = <<>> <=> Len(J) = 0)
           /\ \A k \in DOMAIN J : /\ k \in Nat /\ J[k].at \in 1..MaxNow /\ J[k].written \in BOOLEAN
                                  /\ J[k].index \in Nat /\ J[k].digest \in SUBSET Letter
<1> DEFINE J == journal[i]
<1>1. J \in Seq(Attempt)
  BY DEF TypeOK
<1> HIDE DEF J
<1>2. Len(J) \in Nat /\ DOMAIN J = 1..Len(J) /\ (J = <<>> <=> Len(J) = 0)
  BY <1>1
<1>3. \A k \in DOMAIN J : J[k] \in Attempt /\ k \in Nat
  BY <1>1, <1>2
<1>4. \A k \in DOMAIN J : /\ k \in Nat /\ J[k].at \in 1..MaxNow /\ J[k].written \in BOOLEAN
                          /\ J[k].index \in Nat /\ J[k].digest \in SUBSET Letter
  BY <1>3 DEF Attempt
<1> QED
  BY <1>1, <1>2, <1>4 DEF J

\* The frames a drain has not answered can be counted.
LEMMA UnreadType ==
    ASSUME TypeOK, NEW i \in Inst
    PROVE  /\ Unread(i) \subseteq DOMAIN journal[i] /\ IsFiniteSet(Unread(i))
           /\ Cardinality(Unread(i)) \in Nat
           /\ Cardinality(Unread(i)) = 0 <=> Unread(i) = {}
<1>1. Unread(i) \subseteq DOMAIN journal[i]
  BY DEF Unread
<1>2. DOMAIN journal[i] = 1..Len(journal[i]) /\ Len(journal[i]) \in Nat
  BY JournalType
<1>3. IsFiniteSet(1..Len(journal[i]))
  BY <1>2, FS_Interval
<1>4. IsFiniteSet(Unread(i))
  BY <1>1, <1>2, <1>3, FS_Subset
<1> QED
  BY <1>1, <1>4, FS_CardinalityType, FS_EmptySet

-----------------------------------------------------------------------------
(* The memory a scan makes or keeps *)

\* What a new notifier reads from the journals of a registration: the frames no
\* drain has answered, the last of them, and the failures since the last frame.
LEMMA RestoredType ==
    ASSUME TypeOK, Past, NEW i \in Inst, NEW digest \in SUBSET Letter
    PROVE  LET J == journal[i]
               r == Restored(i, digest) IN
           /\ r \in State /\ r.digest = digest /\ r.token = drained.token /\ r.target = None
           /\ r.out = Cardinality(Unread(i)) /\ (r.out > 0 <=> r.outAt > 0)
           /\ r.last <= now /\ r.lastWritten <= now /\ r.outAt <= now
           /\ \A k \in DOMAIN J : J[k].written => J[k].at <= r.lastWritten
           /\ r.out > 0 => /\ Max(Unread(i)) \in Unread(i)
                           /\ \A k \in Unread(i) : k <= Max(Unread(i))
                           /\ r.outAt = J[Max(Unread(i))].at
           /\ FailedRun(J, Len(J), r.failures)
           /\ r.last = IF J = <<>> THEN 0 ELSE J[Len(J)].at
           /\ r.next = IF J = <<>> THEN 0
                       ELSE IF ~J[Len(J)].written /\ (r.lastWritten = 0 \/ J[Len(J)].at > r.lastWritten)
                       THEN J[Len(J)].at + Delay(Backoff, J[Len(J)].index)
                       ELSE IF r.out > 0 THEN r.outAt + Delay(RetryAfter, r.out) ELSE 0
<1> DEFINE J == journal[i]
           written == {k \in DOMAIN J : J[k].written}
           same == {k \in DOMAIN J : J[k].digest = digest}
           times == {sidecar} \cup {J[k].at : k \in written}
           lastWritten == Max(times)
           latest == J[Len(J)]
           out == Cardinality(Unread(i))
           outAt == IF out = 0 THEN 0 ELSE J[Max(Unread(i))].at
           failed == ~latest.written /\ (lastWritten = 0 \/ latest.at > lastWritten)
           index == IF same = {} THEN 0 ELSE J[Max(same)].index
           failures == IF J = <<>> THEN 0 ELSE Len(J) - Max(written \cup {0})
           last == IF J = <<>> THEN 0 ELSE latest.at
           next == IF J = <<>> THEN 0
                   ELSE IF failed THEN latest.at + Delay(Backoff, latest.index)
                   ELSE IF out > 0 THEN outAt + Delay(RetryAfter, out) ELSE 0
<1>1. Restored(i, digest) =
         [digest |-> digest, token |-> drained.token, target |-> None, out |-> out,
          outAt |-> outAt, index |-> index, failures |-> failures, last |-> last,
          lastWritten |-> lastWritten, next |-> next]
  BY DEF Restored
<1>2. /\ J \in Seq(Attempt) /\ Len(J) \in Nat /\ DOMAIN J = 1..Len(J)
      /\ (J = <<>> <=> Len(J) = 0)
      /\ \A k \in DOMAIN J : /\ k \in Nat /\ J[k].at \in 1..MaxNow /\ J[k].written \in BOOLEAN
                             /\ J[k].index \in Nat /\ J[k].digest \in SUBSET Letter
  BY JournalType
<1>3. \A k \in DOMAIN J : J[k].at <= now
  BY DEF Past
<1>4. /\ now \in Nat /\ now <= MaxNow /\ MaxNow \in Nat /\ sidecar \in Nat /\ sidecar <= now
      /\ drained.token \in 0..MaxDrains
  <2>1. /\ now \in 1..MaxNow /\ sidecar \in 0..now
        /\ drained \in [at : 0..now, token : 0..MaxDrains]
    BY DEF TypeOK
  <2>2. drained.token \in 0..MaxDrains
    BY <2>1
  <2> QED
    BY <2>1, <2>2, Constants
<1>5. /\ Unread(i) \subseteq DOMAIN J /\ out \in Nat /\ (out = 0 <=> Unread(i) = {})
  BY UnreadType
<1> HIDE DEF J
<1>6. lastWritten \in times /\ \A t \in times : t <= lastWritten
  <2>1. times \in SUBSET Nat /\ times # {} /\ \A t \in times : t <= now
    BY <1>2, <1>3, <1>4
  <2> HIDE DEF times
  <2> QED
    BY <1>4, <2>1, MaxOf
<1>7. lastWritten \in Nat /\ lastWritten <= now
  BY <1>2, <1>3, <1>4, <1>6
<1>8. \A k \in DOMAIN J : J[k].written => J[k].at <= lastWritten
  <2>1. \A k \in DOMAIN J : J[k].written => J[k].at \in times
    OBVIOUS
  <2> QED
    BY <1>6, <2>1
<1>9. out > 0 => Max(Unread(i)) \in Unread(i) /\ \A k \in Unread(i) : k <= Max(Unread(i))
  <2>1. Unread(i) \in SUBSET Nat /\ \A k \in Unread(i) : k <= Len(J)
    BY <1>2, <1>5
  <2>2. Unread(i) # {} =>
          Max(Unread(i)) \in Unread(i) /\ \A k \in Unread(i) : k <= Max(Unread(i))
    BY <1>2, <2>1, MaxOf
  <2>3. out > 0 => Unread(i) # {}
    BY <1>5
  <2> HIDE DEF out
  <2> QED
    BY <2>2, <2>3
<1>10. outAt \in Nat /\ outAt <= now /\ (out > 0 <=> outAt > 0)
  <2>1. CASE out = 0
    BY <1>4, <2>1
  <2>2. CASE out > 0
    <3>1. Max(Unread(i)) \in DOMAIN J
      BY <1>5, <1>9, <2>2
    <3> QED
      BY <1>2, <1>3, <2>2, <3>1
  <2> QED
    BY <1>5, <2>1, <2>2
<1>11. index \in Nat
  <2>1. CASE same = {}
    BY <2>1
  <2>2. CASE same # {}
    <3>1. same \in SUBSET Nat /\ \A k \in same : k <= Len(J)
      BY <1>2
    <3>2. Max(same) \in same
      BY <1>2, <2>2, <3>1, MaxOf
    <3> QED
      BY <1>2, <2>2, <3>2
  <2> QED
    BY <2>1, <2>2
<1>12. failures \in Nat /\ FailedRun(J, Len(J), failures)
  <2>1. CASE J = <<>>
    BY <1>2, <2>1 DEF FailedRun
  <2>2. CASE J # <<>>
    <3> DEFINE ends == written \cup {0}
               m == Max(ends)
    <3>1. ends \in SUBSET Nat /\ ends # {} /\ \A k \in ends : k <= Len(J)
      BY <1>2
    <3>2. m \in ends /\ \A k \in ends : k <= m
      <4> HIDE DEF ends
      <4> QED
        BY <1>2, <3>1, MaxOf
    <3>3. failures = Len(J) - m
      BY <2>2
    <3>4. m \in Nat /\ m <= Len(J)
      BY <3>1, <3>2
    <3>5. \A j \in DOMAIN J : J[j].written => j <= m
      <4>1. \A j \in DOMAIN J : J[j].written => j \in ends
        OBVIOUS
      <4> QED
        BY <3>2, <4>1
    <3> HIDE DEF m, ends, failures
    <3>6. failures \in Nat /\ failures <= Len(J) /\ Len(J) - failures + 1 = m + 1
      BY <1>2, <3>3, <3>4
    <3>7. \A j \in (Len(J) - failures + 1)..Len(J) : ~J[j].written
      <4> SUFFICES ASSUME NEW j \in (m + 1)..Len(J) PROVE ~J[j].written
        BY <3>6
      <4>1. j \in DOMAIN J /\ j \in Nat /\ ~(j <= m)
        BY <1>2, <3>4
      <4> QED
        BY <3>5, <4>1
    <3> QED
      BY <3>6, <3>7 DEF FailedRun
  <2> QED
    BY <2>1, <2>2
<1>13. last \in Nat /\ last <= now
  BY <1>2, <1>3, <1>4
<1>14. next \in Nat
  <2>1. CASE J = <<>>
    BY <2>1
  <2>2. CASE J # <<>>
    <3>1. Len(J) \in DOMAIN J
      BY <1>2, <2>2
    <3>2. latest.at \in Nat /\ latest.index \in Nat
      BY <1>2, <3>1
    <3>3. Delay(Backoff, latest.index) \in Nat /\ Delay(RetryAfter, out) \in Nat
      BY <1>5, <3>2, DelayType
    <3>4. latest.at + Delay(Backoff, latest.index) \in Nat /\ outAt + Delay(RetryAfter, out) \in Nat
      <4> HIDE DEF outAt, latest, out
      <4> QED
        BY <1>10, <3>2, <3>3
    <3> QED
      BY <3>4
  <2> QED
    BY <2>1, <2>2
<1> HIDE DEF out, outAt, index, failures, last, lastWritten
<1>15. Restored(i, digest) \in State
  <2> HIDE DEF next
  <2> QED
    BY <1>1, <1>4, <1>5, <1>7, <1>10, <1>11, <1>12, <1>13, <1>14 DEF State
<1> DEFINE r == Restored(i, digest)
<1>16. /\ r.digest = digest /\ r.token = drained.token /\ r.target = None /\ r.out = out
       /\ r.outAt = outAt /\ r.failures = failures /\ r.last = last
       /\ r.lastWritten = lastWritten /\ r.next = next
  BY <1>1
<1> HIDE DEF r
<1>17. out > 0 => outAt = J[Max(Unread(i))].at
  BY <1>5 DEF outAt, out
<1>18. out = Cardinality(Unread(i)) /\ last = IF J = <<>> THEN 0 ELSE J[Len(J)].at
  BY DEF out, last
<1> QED
  BY <1>7, <1>8, <1>9, <1>10, <1>12, <1>13, <1>15, <1>16, <1>17, <1>18 DEF r, J

\* A pause ends now or later.
LEMMA PausedType ==
    ASSUME TypeOK, NEW m \in State
    PROVE  Paused(m) \in Nat
<1>1. now \in Nat /\ m.last \in Nat /\ Backoff[1] \in Nat
  <2>1. now \in 1..MaxNow
    BY DEF TypeOK
  <2>2. m.last \in 0..MaxNow
    BY DEF State
  <2>3. 0 \in Nat
    OBVIOUS
  <2>4. Backoff[1] \in Nat
    BY <2>3, DelayType, Zenon
  <2> QED
    BY <2>1, <2>2, <2>4
<1>2. m.last + Backoff[1] \in Nat
  BY <1>1
<1> DEFINE S == {now, m.last + Backoff[1]}
<1>3. S \in SUBSET Nat /\ S # {} /\ \A x \in S : x <= now + (m.last + Backoff[1])
  BY <1>1, <1>2
<1>4. now + (m.last + Backoff[1]) \in Nat
  BY <1>1, <1>2
<1>5. Max(S) \in S
  <2> HIDE DEF S
  <2> QED
    BY <1>3, <1>4, MaxOf
<1> QED
  BY <1>1, <1>3, <1>5 DEF Paused

\* A memory is what its fields are.
LEMMA StateFields ==
    ASSUME NEW m \in State
    PROVE  /\ m.digest \in SUBSET Letter /\ m.index \in Nat /\ m.failures \in Nat /\ m.out \in Nat
           /\ m.outAt \in 0..MaxNow /\ m.target \in Proc \cup {None} /\ m.last \in 0..MaxNow
           /\ m.lastWritten \in 0..MaxNow /\ m.next \in Nat /\ m.token \in 0..MaxDrains
BY DEF State

\* A memory aimed at a process keeps its schedule if it was about that process
\* or about nobody.
LEMMA AimedType ==
    ASSUME TypeOK, NEW m \in State, NEW p \in Proc
    PROVE  LET a == Aimed(m, p) IN
           /\ a \in State /\ a.target = p /\ a.digest = m.digest /\ a.last = m.last
           /\ a.lastWritten = m.lastWritten /\ a.token = m.token
           /\ IF m.target \in {None, p}
              THEN a.out = m.out /\ a.outAt = m.outAt /\ a.failures = m.failures /\ a.next = m.next
              ELSE a.out = 0 /\ a.outAt = 0 /\ a.failures = 0 /\ a.next = Paused(m)
<1> DEFINE P == Paused(m)
<1>1. P \in Nat
  BY PausedType
<1> HIDE DEF P
<1>2. CASE m.target \in {None, p}
  <2>1. Aimed(m, p) = [m EXCEPT !.target = p]
    BY <1>2 DEF Aimed
  <2> QED
    BY <1>2, <2>1 DEF State
<1>3. CASE ~(m.target \in {None, p})
  <2> DEFINE m1 == [m EXCEPT !.target = p, !.index = 0]
             m1a == [m1 EXCEPT !.out = 0]
             m2 == [m1a EXCEPT !.outAt = 0]
             m3 == [m2 EXCEPT !.failures = 0, !.next = P]
  <2>1. Aimed(m, p) = m3
    BY <1>3 DEF Aimed, P
  <2>2. /\ m1 \in State /\ m1.target = p /\ m1.digest = m.digest /\ m1.last = m.last
        /\ m1.lastWritten = m.lastWritten /\ m1.token = m.token
    BY DEF State
  <2> HIDE DEF m1
  <2>5. 0 \in 0..MaxNow
    BY Constants
  <2>6. /\ m1a \in State /\ m1a.target = p /\ m1a.digest = m.digest /\ m1a.last = m.last
        /\ m1a.lastWritten = m.lastWritten /\ m1a.token = m.token /\ m1a.out = 0
    BY <2>2 DEF State
  <2> HIDE DEF m1a
  <2>3. /\ m2 \in State /\ m2.target = p /\ m2.digest = m.digest /\ m2.last = m.last
        /\ m2.lastWritten = m.lastWritten /\ m2.token = m.token /\ m2.out = 0 /\ m2.outAt = 0
    BY <2>5, <2>6 DEF State
  <2> HIDE DEF m2
  <2>4. /\ m3 \in State /\ m3.target = p /\ m3.digest = m.digest /\ m3.last = m.last
        /\ m3.lastWritten = m.lastWritten /\ m3.token = m.token /\ m3.out = 0 /\ m3.outAt = 0
        /\ m3.failures = 0 /\ m3.next = P
    BY <2>3, <1>1 DEF State
  <2> HIDE DEF m3
  <2> QED
    BY <1>3, <2>1, <2>4 DEF P
<1> QED
  BY <1>2, <1>3

\* A drain consumes the frames before it.
LEMMA ConsumedType ==
    ASSUME TypeOK, NEW m \in State
    PROVE  LET c == Consumed(m) IN
           /\ c \in State /\ c.target = m.target /\ c.digest = m.digest /\ c.last = m.last
           /\ c.lastWritten = m.lastWritten /\ c.token = drained.token
           /\ c.failures = m.failures
           /\ IF Answered(m) THEN c.out = 0 /\ c.outAt = 0 /\ c.next = now
              ELSE c.out = m.out /\ c.outAt = m.outAt /\ c.next = m.next
<1>1. now \in Nat /\ drained.token \in 0..MaxDrains
  <2>1. drained \in [at : 0..now, token : 0..MaxDrains] /\ now \in 1..MaxNow
    BY DEF TypeOK
  <2> QED
    BY <2>1, Constants
<1> DEFINE m0 == [m EXCEPT !.out = 0]
           m1 == [m0 EXCEPT !.outAt = 0]
           m2 == [m1 EXCEPT !.next = now]
           m3 == IF Answered(m) THEN m2 ELSE m
           m4 == [m3 EXCEPT !.token = drained.token]
<1>2. Consumed(m) = m4
  BY DEF Consumed
<1>7. 0 \in 0..MaxNow
  BY Constants
<1>8. /\ m0 \in State /\ m0.target = m.target /\ m0.digest = m.digest /\ m0.last = m.last
      /\ m0.lastWritten = m.lastWritten /\ m0.failures = m.failures /\ m0.out = 0
  BY DEF State
<1> HIDE DEF m0
<1>3. /\ m1 \in State /\ m1.target = m.target /\ m1.digest = m.digest /\ m1.last = m.last
      /\ m1.lastWritten = m.lastWritten /\ m1.failures = m.failures
      /\ m1.out = 0 /\ m1.outAt = 0
  BY <1>7, <1>8 DEF State
<1> HIDE DEF m1
<1>4. /\ m2 \in State /\ m2.target = m.target /\ m2.digest = m.digest /\ m2.last = m.last
      /\ m2.lastWritten = m.lastWritten /\ m2.failures = m.failures
      /\ m2.out = 0 /\ m2.outAt = 0 /\ m2.next = now
  BY <1>1, <1>3 DEF State
<1> HIDE DEF m2
<1>5. /\ m3 \in State /\ m3.target = m.target /\ m3.digest = m.digest /\ m3.last = m.last
      /\ m3.lastWritten = m.lastWritten /\ m3.failures = m.failures
      /\ IF Answered(m) THEN m3.out = 0 /\ m3.outAt = 0 /\ m3.next = now
         ELSE m3.out = m.out /\ m3.outAt = m.outAt /\ m3.next = m.next
  BY <1>4
<1> HIDE DEF m3
<1>6. /\ m4 \in State /\ m4.target = m3.target /\ m4.digest = m3.digest /\ m4.last = m3.last
      /\ m4.lastWritten = m3.lastWritten /\ m4.failures = m3.failures /\ m4.token = drained.token
      /\ m4.out = m3.out /\ m4.outAt = m3.outAt /\ m4.next = m3.next
  BY <1>1, <1>5 DEF State
<1> HIDE DEF m4
<1> QED
  BY <1>2, <1>5, <1>6

\* New letters start the schedule anew unless a frame is outstanding.
LEMMA RenewedType ==
    ASSUME TypeOK, NEW m \in State, NEW digest \in SUBSET Letter
    PROVE  LET r == Renewed(m, digest) IN
           /\ r \in State /\ r.target = m.target /\ r.digest = digest /\ r.last = m.last
           /\ r.lastWritten = m.lastWritten /\ r.token = m.token /\ r.failures = m.failures
           /\ r.out = m.out /\ r.outAt = m.outAt
           /\ (m.out # 0 => r.next = m.next)
           /\ r.next \in {m.next, Paused(m)}
<1> DEFINE P == IF m.out = 0 THEN Paused(m) ELSE m.next
<1>1. P \in Nat /\ (m.out # 0 => P = m.next) /\ P \in {m.next, Paused(m)}
  BY PausedType, StateFields
<1> DEFINE m1 == [m EXCEPT !.digest = digest, !.index = 0]
           m2 == [m1 EXCEPT !.next = P]
<1>2. /\ m1 \in State /\ m1.target = m.target /\ m1.digest = digest /\ m1.last = m.last
      /\ m1.lastWritten = m.lastWritten /\ m1.token = m.token /\ m1.failures = m.failures
      /\ m1.out = m.out /\ m1.outAt = m.outAt
  BY DEF State
<1>3. m.digest # digest => Renewed(m, digest) = m2
  BY DEF Renewed
<1> HIDE DEF P, m1
<1>4. /\ m2 \in State /\ m2.target = m.target /\ m2.digest = digest /\ m2.last = m.last
      /\ m2.lastWritten = m.lastWritten /\ m2.token = m.token /\ m2.failures = m.failures
      /\ m2.out = m.out /\ m2.outAt = m.outAt /\ m2.next = P
  BY <1>1, <1>2 DEF State
<1> HIDE DEF m2
<1>5. m.digest = digest => Renewed(m, digest) = m
  BY DEF Renewed
<1> QED
  BY <1>1, <1>3, <1>4, <1>5

\* The memory a scan decides from: it is about the owner, counts the frames and
\* the failures of the journal, and keeps the schedule of an unread frame.
LEMMA DecideEffect ==
    ASSUME NotifierInv, Decide
    PROVE  /\ owner \in Proc /\ Pending \in SUBSET Letter /\ scan.at = "idle"
           /\ UNCHANGED <<now, inbox, sent, reading, drained, turn, owner, ready, moves, native,
                          journal, faults, quiet>>
           /\ rung' = IF rung.to = owner THEN rung
                      ELSE [to |-> owner, n |-> 0, at |-> 0, forgot |-> {}]
           /\ \E m \in State :
                 /\ m.target = owner /\ m.last <= now /\ m.lastWritten <= now /\ m.outAt <= now
                 /\ (m.out > 0 <=> m.outAt > 0)
                 /\ FailedRun(journal[Of[owner]], Len(journal[Of[owner]]), m.failures)
                 /\ sidecar' \in {sidecar, m.lastWritten}
                 /\ mem = None => LET r == Restored(Of[owner], Pending) IN
                                    m.out = r.out /\ m.outAt = r.outAt /\ m.next = r.next
                 /\ (mem # None /\ mem.target = owner /\ mem.out # 0 /\ ~Answered(mem)) =>
                       m.out = mem.out /\ m.outAt = mem.outAt /\ m.next = mem.next
                 /\ \/ /\ now >= m.next
                       /\ mem' = [m EXCEPT !.index = @ + 1]
                       /\ scan' = [at |-> "write", target |-> owner, ready |-> ready,
                                   digest |-> Pending, now |-> now, written |-> FALSE]
                    \/ mem' = m /\ UNCHANGED scan
<1> DEFINE start == IF mem = None THEN Restored(Of[owner], Pending) ELSE Aimed(mem, owner)
           s == [start EXCEPT !.target = owner]
           c == Consumed(s)
           m == Renewed(c, Pending)
           i == Of[owner]
<1>1. /\ TypeOK /\ Past /\ AtWork /\ Failing
  BY DEF NotifierInv
<1>2. owner \in Proc /\ i \in Inst /\ Pending \in SUBSET Letter
  <2>1. owner # None /\ owner \in Proc \cup {None}
    BY <1>1, Zenon DEF Decide, TypeOK
  <2>2. Pending \in SUBSET Letter
    BY <1>1 DEF TypeOK, Pending
  <2> QED
    BY <2>1, <2>2, Constants
<1>3. /\ now \in Nat /\ drained.token \in 0..MaxDrains
  <2>1. drained \in [at : 0..now, token : 0..MaxDrains] /\ now \in 1..MaxNow
    BY <1>1 DEF TypeOK
  <2> QED
    BY <2>1, Constants
<1>4. /\ sidecar' = m.lastWritten \/ sidecar' = sidecar
      /\ rung' = IF rung.to = owner THEN rung ELSE [NoRung EXCEPT !.to = owner]
      /\ \/ /\ now >= m.next /\ mem' = [m EXCEPT !.index = @ + 1]
            /\ scan' = [at |-> "write", target |-> owner, ready |-> ready,
                        digest |-> Pending, now |-> now, written |-> FALSE]
         \/ mem' = m /\ UNCHANGED scan
      /\ scan.at = "idle"
  BY Zenon DEF Decide, WriteSidecar
<1>5. UNCHANGED <<now, mail, session, native, journal, faults, quiet>>
  BY Zenon DEF Decide
<1>6. UNCHANGED <<now, inbox, sent, reading, drained, turn, owner, ready, moves, native,
                  journal, faults, quiet>>
  BY <1>5 DEF mail, session
<1>7. [NoRung EXCEPT !.to = owner] = [to |-> owner, n |-> 0, at |-> 0, forgot |-> {}]
  BY DEF NoRung
<1> DEFINE Good(x) == /\ x \in State /\ x.target = owner /\ x.last <= now
                      /\ x.lastWritten <= now /\ x.outAt <= now /\ (x.out > 0 <=> x.outAt > 0)
                      /\ FailedRun(journal[i], Len(journal[i]), x.failures)
<1>8. ASSUME mem = None
      PROVE  LET r == Restored(i, Pending) IN
             Good(s) /\ s.token = drained.token /\ s.digest = Pending /\ s.out = r.out
             /\ s.outAt = r.outAt /\ s.next = r.next
  <2> DEFINE r == Restored(i, Pending)
  <2>1. /\ r \in State /\ r.digest = Pending /\ r.token = drained.token /\ r.target = None
        /\ (r.out > 0 <=> r.outAt > 0)
        /\ r.last <= now /\ r.lastWritten <= now /\ r.outAt <= now
        /\ FailedRun(journal[i], Len(journal[i]), r.failures)
    BY <1>1, <1>2, RestoredType
  <2> HIDE DEF r, i
  <2>2. s = [r EXCEPT !.target = owner]
    BY <1>8 DEF r, i
  <2> HIDE DEF s
  <2>3. /\ s \in State /\ s.target = owner /\ s.digest = r.digest /\ s.token = r.token
        /\ s.out = r.out /\ s.outAt = r.outAt /\ s.next = r.next /\ s.last = r.last
        /\ s.lastWritten = r.lastWritten /\ s.failures = r.failures
    BY <1>2, <2>1, <2>2 DEF State
  <2> QED
    BY <2>1, <2>3 DEF r
<1>9. ASSUME mem # None
      PROVE  /\ Good(s)
             /\ mem.target = owner => s.out = mem.out /\ s.outAt = mem.outAt /\ s.next = mem.next
                                      /\ s.token = mem.token
  <2>1. mem \in State /\ (mem.out > 0 <=> mem.outAt > 0)
    BY <1>1, <1>9 DEF TypeOK
  <2> DEFINE a == Aimed(mem, owner)
  <2>2. /\ a \in State /\ a.target = owner /\ a.last = mem.last
        /\ a.lastWritten = mem.lastWritten /\ a.token = mem.token
        /\ IF mem.target \in {None, owner}
           THEN /\ a.out = mem.out /\ a.outAt = mem.outAt /\ a.failures = mem.failures
                /\ a.next = mem.next
           ELSE a.out = 0 /\ a.outAt = 0 /\ a.failures = 0 /\ a.next = Paused(mem)
    BY <1>1, <1>2, <2>1, AimedType
  <2>3. s = [a EXCEPT !.target = owner]
    BY <1>9
  <2> HIDE DEF a, s, i
  <2>4. s \in State /\ s.target = owner /\ s.last = a.last /\ s.lastWritten = a.lastWritten
        /\ s.token = a.token /\ s.out = a.out /\ s.outAt = a.outAt /\ s.next = a.next
        /\ s.failures = a.failures
    BY <1>2, <2>2, <2>3 DEF State
  <2>5. mem.last <= now /\ mem.lastWritten <= now /\ mem.outAt <= now
    BY <1>1, <1>9 DEF Past
  <2>6. FailedRun(journal[i], Len(journal[i]), a.failures)
    <3>1. journal[i] \in Seq(Attempt)
      BY <1>1, <1>2, JournalType
    <3>2. FailedRun(journal[i], Len(journal[i]), 0)
      BY <3>1 DEF FailedRun
    <3>3. CASE mem.target = owner
      <4>1. scan.at # "note" /\ mem.target # None
        BY <1>2, <1>4, <3>3, Constants
      <4>2. FailedRun(journal[Of[mem.target]], Len(journal[Of[mem.target]]), mem.failures)
        BY <1>1, <1>9, <4>1, Zenon DEF Failing
      <4> QED
        BY <2>2, <3>3, <4>2 DEF i
    <3>4. CASE mem.target = None
      BY <1>1, <1>9, <2>2, <3>2, <3>4 DEF AtWork
    <3>5. CASE ~(mem.target \in {None, owner})
      BY <2>2, <3>2, <3>5
    <3> QED
      BY <3>3, <3>4, <3>5
  <2>7. s.outAt <= now /\ (s.out > 0 <=> s.outAt > 0)
    BY <1>3, <2>1, <2>2, <2>4, <2>5
  <2> QED
    BY <2>2, <2>4, <2>5, <2>6, <2>7
<1>10. Good(s)
  BY <1>8, <1>9
<1> DEFINE Same(x) == x.out = s.out /\ x.outAt = s.outAt /\ x.next = s.next
<1>11. Good(c) /\ c.token = drained.token /\ c.digest = s.digest /\ (~Answered(s) => Same(c))
  <2>1. /\ c \in State /\ c.target = s.target /\ c.digest = s.digest /\ c.last = s.last
        /\ c.lastWritten = s.lastWritten /\ c.token = drained.token /\ c.failures = s.failures
        /\ IF Answered(s) THEN c.out = 0 /\ c.outAt = 0 /\ c.next = now
           ELSE c.out = s.out /\ c.outAt = s.outAt /\ c.next = s.next
    BY <1>1, <1>10, ConsumedType
  <2> HIDE DEF c, s, i
  <2> QED
    BY <1>3, <1>10, <2>1
<1>12. Good(m) /\ ((~Answered(s) /\ (s.out # 0 \/ s.digest = Pending)) => Same(m))
  <2>1. /\ m \in State /\ m.target = c.target /\ m.digest = Pending /\ m.last = c.last
        /\ m.lastWritten = c.lastWritten /\ m.token = c.token /\ m.failures = c.failures
        /\ m.out = c.out /\ m.outAt = c.outAt
        /\ (c.out # 0 => m.next = c.next)
    BY <1>1, <1>2, <1>11, RenewedType
  <2>2. c.digest = Pending => m = c
    BY DEF Renewed
  <2> HIDE DEF m, c, s, i
  <2> QED
    BY <1>11, <2>1, <2>2
<1>13. ASSUME mem = None
       PROVE  LET r == Restored(i, Pending) IN
              m.out = r.out /\ m.outAt = r.outAt /\ m.next = r.next
  <2>1. ~Answered(s)
    BY <1>8, <1>13 DEF Answered
  <2> HIDE DEF m, c, s, i
  <2> QED
    BY <1>8, <1>12, <1>13, <2>1
<1>14. ASSUME mem # None, mem.target = owner, mem.out # 0, ~Answered(mem)
       PROVE  m.out = mem.out /\ m.outAt = mem.outAt /\ m.next = mem.next
  <2>1. s.out = mem.out /\ s.outAt = mem.outAt /\ s.next = mem.next /\ s.token = mem.token
    BY <1>9, <1>14
  <2> HIDE DEF m, c, s, i
  <2>2. ~Answered(s)
    BY <1>14, <2>1 DEF Answered
  <2> QED
    BY <1>12, <1>14, <2>1, <2>2
<1> HIDE DEF m, c, s
<1>15. sidecar' \in {sidecar, m.lastWritten}
  BY <1>4
<1> QED
  BY <1>2, <1>4, <1>6, <1>7, <1>12, <1>13, <1>14, <1>15

\* Without an owner the memory keeps its schedule, or a blank one is made.
LEMMA ObserveEffect ==
    ASSUME NotifierInv, Observe
    PROVE  /\ UNCHANGED <<now, inbox, sent, reading, drained, turn, owner, ready, moves, native,
                          journal, scan, faults, quiet>>
           /\ scan.at = "idle" /\ mem' \in State /\ sidecar' \in {sidecar, mem'.lastWritten}
           /\ rung' = [rung EXCEPT !.forgot = IF mem = None THEN @ \cup {"no owner"} ELSE @]
           /\ IF mem = None
              THEN /\ mem'.target = None /\ mem'.failures = 0 /\ mem'.out = 0 /\ mem'.outAt = 0
                   /\ mem'.last = 0 /\ mem'.lastWritten = 0 /\ mem'.next = 0 /\ mem'.token = 0
              ELSE /\ mem'.target = mem.target /\ mem'.failures = mem.failures
                   /\ mem'.out = mem.out /\ mem'.outAt = mem.outAt /\ mem'.next = mem.next
                   /\ mem'.last = mem.last /\ mem'.lastWritten = mem.lastWritten
                   /\ mem'.token = mem.token
<1>1. TypeOK
  BY DEF NotifierInv
<1>2. Pending \in SUBSET Letter
  BY <1>1 DEF TypeOK, Pending
<1>3. /\ mem' = IF mem = None THEN Blank(Pending)
                ELSE IF mem.digest = Pending THEN mem
                ELSE [mem EXCEPT !.digest = Pending, !.index = 0]
      /\ (sidecar' = mem'.lastWritten \/ sidecar' = sidecar)
      /\ rung' = [rung EXCEPT !.forgot = IF mem = None THEN @ \cup {"no owner"} ELSE @]
      /\ UNCHANGED <<now, mail, session, native, journal, scan, faults, quiet>>
      /\ scan.at = "idle"
  BY Zenon DEF Observe, WriteSidecar
<1>4. /\ UNCHANGED <<now, inbox, sent, reading, drained, turn, owner, ready, moves, native,
                     journal, scan, faults, quiet>>
      /\ sidecar' \in {sidecar, mem'.lastWritten}
  BY <1>3 DEF mail, session
<1>5. CASE mem = None
  <2>1. mem' = Blank(Pending)
    BY <1>3, <1>5
  <2>2. 0 \in 0..MaxNow /\ 0 \in 0..MaxDrains
    BY Constants
  <2>3. Blank(Pending) \in State
    BY <1>2, <2>2 DEF Blank, State
  <2>4. LET b == Blank(Pending) IN
          /\ b.target = None /\ b.failures = 0 /\ b.out = 0 /\ b.outAt = 0
          /\ b.last = 0 /\ b.lastWritten = 0 /\ b.next = 0 /\ b.token = 0
    BY DEF Blank
  <2> QED
    BY <1>3, <1>4, <1>5, <2>1, <2>3, <2>4
<1>6. CASE mem # None
  <2>1. mem \in State
    BY <1>1, <1>6 DEF TypeOK
  <2> DEFINE n == [mem EXCEPT !.digest = Pending, !.index = 0]
  <2>2. /\ n \in State /\ n.target = mem.target /\ n.failures = mem.failures
        /\ n.out = mem.out /\ n.outAt = mem.outAt /\ n.next = mem.next
        /\ n.last = mem.last /\ n.lastWritten = mem.lastWritten /\ n.token = mem.token
    BY <1>2, <2>1 DEF State
  <2>3. mem' = n \/ mem' = mem
    BY <1>3, <1>6
  <2> HIDE DEF n
  <2> QED
    BY <1>3, <1>4, <1>6, <2>1, <2>2, <2>3
<1> QED
  BY <1>5, <1>6

\* The attempt is remembered: a frame as outstanding, a failure as one more.
LEMMA NoteEffect ==
    ASSUME NotifierInv, Note
    PROVE  /\ UNCHANGED <<now, inbox, sent, reading, drained, turn, owner, ready, moves, journal,
                          scanned, faults, rung, quiet>>
           /\ mem # None /\ mem' \in State /\ mem'.target = mem.target /\ mem'.last = scan.now
           /\ mem'.token = mem.token
           /\ scan.at = "note" /\ scan' = NoScan /\ sidecar' \in {sidecar, mem'.lastWritten}
           /\ mem'.failures = IF scan.written THEN 0 ELSE mem.failures + 1
           /\ native' = [native EXCEPT ![Of[mem.target]] = mem'.failures]
           /\ IF scan.written
              THEN /\ mem'.out = mem.out + 1 /\ mem'.outAt = scan.now
                   /\ mem'.lastWritten = scan.now
                   /\ mem'.next = scan.now + Delay(RetryAfter, mem.out + 1)
              ELSE /\ mem'.out = mem.out /\ mem'.outAt = mem.outAt
                   /\ mem'.lastWritten = mem.lastWritten
                   /\ mem'.next = scan.now + Delay(Backoff, mem.index)
<1>1. TypeOK /\ AtWork
  BY DEF NotifierInv
<1>2. /\ mem' = Noted(mem) /\ scan.at = "note" /\ scan' = NoScan
      /\ (sidecar' = mem'.lastWritten \/ sidecar' = sidecar)
      /\ native' = [native EXCEPT ![Of[scan.target]] = mem'.failures]
      /\ UNCHANGED <<now, mail, session, journal, scanned, faults, rung, quiet>>
  BY <1>1, Zenon DEF Note, WriteSidecar, UpdateNative, disk
<1>3. UNCHANGED <<now, inbox, sent, reading, drained, turn, owner, ready, moves, journal,
                  scanned, faults, rung, quiet>>
  BY <1>2 DEF mail, session
<1>4. mem # None /\ mem.target = scan.target
  BY <1>1, <1>2 DEF AtWork, Working
<1>5. mem \in State /\ mem.out \in Nat /\ mem.index \in Nat /\ mem.failures \in Nat
  <2>1. mem \in State
    BY <1>1, <1>4 DEF TypeOK
  <2> QED
    BY <2>1, StateFields
<1>6. scan.now \in 0..MaxNow
  <2>1. scan.now \in 0..now /\ now \in 1..MaxNow
    BY <1>1 DEF TypeOK
  <2> QED
    BY <2>1, Constants
<1> DEFINE dw == scan.now + Delay(RetryAfter, mem.out + 1)
           df == scan.now + Delay(Backoff, mem.index)
<1>7. dw \in Nat /\ df \in Nat
  <2>1. Delay(RetryAfter, mem.out + 1) \in Nat /\ Delay(Backoff, mem.index) \in Nat
    BY <1>5, DelayType
  <2> QED
    BY <1>6, <2>1
<1> HIDE DEF dw, df
<1>8. CASE scan.written
  <2> DEFINE m1 == [mem EXCEPT !.last = scan.now, !.failures = 0]
             m2 == [m1 EXCEPT !.lastWritten = scan.now]
             m3 == [m2 EXCEPT !.out = @ + 1]
             m4 == [m3 EXCEPT !.outAt = scan.now]
             m5 == [m4 EXCEPT !.next = dw]
  <2>1. mem' = m5
    BY <1>2, <1>8 DEF Noted, dw
  <2>2. m1 \in State /\ m1.last = scan.now /\ m1.failures = 0 /\ m1.out = mem.out
        /\ m1.target = mem.target /\ m1.token = mem.token
    BY <1>5, <1>6 DEF State
  <2> HIDE DEF m1
  <2>3. m2 \in State /\ m2.last = scan.now /\ m2.failures = 0 /\ m2.out = mem.out
        /\ m2.target = mem.target /\ m2.token = mem.token /\ m2.lastWritten = scan.now
    BY <1>6, <2>2 DEF State
  <2> HIDE DEF m2
  <2>4. m3 \in State /\ m3.last = scan.now /\ m3.failures = 0 /\ m3.out = mem.out + 1
        /\ m3.target = mem.target /\ m3.token = mem.token /\ m3.lastWritten = scan.now
    BY <1>5, <2>3 DEF State
  <2> HIDE DEF m3
  <2>5. m4 \in State /\ m4.last = scan.now /\ m4.failures = 0 /\ m4.out = mem.out + 1
        /\ m4.target = mem.target /\ m4.token = mem.token
        /\ m4.lastWritten = scan.now /\ m4.outAt = scan.now
    BY <1>6, <2>4 DEF State
  <2> HIDE DEF m4
  <2>6. m5 \in State /\ m5.last = scan.now /\ m5.failures = 0 /\ m5.out = mem.out + 1
        /\ m5.target = mem.target /\ m5.token = mem.token
        /\ m5.lastWritten = scan.now /\ m5.outAt = scan.now
        /\ m5.next = dw
    BY <1>7, <2>5 DEF State
  <2> HIDE DEF m5
  <2> QED
    BY <1>2, <1>3, <1>4, <1>8, <2>1, <2>6 DEF dw
<1>9. CASE ~scan.written
  <2> DEFINE m1 == [mem EXCEPT !.last = scan.now]
             m2 == [m1 EXCEPT !.failures = @ + 1]
             m3 == [m2 EXCEPT !.next = df]
  <2>1. mem' = m3
    BY <1>2, <1>9 DEF Noted, df
  <2>2. m1 \in State /\ m1.last = scan.now /\ m1.failures = mem.failures /\ m1.out = mem.out
        /\ m1.target = mem.target /\ m1.token = mem.token
        /\ m1.outAt = mem.outAt /\ m1.lastWritten = mem.lastWritten
    BY <1>5, <1>6 DEF State
  <2> HIDE DEF m1
  <2>3. m2 \in State /\ m2.last = scan.now /\ m2.failures = mem.failures + 1 /\ m2.out = mem.out
        /\ m2.target = mem.target /\ m2.token = mem.token
        /\ m2.outAt = mem.outAt /\ m2.lastWritten = mem.lastWritten
    BY <1>5, <2>2 DEF State
  <2> HIDE DEF m2
  <2>4. m3 \in State /\ m3.last = scan.now /\ m3.failures = mem.failures + 1 /\ m3.out = mem.out
        /\ m3.target = mem.target /\ m3.token = mem.token
        /\ m3.outAt = mem.outAt /\ m3.lastWritten = mem.lastWritten
        /\ m3.next = df
    BY <1>7, <2>3 DEF State
  <2> HIDE DEF m3
  <2> QED
    BY <1>2, <1>3, <1>4, <1>9, <2>1, <2>4 DEF df
<1> QED
  BY <1>8, <1>9

\* An attempt is added to the journal of the registration that was tried.
LEMMA JournalEffect ==
    ASSUME NotifierInv, Journal
    PROVE  /\ UNCHANGED <<now, inbox, sent, reading, drained, turn, owner, ready, moves, native,
                          sidecar, mem, scanned, faults, rung, quiet>>
           /\ mem # None /\ mem.target = scan.target /\ scan.target \in Proc
           /\ scan.at = "journal" /\ scan' = [scan EXCEPT !.at = "note"]
           /\ \E e \in Attempt :
                 /\ e.at = scan.now /\ e.written = scan.written
                 /\ journal' = [journal EXCEPT ![Of[scan.target]] =
                                  Append(journal[Of[scan.target]], e)]
<1>1. TypeOK /\ AtWork
  BY DEF NotifierInv
<1> DEFINE e == [at |-> scan.now, written |-> scan.written, index |-> mem.index,
                 digest |-> scan.digest]
<1>2. /\ scan.at = "journal" /\ scan' = [scan EXCEPT !.at = "note"]
      /\ journal' = [journal EXCEPT ![Of[scan.target]] = Append(@, e)]
      /\ UNCHANGED <<now, mail, session, native, sidecar, mem, scanned, faults, rung, quiet>>
  BY Zenon DEF Journal
<1>3. UNCHANGED <<now, inbox, sent, reading, drained, turn, owner, ready, moves, native,
                  sidecar, mem, scanned, faults, rung, quiet>>
  BY <1>2 DEF mail, session
<1>4. mem # None /\ mem.target = scan.target /\ scan.target \in Proc /\ scan.now > 0
  BY <1>1, <1>2 DEF AtWork, Working
<1>5. e \in Attempt
  <2>1. mem \in State
    BY <1>1, <1>4 DEF TypeOK
  <2>2. mem.index \in Nat
    BY <2>1, StateFields
  <2>3. /\ scan.now \in 0..now /\ now \in 1..MaxNow
        /\ scan.written \in BOOLEAN /\ scan.digest \in SUBSET Letter
    BY <1>1 DEF TypeOK
  <2>4. scan.now \in 1..MaxNow
    BY <1>4, <2>3, Constants
  <2> QED
    BY <2>2, <2>3, <2>4 DEF Attempt
<1> QED
  BY <1>2, <1>3, <1>4, <1>5

\* Time goes on, and nothing else moves meanwhile.
LEMMA NowGrows ==
    ASSUME TypeOK, Next
    PROVE  /\ now \in Nat /\ now' \in Nat /\ now >= 1 /\ now <= now' /\ now' <= MaxNow
           /\ now' # now => UNCHANGED <<mail, session, disk, mem, scan, faults, rung>>
<1>1. now \in 1..MaxNow
  BY DEF TypeOK
<1>2. CASE Tick
  <2>1. now' = now + 1 /\ now < MaxNow /\ UNCHANGED <<mail, session, disk, mem, scan, faults, rung>>
    BY <1>2, Zenon DEF Tick
  <2> QED
    BY <1>1, <2>1, Constants
<1>3. CASE UNCHANGED now
  BY <1>1, <1>3, Constants
<1> QED
  BY <1>2, <1>3, NowSteps

-----------------------------------------------------------------------------
(* The type invariant *)

LEMMA MailTyped ==
    ASSUME TypeOK, Next
    PROVE  /\ inbox' \subseteq sent' /\ sent' \subseteq Letter /\ reading' \in BOOLEAN
           /\ drained' \in [at : 0..now', token : 0..MaxDrains]
           /\ reading' => drained'.token < MaxDrains
           /\ turn' \in 1..now' \cup {None}
<1>1. /\ inbox \subseteq sent /\ sent \subseteq Letter /\ reading \in BOOLEAN
      /\ drained \in [at : 0..now, token : 0..MaxDrains] /\ turn \in 1..now \cup {None}
      /\ now \in 1..MaxNow /\ (reading => drained.token < MaxDrains)
  BY DEF TypeOK
<1>2. /\ now \in Nat /\ now' \in Nat /\ now >= 1 /\ now <= now'
  BY NowGrows
<1>3. /\ drained \in [at : 0..now', token : 0..MaxDrains] /\ turn \in 1..now' \cup {None}
  <2>1. 0..now \subseteq 0..now' /\ 1..now \subseteq 1..now'
    BY <1>2
  <2> QED
    BY <1>1, <2>1
<1>4. CASE UNCHANGED mail
  BY <1>1, <1>3, <1>4 DEF mail
<1>5. ASSUME NEW l \in Letter, Arrive(l)
      PROVE  /\ inbox' \subseteq sent' /\ sent' \subseteq Letter
             /\ UNCHANGED <<reading, drained, turn>>
  BY <1>1, <1>5 DEF Arrive
<1>6. ASSUME NEW set \in {inbox, {}}, Drain(set)
      PROVE  /\ inbox' \subseteq sent' /\ sent' \subseteq Letter /\ reading' = TRUE
             /\ UNCHANGED <<drained, turn>>
  BY <1>1, <1>6 DEF Drain
<1>10. ASSUME NEW set \in {inbox, {}}, Drain(set) PROVE drained.token < MaxDrains
  BY <1>10, Zenon DEF Drain
<1>7. CASE Stamp
  <2>1. /\ UNCHANGED <<inbox, sent, turn, now, mem>> /\ reading' = FALSE /\ reading
        /\ drained' = [at |-> now, token |-> drained.token + 1]
    BY <1>7, Zenon DEF Stamp
  <2>2. drained.token < MaxDrains /\ drained.token \in Nat
    BY <1>1, <2>1, Constants
  <2>3. drained' \in [at : 0..now', token : 0..MaxDrains]
    <3>1. drained.token + 1 \in 0..MaxDrains /\ now \in 0..now'
      BY <1>2, <2>1, <2>2, Constants
    <3> QED
      BY <2>1, <3>1
  <2> QED
    BY <1>1, <1>3, <2>1, <2>3
<1>8. CASE DrainKilled
  BY <1>1, <1>3, <1>8 DEF DrainKilled
<1>9. CASE Turn
  BY <1>1, <1>2, <1>3, <1>9 DEF Turn
<1> QED
  BY <1>1, <1>3, <1>4, <1>5, <1>6, <1>7, <1>8, <1>9, <1>10, MailSteps

LEMMA SessionTyped ==
    ASSUME TypeOK, Next
    PROVE  owner' \in Proc \cup {None} /\ ready' \in BOOLEAN /\ moves' \in 0..MaxMoves
<1>1. owner \in Proc \cup {None} /\ ready \in BOOLEAN /\ moves \in 0..MaxMoves
  BY DEF TypeOK
<1>2. CASE UNCHANGED session
  BY <1>1, <1>2 DEF session
<1>3. ASSUME moves < MaxMoves, moves' = moves + 1 PROVE moves' \in 0..MaxMoves
  BY <1>1, <1>3, Constants
<1>4. CASE Turn
  BY <1>1, <1>3, <1>4 DEF Turn
<1>5. CASE Verify
  <2>1. ready' = ~ready /\ UNCHANGED owner /\ moves < MaxMoves /\ moves' = moves + 1
    BY <1>5, Zenon DEF Verify
  <2>2. ready' \in BOOLEAN
    BY <2>1
  <2> QED
    BY <1>1, <1>3, <2>1, <2>2
<1>6. ASSUME NEW p \in Proc \cup {None}, Move(p)
      PROVE  owner' \in Proc \cup {None} /\ ready' \in BOOLEAN /\ moves' \in 0..MaxMoves
  <2>1. owner' = p /\ ready' \in BOOLEAN /\ moves < MaxMoves /\ moves' = moves + 1
    BY <1>6, Zenon DEF Move
  <2> QED
    BY <1>3, <2>1
<1> QED
  BY <1>2, <1>4, <1>5, <1>6, SessionSteps

LEMMA BoundsTyped ==
    ASSUME TypeOK, Next
    PROVE  scanned' \in BOOLEAN /\ faults' \in 0..MaxFaults /\ quiet' \in Nat
<1>1. scanned \in BOOLEAN /\ faults \in 0..MaxFaults /\ quiet \in Nat
  BY DEF TypeOK
<1>2. scanned' \in {scanned, TRUE, FALSE}
  BY Zenon DEF Next, Notify, Arrive, Drain, Stamp, DrainKilled, Turn, Verify, Tick, Move,
     ScanEmpty, Observe, Decide, Skip, Ring, Fail, Journal, Note, Crash, Restart
<1>3. faults' = faults \/ (faults < MaxFaults /\ faults' = faults + 1)
  BY Zenon DEF Next, Notify, Arrive, Drain, Stamp, DrainKilled, Turn, Verify, Tick, Move,
     ScanEmpty, Observe, Decide, Skip, Ring, Fail, Journal, Note, Crash, Restart
<1>4. quiet' \in {quiet, 0, quiet + 1}
  BY Zenon DEF Next, Notify, Arrive, Drain, Stamp, DrainKilled, Turn, Verify, Tick, Move,
     ScanEmpty, Observe, Decide, Skip, Ring, Fail, Journal, Note, Crash, Restart
<1>5. scanned' \in BOOLEAN
  BY <1>1, <1>2, Zenon
<1>6. faults' \in 0..MaxFaults
  BY <1>1, <1>3, Constants
<1>7. quiet' \in Nat
  BY <1>1, <1>4
<1> QED
  BY <1>5, <1>6, <1>7

\* What a scan is doing: a scan that starts to write, or goes back to idle.
LEMMA ScanTyped ==
    ASSUME NotifierInv, Next
    PROVE  /\ scan' \in [at : {"down", "idle", "write", "journal", "note"},
                         target : Proc \cup {None}, ready : BOOLEAN, digest : SUBSET Letter,
                         now : 0..now', written : BOOLEAN]
           /\ scan'.at = "write" => ~scan'.written
           /\ Working' => mem' # None /\ scan'.target \in Proc /\ scan'.now > 0
                          /\ mem'.target = scan'.target
           /\ scan'.at = "down" => mem' = None
<1>1. TypeOK /\ AtWork
  BY DEF NotifierInv
<1>2. now \in Nat /\ now' \in Nat /\ now >= 1 /\ now <= now'
  BY <1>1, NowGrows
<1> DEFINE S(t) == [at : {"down", "idle", "write", "journal", "note"},
                    target : Proc \cup {None}, ready : BOOLEAN, digest : SUBSET Letter,
                    now : 0..t, written : BOOLEAN]
<1>3. scan \in S(now) /\ scan \in S(now') /\ NoScan \in S(now')
  <2>1. scan \in S(now)
    BY <1>1, Zenon DEF TypeOK
  <2>3. 0..now \subseteq 0..now'
    BY <1>2
  <2>4. scan \in S(now')
    BY <2>1, <2>3
  <2>2. NoScan \in S(now')
    BY <1>2 DEF NoScan
  <2> QED
    BY <2>1, <2>2, <2>4
<1> DEFINE Good == /\ scan' \in S(now')
                   /\ scan'.at = "write" => ~scan'.written
                   /\ Working' => mem' # None /\ scan'.target \in Proc /\ scan'.now > 0
                                  /\ mem'.target = scan'.target
                   /\ scan'.at = "down" => mem' = None
<1>4. ASSUME scan' = NoScan PROVE Good
  BY <1>3, <1>4 DEF NoScan, Working
<1>5. CASE Decide
  <2>1. owner \in Proc /\ Pending \in SUBSET Letter /\ scan.at = "idle" /\ ready \in BOOLEAN
    BY <1>1, <1>5, DecideEffect DEF TypeOK
  <2>2. PICK m \in State :
           /\ m.target = owner
           /\ \/ /\ mem' = [m EXCEPT !.index = @ + 1]
                 /\ scan' = [at |-> "write", target |-> owner, ready |-> ready,
                             digest |-> Pending, now |-> now, written |-> FALSE]
              \/ mem' = m /\ UNCHANGED scan
    BY <1>5, DecideEffect
  <2>3. CASE mem' = m /\ UNCHANGED scan
    BY <1>3, <2>1, <2>3 DEF Working
  <2>4. CASE /\ mem' = [m EXCEPT !.index = @ + 1]
             /\ scan' = [at |-> "write", target |-> owner, ready |-> ready,
                         digest |-> Pending, now |-> now, written |-> FALSE]
    <3>1. mem' \in State /\ mem'.target = owner
      BY <2>2, <2>4 DEF State
    <3>2. mem' # None
      BY <3>1, NoState
    <3>3. scan' \in S(now')
      BY <1>2, <2>1, <2>4
    <3> QED
      BY <1>2, <2>1, <2>4, <3>1, <3>2, <3>3 DEF Working
  <2> QED
    BY <2>2, <2>3, <2>4
<1>6. CASE Skip
  <2>1. scan' = NoScan
    BY <1>6, Zenon DEF Skip
  <2> QED
    BY <1>4, <2>1
<1>7. CASE Ring
  <2>1. scan.at = "write" /\ scan' = [scan EXCEPT !.at = "journal", !.written = TRUE] /\ mem' = mem
    BY <1>7, Zenon DEF Ring
  <2>2. /\ scan' \in S(now') /\ scan'.at = "journal" /\ scan'.target = scan.target
        /\ scan'.now = scan.now
    BY <1>3, <2>1
  <2> QED
    BY <1>1, <2>1, <2>2 DEF AtWork, Working
<1>8. CASE Fail
  <2>1. scan.at = "write" /\ scan' = [scan EXCEPT !.at = "journal"] /\ mem' = mem
    BY <1>8, Zenon DEF Fail
  <2>2. /\ scan' \in S(now') /\ scan'.at = "journal" /\ scan'.target = scan.target
        /\ scan'.now = scan.now
    BY <1>3, <2>1
  <2> QED
    BY <1>1, <2>1, <2>2 DEF AtWork, Working
<1>9. CASE Journal
  <2>1. scan.at = "journal" /\ scan' = [scan EXCEPT !.at = "note"] /\ mem' = mem
    BY <1>9, Zenon DEF Journal
  <2>2. /\ scan' \in S(now') /\ scan'.at = "note" /\ scan'.target = scan.target
        /\ scan'.now = scan.now
    BY <1>3, <2>1
  <2> QED
    BY <1>1, <2>1, <2>2 DEF AtWork, Working
<1>10. CASE Note
  <2>1. scan' = NoScan
    BY <1>10, Zenon DEF Note
  <2> QED
    BY <1>4, <2>1
<1>11. CASE Crash
  <2>1. scan' = [NoScan EXCEPT !.at = "down"] /\ mem' = None
    BY <1>11, Zenon DEF Crash
  <2> QED
    BY <1>3, <2>1 DEF NoScan, Working
<1>12. CASE Restart
  <2>1. scan' = NoScan
    BY <1>12, Zenon DEF Restart
  <2> QED
    BY <1>4, <2>1
<1>13. CASE UNCHANGED scan
  <2>1. CASE UNCHANGED mem
    BY <1>1, <1>3, <1>13, <2>1 DEF AtWork, Working
  <2>2. ASSUME scan.at = "idle" PROVE Good
    BY <1>3, <1>13, <2>2 DEF Working
  <2>3. ASSUME Observe \/ ScanEmpty PROVE scan.at = "idle"
    BY <2>3, Zenon DEF Observe, ScanEmpty
  <2>4. UNCHANGED mem \/ scan.at = "idle" \/ Decide \/ Note \/ Skip \/ Crash
    BY <2>3, MemSteps
  <2> QED
    BY <1>5, <1>6, <1>10, <1>11, <2>1, <2>2, <2>4
<1> QED
  BY <1>5, <1>6, <1>7, <1>8, <1>9, <1>10, <1>11, <1>12, <1>13, ScanSteps

\* The memory, and the times in it.
LEMMA MemTyped ==
    ASSUME NotifierInv, Next
    PROVE  /\ mem' \in State \cup {None}
           /\ mem' # None => /\ (mem'.out > 0 <=> mem'.outAt > 0)
                             /\ mem'.last <= now' /\ mem'.lastWritten <= now' /\ mem'.outAt <= now'
<1>1. TypeOK /\ Past /\ AtWork
  BY DEF NotifierInv
<1>2. now \in Nat /\ now' \in Nat /\ now >= 1 /\ now <= now'
  BY <1>1, NowGrows
<1> DEFINE Good(m, t) == /\ m \in State \cup {None}
                         /\ m # None => /\ (m.out > 0 <=> m.outAt > 0)
                                        /\ m.last <= t /\ m.lastWritten <= t /\ m.outAt <= t
<1>3. Good(mem, now)
  BY <1>1 DEF TypeOK, Past
<1>4. \A m \in State : m.last \in Nat /\ m.lastWritten \in Nat /\ m.outAt \in Nat /\ m.out \in Nat
  BY StateFields, Constants
<1>5. ASSUME NEW m \in State \cup {None}, Good(m, now) PROVE Good(m, now')
  BY <1>2, <1>4, <1>5
<1>6. Good(None, now')
  OBVIOUS
<1>7. CASE UNCHANGED mem
  <2>1. Good(mem, now')
    BY <1>3, <1>5
  <2> QED
    BY <1>7, <2>1
<1>8. CASE ScanEmpty
  <2>1. mem' = None
    BY <1>8, Zenon DEF ScanEmpty
  <2> QED
    BY <2>1
<1>9. CASE Skip
  <2>1. mem' = None \/ mem' = mem
    BY <1>9, Zenon DEF Skip
  <2>2. mem \in State \cup {None} /\ Good(mem, now')
    BY <1>3, <1>5
  <2> QED
    BY <2>1, <2>2
<1>10. CASE Crash
  <2>1. mem' = None
    BY <1>10, Zenon DEF Crash
  <2> QED
    BY <2>1
<1>11. CASE Observe
  <2>1. /\ mem' \in State /\ now' = now
        /\ IF mem = None
           THEN /\ mem'.out = 0 /\ mem'.outAt = 0 /\ mem'.last = 0 /\ mem'.lastWritten = 0
           ELSE /\ mem'.out = mem.out /\ mem'.outAt = mem.outAt
                /\ mem'.last = mem.last /\ mem'.lastWritten = mem.lastWritten
    BY <1>11, ObserveEffect
  <2>2. CASE mem = None
    BY <1>2, <2>1, <2>2
  <2>3. CASE mem # None
    BY <1>3, <2>1, <2>3
  <2> QED
    BY <2>2, <2>3
<1>12. CASE Decide
  <2>1. now' = now
    BY <1>12, Zenon DEF Decide
  <2>2. PICK m \in State :
           /\ m.last <= now /\ m.lastWritten <= now /\ m.outAt <= now
           /\ (m.out > 0 <=> m.outAt > 0)
           /\ (mem' = [m EXCEPT !.index = @ + 1] \/ mem' = m)
    BY <1>12, DecideEffect
  <2> DEFINE n == [m EXCEPT !.index = @ + 1]
  <2>3. n \in State /\ n.last = m.last /\ n.lastWritten = m.lastWritten /\ n.out = m.out
        /\ n.outAt = m.outAt
    BY DEF State
  <2>4. Good(m, now') /\ Good(n, now')
    <3> HIDE DEF n
    <3> QED
      BY <2>1, <2>2, <2>3
  <2> HIDE DEF Good
  <2> QED
    BY <2>2, <2>4 DEF Good
<1>13. CASE Note
  <2>1. /\ now' = now /\ mem' \in State /\ mem # None /\ mem'.last = scan.now /\ scan.at = "note"
        /\ IF scan.written
           THEN /\ mem'.out = mem.out + 1 /\ mem'.outAt = scan.now
                /\ mem'.lastWritten = scan.now
           ELSE /\ mem'.out = mem.out /\ mem'.outAt = mem.outAt
                /\ mem'.lastWritten = mem.lastWritten
    BY <1>13, NoteEffect
  <2>2. scan.now \in Nat /\ scan.now <= now /\ scan.now > 0
    <3>1. scan.now \in 0..now
      BY <1>1 DEF TypeOK
    <3> QED
      BY <1>1, <1>2, <2>1, <3>1 DEF AtWork, Working
  <2>3. mem \in State
    BY <1>3, <2>1
  <2>4. mem.out \in Nat
    BY <1>4, <2>3
  <2>5. CASE scan.written
    BY <2>1, <2>2, <2>4, <2>5
  <2>6. CASE ~scan.written
    BY <1>3, <2>1, <2>2, <2>6
  <2> QED
    BY <2>5, <2>6
<1> QED
  BY <1>7, <1>8, <1>9, <1>10, <1>11, <1>12, <1>13, MemSteps

\* The files, and the times in them.
LEMMA DiskTyped ==
    ASSUME NotifierInv, Next
    PROVE  /\ native' \in [Inst -> Nat] /\ sidecar' \in 0..now'
           /\ DOMAIN journal' = Inst
           /\ \A i \in Inst : /\ journal'[i] \in Seq(Attempt)
                              /\ \A k \in DOMAIN journal'[i] : journal'[i][k].at <= now'
<1>1. TypeOK /\ Past /\ AtWork
  BY DEF NotifierInv
<1>2. now \in Nat /\ now' \in Nat /\ now >= 1 /\ now <= now'
  BY <1>1, NowGrows
<1>3. /\ native \in [Inst -> Nat] /\ sidecar \in 0..now /\ DOMAIN journal = Inst
      /\ \A i \in Inst : journal[i] \in Seq(Attempt)
  BY <1>1 DEF TypeOK
<1>4. native' \in [Inst -> Nat]
  <2>1. CASE Note
    <3>1. /\ native' = [native EXCEPT ![Of[mem.target]] = mem'.failures] /\ mem' \in State
      BY <2>1, NoteEffect
    <3>2. mem'.failures \in Nat
      BY <3>1, StateFields
    <3> QED
      BY <1>3, <3>1, <3>2
  <2> QED
    BY <1>3, <2>1, NativeSteps
<1>5. sidecar' \in 0..now'
  <2>1. ASSUME sidecar' \in {sidecar, mem'.lastWritten}, mem' \in State PROVE sidecar' \in 0..now'
    <3>1. mem'.lastWritten \in Nat /\ mem'.lastWritten <= now'
      <4>1. mem' # None
        BY <2>1, NoState
      <4> QED
        BY <2>1, <4>1, MemTyped, StateFields, Constants
    <3> QED
      BY <1>2, <1>3, <2>1, <3>1
  <2>2. CASE UNCHANGED sidecar
    BY <1>2, <1>3, <2>2
  <2>3. CASE Observe
    BY <2>1, <2>3, ObserveEffect
  <2>4. CASE Note
    BY <2>1, <2>4, NoteEffect
  <2>5. CASE Decide
    <3>1. PICK m \in State :
             /\ sidecar' \in {sidecar, m.lastWritten}
             /\ (mem' = [m EXCEPT !.index = @ + 1] \/ mem' = m)
      BY <2>5, DecideEffect
    <3> DEFINE n == [m EXCEPT !.index = @ + 1]
    <3>2. n \in State /\ n.lastWritten = m.lastWritten
      BY DEF State
    <3> HIDE DEF n
    <3>3. mem' = n \/ mem' = m
      BY <3>1 DEF n
    <3> QED
      BY <2>1, <3>1, <3>2, <3>3
  <2> QED
    BY <2>2, <2>3, <2>4, <2>5, SidecarSteps
<1>6. /\ DOMAIN journal' = Inst
      /\ \A i \in Inst : /\ journal'[i] \in Seq(Attempt)
                         /\ \A k \in DOMAIN journal'[i] : journal'[i][k].at <= now'
  <2>1. CASE UNCHANGED journal
    <3>1. \A i \in Inst : \A k \in DOMAIN journal[i] : journal[i][k].at <= now
      BY <1>1 DEF Past
    <3>2. \A i \in Inst : \A k \in DOMAIN journal[i] : journal[i][k].at \in 1..MaxNow
      BY <1>1, JournalType
    <3>3. \A i \in Inst : \A k \in DOMAIN journal[i] : journal[i][k].at <= now'
      <4> SUFFICES ASSUME NEW i \in Inst, NEW k \in DOMAIN journal[i]
                   PROVE  journal[i][k].at <= now'
        OBVIOUS
      <4>1. journal[i][k].at <= now /\ journal[i][k].at \in 1..MaxNow
        BY <3>1, <3>2
      <4> QED
        BY <1>2, <4>1, Constants
    <3> QED
      BY <1>3, <2>1, <3>3
  <2>2. CASE Journal
    <3>1. /\ now' = now /\ scan.target \in Proc /\ scan.at = "journal"
      BY <2>2, JournalEffect
    <3>2. PICK e \in Attempt :
             /\ e.at = scan.now
             /\ journal' = [journal EXCEPT ![Of[scan.target]] =
                              Append(journal[Of[scan.target]], e)]
      BY <2>2, JournalEffect
    <3>3. scan.now <= now
      <4>1. scan.now \in 0..now
        BY <1>1 DEF TypeOK
      <4> QED
        BY <1>2, <4>1
    <3>4. Of[scan.target] \in Inst
      BY <3>1, Constants
    <3>5. ASSUME NEW i \in Inst
          PROVE /\ journal'[i] \in Seq(Attempt)
                /\ \A k \in DOMAIN journal'[i] : journal'[i][k].at <= now
      <4>1. journal[i] \in Seq(Attempt) /\ \A k \in DOMAIN journal[i] : journal[i][k].at <= now
        BY <1>1, <1>3 DEF Past
      <4>2. CASE i = Of[scan.target]
        <5>1. journal'[i] = Append(journal[i], e)
          BY <1>3, <3>2, <4>2
        <5>2. \A k \in DOMAIN Append(journal[i], e) :
                 k \in DOMAIN journal[i] \/ k = Len(journal[i]) + 1
          BY <4>1
        <5>3. Append(journal[i], e)[Len(journal[i]) + 1] = e
          BY <4>1
        <5>4. \A k \in DOMAIN journal[i] : Append(journal[i], e)[k] = journal[i][k]
          BY <4>1
        <5>5. Append(journal[i], e) \in Seq(Attempt)
          BY <4>1
        <5> QED
          BY <3>2, <3>3, <4>1, <5>1, <5>2, <5>3, <5>4, <5>5
      <4>3. CASE i # Of[scan.target]
        <5>1. journal'[i] = journal[i]
          BY <1>3, <3>2, <4>3
        <5> QED
          BY <4>1, <5>1
      <4> QED
        BY <4>2, <4>3
    <3>6. DOMAIN journal' = Inst
      BY <1>3, <3>2
    <3> QED
      BY <3>1, <3>5, <3>6
  <2> QED
    BY <2>1, <2>2, JournalSteps
<1> QED
  BY <1>4, <1>5, <1>6

\* Who was rung, and how the memory is about it.
LEMMA RungTyped ==
    ASSUME NotifierInv, Next
    PROVE  /\ rung' \in [to : Proc \cup {None}, n : Nat, at : 0..now',
                         forgot : SUBSET {"no owner", "no journal"}]
           /\ mem' # None => IF mem'.target = None THEN mem'.failures = 0 /\ rung'.forgot # {}
                             ELSE rung'.to = mem'.target
<1>1. TypeOK /\ AtWork
  BY DEF NotifierInv
<1>2. now \in Nat /\ now' \in Nat /\ now >= 1 /\ now <= now'
  BY <1>1, NowGrows
<1> DEFINE R(t) == [to : Proc \cup {None}, n : Nat, at : 0..t,
                    forgot : SUBSET {"no owner", "no journal"}]
           About(m, r) == m # None => IF m.target = None THEN m.failures = 0 /\ r.forgot # {}
                                      ELSE r.to = m.target
<1>3. rung \in R(now') /\ About(mem, rung)
  <2>1. rung \in R(now)
    BY <1>1, Zenon DEF TypeOK
  <2>2. 0..now \subseteq 0..now'
    BY <1>2
  <2>3. About(mem, rung)
    BY <1>1 DEF AtWork
  <2> QED
    BY <2>1, <2>2, <2>3
<1>4. CASE Observe
  <2>1. /\ rung' = [rung EXCEPT !.forgot = IF mem = None THEN @ \cup {"no owner"} ELSE @]
        /\ IF mem = None THEN mem'.target = None /\ mem'.failures = 0
           ELSE mem'.target = mem.target /\ mem'.failures = mem.failures
    BY <1>4, ObserveEffect
  <2>2. CASE mem = None
    <3>1. rung' = [rung EXCEPT !.forgot = @ \cup {"no owner"}]
      BY <2>1, <2>2
    <3>2. rung' \in R(now') /\ rung'.forgot # {}
      BY <1>3, <3>1
    <3> QED
      BY <2>1, <2>2, <3>2
  <2>3. CASE mem # None
    <3>1. rung' = rung
      BY <1>3, <2>1, <2>3
    <3> QED
      BY <1>3, <2>1, <2>3, <3>1
  <2> QED
    BY <2>2, <2>3
<1>5. CASE Decide
  <2>1. /\ owner \in Proc
        /\ rung' = IF rung.to = owner THEN rung
                   ELSE [to |-> owner, n |-> 0, at |-> 0, forgot |-> {}]
    BY <1>5, DecideEffect
  <2>2. PICK m \in State : /\ m.target = owner
                           /\ (mem' = [m EXCEPT !.index = @ + 1] \/ mem' = m)
    BY <1>5, DecideEffect
  <2>3. mem'.target = owner
    BY <2>2 DEF State
  <2>4. rung' \in R(now') /\ rung'.to = owner
    <3>1. CASE rung.to = owner
      BY <1>3, <2>1, <3>1
    <3>2. CASE rung.to # owner
      BY <1>2, <2>1, <3>2
    <3> QED
      BY <3>1, <3>2
  <2> QED
    BY <2>1, <2>3, <2>4, Constants
<1>6. CASE Ring
  <2>1. /\ scan.at = "write" /\ UNCHANGED mem
        /\ rung' = [to |-> scan.target, at |-> scan.now, forgot |-> {},
                    n |-> IF rung.forgot # {} \/ DrainedSince(rung.at) THEN 1 ELSE rung.n + 1]
    BY <1>6, Zenon DEF Ring
  <2>2. /\ scan.target \in Proc /\ mem.target = scan.target /\ scan.now \in 0..now'
    <3>1. scan.now \in 0..now
      BY <1>1 DEF TypeOK
    <3> QED
      BY <1>1, <1>2, <2>1, <3>1 DEF AtWork, Working
  <2> DEFINE n == IF rung.forgot # {} \/ DrainedSince(rung.at) THEN 1 ELSE rung.n + 1
  <2>3. n \in Nat
    <3>1. rung.n \in Nat
      BY <1>3
    <3> QED
      BY <3>1
  <2> HIDE DEF n
  <2>4. rung' = [to |-> scan.target, at |-> scan.now, forgot |-> {}, n |-> n]
    BY <2>1 DEF n
  <2>5. rung' \in R(now') /\ rung'.to = scan.target
    BY <2>2, <2>3, <2>4
  <2> QED
    BY <2>1, <2>2, <2>5, Constants
<1>7. CASE Crash
  <2>1. /\ mem' = None
        /\ rung' = [rung EXCEPT !.forgot =
                      IF scan.at = "journal" /\ scan.written THEN @ \cup {"no journal"} ELSE @]
    BY <1>7, Zenon DEF Crash
  <2>2. rung' \in R(now')
    BY <1>3, <2>1
  <2> QED
    BY <2>1, <2>2
<1>8. CASE UNCHANGED rung
  <2>1. CASE UNCHANGED mem
    BY <1>3, <1>8, <2>1
  <2>2. CASE ScanEmpty \/ Skip
    <3>1. mem' = None \/ mem' = mem
      BY <2>2, Zenon DEF ScanEmpty, Skip
    <3> QED
      BY <1>3, <1>8, <3>1
  <2>3. CASE Note
    <3>1. mem # None /\ mem'.target = mem.target /\ scan.at = "note"
      BY <2>3, NoteEffect
    <3>2. mem.target \in Proc
      BY <1>1, <3>1 DEF AtWork, Working
    <3> QED
      BY <1>3, <1>8, <3>1, <3>2, Constants
  <2> QED
    BY <1>4, <1>5, <1>7, <2>1, <2>2, <2>3, MemSteps
<1> QED
  BY <1>4, <1>5, <1>6, <1>7, <1>8, RungSteps

-----------------------------------------------------------------------------
(* Runs of failures *)

\* An attempt added to a journal leaves its runs; a failure makes the last longer.
LEMMA RunGrows ==
    ASSUME NEW J \in Seq(Attempt), NEW e \in Attempt, NEW k \in 0..Len(J), NEW n \in Nat,
           FailedRun(J, k, n)
    PROVE  /\ FailedRun(Append(J, e), k, n) /\ k \in 0..Len(Append(J, e))
           /\ (k = Len(J) /\ ~e.written) => FailedRun(Append(J, e), Len(J) + 1, n + 1)
<1> DEFINE A == Append(J, e)
<1>1. /\ Len(J) \in Nat /\ Len(A) = Len(J) + 1 /\ A[Len(J) + 1] = e
      /\ \A j \in 1..Len(J) : A[j] = J[j]
  OBVIOUS
<1>2. /\ k \in Nat /\ k <= Len(J) /\ n <= k /\ \A j \in (k - n + 1)..k : ~J[j].written
  BY <1>1 DEF FailedRun
<1> HIDE DEF A
<1>3. \A j \in (k - n + 1)..k : ~A[j].written
  <2> SUFFICES ASSUME NEW j \in (k - n + 1)..k PROVE ~A[j].written
    OBVIOUS
  <2>1. j \in 1..Len(J)
    BY <1>1, <1>2
  <2> QED
    BY <1>1, <1>2, <2>1
<1>4. FailedRun(A, k, n) /\ k \in 0..Len(A)
  BY <1>1, <1>2, <1>3 DEF FailedRun
<1>5. ASSUME k = Len(J), ~e.written PROVE FailedRun(A, k + 1, n + 1)
  <2>1. \A j \in ((k + 1) - (n + 1) + 1)..(k + 1) : ~A[j].written
    <3> SUFFICES ASSUME NEW j \in ((k + 1) - (n + 1) + 1)..(k + 1) PROVE ~A[j].written
      OBVIOUS
    <3>1. j \in (k - n + 1)..k \/ j = k + 1
      BY <1>2
    <3> QED
      BY <1>1, <1>3, <1>5, <3>1
  <2>2. n + 1 <= k + 1
    BY <1>2
  <2> QED
    BY <2>1, <2>2 DEF FailedRun
<1> QED
  BY <1>4, <1>5 DEF A

\* What the failures of the memory are, as the attempt at hand goes on.
Streak(m, s) == IF s.at # "note" THEN m.failures ELSE IF s.written THEN 0 ELSE m.failures + 1

LEMMA FailingStep ==
    ASSUME NotifierInv, Next
    PROVE  Failing'
<1>1. TypeOK /\ AtWork /\ Failing
  BY DEF NotifierInv
<1>2. /\ native \in [Inst -> Nat] /\ DOMAIN journal = Inst
      /\ \A i \in Inst : journal[i] \in Seq(Attempt) /\ Len(journal[i]) \in Nat
  <2>1. \A i \in Inst : journal[i] \in Seq(Attempt) /\ Len(journal[i]) \in Nat
    BY <1>1, JournalType, Zenon
  <2> QED
    BY <1>1, <2>1 DEF TypeOK
<1> DEFINE Own(i, f, J) == \E k \in 0..Len(J[i]) : FailedRun(J[i], k, f[i])
           Ends(m, J, n) == FailedRun(J[Of[m.target]], Len(J[Of[m.target]]), n)
<1>3. /\ \A i \in Inst : Own(i, native, journal)
      /\ mem # None /\ mem.target # None => Ends(mem, journal, Streak(mem, scan))
  BY <1>1, Zenon DEF Failing, Streak
<1>4. ASSUME /\ \A i \in Inst : Own(i, native', journal')
             /\ mem' # None /\ mem'.target # None => Ends(mem', journal', Streak(mem', scan'))
      PROVE  Failing'
  BY <1>4, Zenon DEF Failing, Streak
<1>5. CASE Journal
  <2>1. /\ UNCHANGED <<native, mem>> /\ mem # None /\ mem.target = scan.target
        /\ scan.target \in Proc /\ scan.at = "journal" /\ scan' = [scan EXCEPT !.at = "note"]
    BY <1>5, JournalEffect
  <2>2. PICK e \in Attempt :
           /\ e.written = scan.written
           /\ journal' = [journal EXCEPT ![Of[scan.target]] =
                            Append(journal[Of[scan.target]], e)]
    BY <1>5, JournalEffect
  <2> DEFINE t == Of[scan.target]
  <2>3. t \in Inst /\ mem.target # None
    BY <2>1, Constants
  <2>4. journal'[t] = Append(journal[t], e) /\ \A i \in Inst \ {t} : journal'[i] = journal[i]
    BY <1>2, <2>2, <2>3
  <2>5. \A i \in Inst : Own(i, native', journal')
    <3> SUFFICES ASSUME NEW i \in Inst PROVE Own(i, native, journal')
      BY <2>1
    <3>1. PICK k \in 0..Len(journal[i]) : FailedRun(journal[i], k, native[i])
      BY <1>3
    <3>2. CASE i = t
      <4>1. native[i] \in Nat /\ journal[i] \in Seq(Attempt)
        BY <1>2
      <4>2. FailedRun(Append(journal[i], e), k, native[i]) /\ k \in 0..Len(Append(journal[i], e))
        BY <3>1, <4>1, RunGrows
      <4> QED
        BY <2>4, <3>2, <4>2
    <3>3. CASE i # t
      BY <2>4, <3>1, <3>3
    <3> QED
      BY <3>2, <3>3
  <2>6. scan'.at = "note" /\ scan'.written = scan.written
    BY <1>1, <2>1 DEF TypeOK
  <2>7. mem.failures \in Nat
    BY <1>1, <2>1, StateFields DEF TypeOK
  <2>8. Ends(mem, journal, mem.failures)
    BY <1>3, <2>1, <2>3 DEF Streak
  <2>9. Ends(mem, journal', Streak(mem, scan'))
    <3>1. journal[t] \in Seq(Attempt) /\ Len(journal[t]) \in Nat
      BY <1>2, <2>3
    <3>2. Len(Append(journal[t], e)) = Len(journal[t]) + 1
      BY <3>1
    <3>3. CASE scan.written
      <4>1. FailedRun(Append(journal[t], e), Len(journal[t]) + 1, 0)
        BY <3>1, <3>2 DEF FailedRun
      <4> QED
        BY <2>1, <2>4, <2>6, <3>2, <3>3, <4>1 DEF Streak
    <3>4. CASE ~scan.written
      <4>1. FailedRun(journal[t], Len(journal[t]), mem.failures)
        BY <2>1, <2>8
      <4>2. Len(journal[t]) \in 0..Len(journal[t])
        BY <3>1
      <4>3. FailedRun(Append(journal[t], e), Len(journal[t]) + 1, mem.failures + 1)
        BY <2>2, <2>7, <3>1, <3>4, <4>1, <4>2, RunGrows
      <4> QED
        BY <2>1, <2>4, <2>6, <3>2, <3>4, <4>3 DEF Streak
    <3> QED
      BY <3>3, <3>4
  <2> HIDE DEF Own, Ends
  <2> QED
    BY <1>4, <2>1, <2>5, <2>9
<1>6. CASE Note
  <2>1. /\ UNCHANGED journal /\ mem # None /\ mem' \in State /\ mem'.target = mem.target
        /\ scan.at = "note" /\ scan' = NoScan
        /\ mem'.failures = IF scan.written THEN 0 ELSE mem.failures + 1
        /\ native' = [native EXCEPT ![Of[mem.target]] = mem'.failures]
    BY <1>6, NoteEffect
  <2>2. mem.target \in Proc /\ mem.target # None
    BY <1>1, <2>1, Constants DEF AtWork, Working
  <2>3. Streak(mem', scan') = mem'.failures /\ Streak(mem, scan) = mem'.failures
    BY <2>1 DEF Streak, NoScan
  <2>4. Ends(mem, journal, mem'.failures)
    BY <1>3, <2>1, <2>2, <2>3
  <2>5. Ends(mem', journal', Streak(mem', scan'))
    BY <2>1, <2>3, <2>4
  <2>6. \A i \in Inst : Own(i, native', journal')
    <3> SUFFICES ASSUME NEW i \in Inst PROVE Own(i, native', journal)
      BY <2>1
    <3>1. CASE i = Of[mem.target]
      <4>1. native'[i] = mem'.failures
        BY <1>2, <2>1, <3>1
      <4>2. Len(journal[i]) \in 0..Len(journal[i])
        BY <1>2
      <4> QED
        BY <2>4, <3>1, <4>1, <4>2
    <3>2. CASE i # Of[mem.target]
      <4>1. native'[i] = native[i]
        BY <1>2, <2>1, <3>2
      <4> QED
        BY <1>3, <4>1
    <3> QED
      BY <3>1, <3>2
  <2> HIDE DEF Own, Ends
  <2> QED
    BY <1>4, <2>5, <2>6
<1>7. CASE UNCHANGED <<native, journal>> /\ ~Journal /\ ~Note
  <2>1. \A i \in Inst : Own(i, native', journal')
    BY <1>3, <1>7
  <2>2. ASSUME mem' # None, mem'.target # None PROVE Ends(mem', journal', Streak(mem', scan'))
    <3>1. CASE UNCHANGED mem
      <4>1. Streak(mem', scan') = Streak(mem, scan)
        <5>1. CASE UNCHANGED scan
          BY <3>1, <5>1
        <5>2. CASE Skip
          <6>1. scan.at = "write" /\ scan' = NoScan
            BY <5>2, Zenon DEF Skip
          <6> QED
            BY <3>1, <6>1 DEF Streak, NoScan
        <5>3. CASE Ring
          <6>1. scan.at = "write" /\ scan' = [scan EXCEPT !.at = "journal", !.written = TRUE]
            BY <5>3, Zenon DEF Ring
          <6>2. scan'.at = "journal"
            BY <1>1, <6>1 DEF TypeOK
          <6> QED
            BY <3>1, <6>1, <6>2 DEF Streak
        <5>4. CASE Fail
          <6>1. scan.at = "write" /\ scan' = [scan EXCEPT !.at = "journal"]
            BY <5>4, Zenon DEF Fail
          <6>2. scan'.at = "journal"
            BY <1>1, <6>1 DEF TypeOK
          <6> QED
            BY <3>1, <6>1, <6>2 DEF Streak
        <5>5. CASE Decide
          <6>1. scan.at = "idle"
            BY <5>5, DecideEffect
          <6>2. scan'.at \in {"idle", "write"}
            BY <5>5, <6>1, DecideEffect
          <6> QED
            BY <3>1, <6>1, <6>2 DEF Streak
        <5>6. CASE Restart
          <6>1. scan.at = "down" /\ scan' = NoScan
            BY <5>6, Zenon DEF Restart
          <6> QED
            BY <3>1, <6>1 DEF Streak, NoScan
        <5>7. ~Crash
          <6> SUFFICES ASSUME Crash PROVE FALSE
            OBVIOUS
          <6>1. mem' = None
            BY Zenon DEF Crash
          <6> QED
            BY <2>2, <6>1
        <5> QED
          BY <1>7, <5>1, <5>2, <5>3, <5>4, <5>5, <5>6, <5>7, ScanSteps
      <4> QED
        BY <1>3, <1>7, <2>2, <3>1, <4>1
    <3>2. CASE Skip \/ ScanEmpty \/ Crash
      <4>1. mem' = None \/ mem' = mem
        BY <3>2, Zenon DEF Skip, ScanEmpty, Crash
      <4> QED
        BY <2>2, <3>1, <4>1
    <3>3. CASE Observe
      <4>1. /\ UNCHANGED scan /\ scan.at = "idle"
            /\ IF mem = None THEN mem'.target = None
               ELSE mem'.target = mem.target /\ mem'.failures = mem.failures
        BY <3>3, ObserveEffect
      <4>2. mem # None /\ mem'.target = mem.target /\ mem'.failures = mem.failures
        BY <2>2, <4>1
      <4>3. Streak(mem', scan') = Streak(mem, scan)
        BY <4>1, <4>2 DEF Streak
      <4> QED
        BY <1>3, <1>7, <2>2, <4>2, <4>3
    <3>4. CASE Decide
      <4>1. PICK m \in State :
               /\ m.target = owner
               /\ FailedRun(journal[Of[owner]], Len(journal[Of[owner]]), m.failures)
               /\ \/ /\ mem' = [m EXCEPT !.index = @ + 1]
                     /\ scan' = [at |-> "write", target |-> owner, ready |-> ready,
                                 digest |-> Pending, now |-> now, written |-> FALSE]
                  \/ mem' = m /\ UNCHANGED scan
        BY <3>4, DecideEffect
      <4>2. scan.at = "idle"
        BY <3>4, DecideEffect
      <4>3. mem'.target = owner /\ mem'.failures = m.failures
        BY <4>1 DEF State
      <4>4. scan'.at # "note"
        BY <4>1, <4>2
      <4>5. Streak(mem', scan') = m.failures
        BY <4>3, <4>4 DEF Streak
      <4> QED
        BY <1>7, <4>1, <4>3, <4>5
    <3> QED
      BY <1>7, <3>1, <3>2, <3>3, <3>4, MemSteps
  <2> HIDE DEF Own, Ends
  <2> QED
    BY <1>4, <2>1, <2>2
<1> QED
  BY <1>5, <1>6, <1>7, NativeSteps, JournalSteps

-----------------------------------------------------------------------------
LEMMA NotifierInit ==
    ASSUME Init
    PROVE  NotifierInv
<1>1. /\ now = 1 /\ inbox = {} /\ sent = {} /\ reading = FALSE
      /\ drained = [at |-> 0, token |-> 0] /\ turn = None /\ owner \in First /\ ready = TRUE
      /\ native = [i \in Inst |-> 0] /\ journal = [i \in Inst |-> <<>>] /\ sidecar = 0
      /\ mem = None /\ scan = NoScan /\ scanned = FALSE /\ moves = 0 /\ faults = 0
      /\ rung = NoRung /\ quiet = 0
  BY Zenon DEF Init
<1>2. /\ 0 \in 0..MaxNow /\ 0 \in 0..MaxDrains /\ 0 \in 0..MaxMoves /\ 0 \in 0..MaxFaults
      /\ owner \in Proc
  BY <1>1, Constants
<1>3. /\ NoScan \in [at : {"down", "idle", "write", "journal", "note"}, target : Proc \cup {None},
                     ready : BOOLEAN, digest : SUBSET Letter, now : 0..1, written : BOOLEAN]
      /\ NoRung \in [to : Proc \cup {None}, n : Nat, at : 0..1,
                     forgot : SUBSET {"no owner", "no journal"}]
  BY DEF NoScan, NoRung
<1>4. now \in 1..MaxNow /\ 0..1 = 0..now /\ 0 \in 0..now
  BY <1>1, Constants
<1>5. /\ DOMAIN journal = Inst /\ native \in [Inst -> Nat]
      /\ \A i \in Inst : journal[i] \in Seq(Attempt) /\ journal[i] = <<>> /\ native[i] = 0
  BY <1>1
<1>10. /\ drained \in [at : 0..now, token : 0..MaxDrains]
       /\ scan \in [at : {"down", "idle", "write", "journal", "note"}, target : Proc \cup {None},
                    ready : BOOLEAN, digest : SUBSET Letter, now : 0..now, written : BOOLEAN]
       /\ rung \in [to : Proc \cup {None}, n : Nat, at : 0..now,
                    forgot : SUBSET {"no owner", "no journal"}]
  BY <1>1, <1>2, <1>3, <1>4
<1>11. /\ inbox \subseteq sent /\ sent \subseteq Letter /\ reading \in BOOLEAN
       /\ (reading => drained.token < MaxDrains) /\ turn \in 1..now \cup {None}
       /\ owner \in Proc \cup {None} /\ ready \in BOOLEAN /\ sidecar \in 0..now
       /\ mem \in State \cup {None}
       /\ (mem # None => (mem.out > 0 <=> mem.outAt > 0))
       /\ scanned \in BOOLEAN /\ moves \in 0..MaxMoves /\ faults \in 0..MaxFaults /\ quiet \in Nat
  BY <1>1, <1>2, <1>4
<1>12. \A i \in Inst : journal[i] \in Seq(Attempt)
  BY <1>5
<1>6. TypeOK
  BY <1>4, <1>5, <1>10, <1>11, <1>12, Zenon DEF TypeOK
<1>7. Past
  <2>1. \A i \in Inst : DOMAIN journal[i] = {}
    BY <1>5
  <2> QED
    BY <1>1, <2>1 DEF Past
<1>8. AtWork
  BY <1>1 DEF AtWork, Working, NoScan
<1>9. Failing
  <2>1. ASSUME NEW i \in Inst
        PROVE  0 \in 0..Len(journal[i]) /\ FailedRun(journal[i], 0, native[i])
    <3>1. journal[i] = <<>> /\ native[i] = 0 /\ Len(journal[i]) = 0
      BY <1>5
    <3> QED
      BY <3>1 DEF FailedRun
  <2> QED
    BY <1>1, <2>1 DEF Failing
<1> QED
  BY <1>6, <1>7, <1>8, <1>9 DEF NotifierInv

LEMMA NotifierNext ==
    ASSUME NotifierInv, [Next]_vars
    PROVE  NotifierInv'
<1>1. CASE Next
  <2>1. TypeOK
    BY DEF NotifierInv
  <2>2. /\ inbox' \subseteq sent' /\ sent' \subseteq Letter /\ reading' \in BOOLEAN
        /\ drained' \in [at : 0..now', token : 0..MaxDrains]
        /\ (reading' => drained'.token < MaxDrains)
        /\ turn' \in 1..now' \cup {None}
    BY <1>1, <2>1, MailTyped
  <2>3. owner' \in Proc \cup {None} /\ ready' \in BOOLEAN /\ moves' \in 0..MaxMoves
    BY <1>1, <2>1, SessionTyped
  <2>4. scanned' \in BOOLEAN /\ faults' \in 0..MaxFaults /\ quiet' \in Nat
    BY <1>1, <2>1, BoundsTyped
  <2>5. now' \in 1..MaxNow
    <3>1. now' \in Nat /\ now >= 1 /\ now \in Nat /\ now <= now' /\ now' <= MaxNow
      BY <1>1, <2>1, NowGrows
    <3> QED
      BY <3>1, Constants
  <2>6. /\ native' \in [Inst -> Nat] /\ sidecar' \in 0..now' /\ DOMAIN journal' = Inst
        /\ \A i \in Inst : /\ journal'[i] \in Seq(Attempt)
                           /\ \A k \in DOMAIN journal'[i] : journal'[i][k].at <= now'
    BY <1>1, DiskTyped
  <2>7. /\ mem' \in State \cup {None}
        /\ mem' # None => /\ (mem'.out > 0 <=> mem'.outAt > 0)
                          /\ mem'.last <= now' /\ mem'.lastWritten <= now' /\ mem'.outAt <= now'
    BY <1>1, MemTyped
  <2>8. /\ scan' \in [at : {"down", "idle", "write", "journal", "note"},
                      target : Proc \cup {None}, ready : BOOLEAN, digest : SUBSET Letter,
                      now : 0..now', written : BOOLEAN]
        /\ (scan'.at = "write" => ~scan'.written)
        /\ (Working' => mem' # None /\ scan'.target \in Proc /\ scan'.now > 0
                        /\ mem'.target = scan'.target)
        /\ (scan'.at = "down" => mem' = None)
    BY <1>1, ScanTyped
  <2>9. /\ rung' \in [to : Proc \cup {None}, n : Nat, at : 0..now',
                      forgot : SUBSET {"no owner", "no journal"}]
        /\ mem' # None => IF mem'.target = None THEN mem'.failures = 0 /\ rung'.forgot # {}
                          ELSE rung'.to = mem'.target
    BY <1>1, RungTyped
  <2>10. TypeOK'
    BY <2>2, <2>3, <2>4, <2>5, <2>6, <2>7, <2>8, <2>9, Zenon DEF TypeOK
  <2>11. Past'
    BY <2>6, <2>7, Zenon DEF Past
  <2>12. AtWork'
    BY <2>8, <2>9, Zenon DEF AtWork
  <2>13. Failing'
    BY <1>1, FailingStep
  <2> QED
    BY <2>10, <2>11, <2>12, <2>13 DEF NotifierInv
<1>2. CASE UNCHANGED vars
  <2>1. UNCHANGED <<now, mail, session, disk, mem, scan, scanned, faults, rung, quiet>>
    BY <1>2, Zenon DEF vars
  <2>2. UNCHANGED <<now, inbox, sent, reading, drained, turn, owner, ready, moves, native,
                    journal, sidecar, mem, scan, scanned, faults, rung, quiet>>
    BY <2>1 DEF mail, session, disk
  <2>5. TypeOK'
    <3>1. TypeOK
      BY DEF NotifierInv
    <3>2. /\ now' \in 1..MaxNow /\ inbox' \subseteq sent' /\ sent' \subseteq Letter
          /\ reading' \in BOOLEAN /\ drained' \in [at : 0..now', token : 0..MaxDrains]
          /\ (reading' => drained'.token < MaxDrains) /\ turn' \in 1..now' \cup {None}
          /\ owner' \in Proc \cup {None} /\ ready' \in BOOLEAN
      BY <2>2, <3>1, Zenon DEF TypeOK
    <3>3. /\ native' \in [Inst -> Nat] /\ DOMAIN journal' = Inst
          /\ (\A i \in Inst : journal'[i] \in Seq(Attempt)) /\ sidecar' \in 0..now'
          /\ mem' \in State \cup {None} /\ (mem' # None => (mem'.out > 0 <=> mem'.outAt > 0))
      BY <2>2, <3>1, Zenon DEF TypeOK
    <3>4. /\ scan' \in [at : {"down", "idle", "write", "journal", "note"},
                        target : Proc \cup {None}, ready : BOOLEAN, digest : SUBSET Letter,
                        now : 0..now', written : BOOLEAN]
          /\ rung' \in [to : Proc \cup {None}, n : Nat, at : 0..now',
                        forgot : SUBSET {"no owner", "no journal"}]
          /\ scanned' \in BOOLEAN /\ moves' \in 0..MaxMoves /\ faults' \in 0..MaxFaults
          /\ quiet' \in Nat
      BY <2>2, <3>1, Zenon DEF TypeOK
    <3> QED
      BY <3>2, <3>3, <3>4, Zenon DEF TypeOK
  <2>3. TypeOK' /\ Past'
    BY <2>2, <2>5 DEF NotifierInv, Past
  <2>4. AtWork' /\ Failing'
    BY <2>2 DEF NotifierInv, AtWork, Working, Failing
  <2> QED
    BY <2>3, <2>4 DEF NotifierInv
<1> QED
  BY <1>1, <1>2

LEMMA NotifierAlways == Spec => []NotifierInv
<1>1. Init => NotifierInv
  BY NotifierInit
<1>2. NotifierInv /\ [Next]_vars => NotifierInv'
  BY NotifierNext
<1> QED
  BY <1>1, <1>2, PTL DEF Spec

(* The state of the doorbell, the journals and the memory of the notifier   *)
(* keep their shape: a memory that counts a frame knows its time.           *)
THEOREM TypeCorrect == Spec => []TypeOK
<1>1. NotifierInv => TypeOK
  BY DEF NotifierInv
<1> QED
  BY <1>1, NotifierAlways, PTL

(* A registration is degraded only by failures in a row of its own: the     *)
(* count a new notifier restores, or carries from one owner to the next, is *)
(* never longer than a run of failures in the journal of that registration. *)
THEOREM DegradedByOwnFailures == Spec => []Degraded
<1>1. NotifierInv => Degraded
  <2> SUFFICES ASSUME NotifierInv, NEW i \in Inst, native[i] >= DegradeAt
               PROVE  LET J == journal[i] IN
                      \E k \in DOMAIN J : /\ k >= DegradeAt
                                          /\ \A j \in (k - DegradeAt + 1)..k : ~J[j].written
    BY DEF Degraded
  <2> DEFINE J == journal[i]
             n == native[i]
  <2>1. PICK k \in 0..Len(J) : FailedRun(J, k, n)
    BY DEF NotifierInv, Failing
  <2>2. Len(J) \in Nat /\ DOMAIN J = 1..Len(J)
    BY JournalType DEF NotifierInv
  <2>3. n \in Nat
    BY DEF NotifierInv, TypeOK
  <2>4. k \in Nat /\ k <= Len(J) /\ n <= k /\ \A j \in (k - n + 1)..k : ~J[j].written
    BY <2>1, <2>2 DEF FailedRun
  <2> HIDE DEF J, n
  <2>5. DegradeAt \in Nat /\ DegradeAt >= 1 /\ DegradeAt <= n
    BY <2>3, Constants DEF n
  <2>6. k \in DOMAIN J /\ k >= DegradeAt
    BY <2>2, <2>3, <2>4, <2>5
  <2>7. \A j \in (k - DegradeAt + 1)..k : ~J[j].written
    <3> SUFFICES ASSUME NEW j \in (k - DegradeAt + 1)..k PROVE ~J[j].written
      OBVIOUS
    <3>1. j \in (k - n + 1)..k
      BY <2>3, <2>4, <2>5
    <3> QED
      BY <2>4, <3>1
  <2> QED
    BY <2>6, <2>7 DEF J
<1> QED
  BY <1>1, NotifierAlways, PTL

-----------------------------------------------------------------------------
(* The schedule of unread frames *)

(* The schedule of the repeats never gets shorter; conduit.go:268 doubles   *)
(* it each time.                                                            *)
Lengthening == \A a, b \in DOMAIN RetryAfter : a <= b => RetryAfter[a] <= RetryAfter[b]

LEMMA DelayGrows ==
    ASSUME Lengthening, NEW a \in Nat, NEW b \in Nat, a <= b
    PROVE  /\ Delay(RetryAfter, a) \in Nat /\ Delay(RetryAfter, b) \in Nat
           /\ Delay(RetryAfter, a) <= Delay(RetryAfter, b)
<1>1. Len(RetryAfter) \in Nat /\ Len(RetryAfter) > 0 /\ DOMAIN RetryAfter = 1..Len(RetryAfter)
  BY NotifierAssumption
<1> DEFINE x == DelayIndex(a, Len(RetryAfter))
           y == DelayIndex(b, Len(RetryAfter))
<1>2. x \in DOMAIN RetryAfter /\ y \in DOMAIN RetryAfter /\ x <= y
  BY <1>1 DEF DelayIndex
<1>3. RetryAfter[x] <= RetryAfter[y]
  BY <1>2 DEF Lengthening
<1> QED
  BY <1>3, DelayType DEF Delay

\* Scheduled, as a relation between its variables.
Frames(J, d) == {k \in DOMAIN J : J[k].written /\ ~(d.at >= J[k].at)}
Owing(d, r) == r.n > 0 /\ r.forgot = {} /\ ~(d.at >= r.at)
NotBefore(r) == r.at + Delay(RetryAfter, r.n)
Written(s) == s.at = "journal" /\ s.written
Fresh(s) == s.at \in {"journal", "note"} /\ s.written
Counted(J, d, r, s) == Cardinality(Frames(J, d)) + (IF Written(s) THEN 1 ELSE 0) >= r.n
LastFrame(J, r, k) == /\ k \in DOMAIN J /\ J[k].written /\ J[k].at = r.at
                      /\ \A j \in DOMAIN J : j > k => ~J[j].written /\ J[j].at >= NotBefore(r)
Kept(J, d, r, s, m) ==
    /\ Counted(J, d, r, s)
    /\ ~Written(s) => \E k \in DOMAIN J : LastFrame(J, r, k)
    /\ Fresh(s) => r.at = s.now /\ r.to = s.target /\ m.out + 1 >= r.n
    /\ m # None /\ ~Fresh(s) => m.out >= r.n /\ m.outAt = r.at /\ m.next >= NotBefore(r)
    /\ s.at \in {"write", "journal", "note"} /\ ~Fresh(s) => s.now >= NotBefore(r)

LEMMA ScheduledIs ==
    /\ Scheduled <=> (Owing(drained, rung) =>
                        rung.to \in Proc /\ Kept(journal[Of[rung.to]], drained, rung, scan, mem))
    /\ Scheduled' <=> (Owing(drained', rung') =>
                         rung'.to \in Proc /\ Kept(journal'[Of[rung'.to]], drained', rung', scan', mem'))
<1>1. /\ Unread(Of[rung.to]) = Frames(journal[Of[rung.to]], drained)
      /\ Unread(Of[rung.to])' = Frames(journal'[Of[rung'.to]], drained')
  BY DEF Unread, Frames, DrainedSince
<1>2. /\ Outstanding <=> Owing(drained, rung)
      /\ Outstanding' <=> Owing(drained', rung')
  BY Zenon DEF Outstanding, Owing, DrainedSince
<1>3. Due = NotBefore(rung) /\ Due' = NotBefore(rung')
  BY Zenon DEF Due, NotBefore
<1>4. /\ Unjournalled <=> Written(scan)
      /\ Unjournalled' <=> Written(scan')
      /\ Unnoted <=> Fresh(scan)
      /\ Unnoted' <=> Fresh(scan')
      /\ Working <=> scan.at \in {"write", "journal", "note"}
      /\ Working' <=> scan'.at \in {"write", "journal", "note"}
  BY Zenon DEF Unjournalled, Written, Unnoted, Fresh, Working
<1> QED
  BY <1>1, <1>2, <1>3, <1>4, Zenon DEF Scheduled, Kept, Counted, LastFrame

LEMMA RungNumbers ==
    ASSUME NotifierInv
    PROVE  /\ rung.n \in Nat /\ rung.at \in Nat /\ rung.at <= now /\ now \in Nat
           /\ drained.at \in Nat /\ drained.at <= now /\ scan.now \in Nat /\ scan.now <= now
           /\ NotBefore(rung) \in Nat /\ rung.to \in Proc \cup {None}
<1>1. /\ now \in 1..MaxNow /\ drained \in [at : 0..now, token : 0..MaxDrains]
      /\ rung \in [to : Proc \cup {None}, n : Nat, at : 0..now,
                   forgot : SUBSET {"no owner", "no journal"}]
      /\ scan.now \in 0..now
  BY DEF NotifierInv, TypeOK
<1>2. rung.n \in Nat /\ rung.at \in 0..now /\ drained.at \in 0..now /\ rung.to \in Proc \cup {None}
  BY <1>1
<1>3. Delay(RetryAfter, rung.n) \in Nat
  BY <1>2, DelayType
<1>6. now \in Nat /\ scan.now \in 0..now
  <2>1. now \in 1..MaxNow /\ scan.now \in 0..now
    BY <1>1
  <2> QED
    BY <2>1, Constants
<1>4. /\ now \in Nat /\ rung.at \in Nat /\ rung.at <= now /\ drained.at \in Nat
      /\ drained.at <= now /\ scan.now \in Nat /\ scan.now <= now
  BY <1>2, <1>6
<1>5. NotBefore(rung) \in Nat
  BY <1>3, <1>4 DEF NotBefore
<1> QED
  BY <1>2, <1>4, <1>5

\* While frames are unread and none forgotten, the memory is about their process.
LEMMA AboutRung ==
    ASSUME NotifierInv, rung.forgot = {}, mem # None
    PROVE  mem.target = rung.to /\ rung.to # None /\ mem \in State
<1>1. TypeOK /\ AtWork
  BY DEF NotifierInv
<1>2. mem \in State
  BY <1>1 DEF TypeOK
<1> QED
  BY <1>1, <1>2, Zenon DEF AtWork

\* A scan decides no sooner than the frames that are unread allow.
LEMMA DecideKeeps ==
    ASSUME Lengthening, NotifierInv, Scheduled, Decide
    PROVE  Scheduled'
<1> DEFINE i == Of[owner]
           J == journal[i]
<1>1. /\ owner \in Proc /\ Pending \in SUBSET Letter /\ scan.at = "idle" /\ journal' = journal
      /\ drained' = drained
      /\ rung' = IF rung.to = owner THEN rung
                 ELSE [to |-> owner, n |-> 0, at |-> 0, forgot |-> {}]
  BY DecideEffect
<1>2. PICK m \in State :
         /\ m.target = owner
         /\ mem = None => LET r == Restored(Of[owner], Pending) IN
                            m.out = r.out /\ m.outAt = r.outAt /\ m.next = r.next
         /\ (mem # None /\ mem.target = owner /\ mem.out # 0 /\ ~Answered(mem)) =>
               m.out = mem.out /\ m.outAt = mem.outAt /\ m.next = mem.next
         /\ \/ /\ now >= m.next
               /\ mem' = [m EXCEPT !.index = @ + 1]
               /\ scan' = [at |-> "write", target |-> owner, ready |-> ready,
                           digest |-> Pending, now |-> now, written |-> FALSE]
            \/ mem' = m /\ UNCHANGED scan
  BY DecideEffect
<1> SUFFICES ASSUME Owing(drained', rung')
             PROVE  rung'.to \in Proc /\ Kept(journal'[Of[rung'.to]], drained', rung', scan', mem')
  BY ScheduledIs
<1>3. rung' = rung /\ rung.to = owner
  BY <1>1 DEF Owing
<1>4. Owing(drained, rung)
  BY <1>1, <1>3
<1>5. Kept(J, drained, rung, scan, mem)
  BY <1>3, <1>4, ScheduledIs
<1>6. ~Written(scan) /\ ~Fresh(scan)
  BY <1>1 DEF Written, Fresh
<1>7. PICK k \in DOMAIN J : LastFrame(J, rung, k)
  BY <1>5, <1>6 DEF Kept
<1>8. Cardinality(Frames(J, drained)) >= rung.n /\ Frames(J, drained) = Unread(i)
  <2>1. Frames(J, drained) = Unread(i)
    BY DEF Frames, Unread, DrainedSince
  <2>2. Cardinality(Unread(i)) \in Nat
    BY <1>1, UnreadType, Constants DEF NotifierInv
  <2>3. Cardinality(Unread(i)) + 0 >= rung.n
    BY <1>5, <1>6, <2>1 DEF Kept, Counted
  <2> QED
    BY <2>1, <2>2, <2>3
<1>9. m.out >= rung.n /\ m.outAt = rung.at /\ m.next >= NotBefore(rung)
  <2>1. CASE mem = None
    <3> DEFINE r == Restored(i, Pending)
    <3>1. i \in Inst /\ TypeOK /\ Past
      BY <1>1, Constants DEF NotifierInv
    <3>2. /\ r.out = Cardinality(Unread(i)) /\ r \in State
          /\ r.out > 0 => /\ Max(Unread(i)) \in Unread(i)
                          /\ \A k2 \in Unread(i) : k2 <= Max(Unread(i))
                          /\ r.outAt = J[Max(Unread(i))].at
          /\ r.next = IF J = <<>> THEN 0
                      ELSE IF ~J[Len(J)].written /\ (r.lastWritten = 0 \/ J[Len(J)].at > r.lastWritten)
                      THEN J[Len(J)].at + Delay(Backoff, J[Len(J)].index)
                      ELSE IF r.out > 0 THEN r.outAt + Delay(RetryAfter, r.out) ELSE 0
      BY <1>1, <3>1, RestoredType
    <3>3. m.out = r.out /\ m.outAt = r.outAt /\ m.next = r.next
      BY <1>2, <2>1
    <3> HIDE DEF r
    <3>4. /\ J \in Seq(Attempt) /\ Len(J) \in Nat /\ DOMAIN J = 1..Len(J)
          /\ (J = <<>> <=> Len(J) = 0)
          /\ \A j \in DOMAIN J : /\ j \in Nat /\ J[j].at \in 1..MaxNow /\ J[j].index \in Nat
      BY <3>1, JournalType
    <3> HIDE DEF J, i
    <3>5. /\ k \in DOMAIN J /\ J[k].written /\ J[k].at = rung.at
          /\ \A j \in DOMAIN J : j > k => ~J[j].written /\ J[j].at >= NotBefore(rung)
      BY <1>7 DEF LastFrame
    <3>6. k \in Unread(i) /\ \A j \in Unread(i) : j \in DOMAIN J /\ J[j].written
      BY <1>4, <1>8, <3>5 DEF Frames, Owing
    <3>7. rung.n \in Nat /\ rung.n > 0 /\ r.out \in Nat /\ rung.at \in Nat /\ NotBefore(rung) \in Nat
      BY <1>4, <3>2, RungNumbers, StateFields DEF Owing
    <3>8. r.out >= rung.n /\ r.out > 0
      BY <1>8, <3>2, <3>7
    <3>9. Max(Unread(i)) = k
      <4>1. Max(Unread(i)) \in DOMAIN J /\ J[Max(Unread(i))].written /\ k <= Max(Unread(i))
        BY <3>2, <3>6, <3>8
      <4>2. ~(Max(Unread(i)) > k)
        BY <3>5, <4>1
      <4> QED
        BY <3>4, <3>5, <4>1, <4>2
    <3>10. r.outAt = rung.at
      BY <3>2, <3>5, <3>8, <3>9
    <3>11. r.next >= NotBefore(rung)
      <4>1. Len(J) \in DOMAIN J /\ J # <<>>
        BY <3>4, <3>5
      <4>2. ASSUME ~J[Len(J)].written
            PROVE J[Len(J)].at + Delay(Backoff, J[Len(J)].index) >= NotBefore(rung)
        <5>1. Len(J) # k
          BY <3>5, <4>2
        <5>2. Len(J) > k
          BY <3>4, <3>5, <5>1
        <5>3. J[Len(J)].at >= NotBefore(rung)
          BY <3>5, <4>1, <5>2
        <5>4. J[Len(J)].at \in Nat /\ J[Len(J)].index \in Nat
          BY <3>4, <4>1, Constants
        <5>5. Delay(Backoff, J[Len(J)].index) \in Nat
          BY <5>4, DelayType
        <5> QED
          BY <3>7, <5>3, <5>4, <5>5
      <4>3. r.outAt + Delay(RetryAfter, r.out) >= NotBefore(rung)
        <5>1. /\ Delay(RetryAfter, rung.n) \in Nat /\ Delay(RetryAfter, r.out) \in Nat
              /\ Delay(RetryAfter, rung.n) <= Delay(RetryAfter, r.out)
          BY <3>7, <3>8, DelayGrows
        <5> QED
          BY <3>7, <3>10, <5>1 DEF NotBefore
      <4> QED
        BY <3>2, <3>8, <4>1, <4>2, <4>3
    <3> QED
      BY <3>3, <3>8, <3>10, <3>11
  <2>2. CASE mem # None
    <3>1. mem.target = owner /\ mem \in State
      BY <1>3, <1>4, <2>2, AboutRung DEF Owing
    <3>2. mem.out >= rung.n /\ mem.outAt = rung.at /\ mem.next >= NotBefore(rung)
      BY <1>5, <1>6, <2>2 DEF Kept
    <3>3. mem.out # 0
      BY <1>4, <3>1, <3>2, RungNumbers, StateFields DEF Owing
    <3>4. ~Answered(mem)
      BY <1>4, <3>2 DEF Owing, Answered, DrainedSince
    <3> QED
      BY <1>2, <2>2, <3>1, <3>2, <3>3, <3>4
  <2> QED
    BY <2>1, <2>2
<1>10. mem'.out = m.out /\ mem'.outAt = m.outAt /\ mem'.next = m.next
  BY <1>2 DEF State
<1>11. ~Written(scan') /\ ~Fresh(scan')
  BY <1>2, <1>6 DEF Written, Fresh
<1>12. scan'.at \in {"write", "journal", "note"} => scan'.now >= NotBefore(rung)
  <2>1. CASE UNCHANGED scan
    BY <1>1, <2>1
  <2>2. CASE scan' = [at |-> "write", target |-> owner, ready |-> ready,
                      digest |-> Pending, now |-> now, written |-> FALSE] /\ now >= m.next
    <3>1. now \in Nat /\ m.next \in Nat /\ NotBefore(rung) \in Nat
      BY RungNumbers, StateFields
    <3> QED
      BY <1>9, <2>2, <3>1
  <2> QED
    BY <1>2, <2>1, <2>2
<1>13. Counted(J, drained, rung, scan')
  BY <1>5, <1>6, <1>11 DEF Kept, Counted
<1>14. Kept(J, drained, rung, scan', mem')
  BY <1>7, <1>9, <1>10, <1>11, <1>12, <1>13 DEF Kept
<1> QED
  BY <1>1, <1>3, <1>14

\* A frame is one more that is unread, and none was owed before its time.
LEMMA RingKeeps ==
    ASSUME NotifierInv, Scheduled, Ring
    PROVE  Scheduled'
<1>1. /\ scan.at = "write" /\ scan' = [scan EXCEPT !.at = "journal", !.written = TRUE]
      /\ rung' = [to |-> scan.target, at |-> scan.now, forgot |-> {},
                  n |-> IF rung.forgot # {} \/ DrainedSince(rung.at) THEN 1 ELSE rung.n + 1]
      /\ UNCHANGED <<mail, disk, mem>>
  BY Zenon DEF Ring
<1>2. journal' = journal /\ drained' = drained /\ mem' = mem
  BY <1>1 DEF mail, disk
<1>3. mem # None /\ scan.target \in Proc /\ mem.target = scan.target /\ mem \in State
  BY <1>1 DEF NotifierInv, TypeOK, AtWork, Working
<1>4. /\ scan'.at = "journal" /\ scan'.written = TRUE /\ scan'.now = scan.now
      /\ scan'.target = scan.target
  <2>1. scan \in [at : {"down", "idle", "write", "journal", "note"}, target : Proc \cup {None},
                  ready : BOOLEAN, digest : SUBSET Letter, now : 0..now, written : BOOLEAN]
    BY DEF NotifierInv, TypeOK
  <2> QED
    BY <1>1, <2>1
<1>5. ~scan.written
  BY <1>1 DEF NotifierInv, AtWork
<1> DEFINE n == IF rung.forgot # {} \/ DrainedSince(rung.at) THEN 1 ELSE rung.n + 1
           J == journal[Of[scan.target]]
<1>6. /\ rung'.to = scan.target /\ rung'.at = scan.now /\ rung'.n = n
  BY <1>1
<1>7. Cardinality(Frames(J, drained)) \in Nat
  <2>1. Frames(J, drained) = Unread(Of[scan.target])
    BY DEF Frames, Unread, DrainedSince
  <2> QED
    BY <1>3, <2>1, UnreadType, Constants DEF NotifierInv
<1>8. mem.out \in Nat /\ rung.n \in Nat
  BY <1>3, StateFields, RungNumbers
<1>9. Cardinality(Frames(J, drained)) + 1 >= n /\ mem.out + 1 >= n
  <2>1. CASE n = 1
    BY <1>7, <1>8, <2>1
  <2>2. CASE n # 1 /\ rung.n = 0
    BY <1>7, <1>8, <2>2
  <2>3. CASE n # 1 /\ rung.n # 0
    <3>1. n = rung.n + 1 /\ rung.forgot = {} /\ ~DrainedSince(rung.at)
      BY <2>3
    <3>2. Owing(drained, rung)
      BY <1>8, <2>3, <3>1 DEF Owing, DrainedSince
    <3>3. rung.to = scan.target
      BY <1>3, <3>1, AboutRung
    <3>4. Kept(J, drained, rung, scan, mem) /\ ~Written(scan) /\ ~Fresh(scan)
      BY <1>5, <3>2, <3>3, ScheduledIs DEF Written, Fresh
    <3>5. mem.out >= rung.n
      BY <1>3, <3>4 DEF Kept
    <3>6. Cardinality(Frames(J, drained)) + 0 >= rung.n
      BY <3>4 DEF Kept, Counted
    <3> HIDE DEF n
    <3> QED
      BY <1>7, <1>8, <3>1, <3>5, <3>6
  <2> QED
    BY <2>1, <2>2, <2>3
<1> HIDE DEF n, J
<1>10. Written(scan') /\ Fresh(scan')
  BY <1>4 DEF Written, Fresh
<1>11. Kept(J, drained, rung', scan', mem)
  BY <1>4, <1>6, <1>9, <1>10 DEF Kept, Counted
<1> QED
  BY <1>2, <1>3, <1>6, <1>11, ScheduledIs DEF J

\* What is written into the journal is one more unread frame, or a failure that
\* came after the frames were due.
LEMMA JournalKeeps ==
    ASSUME NotifierInv, Scheduled, Journal
    PROVE  Scheduled'
<1>1. /\ rung' = rung /\ drained' = drained /\ mem' = mem /\ mem # None /\ scan.at = "journal"
      /\ mem.target = scan.target /\ scan.target \in Proc /\ scan' = [scan EXCEPT !.at = "note"]
  BY JournalEffect
<1>2. PICK e \in Attempt :
         /\ e.at = scan.now /\ e.written = scan.written
         /\ journal' = [journal EXCEPT ![Of[scan.target]] =
                          Append(journal[Of[scan.target]], e)]
  BY JournalEffect
<1>3. scan'.at = "note" /\ scan'.written = scan.written /\ scan'.now = scan.now
      /\ scan'.target = scan.target
  BY <1>1 DEF NotifierInv, TypeOK
<1> SUFFICES ASSUME Owing(drained, rung)
             PROVE  rung.to \in Proc /\ Kept(journal'[Of[rung.to]], drained, rung, scan', mem)
  BY <1>1, ScheduledIs
<1> DEFINE i == Of[rung.to]
           J == journal[i]
           A == Append(J, e)
<1>4. rung.to \in Proc /\ Kept(J, drained, rung, scan, mem) /\ i \in Inst
  BY ScheduledIs, Constants
<1>5. rung.to = scan.target
  BY <1>1, AboutRung DEF Owing
<1>6. journal'[i] = A
  <2>1. DOMAIN journal = Inst
    BY DEF NotifierInv, TypeOK
  <2> QED
    BY <1>2, <1>4, <1>5, <2>1
<1>7. J \in Seq(Attempt) /\ Len(J) \in Nat /\ DOMAIN J = 1..Len(J)
  BY <1>4, JournalType DEF NotifierInv
<1>8. /\ DOMAIN A = 1..(Len(J) + 1) /\ A[Len(J) + 1] = e /\ \A j \in DOMAIN J : A[j] = J[j]
      /\ DOMAIN A = DOMAIN J \cup {Len(J) + 1} /\ Len(J) + 1 \notin DOMAIN J
  BY <1>7
<1>9. /\ IsFiniteSet(Frames(J, drained)) /\ Cardinality(Frames(J, drained)) \in Nat
  <2>1. Frames(J, drained) = Unread(i)
    BY DEF Frames, Unread, DrainedSince
  <2> QED
    BY <1>4, <2>1, UnreadType DEF NotifierInv
<1> HIDE DEF A, J
<1>10. CASE scan.written
  <2>1. Written(scan) /\ Fresh(scan) /\ ~Written(scan') /\ Fresh(scan')
    BY <1>1, <1>3, <1>10 DEF Written, Fresh
  <2>2. rung.at = scan.now /\ mem.out + 1 >= rung.n
    BY <1>4, <2>1 DEF Kept
  <2>3. Frames(A, drained) = Frames(J, drained) \cup {Len(J) + 1}
    <3>1. e.written /\ ~(drained.at >= e.at)
      BY <1>2, <1>10, <2>2 DEF Owing
    <3> QED
      BY <1>8, <3>1 DEF Frames
  <2>4. Len(J) + 1 \notin Frames(J, drained)
    BY <1>8 DEF Frames
  <2>5. Cardinality(Frames(A, drained)) = Cardinality(Frames(J, drained)) + 1
    BY <1>9, <2>3, <2>4, FS_AddElement
  <2>6. Counted(A, drained, rung, scan')
    <3>1. Cardinality(Frames(J, drained)) + 1 >= rung.n
      BY <1>4, <2>1 DEF Kept, Counted
    <3> QED
      BY <1>9, <2>1, <2>5, <3>1, RungNumbers DEF Counted
  <2>7. LastFrame(A, rung, Len(J) + 1)
    <3>1. \A j \in DOMAIN A : ~(j > Len(J) + 1)
      BY <1>7, <1>8
    <3> QED
      BY <1>2, <1>8, <1>10, <2>2, <3>1 DEF LastFrame
  <2>8. Kept(A, drained, rung, scan', mem)
    BY <1>3, <1>5, <1>8, <2>1, <2>2, <2>6, <2>7 DEF Kept
  <2> QED
    BY <1>4, <1>6, <2>8
<1>11. CASE ~scan.written
  <2>1. ~Written(scan) /\ ~Fresh(scan) /\ ~Written(scan') /\ ~Fresh(scan')
    BY <1>3, <1>11 DEF Written, Fresh
  <2>2. Frames(A, drained) = Frames(J, drained)
    BY <1>2, <1>8, <1>11 DEF Frames
  <2>3. Counted(A, drained, rung, scan')
    BY <1>4, <2>1, <2>2 DEF Kept, Counted
  <2>4. PICK k \in DOMAIN J : LastFrame(J, rung, k)
    BY <1>4, <2>1 DEF Kept
  <2>5. scan.now >= NotBefore(rung)
    BY <1>1, <1>4, <2>1 DEF Kept
  <2>6. k \in DOMAIN A /\ LastFrame(A, rung, k)
    BY <1>2, <1>8, <1>11, <2>4, <2>5 DEF LastFrame
  <2>7. Kept(A, drained, rung, scan', mem)
    BY <1>3, <1>4, <2>1, <2>3, <2>5, <2>6 DEF Kept
  <2> QED
    BY <1>4, <1>6, <2>7
<1> QED
  BY <1>10, <1>11

\* What is remembered counts the frame, and no delay is shorter than before.
LEMMA NoteKeeps ==
    ASSUME Lengthening, NotifierInv, Scheduled, Note
    PROVE  Scheduled'
<1>1. /\ rung' = rung /\ drained' = drained /\ journal' = journal
      /\ mem # None /\ scan.at = "note" /\ scan' = NoScan
      /\ IF scan.written
         THEN /\ mem'.out = mem.out + 1 /\ mem'.outAt = scan.now
              /\ mem'.next = scan.now + Delay(RetryAfter, mem.out + 1)
         ELSE /\ mem'.out = mem.out /\ mem'.outAt = mem.outAt
              /\ mem'.next = scan.now + Delay(Backoff, mem.index)
  BY NoteEffect
<1> SUFFICES ASSUME Owing(drained, rung)
             PROVE  rung.to \in Proc /\ Kept(journal[Of[rung.to]], drained, rung, scan', mem')
  BY <1>1, ScheduledIs
<1> DEFINE J == journal[Of[rung.to]]
<1>2. rung.to \in Proc /\ Kept(J, drained, rung, scan, mem)
  BY ScheduledIs
<1> HIDE DEF J
<1>3. /\ ~Written(scan) /\ ~Written(scan') /\ ~Fresh(scan')
      /\ ~(scan'.at \in {"write", "journal", "note"})
  BY <1>1 DEF Written, Fresh, NoScan
<1>4. mem \in State /\ mem.out \in Nat /\ mem.index \in Nat
  BY <1>1, StateFields DEF NotifierInv, TypeOK
<1>5. mem'.out >= rung.n /\ mem'.outAt = rung.at /\ mem'.next >= NotBefore(rung)
  <2>1. CASE scan.written
    <3>1. Fresh(scan)
      BY <1>1, <2>1 DEF Fresh
    <3>2. rung.at = scan.now /\ mem.out + 1 >= rung.n
      BY <1>2, <3>1 DEF Kept
    <3>3. rung.n \in Nat /\ mem.out + 1 \in Nat /\ rung.n <= mem.out + 1 /\ rung.at \in Nat
      BY <1>4, <3>2, RungNumbers
    <3>4. /\ Delay(RetryAfter, rung.n) \in Nat /\ Delay(RetryAfter, mem.out + 1) \in Nat
          /\ Delay(RetryAfter, rung.n) <= Delay(RetryAfter, mem.out + 1)
      BY <3>3, DelayGrows
    <3> QED
      BY <1>1, <2>1, <3>2, <3>3, <3>4 DEF NotBefore
  <2>2. CASE ~scan.written
    <3>1. ~Fresh(scan)
      BY <2>2 DEF Fresh
    <3>2. mem.out >= rung.n /\ mem.outAt = rung.at /\ scan.now >= NotBefore(rung)
      BY <1>1, <1>2, <3>1 DEF Kept
    <3>3. scan.now \in Nat /\ NotBefore(rung) \in Nat /\ Delay(Backoff, mem.index) \in Nat
      BY <1>4, RungNumbers, DelayType
    <3> QED
      BY <1>1, <2>2, <3>2, <3>3
  <2> QED
    BY <2>1, <2>2
<1>6. Kept(J, drained, rung, scan', mem')
  BY <1>2, <1>3, <1>5 DEF Kept, Counted
<1> QED
  BY <1>2, <1>6 DEF J

\* The other steps add no frame; a crash that loses one is why it is forgotten.
LEMMA CrashKeeps ==
    ASSUME NotifierInv, Scheduled, Crash
    PROVE  Scheduled'
<1>1. /\ scan' = [NoScan EXCEPT !.at = "down"] /\ mem' = None
      /\ rung' = [rung EXCEPT !.forgot =
                    IF scan.at = "journal" /\ scan.written THEN @ \cup {"no journal"} ELSE @]
      /\ UNCHANGED <<mail, disk>>
  BY Zenon DEF Crash
<1>2. journal' = journal /\ drained' = drained
  BY <1>1 DEF mail, disk
<1>3. scan'.at = "down"
  BY <1>1 DEF NoScan
<1>4. ~Written(scan') /\ ~Fresh(scan') /\ scan'.at \notin {"write", "journal", "note"}
  BY <1>3 DEF Written, Fresh
<1>5. rung \in Frame
  <2>1. rung \in [to : Proc \cup {None}, n : Nat, at : 0..now,
                  forgot : SUBSET {"no owner", "no journal"}]
    BY Zenon DEF NotifierInv, TypeOK
  <2>2. 0..now \subseteq Nat
    OBVIOUS
  <2> QED
    BY <2>1, <2>2 DEF Frame
<1>6. CASE Written(scan)
  <2>1. rung' = [rung EXCEPT !.forgot = @ \cup {"no journal"}]
    BY <1>1, <1>6 DEF Written
  <2>2. rung'.forgot # {}
    BY <1>5, <2>1 DEF Frame
  <2>3. ~Owing(drained', rung')
    BY <2>2 DEF Owing
  <2> QED
    BY <2>3, ScheduledIs
<1>7. CASE ~Written(scan)
  <2>1. rung' = rung
    BY <1>1, <1>5, <1>7 DEF Written, Frame
  <2> SUFFICES ASSUME Owing(drained, rung)
               PROVE  rung.to \in Proc /\ Kept(journal[Of[rung.to]], drained, rung, scan', mem')
    BY <1>2, <2>1, ScheduledIs
  <2> DEFINE J == journal[Of[rung.to]]
  <2>2. rung.to \in Proc /\ Kept(J, drained, rung, scan, mem)
    BY ScheduledIs
  <2> HIDE DEF J
  <2>3. Kept(J, drained, rung, scan', mem')
    BY <1>1, <1>4, <1>7, <2>2 DEF Kept, Counted
  <2> QED
    BY <2>2, <2>3 DEF J
<1> QED
  BY <1>6, <1>7

LEMMA StampKeeps ==
    ASSUME NotifierInv, Stamp
    PROVE  Scheduled'
<1>1. drained' = [at |-> now, token |-> drained.token + 1] /\ rung' = rung
  BY Zenon DEF Stamp
<1>2. drained'.at >= rung'.at
  BY <1>1, RungNumbers
<1>3. ~Owing(drained', rung')
  BY <1>2 DEF Owing
<1> QED
  BY <1>3, ScheduledIs

LEMMA ObserveKeeps ==
    ASSUME NotifierInv, Scheduled, Observe
    PROVE  Scheduled'
<1>1. /\ UNCHANGED <<drained, journal, scan>> /\ mem' \in State
      /\ rung' = [rung EXCEPT !.forgot = IF mem = None THEN @ \cup {"no owner"} ELSE @]
      /\ mem # None => mem'.out = mem.out /\ mem'.outAt = mem.outAt /\ mem'.next = mem.next
      /\ scan.at = "idle"
  BY ObserveEffect
<1>2. rung \in Frame
  <2>1. rung \in [to : Proc \cup {None}, n : Nat, at : 0..now,
                  forgot : SUBSET {"no owner", "no journal"}]
    BY Zenon DEF NotifierInv, TypeOK
  <2>2. 0..now \subseteq Nat
    OBVIOUS
  <2> QED
    BY <2>1, <2>2 DEF Frame
<1>3. CASE mem = None
  <2>1. rung' = [rung EXCEPT !.forgot = @ \cup {"no owner"}]
    BY <1>1, <1>3
  <2>2. rung'.forgot # {}
    BY <1>2, <2>1 DEF Frame
  <2>3. ~Owing(drained', rung')
    BY <2>2 DEF Owing
  <2> QED
    BY <2>3, ScheduledIs
<1>4. CASE mem # None
  <2>1. rung' = rung
    BY <1>1, <1>2, <1>4 DEF Frame
  <2> SUFFICES ASSUME Owing(drained, rung)
               PROVE  rung.to \in Proc /\ Kept(journal[Of[rung.to]], drained, rung, scan, mem')
    BY <1>1, <2>1, ScheduledIs
  <2> DEFINE J == journal[Of[rung.to]]
  <2>2. rung.to \in Proc /\ Kept(J, drained, rung, scan, mem)
    BY ScheduledIs
  <2> HIDE DEF J
  <2>3. ~Fresh(scan)
    BY <1>1 DEF Fresh
  <2>4. Kept(J, drained, rung, scan, mem')
    BY <1>1, <1>4, <2>2, <2>3 DEF Kept
  <2> QED
    BY <2>2, <2>4 DEF J
<1> QED
  BY <1>3, <1>4

\* A step that leaves the frames alone leaves the schedule alone.
LEMMA QuietKeeps ==
    ASSUME NotifierInv, Scheduled, UNCHANGED <<drained, journal, rung>>,
           Written(scan') <=> Written(scan), Fresh(scan') <=> Fresh(scan),
           Fresh(scan) => scan' = scan /\ mem' = mem,
           mem' \in {mem, None}, scan'.at \in {"write", "journal", "note"} =>
             scan.at \in {"write", "journal", "note"} /\ scan'.now = scan.now
    PROVE  Scheduled'
<1> SUFFICES ASSUME Owing(drained, rung)
             PROVE  rung.to \in Proc /\ Kept(journal[Of[rung.to]], drained, rung, scan', mem')
  BY ScheduledIs
<1> DEFINE J == journal[Of[rung.to]]
<1>1. rung.to \in Proc /\ Kept(J, drained, rung, scan, mem)
  BY ScheduledIs
<1> HIDE DEF J
<1>2. Counted(J, drained, rung, scan')
  BY <1>1 DEF Kept, Counted
<1>3. CASE Fresh(scan)
  BY <1>1, <1>2, <1>3 DEF J
<1>4. CASE ~Fresh(scan)
  <2>1. Kept(J, drained, rung, scan', mem')
    BY <1>1, <1>2, <1>4 DEF Kept
  <2> QED
    BY <1>1, <2>1 DEF J
<1> QED
  BY <1>3, <1>4

LEMMA ScheduledStep ==
    ASSUME Lengthening, NotifierInv, Scheduled, Next
    PROVE  Scheduled'
<1>1. CASE Decide
  BY <1>1, DecideKeeps
<1>2. CASE Ring
  BY <1>2, RingKeeps
<1>3. CASE Journal
  BY <1>3, JournalKeeps
<1>4. CASE Note
  BY <1>4, NoteKeeps
<1>5. CASE Crash
  BY <1>5, CrashKeeps
<1>6. CASE Stamp
  BY <1>6, StampKeeps
<1>7. CASE Observe
  BY <1>7, ObserveKeeps
<1>8. CASE Fail
  <2>1. /\ scan.at = "write" /\ scan' = [scan EXCEPT !.at = "journal"]
        /\ UNCHANGED <<mail, disk, mem, rung>>
    BY <1>8, Zenon DEF Fail
  <2>2. UNCHANGED <<drained, journal, rung>> /\ mem' = mem
    BY <2>1 DEF mail, disk
  <2>3. scan'.at = "journal" /\ scan'.now = scan.now /\ scan'.written = scan.written
        /\ ~scan.written
    BY <2>1 DEF NotifierInv, TypeOK, AtWork
  <2>4. ~Written(scan') /\ ~Written(scan) /\ ~Fresh(scan) /\ ~Fresh(scan')
    BY <2>3 DEF Written, Fresh
  <2> QED
    BY <2>1, <2>2, <2>3, <2>4, QuietKeeps
<1>9. CASE Skip
  <2>1. /\ scan.at = "write" /\ scan' = NoScan /\ mem' \in {mem, None}
        /\ UNCHANGED <<mail, disk, rung>>
    BY <1>9, Zenon DEF Skip
  <2>2. UNCHANGED <<drained, journal, rung>>
    BY <2>1 DEF mail, disk
  <2>3. /\ ~Written(scan') /\ ~Written(scan) /\ ~Fresh(scan) /\ ~Fresh(scan')
        /\ scan'.at = "idle"
    BY <2>1 DEF Written, Fresh, NoScan
  <2> QED
    BY <2>1, <2>2, <2>3, QuietKeeps
<1>10. CASE Restart
  <2>1. /\ scan.at = "down" /\ scan' = NoScan /\ UNCHANGED <<mail, disk, mem, rung>>
    BY <1>10, Zenon DEF Restart
  <2>2. UNCHANGED <<drained, journal, rung>> /\ mem' = mem
    BY <2>1 DEF mail, disk
  <2>3. /\ ~Written(scan') /\ ~Written(scan) /\ ~Fresh(scan) /\ ~Fresh(scan')
        /\ scan'.at = "idle"
    BY <2>1 DEF Written, Fresh, NoScan
  <2> QED
    BY <2>2, <2>3, QuietKeeps
<1>11. CASE ScanEmpty
  <2>1. /\ scan.at = "idle" /\ mem' = None /\ UNCHANGED <<mail, disk, scan, rung>>
    BY <1>11, Zenon DEF ScanEmpty
  <2>2. UNCHANGED <<drained, journal, rung, scan>>
    BY <2>1 DEF mail, disk
  <2>3. ~Written(scan) /\ ~Fresh(scan)
    BY <2>1 DEF Written, Fresh
  <2> QED
    BY <2>1, <2>2, <2>3, QuietKeeps
<1>12. CASE UNCHANGED <<drained, journal, rung, mem, scan>>
  BY <1>12, QuietKeeps
<1> QED
  BY <1>1, <1>2, <1>3, <1>4, <1>5, <1>6, <1>7, <1>8, <1>9, <1>10, <1>11, <1>12,
     DrainedSteps, JournalSteps, RungSteps, MemSteps, ScanSteps

LEMMA ScheduledAlways ==
    ASSUME Lengthening
    PROVE  Spec => [](NotifierInv /\ Scheduled)
<1>1. Init => NotifierInv /\ Scheduled
  <2> SUFFICES ASSUME Init PROVE NotifierInv /\ Scheduled
    OBVIOUS
  <2>1. rung = NoRung
    BY Zenon DEF Init
  <2> QED
    BY <2>1, NotifierInit DEF Scheduled, Outstanding, NoRung
<1>2. (NotifierInv /\ Scheduled) /\ [Next]_vars => (NotifierInv /\ Scheduled)'
  <2> SUFFICES ASSUME NotifierInv, Scheduled, [Next]_vars PROVE NotifierInv' /\ Scheduled'
    OBVIOUS
  <2>1. CASE Next
    BY <2>1, NotifierNext, ScheduledStep
  <2>2. CASE UNCHANGED vars
    <3>1. UNCHANGED <<now, mail, session, disk, mem, scan, scanned, faults, rung, quiet>>
      BY <2>2, Zenon DEF vars
    <3>2. UNCHANGED <<drained, journal, rung, mem, scan>>
      BY <3>1 DEF mail, disk
    <3> QED
      BY <2>2, <3>2, NotifierNext, QuietKeeps
  <2> QED
    BY <2>1, <2>2
<1> QED
  BY <1>1, <1>2, PTL DEF Spec

(* Whatever arrives, however often the notifier restarts and whoever takes  *)
(* the lease, a process with unread frames is not rung again before their   *)
(* schedule allows -- unless a frame never got into the journal, or the     *)
(* memory was made while nobody owned the identity.                         *)
THEOREM RingsArePaced ==
    ASSUME Lengthening
    PROVE  Spec => Paced
<1>1. NotifierInv /\ Scheduled /\ [Next]_vars => [Early => rung.forgot # {}]_vars
  <2> SUFFICES ASSUME NotifierInv, Scheduled, [Next]_vars, Early, rung.forgot = {}
               PROVE  FALSE
    BY Zenon
  <2>1. /\ scan.at = "write" /\ scan'.written /\ rung.to = scan.target /\ rung.n > 0
        /\ ~DrainedSince(rung.at) /\ rung'.at < rung.at + Delay(RetryAfter, rung.n)
    BY Zenon DEF Early
  <2>2. ~scan.written
    BY <2>1 DEF NotifierInv, AtWork
  <2>3. Ring
    <3>1. CASE UNCHANGED scan
      BY <2>1, <2>2, <3>1
    <3>2. CASE Decide
      BY <2>1, <3>2, DecideEffect
    <3>3. CASE Skip \/ Note \/ Restart
      <4>1. scan' = NoScan
        BY <3>3, Zenon DEF Skip, Note, Restart
      <4> QED
        BY <2>1, <4>1 DEF NoScan
    <3>4. CASE Crash
      <4>1. scan' = [NoScan EXCEPT !.at = "down"]
        BY <3>4, Zenon DEF Crash
      <4> QED
        BY <2>1, <4>1 DEF NoScan
    <3>5. CASE Fail
      <4>1. scan' = [scan EXCEPT !.at = "journal"]
        BY <3>5, Zenon DEF Fail
      <4> QED
        BY <2>1, <2>2, <4>1 DEF NotifierInv, TypeOK
    <3>6. CASE Journal
      BY <2>1, <3>6, JournalEffect
    <3>7. CASE UNCHANGED vars
      BY <3>1, <3>7, Zenon DEF vars
    <3> QED
      BY <3>1, <3>2, <3>3, <3>4, <3>5, <3>6, <3>7, ScanSteps
  <2>4. rung'.at = scan.now
    BY <2>3, Zenon DEF Ring
  <2>5. Outstanding /\ Working /\ ~Unnoted
    BY <2>1 DEF Outstanding, Working, Unnoted
  <2>6. scan.now >= Due
    BY <2>5, Zenon DEF Scheduled
  <2>7. Due \in Nat /\ scan.now \in Nat
    BY RungNumbers DEF Due, NotBefore
  <2> QED
    BY <2>1, <2>4, <2>6, <2>7 DEF Due
<1> QED
  BY <1>1, ScheduledAlways, PTL DEF Spec, Paced

-----------------------------------------------------------------------------
(* The wait of a ready owner *)

(* The delays after a failure and the delays of a repeat never get shorter; *)
(* the longest pause after a failure is at least a second and no longer     *)
(* than the longest wait for an unread frame.  The schedules of             *)
(* conduit.go:269 and :298 end with 320 minutes and with 30 seconds.        *)
Schedules ==
    /\ \A a, b \in DOMAIN Backoff : a <= b => Backoff[a] <= Backoff[b]
    /\ Lengthening
    /\ 0 < Longest(Backoff) /\ Longest(Backoff) <= Longest(RetryAfter)
    /\ 1 < Longest(RetryAfter)

\* What makes Prompt inductive, for quiet seconds that began at Since.
WaitInv == Undisturbed /\ Accounted /\ Foreseeable /\ Scanned /\ Prompt

\* No delay is longer than the last of its schedule.
LEMMA LongestDelay ==
    ASSUME Schedules, NEW n \in Nat
    PROVE  /\ Longest(Backoff) \in Nat /\ Longest(RetryAfter) \in Nat
           /\ Backoff[1] \in Nat /\ Backoff[1] <= Longest(Backoff)
           /\ Delay(Backoff, n) \in Nat /\ Delay(Backoff, n) <= Longest(Backoff)
           /\ Delay(RetryAfter, n) \in Nat /\ Delay(RetryAfter, n) <= Longest(RetryAfter)
<1>1. /\ Backoff \in Seq(Nat) /\ Len(Backoff) \in Nat /\ Len(Backoff) > 0
      /\ DOMAIN Backoff = 1..Len(Backoff)
  BY NotifierAssumption
<1>2. /\ RetryAfter \in Seq(Nat \ {0}) /\ Len(RetryAfter) \in Nat /\ Len(RetryAfter) > 0
      /\ DOMAIN RetryAfter = 1..Len(RetryAfter)
  BY NotifierAssumption
<1> DEFINE x == DelayIndex(n, Len(Backoff))
           y == DelayIndex(n, Len(RetryAfter))
<1>3. /\ x \in DOMAIN Backoff /\ 1 \in DOMAIN Backoff /\ Len(Backoff) \in DOMAIN Backoff
      /\ x <= Len(Backoff) /\ 1 <= Len(Backoff)
  BY <1>1 DEF DelayIndex
<1>4. y \in DOMAIN RetryAfter /\ Len(RetryAfter) \in DOMAIN RetryAfter /\ y <= Len(RetryAfter)
  BY <1>2 DEF DelayIndex
<1> HIDE DEF x, y
<1>5. /\ Backoff[x] \in Nat /\ Backoff[Len(Backoff)] \in Nat /\ Backoff[1] \in Nat
      /\ Backoff[x] <= Backoff[Len(Backoff)] /\ Backoff[1] <= Backoff[Len(Backoff)]
  BY <1>1, <1>3 DEF Schedules
<1>6. /\ RetryAfter[y] \in Nat /\ RetryAfter[Len(RetryAfter)] \in Nat
      /\ RetryAfter[y] <= RetryAfter[Len(RetryAfter)]
  BY <1>2, <1>4 DEF Schedules, Lengthening
<1> QED
  BY <1>5, <1>6 DEF Delay, Longest, x, y

\* A pause is over, or measured from the last attempt.
LEMMA PausedUntil ==
    ASSUME TypeOK, NEW m \in State
    PROVE  Paused(m) <= now \/ Paused(m) <= m.last + Backoff[1]
<1>1. now \in Nat /\ m.last \in Nat /\ Backoff[1] \in Nat
  <2>1. now \in 1..MaxNow
    BY DEF TypeOK
  <2>2. m.last \in 0..MaxNow
    BY DEF State
  <2>3. 0 \in Nat
    OBVIOUS
  <2>4. Backoff[1] \in Nat
    BY <2>3, DelayType, Zenon
  <2> QED
    BY <2>1, <2>2, <2>4
<1>2. m.last + Backoff[1] \in Nat
  BY <1>1
<1> DEFINE S == {now, m.last + Backoff[1]}
<1>3. S \in SUBSET Nat /\ S # {} /\ \A x \in S : x <= now + (m.last + Backoff[1])
  BY <1>1, <1>2
<1>4. now + (m.last + Backoff[1]) \in Nat
  BY <1>1, <1>2
<1>5. Max(S) \in S
  <2> HIDE DEF S
  <2> QED
    BY <1>3, <1>4, MaxOf
<1>6. Max(S) <= now \/ Max(S) <= m.last + Backoff[1]
  BY <1>1, <1>2, <1>5
<1> QED
  BY <1>1, <1>6 DEF Paused

\* The times of a wait
LEMMA WaitType ==
    ASSUME NotifierInv, Undisturbed
    PROVE  /\ now \in Nat /\ quiet \in Nat /\ quiet < now /\ Since \in Nat /\ Since <= now
           /\ Since + quiet = now /\ drained.at \in Nat /\ drained.at <= now
           /\ drained.token \in Nat /\ (quiet = 0 => Since = now)
<1>1. now \in 1..MaxNow /\ quiet \in Nat /\ drained \in [at : 0..now, token : 0..MaxDrains]
  BY DEF NotifierInv, TypeOK
<1>2. drained.at \in 0..now /\ drained.token \in 0..MaxDrains /\ quiet < now
  BY <1>1 DEF Undisturbed
<1> QED
  BY <1>1, <1>2, Constants DEF Since

\* The memory of a new notifier: its last attempt is before the wait, and the
\* next is no further than a schedule is long.
LEMMA RestoredWaits ==
    ASSUME Schedules, NotifierInv, Undisturbed, NEW i \in Inst, NEW digest \in SUBSET Letter
    PROVE  LET r == Restored(i, digest) IN
           /\ r.last <= Since
           /\ r.out > 0 => WrittenAt(i, r.outAt) /\ drained.at <= r.outAt
           /\ \/ r.next <= Since + Longest(Backoff)
              \/ r.out > 0 /\ r.next <= Since + Longest(RetryAfter)
<1> DEFINE J == journal[i]
           r == Restored(i, digest)
<1>1. TypeOK /\ Past
  BY DEF NotifierInv
<1>2. /\ Len(J) \in Nat /\ DOMAIN J = 1..Len(J) /\ (J = <<>> <=> Len(J) = 0)
      /\ \A k \in DOMAIN J : J[k].at \in 1..MaxNow /\ J[k].written \in BOOLEAN /\ J[k].index \in Nat
  BY <1>1, JournalType
<1>3. \A k \in DOMAIN J : J[k].at <= Since
  BY DEF Undisturbed
<1>4. Since \in Nat /\ drained.at \in Nat /\ Longest(Backoff) \in Nat /\ Longest(RetryAfter) \in Nat
  BY WaitType, LongestDelay
<1>5. /\ r \in State
      /\ r.out > 0 => Max(Unread(i)) \in Unread(i) /\ r.outAt = J[Max(Unread(i))].at
      /\ r.last = IF J = <<>> THEN 0 ELSE J[Len(J)].at
      /\ r.next = IF J = <<>> THEN 0
                  ELSE IF ~J[Len(J)].written /\ (r.lastWritten = 0 \/ J[Len(J)].at > r.lastWritten)
                  THEN J[Len(J)].at + Delay(Backoff, J[Len(J)].index)
                  ELSE IF r.out > 0 THEN r.outAt + Delay(RetryAfter, r.out) ELSE 0
  BY <1>1, RestoredType
<1>6. ASSUME r.out > 0
      PROVE  WrittenAt(i, r.outAt) /\ drained.at <= r.outAt /\ r.outAt <= Since /\ r.outAt \in Nat
  <2> DEFINE k == Max(Unread(i))
  <2>1. k \in Unread(i) /\ r.outAt = J[k].at
    BY <1>5, <1>6
  <2> HIDE DEF k
  <2>2. k \in DOMAIN J /\ J[k].written /\ ~(drained.at >= J[k].at)
    BY <2>1 DEF Unread, DrainedSince
  <2>3. J[k].at \in Nat /\ J[k].at <= Since
    BY <1>2, <1>3, <2>2
  <2> HIDE DEF r
  <2> QED
    BY <1>4, <2>1, <2>2, <2>3 DEF WrittenAt
<1>7. r.out \in Nat
  BY <1>5, StateFields
<1> HIDE DEF r, J
<1> DEFINE Goal == /\ r.last <= Since
                   /\ \/ r.next <= Since + Longest(Backoff)
                      \/ r.out > 0 /\ r.next <= Since + Longest(RetryAfter)
<1>8. ASSUME J = <<>> PROVE Goal
  BY <1>4, <1>5, <1>8
<1>9. ASSUME J # <<>> PROVE Goal
  <2> DEFINE e == J[Len(J)]
  <2>1. e.at \in Nat /\ e.at <= Since /\ e.index \in Nat
    <3>1. Len(J) \in DOMAIN J
      BY <1>2, <1>9
    <3> QED
      BY <1>2, <1>3, <3>1 DEF J
  <2>2. /\ Delay(Backoff, e.index) \in Nat /\ Delay(Backoff, e.index) <= Longest(Backoff)
        /\ Delay(RetryAfter, r.out) \in Nat /\ Delay(RetryAfter, r.out) <= Longest(RetryAfter)
    BY <1>7, <2>1, LongestDelay
  <2>3. /\ r.last = e.at
        /\ \/ r.next = e.at + Delay(Backoff, e.index)
           \/ r.out > 0 /\ r.next = r.outAt + Delay(RetryAfter, r.out)
           \/ r.next = 0
    BY <1>5, <1>9
  <2> HIDE DEF e
  <2> QED
    BY <1>4, <1>6, <2>1, <2>2, <2>3
<1> QED
  BY <1>6, <1>8, <1>9 DEF r

\* The memory a scan leaves knows the last drain, and either it is time, or the
\* next attempt is no further than a schedule is long, or the turn stamp holds it.
LEMMA DecideWaits ==
    ASSUME Schedules, NotifierInv, Undisturbed, Accounted, Foreseeable, Decide
    PROVE  /\ UNCHANGED <<now, inbox, reading, drained, turn, owner, ready, journal, quiet>>
           /\ scan.at = "idle" /\ scanned' /\ owner \in Proc
           /\ mem' \in State /\ mem'.target = owner /\ mem'.token = drained.token
           /\ mem'.last <= Since
           /\ mem'.out > 0 => WrittenAt(Of[owner], mem'.outAt) /\ drained.at <= mem'.outAt
           /\ \/ mem'.next <= now
              \/ mem'.next <= Since + Longest(Backoff)
              \/ mem'.out > 0 /\ mem'.next <= Since + Longest(RetryAfter)
           /\ mem # None /\ mem'.out > 0 => mem.out > 0 /\ mem.outAt = mem'.outAt
           /\ \/ scan'.at = "write" /\ scan'.now = now
              \/ UNCHANGED scan /\ (mem'.next > now \/ (mem'.out > 0 /\ NoTurnSince(mem'.outAt)))
<1> DEFINE start == IF mem = None THEN Restored(Of[owner], Pending) ELSE Aimed(mem, owner)
           s == [start EXCEPT !.target = owner]
           c == Consumed(s)
           m == Renewed(c, Pending)
           i == Of[owner]
           Near(x) == \/ x.next <= now
                      \/ x.next <= Since + Longest(Backoff)
                      \/ x.out > 0 /\ x.next <= Since + Longest(RetryAfter)
           Sound(x) == /\ x.last <= Since /\ Near(x)
                       /\ x.out > 0 => /\ WrittenAt(i, x.outAt)
                                       /\ x.token = drained.token => drained.at <= x.outAt
           Old(x) == mem # None /\ x.out > 0 => mem.out > 0 /\ mem.outAt = x.outAt
           Good(x) == /\ x \in State /\ x.target = owner /\ Sound(x) /\ Old(x)
<1>1. TypeOK /\ Past /\ AtWork
  BY DEF NotifierInv
<1>2. owner \in Proc /\ i \in Inst /\ Pending \in SUBSET Letter
  <2>1. owner # None /\ owner \in Proc \cup {None}
    BY <1>1, Zenon DEF Decide, TypeOK
  <2>2. Pending \in SUBSET Letter
    BY <1>1 DEF TypeOK, Pending
  <2> QED
    BY <2>1, <2>2, Constants
<1>3. /\ now \in Nat /\ Since \in Nat /\ Since <= now /\ drained.at \in Nat /\ drained.at <= now
      /\ Longest(Backoff) \in Nat /\ Longest(RetryAfter) \in Nat
      /\ Backoff[1] \in Nat /\ Backoff[1] <= Longest(Backoff)
  BY WaitType, LongestDelay
<1>4. /\ \/ /\ now >= m.next /\ ~Held(m) /\ mem' = [m EXCEPT !.index = @ + 1]
            /\ scan' = [at |-> "write", target |-> owner, ready |-> ready,
                        digest |-> Pending, now |-> now, written |-> FALSE]
         \/ ~(now >= m.next /\ ~Held(m)) /\ mem' = m /\ UNCHANGED scan
      /\ scan.at = "idle" /\ scanned' = TRUE
      /\ UNCHANGED <<now, mail, session, native, journal, faults, quiet>>
  BY Zenon DEF Decide
<1>5. UNCHANGED <<now, inbox, reading, drained, turn, owner, ready, journal, quiet>>
  BY <1>4 DEF mail, session
<1> HIDE DEF Near
<1>6. ASSUME NEW x \in State, NEW y \in State, y.next = x.next, y.out = x.out
      PROVE  Near(x) => Near(y)
  BY <1>6 DEF Near
<1>7. ASSUME NEW x \in State, x.last <= Since, x.next <= x.last + Backoff[1] \/ x.next <= now
      PROVE  Near(x)
  <2>1. x.last \in Nat /\ x.next \in Nat
    BY StateFields, Constants
  <2> QED
    BY <1>3, <1>7, <2>1 DEF Near
<1>8. ASSUME mem = None
      PROVE  Good(s)
  <2> DEFINE r == Restored(i, Pending)
  <2>1. /\ r.last <= Since /\ Near(r)
        /\ r.out > 0 => WrittenAt(i, r.outAt) /\ drained.at <= r.outAt
    BY <1>2, RestoredWaits DEF Near
  <2>2. r \in State
    BY <1>1, <1>2, RestoredType
  <2> HIDE DEF r, i
  <2>3. s = [r EXCEPT !.target = owner]
    BY <1>8 DEF r, i
  <2> HIDE DEF s
  <2>4. /\ s \in State /\ s.target = owner /\ s.token = r.token
        /\ s.out = r.out /\ s.outAt = r.outAt /\ s.next = r.next /\ s.last = r.last
    BY <1>2, <2>2, <2>3 DEF State
  <2> QED
    BY <1>6, <1>8, <2>1, <2>2, <2>4
<1>9. ASSUME mem # None
      PROVE  Good(s)
  <2>1. mem \in State
    BY <1>1, <1>9 DEF TypeOK
  <2>2. /\ mem.last <= Since /\ Near(mem)
        /\ mem.out > 0 => /\ mem.target # None /\ WrittenAt(Of[mem.target], mem.outAt)
                          /\ mem.token = drained.token => drained.at <= mem.outAt
    BY <1>9 DEF Undisturbed, Accounted, Foreseeable, Near
  <2> DEFINE a == Aimed(mem, owner)
  <2>3. /\ a \in State /\ a.target = owner /\ a.last = mem.last /\ a.token = mem.token
        /\ IF mem.target \in {None, owner}
           THEN a.out = mem.out /\ a.outAt = mem.outAt /\ a.next = mem.next
           ELSE a.out = 0 /\ a.outAt = 0 /\ a.next = Paused(mem)
    BY <1>1, <1>2, <2>1, AimedType
  <2>4. s = [a EXCEPT !.target = owner]
    BY <1>9
  <2>5. Paused(mem) <= now \/ Paused(mem) <= mem.last + Backoff[1]
    BY <1>1, <2>1, PausedUntil
  <2> HIDE DEF a, s, i
  <2>6. s \in State /\ s.target = owner /\ s.last = a.last
        /\ s.token = a.token /\ s.out = a.out /\ s.outAt = a.outAt /\ s.next = a.next
    BY <1>2, <2>3, <2>4 DEF State
  <2>7. Near(s)
    <3>1. CASE mem.target \in {None, owner}
      BY <1>6, <2>1, <2>2, <2>3, <2>6, <3>1
    <3>2. CASE mem.target \notin {None, owner}
      BY <1>7, <2>2, <2>3, <2>5, <2>6, <3>2
    <3> QED
      BY <3>1, <3>2
  <2>8. s.out > 0 => s.out = mem.out /\ s.outAt = mem.outAt /\ mem.target \in {None, owner}
    BY <2>3, <2>6
  <2> QED
    BY <2>2, <2>3, <2>6, <2>7, <2>8 DEF i
<1>10. Good(s)
  BY <1>8, <1>9
<1>11. Good(c) /\ c.token = drained.token
  <2>1. /\ c \in State /\ c.target = s.target /\ c.last = s.last
        /\ c.token = drained.token
        /\ IF Answered(s) THEN c.out = 0 /\ c.outAt = 0 /\ c.next = now
           ELSE c.out = s.out /\ c.outAt = s.outAt /\ c.next = s.next
    BY <1>1, <1>10, ConsumedType
  <2> HIDE DEF c, s, i
  <2>2. Near(c)
    <3>1. CASE Answered(s)
      BY <1>3, <2>1, <3>1 DEF Near
    <3>2. CASE ~Answered(s)
      BY <1>6, <1>10, <2>1, <3>2
    <3> QED
      BY <3>1, <3>2
  <2>3. c.out > 0 => /\ c.out = s.out /\ c.outAt = s.outAt
                     /\ s.token = drained.token \/ ~(drained.at >= s.outAt)
    BY <2>1 DEF Answered, DrainedSince
  <2>4. s.outAt \in Nat
    <3>1. s \in State
      BY <1>10
    <3> QED
      BY <3>1, StateFields, Constants
  <2>5. c.out > 0 => drained.at <= c.outAt
    BY <1>3, <1>10, <2>3, <2>4
  <2> QED
    BY <1>10, <2>1, <2>2, <2>3, <2>5
<1>12. Good(m) /\ m.token = drained.token
  <2>1. /\ m \in State /\ m.target = c.target /\ m.last = c.last /\ m.token = c.token
        /\ m.out = c.out /\ m.outAt = c.outAt
        /\ m.next \in {c.next, Paused(c)}
    BY <1>1, <1>2, <1>11, RenewedType
  <2>2. Paused(c) <= now \/ Paused(c) <= c.last + Backoff[1]
    BY <1>1, <1>11, PausedUntil
  <2> HIDE DEF m, c, s, i
  <2>3. Near(m)
    <3>1. CASE m.next = c.next
      BY <1>6, <1>11, <2>1, <3>1
    <3>2. CASE m.next = Paused(c)
      BY <1>7, <1>11, <2>1, <2>2, <3>2
    <3> QED
      BY <2>1, <3>1, <3>2
  <2> QED
    BY <1>11, <2>1, <2>3
<1> HIDE DEF m, c, s, i
<1>13. /\ mem' \in State /\ mem'.target = owner /\ mem'.last = m.last /\ mem'.out = m.out
       /\ mem'.outAt = m.outAt /\ mem'.next = m.next /\ mem'.token = m.token
  <2> DEFINE n == [m EXCEPT !.index = @ + 1]
  <2>1. m \in State /\ m.index \in Nat
    BY <1>12, StateFields
  <2>2. /\ n \in State /\ n.target = m.target /\ n.last = m.last /\ n.out = m.out
        /\ n.outAt = m.outAt /\ n.next = m.next /\ n.token = m.token
    BY <2>1 DEF State
  <2>3. mem' = n \/ mem' = m
    BY <1>4
  <2> HIDE DEF n
  <2> QED
    BY <1>12, <2>1, <2>2, <2>3
<1>14. Near(mem')
  BY <1>6, <1>12, <1>13
<1>15. \/ scan'.at = "write" /\ scan'.now = now
       \/ UNCHANGED scan /\ (mem'.next > now \/ (mem'.out > 0 /\ NoTurnSince(mem'.outAt)))
  <2>1. CASE scan'.at = "write" /\ scan'.now = now
    BY <2>1
  <2>2. CASE ~(now >= m.next /\ ~Held(m)) /\ UNCHANGED scan
    <3>1. m.next \in Nat
      BY <1>12, StateFields
    <3>2. m.next > now \/ Held(m)
      BY <1>3, <2>2, <3>1
    <3> QED
      BY <1>13, <2>2, <3>2 DEF Held
  <2> QED
    BY <1>4, <2>1, <2>2
<1> QED
  BY <1>2, <1>4, <1>5, <1>12, <1>13, <1>14, <1>15 DEF Near, i

\* A second of waiting is added only by the clock; everything else ends the wait
\* or is not noticed by it.
LEMMA QuietSteps ==
    ASSUME Next
    PROVE  \/ quiet' = 0
           \/ Tick /\ Waits /\ quiet' = quiet + 1
           \/ /\ UNCHANGED <<quiet, now>>
              /\ \/ (\E l \in Letter : Arrive(l)) /\ inbox # {}
                 \/ DrainKilled \/ Turn \/ ScanEmpty \/ Observe \/ Decide \/ Skip \/ Journal
                 \/ Note \/ Restart
<1>1. CASE Tick
  BY <1>1, Zenon DEF Tick
<1>2. ASSUME NEW l \in Letter, Arrive(l)
      PROVE  quiet' = 0 \/ (UNCHANGED <<quiet, now>> /\ inbox # {})
  BY <1>2 DEF Arrive
<1>3. (\E set \in {inbox, {}} : Drain(set)) \/ Stamp \/ Verify
         \/ (\E p \in Proc \cup {None} : Move(p))
         \/ Ring \/ Fail \/ Crash => quiet' = 0
  BY Zenon DEF Drain, Stamp, Verify, Move, Ring, Fail, Crash
<1>4. DrainKilled \/ Turn \/ ScanEmpty \/ Observe \/ Decide \/ Skip \/ Journal \/ Note \/ Restart
         => UNCHANGED <<quiet, now>>
  <2>1. DrainKilled \/ Turn \/ ScanEmpty \/ Observe \/ Decide \/ Skip \/ Journal \/ Note \/ Restart
         => UNCHANGED quiet /\ UNCHANGED now
    BY Zenon DEF DrainKilled, Turn, ScanEmpty, Observe, Decide, Skip, Journal, Note, Restart
  <2> QED
    BY <2>1
<1> QED
  BY <1>1, <1>2, <1>3, <1>4, Zenon DEF Next, Notify

\* The start of the wait never moves back.
LEMMA SinceGrows ==
    ASSUME NotifierInv, NotifierInv', Undisturbed, Next
    PROVE  /\ Since' \in Nat /\ Since <= Since' /\ quiet' < now' /\ now <= now'
           /\ now' \in Nat /\ Since' + quiet' = now'
           /\ (quiet' = 0 => Since' = now')
<1> DEFINE n == now'
           q == quiet'
           b == Since'
<1>1. /\ now \in Nat /\ quiet \in Nat /\ quiet < now /\ Since \in Nat /\ Since <= now
      /\ Since + quiet = now
  BY WaitType
<1>2. n \in Nat /\ now <= n /\ q \in Nat
  BY NowGrows DEF NotifierInv, TypeOK
<1>3. b = n - q
  BY DEF Since
<1>4. q = 0 \/ (n = now + 1 /\ q = quiet + 1) \/ (q = quiet /\ n = now)
  <2>1. Tick => now' = now + 1
    BY Zenon DEF Tick
  <2> QED
    BY <2>1, QuietSteps
<1> HIDE DEF n, q, b
<1>5. b \in Nat /\ Since <= b /\ q < n /\ b + q = n /\ (q = 0 => b = n)
  BY <1>1, <1>2, <1>3, <1>4
<1> QED
  BY <1>2, <1>5 DEF n, q, b

\* While a wait goes on, only the clock, the scan, letters and turns move.
LEMMA WaitSteps ==
    ASSUME NotifierInv, Undisturbed, Next, quiet' > 0
    PROVE  \/ /\ Waits /\ quiet' = quiet + 1 /\ now' = now + 1 /\ scanned /\ scanned' = FALSE
              /\ UNCHANGED <<inbox, reading, drained, turn, owner, ready, journal, mem, scan>>
           \/ /\ quiet > 0 /\ inbox' # {} /\ ~reading /\ owner # None /\ ready
              /\ UNCHANGED <<quiet, now, owner, ready, reading, drained, journal>>
              /\ \/ turn' \in {turn, now} /\ UNCHANGED <<mem, scan, scanned>>
                 \/ Decide
                 \/ UNCHANGED <<turn, mem>> /\ scan' = NoScan /\ scanned' = FALSE
<1>1. CASE Tick /\ Waits /\ quiet' = quiet + 1
  <2>1. /\ now' = now + 1 /\ scanned' = FALSE /\ (scan.at = "down" \/ scanned)
        /\ UNCHANGED <<mail, session, disk, mem, scan>>
    BY <1>1, Zenon DEF Tick
  <2>2. scan.at = "idle"
    BY <1>1, Zenon DEF Waits
  <2>3. scanned
    BY <2>1, <2>2
  <2> QED
    BY <1>1, <2>1, <2>3 DEF mail, session, disk
<1>2. ASSUME UNCHANGED <<quiet, now>>
      PROVE  /\ quiet > 0 /\ owner # None /\ ready /\ inbox # {} /\ ~reading
             /\ scan.at \in {"idle", "write"}
  BY <1>2, Zenon DEF Undisturbed
<1>3. ASSUME UNCHANGED <<quiet, now>>, NEW l \in Letter, Arrive(l)
      PROVE  /\ inbox' # {} /\ turn' = turn
             /\ UNCHANGED <<owner, ready, reading, drained, journal, mem, scan, scanned>>
  <2>1. /\ inbox' = inbox \cup {l} /\ UNCHANGED <<reading, drained, turn>>
        /\ UNCHANGED <<session, disk, mem, scan, scanned>>
    BY <1>3 DEF Arrive
  <2> QED
    BY <2>1 DEF session, disk
<1>4. ASSUME UNCHANGED <<quiet, now>>, Turn
      PROVE  /\ turn' = now
             /\ UNCHANGED <<inbox, owner, ready, reading, drained, journal, mem, scan, scanned>>
  <2>1. turn' = now /\ UNCHANGED <<inbox, reading, drained, owner, ready, disk, mem, scan, scanned>>
    BY <1>4 DEF Turn
  <2> QED
    BY <2>1 DEF disk
<1>5. ASSUME UNCHANGED <<quiet, now>>, Decide
      PROVE  UNCHANGED <<inbox, owner, ready, reading, drained, journal>>
  BY <1>5, DecideEffect
<1>6. ASSUME UNCHANGED <<quiet, now>>, Skip
      PROVE  /\ scan' = NoScan /\ scanned' = FALSE
             /\ UNCHANGED <<inbox, owner, ready, reading, drained, turn, journal, mem>>
  <2>1. /\ scan' = NoScan /\ scanned' = FALSE /\ UNCHANGED <<mail, session, disk>>
        /\ (Pending # {} => mem' = mem)
    BY <1>6 DEF Skip
  <2> QED
    BY <1>2, <1>6, <2>1 DEF mail, session, disk, Pending
<1>7. /\ DrainKilled => reading
      /\ ScanEmpty => inbox = {}
      /\ Observe => owner = None
      /\ Journal => scan.at = "journal"
      /\ Note => scan.at = "note"
      /\ Restart => scan.at = "down"
  BY Zenon DEF DrainKilled, ScanEmpty, Observe, Journal, Note, Restart, Pending
<1>8. quiet' # 0
  <2> DEFINE q == quiet'
  <2>1. q > 0
    OBVIOUS
  <2> HIDE DEF q
  <2>2. q # 0
    BY <2>1
  <2> QED
    BY <2>2 DEF q
<1>9. CASE UNCHANGED <<quiet, now>> /\ (\E l \in Letter : Arrive(l))
  BY <1>2, <1>3, <1>9
<1>10. CASE UNCHANGED <<quiet, now>> /\ Turn
  BY <1>2, <1>4, <1>10
<1>11. CASE UNCHANGED <<quiet, now>> /\ Decide
  BY <1>2, <1>5, <1>11
<1>12. CASE UNCHANGED <<quiet, now>> /\ Skip
  BY <1>2, <1>6, <1>12
<1>13. ASSUME UNCHANGED <<quiet, now>>
       PROVE ~(DrainKilled \/ ScanEmpty \/ Observe \/ Journal \/ Note \/ Restart)
  BY <1>2, <1>7, <1>13
<1> QED
  BY <1>1, <1>8, <1>9, <1>10, <1>11, <1>12, <1>13, QuietSteps, Zenon

\* What the memory holds
LEMMA MemFields ==
    ASSUME TypeOK, mem # None
    PROVE  /\ mem \in State /\ mem.last \in Nat /\ mem.out \in Nat /\ mem.outAt \in Nat
           /\ mem.next \in Nat /\ mem.token \in Nat /\ mem.target \in Proc \cup {None}
<1>1. mem \in State
  BY DEF TypeOK
<1> QED
  BY <1>1, StateFields, Constants

\* Whoever attempts something, reads the inbox or takes the lease ends the wait.
LEMMA UndisturbedStep ==
    ASSUME Schedules, NotifierInv, NotifierInv', Undisturbed, Accounted, Foreseeable, Next
    PROVE  Undisturbed'
<1>1. /\ Since' \in Nat /\ Since \in Nat /\ Since <= Since' /\ quiet' < now'
      /\ (quiet' = 0 => Since' = now') /\ now \in Nat /\ now' \in Nat /\ now <= now'
      /\ quiet \in Nat /\ quiet' \in Nat
  BY SinceGrows, WaitType DEF NotifierInv, TypeOK
<1>2. ASSUME quiet' > 0
      PROVE  owner' # None /\ ready' /\ inbox' # {} /\ ~reading' /\ scan'.at \in {"idle", "write"}
  <2>1. CASE Waits /\ UNCHANGED <<inbox, reading, owner, ready, scan>>
    BY <2>1 DEF Waits
  <2>2. CASE /\ quiet > 0 /\ inbox' # {} /\ ~reading /\ owner # None /\ ready
             /\ UNCHANGED <<owner, ready, reading>>
             /\ (UNCHANGED scan \/ Decide \/ scan' = NoScan)
    <3>1. scan.at \in {"idle", "write"}
      BY <2>2, Zenon DEF Undisturbed
    <3>2. scan'.at \in {"idle", "write"}
      <4>1. Decide => scan'.at \in {"idle", "write"}
        BY <3>1, DecideWaits
      <4> QED
        BY <2>2, <3>1, <4>1 DEF NoScan
    <3> QED
      BY <2>2, <3>2
  <2> QED
    BY <1>2, <2>1, <2>2, WaitSteps
<1>3. ASSUME scan.at \in {"journal", "note"}
      PROVE  quiet = 0
  BY <1>1, <1>3 DEF Undisturbed
<1>4. \A i \in Inst : \A k \in DOMAIN journal'[i] : journal'[i][k].at <= Since'
  <2>1. CASE UNCHANGED journal
    <3> SUFFICES ASSUME NEW i \in Inst, NEW k \in DOMAIN journal[i]
                 PROVE  journal[i][k].at <= Since'
      BY <2>1
    <3>1. journal[i][k].at <= Since /\ journal[i][k].at \in Nat
      BY JournalType, Constants DEF Undisturbed, NotifierInv
    <3> QED
      BY <1>1, <3>1
  <2>2. CASE Journal
    <3>1. scan.at = "journal" /\ UNCHANGED <<quiet, now>>
      BY <2>2, JournalEffect
    <3>2. Since' = now' /\ now' = now
      BY <1>1, <1>3, <3>1
    <3>3. \A i \in Inst : \A k \in DOMAIN journal'[i] : journal'[i][k].at <= now'
      BY DEF NotifierInv, Past
    <3> QED
      BY <3>2, <3>3
  <2> QED
    BY <2>1, <2>2, JournalSteps
<1>6. mem # None => mem.last <= Since /\ mem.last \in Nat
  BY MemFields DEF Undisturbed, NotifierInv
<1>5. mem' # None => mem'.last <= Since'
  <2>1. CASE UNCHANGED mem
    BY <1>1, <1>6, <2>1
  <2>2. CASE Observe
    <3>1. mem'.last = IF mem = None THEN 0 ELSE mem.last
      BY <2>2, ObserveEffect
    <3> QED
      BY <1>1, <1>6, <3>1
  <2>3. CASE Decide
    <3>1. mem'.last <= Since /\ mem' \in State
      BY <2>3, DecideWaits
    <3>2. mem'.last \in Nat
      BY <3>1, StateFields, Constants
    <3> QED
      BY <1>1, <3>1, <3>2
  <2>4. CASE Note
    <3>1. scan.at = "note" /\ UNCHANGED <<quiet, now>>
      BY <2>4, NoteEffect
    <3>2. Since' = now'
      BY <1>1, <1>3, <3>1
    <3> QED
      BY <3>2 DEF NotifierInv, Past
  <2>5. CASE ScanEmpty \/ Skip \/ Crash
    <3>1. mem' = None \/ mem' = mem
      BY <2>5, Zenon DEF ScanEmpty, Skip, Crash
    <3> QED
      BY <2>1, <3>1
  <2> QED
    BY <2>1, <2>2, <2>3, <2>4, <2>5, MemSteps
<1> QED
  BY <1>1, <1>2, <1>4, <1>5 DEF Undisturbed

\* A journal keeps its frames.
LEMMA FramesStay ==
    ASSUME NotifierInv, Next, NEW i \in Inst, NEW t, WrittenAt(i, t)
    PROVE  \E k \in DOMAIN journal'[i] : journal'[i][k].written /\ journal'[i][k].at = t
<1>1. CASE UNCHANGED journal
  BY <1>1 DEF WrittenAt
<1>2. CASE Journal
  <2>1. PICK e \in Attempt :
           journal' = [journal EXCEPT ![Of[scan.target]] = Append(journal[Of[scan.target]], e)]
    BY <1>2, JournalEffect
  <2>2. /\ journal[i] \in Seq(Attempt) /\ Len(journal[i]) \in Nat
        /\ DOMAIN journal[i] = 1..Len(journal[i])
    BY JournalType DEF NotifierInv
  <2>3. journal'[i] = journal[i] \/ journal'[i] = Append(journal[i], e)
    BY <2>1 DEF NotifierInv, TypeOK
  <2>4. PICK k \in DOMAIN journal[i] : journal[i][k].written /\ journal[i][k].at = t
    BY DEF WrittenAt
  <2>5. k \in DOMAIN journal'[i] /\ journal'[i][k] = journal[i][k]
    BY <2>2, <2>3, <2>4
  <2> QED
    BY <2>4, <2>5
<1> QED
  BY <1>1, <1>2, JournalSteps

\* A frame in hand is journalled under its time before the memory counts it.
LEMMA AccountedStep ==
    ASSUME Schedules, NotifierInv, NotifierInv', Undisturbed, Accounted, Foreseeable, Next
    PROVE  Accounted'
<1>1. /\ now \in Nat /\ drained.at \in Nat /\ drained.at <= now /\ drained.token \in Nat
  BY WaitType
<1>2. \/ UNCHANGED drained
      \/ /\ Stamp /\ drained' = [at |-> now, token |-> drained.token + 1]
         /\ UNCHANGED <<mem, scan, journal>>
  <2>1. Stamp => /\ drained' = [at |-> now, token |-> drained.token + 1]
                 /\ UNCHANGED <<mem, scan, disk>>
    BY Zenon DEF Stamp
  <2> QED
    BY <2>1, DrainedSteps DEF disk
<1>3. drained'.token \in Nat /\ drained.token <= drained'.token
  BY <1>1, <1>2
<1>4. mem # None => mem.token \in Nat /\ mem.token <= drained.token
  BY MemFields DEF Accounted, NotifierInv
<1>5. mem' # None => mem'.token <= drained'.token
  <2>1. CASE mem' = mem \/ mem' = None
    BY <1>1, <1>3, <1>4, <2>1
  <2>2. CASE Observe
    <3>1. UNCHANGED drained /\ mem'.token = IF mem = None THEN 0 ELSE mem.token
      BY <2>2, ObserveEffect
    <3> QED
      BY <1>1, <1>4, <3>1
  <2>3. CASE Decide
    BY <1>1, <2>3, DecideWaits
  <2>4. CASE Note
    BY <1>1, <1>4, <2>4, NoteEffect
  <2>5. ScanEmpty \/ Skip \/ Crash => mem' = None \/ mem' = mem
    BY Zenon DEF ScanEmpty, Skip, Crash
  <2> QED
    BY <2>1, <2>2, <2>3, <2>4, <2>5, MemSteps
<1> DEFINE Known(i, t) == \E k \in DOMAIN journal'[i] :
                             journal'[i][k].written /\ journal'[i][k].at = t
<1>6. \A i \in Inst : \A t : WrittenAt(i, t) => Known(i, t)
  BY FramesStay
<1>7. \A p \in Proc : Of[p] \in Inst
  BY Constants
<1>8. scan'.at = "note" /\ scan'.written => Known(Of[scan'.target], scan'.now)
  <2>1. CASE UNCHANGED scan
    <3> SUFFICES ASSUME scan.at = "note", scan.written PROVE Known(Of[scan.target], scan.now)
      BY <2>1
    <3>1. scan.target \in Proc
      BY DEF NotifierInv, AtWork, Working
    <3>2. WrittenAt(Of[scan.target], scan.now)
      BY Zenon DEF Accounted
    <3> HIDE DEF Known
    <3> QED
      BY <1>6, <1>7, <3>1, <3>2
  <2>2. CASE Journal
    <3>1. PICK e \in Attempt :
             /\ e.at = scan.now /\ e.written = scan.written /\ scan.target \in Proc
             /\ scan' = [scan EXCEPT !.at = "note"]
             /\ journal' = [journal EXCEPT ![Of[scan.target]] =
                              Append(journal[Of[scan.target]], e)]
      BY <2>2, JournalEffect
    <3> DEFINE i == Of[scan.target]
    <3>2. i \in Inst /\ journal[i] \in Seq(Attempt) /\ Len(journal[i]) \in Nat
      BY <1>7, <3>1, JournalType DEF NotifierInv
    <3>3. DOMAIN journal = Inst
      BY DEF NotifierInv, TypeOK
    <3> HIDE DEF i
    <3>4. journal'[i] = Append(journal[i], e)
      BY <3>1, <3>2, <3>3 DEF i
    <3>5. Len(journal[i]) + 1 \in DOMAIN journal'[i] /\ journal'[i][Len(journal[i]) + 1] = e
      BY <3>2, <3>4
    <3>6. scan'.target = scan.target /\ scan'.now = scan.now /\ scan'.written = scan.written
      BY <3>1 DEF NotifierInv, TypeOK
    <3> QED
      BY <3>1, <3>5, <3>6 DEF i
  <2>3. CASE Decide
    BY <2>1, <2>3, DecideWaits
  <2>4. CASE Skip \/ Note \/ Restart \/ Crash
    <3>1. scan' = NoScan \/ scan' = [NoScan EXCEPT !.at = "down"]
      BY <2>4, Zenon DEF Skip, Note, Restart, Crash
    <3> QED
      BY <3>1 DEF NoScan
  <2>5. CASE Ring \/ Fail
    <3>1. \/ scan' = [scan EXCEPT !.at = "journal"]
          \/ scan' = [scan EXCEPT !.at = "journal", !.written = TRUE]
      BY <2>5, Zenon DEF Ring, Fail
    <3>2. scan'.at = "journal"
      <4>1. scan \in [at : {"down", "idle", "write", "journal", "note"}, target : Proc \cup {None},
                      ready : BOOLEAN, digest : SUBSET Letter, now : 0..now, written : BOOLEAN]
        BY Zenon DEF NotifierInv, TypeOK
      <4> QED
        BY <3>1, <4>1
    <3> QED
      BY <3>2
  <2> QED
    BY <2>1, <2>2, <2>3, <2>4, <2>5, ScanSteps
<1> HIDE DEF Known
<1>9. ASSUME mem' # None, mem'.out > 0
      PROVE  /\ mem'.target # None /\ Known(Of[mem'.target], mem'.outAt)
             /\ mem'.token = drained'.token => drained'.at <= mem'.outAt
  <2>1. ASSUME mem # None, mem.out > 0
        PROVE  /\ mem.target # None /\ Known(Of[mem.target], mem.outAt)
               /\ mem.token = drained.token => drained.at <= mem.outAt
    <3>1. /\ mem.target # None /\ WrittenAt(Of[mem.target], mem.outAt)
          /\ mem.token = drained.token => drained.at <= mem.outAt
      BY <2>1, Zenon DEF Accounted
    <3>2. mem.target \in Proc
      BY <2>1, <3>1, MemFields DEF NotifierInv
    <3> QED
      BY <1>6, <1>7, <3>1, <3>2
  <2>2. CASE mem' = mem
    <3>1. CASE UNCHANGED drained
      BY <1>9, <2>1, <2>2, <3>1
    <3>2. CASE drained' = [at |-> now, token |-> drained.token + 1]
      <4>1. mem'.token # drained'.token
        BY <1>1, <1>4, <1>9, <2>2, <3>2
      <4> QED
        BY <1>9, <2>1, <2>2, <4>1
    <3> QED
      BY <1>2, <3>1, <3>2
  <2>3. CASE Observe
    <3>1. /\ UNCHANGED drained
          /\ IF mem = None THEN mem'.out = 0
             ELSE /\ mem'.target = mem.target /\ mem'.out = mem.out /\ mem'.outAt = mem.outAt
                  /\ mem'.token = mem.token
      BY <2>3, ObserveEffect
    <3> QED
      BY <1>9, <2>1, <3>1
  <2>4. CASE Decide
    <3>1. /\ UNCHANGED drained /\ owner \in Proc /\ mem'.target = owner
          /\ WrittenAt(Of[owner], mem'.outAt) /\ drained.at <= mem'.outAt
      BY <1>9, <2>4, DecideWaits
    <3>2. owner # None
      BY <3>1, Constants
    <3> QED
      BY <1>6, <1>7, <3>1, <3>2
  <2>5. CASE Note
    <3>1. /\ UNCHANGED drained /\ scan.at = "note" /\ mem # None /\ mem'.target = mem.target
          /\ mem'.token = mem.token
          /\ IF scan.written THEN mem'.outAt = scan.now
             ELSE mem'.out = mem.out /\ mem'.outAt = mem.outAt
      BY <2>5, NoteEffect
    <3>2. CASE scan.written
      <4>1. Working
        BY <3>1 DEF Working
      <4>2. mem.target = scan.target /\ scan.target \in Proc
        BY <4>1, Zenon DEF NotifierInv, AtWork
      <4>3. WrittenAt(Of[scan.target], scan.now)
        BY <3>1, <3>2, Zenon DEF Accounted
      <4>4. mem.token = drained.token => drained.at <= scan.now
        BY <3>1, <4>1, Zenon DEF Accounted
      <4>5. Known(Of[scan.target], scan.now) /\ scan.target # None
        BY <1>6, <1>7, <4>2, <4>3, Constants
      <4> QED
        BY <3>1, <3>2, <4>2, <4>4, <4>5
    <3>3. CASE ~scan.written
      BY <1>9, <2>1, <3>1, <3>3
    <3> QED
      BY <3>2, <3>3
  <2>6. ScanEmpty \/ Skip \/ Crash => mem' = None \/ mem' = mem
    BY Zenon DEF ScanEmpty, Skip, Crash
  <2> QED
    BY <1>9, <2>2, <2>3, <2>4, <2>5, <2>6, MemSteps
<1>10. ASSUME mem' # None, Working', mem'.token = drained'.token
       PROVE  drained'.at <= scan'.now
  <2>1. scan'.at \in {"write", "journal", "note"}
    BY <1>10 DEF Working
  <2>2. CASE Decide
    <3>1. CASE scan'.now = now
      BY <1>1, <2>2, <3>1, DecideEffect
    <3>2. CASE UNCHANGED scan /\ scan.at = "idle"
      BY <2>1, <3>2
    <3> QED
      BY <2>2, <3>1, <3>2, DecideWaits
  <2>3. ~(Note \/ Skip \/ Crash \/ Restart)
    <3>1. Note \/ Skip \/ Crash \/ Restart =>
            scan' = NoScan \/ scan' = [NoScan EXCEPT !.at = "down"]
      BY Zenon DEF Note, Skip, Crash, Restart
    <3> QED
      BY <2>1, <3>1 DEF NoScan
  <2>4. CASE ~Decide
    <3>1. scan \in [at : {"down", "idle", "write", "journal", "note"}, target : Proc \cup {None},
                    ready : BOOLEAN, digest : SUBSET Letter, now : 0..now, written : BOOLEAN]
      BY Zenon DEF NotifierInv, TypeOK
    <3>2. \/ UNCHANGED scan
          \/ /\ scan.at \in {"write", "journal"}
             /\ \/ scan' = [scan EXCEPT !.at = "journal"]
                \/ scan' = [scan EXCEPT !.at = "journal", !.written = TRUE]
                \/ scan' = [scan EXCEPT !.at = "note"]
      <4>1. Ring \/ Fail \/ Journal =>
              /\ scan.at \in {"write", "journal"}
              /\ \/ scan' = [scan EXCEPT !.at = "journal"]
                 \/ scan' = [scan EXCEPT !.at = "journal", !.written = TRUE]
                 \/ scan' = [scan EXCEPT !.at = "note"]
        BY DEF Ring, Fail, Journal
      <4> QED
        BY <2>3, <2>4, <4>1, ScanSteps
    <3>3. Working /\ scan'.now = scan.now
      BY <2>1, <3>1, <3>2 DEF Working
    <3>4. UNCHANGED mem
      <4>1. Observe \/ ScanEmpty => scan.at = "idle"
        BY Zenon DEF Observe, ScanEmpty
      <4>2. scan.at # "idle"
        BY <3>3 DEF Working
      <4> QED
        BY <2>3, <2>4, <4>1, <4>2, MemSteps
    <3>5. drained' = drained
      <4>1. CASE drained' = [at |-> now, token |-> drained.token + 1]
        BY <1>1, <1>4, <1>10, <3>4, <4>1
      <4> QED
        BY <1>2, <4>1
    <3>6. mem # None /\ mem.token = drained.token
      BY <1>10, <3>4, <3>5
    <3>7. drained.at <= scan.now
      BY <3>3, <3>6, Zenon DEF Accounted
    <3> QED
      BY <3>3, <3>5, <3>7
  <2> QED
    BY <2>2, <2>4
<1> QED
  BY <1>5, <1>8, <1>9, <1>10, Zenon DEF Accounted, Known, WrittenAt

\* Every schedule is counted from an attempt, and attempts end the wait.
LEMMA ForeseeableStep ==
    ASSUME Schedules, NotifierInv, NotifierInv', Undisturbed, Accounted, Foreseeable, Next
    PROVE  Foreseeable'
<1> DEFINE b == Since'
           n == now'
           LB == Longest(Backoff)
           LR == Longest(RetryAfter)
           Near(x) == \/ x.next <= n
                      \/ x.next <= b + LB
                      \/ x.out > 0 /\ x.next <= b + LR
<1>1. /\ b \in Nat /\ Since \in Nat /\ Since <= b /\ now \in Nat /\ n \in Nat /\ now <= n
      /\ LB \in Nat /\ LR \in Nat
  BY SinceGrows, WaitType, LongestDelay
<1>2. ASSUME NEW x \in State,
             \/ x.next <= now
             \/ x.next <= Since + LB
             \/ x.out > 0 /\ x.next <= Since + LR
      PROVE  Near(x)
  <2>1. x.next \in Nat
    BY StateFields
  <2> HIDE DEF b, n, LB, LR
  <2> QED
    BY <1>1, <1>2, <2>1
<1>3. mem # None => mem \in State /\ Near(mem)
  <2> SUFFICES ASSUME mem # None PROVE mem \in State /\ Near(mem)
    OBVIOUS
  <2>1. mem \in State
    BY MemFields DEF NotifierInv
  <2> HIDE DEF Near
  <2> QED
    BY <1>2, <2>1 DEF Foreseeable
<1>4. mem' # None => Near(mem')
  <2>1. CASE mem' = mem \/ mem' = None
    <3> HIDE DEF Near
    <3> QED
      BY <1>3, <2>1
  <2>2. CASE Observe
    <3>1. mem' \in State /\ IF mem = None THEN mem'.next = 0
                            ELSE mem'.next = mem.next /\ mem'.out = mem.out
      BY <2>2, ObserveEffect
    <3> HIDE DEF b, n, LB, LR
    <3> QED
      BY <1>1, <1>3, <3>1
  <2>3. CASE Decide
    <3>1. /\ mem' \in State
          /\ \/ mem'.next <= now
             \/ mem'.next <= Since + LB
             \/ mem'.out > 0 /\ mem'.next <= Since + LR
      BY <2>3, DecideWaits
    <3> HIDE DEF Near
    <3> QED
      BY <1>2, <3>1
  <2>4. CASE Note
    <3>1. /\ scan.at = "note" /\ UNCHANGED <<now, quiet>>
          /\ IF scan.written
             THEN mem'.out = mem.out + 1 /\ mem'.next = scan.now + Delay(RetryAfter, mem.out + 1)
             ELSE mem'.next = scan.now + Delay(Backoff, mem.index)
          /\ mem # None
      BY <2>4, NoteEffect
    <3>2. quiet = 0
      BY <3>1, WaitType DEF Undisturbed
    <3>3. b = now
      BY <3>1, <3>2, SinceGrows
    <3>4. scan.now \in Nat /\ scan.now <= now
      <4>1. scan.now \in 0..now
        BY DEF NotifierInv, TypeOK
      <4> QED
        BY <1>1, <4>1
    <3>5. mem.out \in Nat /\ mem.index \in Nat /\ mem.out + 1 \in Nat
      BY <3>1, MemFields, StateFields DEF NotifierInv
    <3>6. /\ Delay(RetryAfter, mem.out + 1) \in Nat /\ Delay(RetryAfter, mem.out + 1) <= LR
          /\ Delay(Backoff, mem.index) \in Nat /\ Delay(Backoff, mem.index) <= LB
      BY <3>5, LongestDelay
    <3> HIDE DEF b, n, LB, LR
    <3> QED
      BY <1>1, <3>1, <3>3, <3>4, <3>5, <3>6
  <2>5. ScanEmpty \/ Skip \/ Crash => mem' = None \/ mem' = mem
    BY Zenon DEF ScanEmpty, Skip, Crash
  <2> QED
    BY <2>1, <2>2, <2>3, <2>4, <2>5, MemSteps
<1> QED
  BY <1>4 DEF Foreseeable

\* A scan that leaves it at that has a reason, and the turn stamp is one only at
\* the start of a wait.
LEMMA ScannedStep ==
    ASSUME Schedules, NotifierInv, NotifierInv', Undisturbed, Accounted, Foreseeable, Scanned, Next
    PROVE  Scanned'
<1> DEFINE Reason(t) == \/ mem'.next > now'
                        \/ mem'.out > 0 /\ t # None /\ t < mem'.outAt
                        \/ quiet' = 1 /\ mem'.out > 0
           HeldBy(t) == mem' = None \/ (mem'.out > 0 /\ t # None /\ t < mem'.outAt)
<1>1. SUFFICES ASSUME quiet' > 0
               PROVE  /\ scanned' /\ scan'.at = "idle" =>
                           /\ mem' # None /\ mem'.target = owner' /\ mem'.token = drained'.token
                           /\ Reason(turn')
                      /\ HeldBy(turn') => quiet' = 1
  BY DEF Scanned, Held, NoTurnSince
<1>2. now \in Nat /\ quiet \in Nat
  BY WaitType
<1>3. quiet > 0 /\ scanned /\ scan.at = "idle" =>
         /\ mem # None /\ mem.target = owner /\ mem.token = drained.token
         /\ \/ mem.next > now
            \/ mem.out > 0 /\ turn # None /\ turn < mem.outAt
            \/ quiet = 1 /\ mem.out > 0
  BY DEF Scanned, Held, NoTurnSince
<1>4. quiet > 0 /\ (mem = None \/ (mem.out > 0 /\ turn # None /\ turn < mem.outAt)) => quiet = 1
  BY DEF Scanned, Held, NoTurnSince
<1>5. CASE /\ Waits /\ quiet' = quiet + 1 /\ scanned /\ scanned' = FALSE
           /\ UNCHANGED <<turn, owner, drained, mem, scan>>
  <2>1. scan.at = "idle" /\ (mem # None => ~(mem.out > 0 /\ turn # None /\ turn < mem.outAt))
    BY <1>5 DEF Waits, Held, NoTurnSince
  <2>2. HeldBy(turn') => mem = None
    BY <1>5, <2>1
  <2>3. mem = None => ~(quiet > 0)
    BY <1>3, <1>5, <2>1
  <2>4. mem = None => quiet = 0
    BY <1>2, <2>3
  <2> HIDE DEF HeldBy, Reason
  <2>5. HeldBy(turn') => quiet' = 1
    BY <1>5, <2>2, <2>4
  <2> QED
    BY <1>5, <2>5
<1>6. CASE /\ quiet > 0 /\ UNCHANGED <<quiet, now, owner, drained, mem, scan, scanned>>
           /\ turn' \in {turn, now}
  <2>1. mem # None => mem.outAt \in Nat /\ mem.outAt <= now
    BY MemFields DEF NotifierInv, Past
  <2>2. mem # None => ~(now < mem.outAt)
    BY <1>2, <2>1
  <2>3. HeldBy(turn') => HeldBy(turn)
    BY <1>6, <2>2
  <2>4. HeldBy(turn) => quiet = 1
    BY <1>4, <1>6
  <2>5. scanned /\ scan.at = "idle" =>
          /\ mem # None /\ mem.target = owner /\ mem.token = drained.token
          /\ \/ mem.next > now \/ (quiet = 1 /\ mem.out > 0)
             \/ (mem.out > 0 /\ HeldBy(turn))
    BY <1>3, <1>6
  <2> HIDE DEF HeldBy
  <2>6. scanned /\ scan.at = "idle" =>
          /\ mem # None /\ mem.target = owner /\ mem.token = drained.token
          /\ mem.next > now \/ (quiet = 1 /\ mem.out > 0)
    BY <2>4, <2>5
  <2> QED
    BY <1>6, <2>3, <2>4, <2>6
<1>7. CASE quiet > 0 /\ Decide
  <2>1. /\ UNCHANGED <<now, drained, turn, owner, quiet>>
        /\ mem' \in State /\ mem'.target = owner /\ mem'.token = drained.token
        /\ mem # None /\ mem'.out > 0 => mem.out > 0 /\ mem.outAt = mem'.outAt
        /\ \/ scan'.at = "write"
           \/ mem'.next > now \/ (mem'.out > 0 /\ turn # None /\ turn < mem'.outAt)
    BY <1>7, DecideWaits DEF NoTurnSince
  <2>2. mem' # None
    BY <2>1, NoState
  <2>3. HeldBy(turn') => quiet' = 1
    BY <1>4, <1>7, <2>1, <2>2
  <2> HIDE DEF HeldBy
  <2> QED
    BY <2>1, <2>2, <2>3
<1>8. CASE /\ quiet > 0 /\ UNCHANGED <<quiet, turn, mem>> /\ scanned' = FALSE
  BY <1>4, <1>8
<1> HIDE DEF Reason, HeldBy
<1> QED
  BY <1>1, <1>5, <1>6, <1>7, <1>8, WaitSteps

\* No wait outlasts the schedule that it waits for.
LEMMA PromptStep ==
    ASSUME Schedules, NotifierInv, Undisturbed, Accounted, Foreseeable, Scanned, Prompt, Next,
           quiet' \in Nat
    PROVE  Prompt'
<1> DEFINE Repeat(d, J) == \E k \in DOMAIN J : J[k].written /\ d.at <= J[k].at
           LB == Longest(Backoff)
           LR == Longest(RetryAfter)
           Limit(d, J) == Longest(IF Repeat(d, J) THEN RetryAfter ELSE Backoff)
           q == quiet'
<1>1. LB \in Nat /\ LR \in Nat /\ 0 < LB /\ LB <= LR /\ 1 < LR
  BY LongestDelay DEF Schedules
<1>2. /\ now \in Nat /\ quiet \in Nat /\ quiet < now /\ Since \in Nat /\ Since + quiet = now
      /\ q \in Nat
  BY WaitType
<1>3. \A d, J : (Repeat(d, J) /\ Limit(d, J) = LR) \/ (~Repeat(d, J) /\ Limit(d, J) = LB)
  OBVIOUS
<1>4. Prompt <=> (owner # None => quiet <= Limit(drained, journal[Of[owner]]))
  BY DEF Prompt
<1>5. Prompt' <=> (owner' # None => q <= Limit(drained', journal'[Of[owner']]))
  BY DEF Prompt
<1> HIDE DEF Limit, LB, LR
<1>6. CASE ~(q > 0)
  <2>1. q = 0
    BY <1>2, <1>6
  <2> HIDE DEF Repeat, q
  <2> QED
    BY <1>1, <1>3, <1>5, <2>1
<1>7. CASE UNCHANGED <<quiet, owner, journal, drained>>
  BY <1>4, <1>5, <1>7
<1>8. CASE /\ Waits /\ quiet' = quiet + 1 /\ scanned
           /\ UNCHANGED <<drained, owner, journal>>
  <2>1. scan.at = "idle" /\ owner # None /\ (mem # None => ~Held(mem))
    BY <1>8 DEF Waits
  <2> DEFINE L == Limit(drained, journal[Of[owner]])
             R == Repeat(drained, journal[Of[owner]])
  <2>2. (R /\ L = LR) \/ (~R /\ L = LB)
    BY <1>3
  <2>3. CASE quiet = 0
    <3> HIDE DEF R, L, Repeat
    <3>1. quiet + 1 <= L
      BY <1>1, <2>2, <2>3
    <3> QED
      BY <1>5, <1>8, <3>1 DEF L
  <2>4. CASE quiet # 0
    <3>1. quiet > 0
      BY <1>2, <2>4
    <3>2. /\ mem # None /\ mem.target = owner /\ mem.token = drained.token
          /\ mem.next > now \/ (quiet = 1 /\ mem.out > 0)
      BY <1>8, <2>1, <3>1, Zenon DEF Scanned
    <3>3. mem.out > 0 => R
      <4>1. mem.out > 0 => WrittenAt(Of[mem.target], mem.outAt) /\ drained.at <= mem.outAt
        BY <3>2, Zenon DEF Accounted
      <4> QED
        BY <3>2, <4>1 DEF WrittenAt
    <3>4. mem.next \in Nat
      BY <3>2, MemFields DEF NotifierInv
    <3>5. \/ mem.next <= now
          \/ mem.next <= Since + LB
          \/ mem.out > 0 /\ mem.next <= Since + LR
      BY <3>2, Zenon DEF Foreseeable, LB, LR
    <3> HIDE DEF R, L, Repeat
    <3>6. quiet + 1 <= L
      BY <1>1, <1>2, <2>2, <3>2, <3>3, <3>4, <3>5
    <3> QED
      BY <1>5, <1>8, <3>6 DEF L
  <2> QED
    BY <2>3, <2>4
<1> QED
  BY <1>6, <1>7, <1>8, WaitSteps

LEMMA WaitAlways ==
    ASSUME Schedules
    PROVE  Spec => [](NotifierInv /\ WaitInv)
<1>1. Init => NotifierInv /\ WaitInv
  <2> SUFFICES ASSUME Init PROVE WaitInv
    BY NotifierInit
  <2>1. /\ now = 1 /\ quiet = 0 /\ mem = None /\ scan = NoScan /\ scanned = FALSE
        /\ journal = [i \in Inst |-> <<>>]
    BY Zenon DEF Init
  <2>2. Since = 1
    BY <2>1 DEF Since
  <2>3. Undisturbed
    BY <2>1, <2>2 DEF Undisturbed
  <2>4. Accounted /\ Foreseeable /\ Scanned
    BY <2>1 DEF Accounted, Foreseeable, Scanned, NoScan
  <2>5. Prompt
    <3>1. 0 \in Nat
      OBVIOUS
    <3>2. 0 <= Longest(Backoff) /\ 0 <= Longest(RetryAfter)
      BY <3>1, LongestDelay
    <3> QED
      BY <2>1, <3>2 DEF Prompt
  <2> QED
    BY <2>3, <2>4, <2>5 DEF WaitInv
<1>2. (NotifierInv /\ WaitInv) /\ [Next]_vars => (NotifierInv /\ WaitInv)'
  <2> SUFFICES ASSUME NotifierInv, WaitInv, [Next]_vars PROVE NotifierInv' /\ WaitInv'
    OBVIOUS
  <2>1. NotifierInv'
    BY NotifierNext
  <2>2. CASE Next
    <3>1. quiet' \in Nat
      BY <2>1 DEF NotifierInv, TypeOK
    <3> QED
      BY <2>1, <2>2, <3>1, UndisturbedStep, AccountedStep, ForeseeableStep, ScannedStep, PromptStep
         DEF WaitInv
  <2>3. CASE UNCHANGED vars
    <3>1. UNCHANGED <<now, mail, session, disk, mem, scan, scanned, faults, rung, quiet>>
      BY <2>3, Zenon DEF vars
    <3>2. UNCHANGED <<now, inbox, reading, drained, turn, owner, ready, journal, mem, scan,
                      scanned, quiet>>
      BY <3>1 DEF mail, session, disk
    <3>3. Undisturbed' /\ Foreseeable'
      BY <3>2 DEF WaitInv, Undisturbed, Foreseeable, Since
    <3>4. Accounted' /\ Scanned'
      BY <3>2 DEF WaitInv, Accounted, WrittenAt, Working, Scanned, Held, NoTurnSince
    <3>5. Prompt'
      BY <3>2 DEF WaitInv, Prompt
    <3> QED
      BY <2>1, <3>3, <3>4, <3>5 DEF WaitInv
  <2> QED
    BY <2>1, <2>2, <2>3
<1> QED
  BY <1>1, <1>2, PTL DEF Spec

(* A ready owner is not left waiting with letters in its inbox for longer   *)
(* than the longest pause after a failure or, while it has frames it has    *)
(* not answered with a drain, the longest wait before a repeat -- however   *)
(* letters, scans, turns, crashes and moves of the lease interleave.        *)
THEOREM OwnersAreRungPromptly ==
    ASSUME Schedules
    PROVE  Spec => []Prompt
<1>1. WaitInv => Prompt
  BY DEF WaitInv
<1> QED
  BY <1>1, WaitAlways, PTL
=============================================================================
