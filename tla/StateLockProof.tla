--------------------------- MODULE StateLockProof ---------------------------
(***************************************************************************)
(* Theorems about StateLock for any number of processes: its type          *)
(* invariant, and mutual exclusion when holders are prompt and nobody is   *)
(* killed.                                                                 *)
(***************************************************************************)
EXTENDS StateLock, TLAPS

USE LockAssumption DEF LockAssumption

\* At the start there is no lock directory and nobody is in acquire_lock.
LEMMA InitType == Init => TypeOK
<1> SUFFICES ASSUME Init PROVE TypeOK
  OBVIOUS
<1>1. dir \in BOOLEAN /\ owner = None
  BY Zenon DEF Init
<1>2. age \in 0..(StaleAfter + 1) /\ pc \in [Proc -> Pc]
  BY DEF Init, Pc
<1> QED
  BY <1>1, <1>2, Zenon DEF TypeOK

\* Whatever is killed or reclaimed, an owner file is in a lock directory.
LEMMA TypeStep == TypeOK /\ [Next]_vars => TypeOK'
<1> SUFFICES ASSUME TypeOK, [Next]_vars PROVE TypeOK'
  OBVIOUS
<1>1. CASE UNCHANGED vars
  BY <1>1 DEF vars, TypeOK
<1>2. CASE Tick
  BY <1>2 DEF Tick, TypeOK
<1>3. ASSUME NEW p \in Proc, Start(p) \/ Mkdir(p) \/ WriteOwner(p)
      PROVE  TypeOK'
  <2>1. dir' \in BOOLEAN
    BY <1>3, Zenon DEF Start, Mkdir, WriteOwner, TypeOK
  <2>2. pc' \in [Proc -> Pc]
    BY <1>3 DEF Start, Mkdir, WriteOwner, Goto, TypeOK, Pc
  <2>3. owner' \in Proc \cup {None} /\ (~dir' => owner' = None)
    BY <1>3, Zenon DEF Start, Mkdir, WriteOwner, TypeOK
  <2>4. age' = age \/ age' = 0
    BY <1>3, Zenon DEF Start, Mkdir, WriteOwner
  <2>5. age' \in 0..(StaleAfter + 1)
    BY <2>4 DEF TypeOK
  <2> QED
    BY <2>1, <2>2, <2>3, <2>5, Zenon DEF TypeOK
<1>4. ASSUME NEW p \in Proc, Undo(p) \/ Inspect(p)
      PROVE  TypeOK'
  BY <1>4 DEF Undo, Inspect, Goto, TypeOK, Pc
<1>5. ASSUME NEW p \in Proc, ReclaimOwner(p) \/ ReclaimDir(p)
      PROVE  TypeOK'
  BY <1>5 DEF ReclaimOwner, ReclaimDir, Goto, TypeOK, Pc
<1>6. ASSUME NEW p \in Proc, ReleaseCheck(p) \/ ReleaseOwner(p) \/ ReleaseDir(p)
      PROVE  TypeOK'
  BY <1>6 DEF ReleaseCheck, ReleaseOwner, ReleaseDir, Goto, TypeOK, Pc
<1>7. ASSUME NEW p \in Proc, Crash(p)
      PROVE  TypeOK'
  BY <1>7 DEF Crash, TypeOK, Pc
<1> QED
  BY <1>1, <1>2, <1>3, <1>4, <1>5, <1>6, <1>7 DEF Next, Step

\* For any number of processes, deaths and slow holders: the lock directory
\* keeps its shape, and rmdir never takes one that holds an owner file.
THEOREM LockTypeCorrect == Spec => []TypeOK
<1>1. Init => TypeOK
  BY InitType
<1> QED
  BY <1>1, TypeStep, PTL DEF Spec

-----------------------------------------------------------------------------
(* Mutual exclusion *)

\* Between its mkdir and its rmdir a process is inside the lock.
Inside(p) == pc[p] \in {"made", "hold", "unown", "unlink"}

\* The directory is there just while one process is inside, the owner file just
\* while that process has work to do, never long enough to look stale; so nobody
\* is reclaiming.
InsideInv ==
    /\ \A p \in Proc : pc[p] \in {"idle", "try", "look"} \/ Inside(p)
    /\ \A p, q \in Proc : Inside(p) /\ Inside(q) => p = q
    /\ dir <=> \E p \in Proc : Inside(p)
    /\ \A p \in Proc : pc[p] \in {"hold", "unown"} <=> owner = p
    /\ owner # None => age <= StaleAfter

\* A prompt holder's owner file never becomes stale, so nobody but the process
\* inside touches the directory.
LEMMA InsideStep ==
    ASSUME Prompt, CrashAt = {}, TypeOK, InsideInv, [Next]_vars
    PROVE  InsideInv'
<1>1. CASE UNCHANGED vars
  BY <1>1 DEF vars, InsideInv, Inside
<1>2. CASE Tick
  <2>1. owner \in Busy
    BY <1>2 DEF Tick, Busy, InsideInv, TypeOK
  <2>2. age' <= StaleAfter
    BY <1>2, <2>1 DEF Tick, TypeOK
  <2> QED
    BY <1>2, <2>2 DEF Tick, InsideInv, Inside
<1>3. ASSUME NEW p \in Proc, Start(p) \/ Mkdir(p)
      PROVE  InsideInv'
  BY <1>3 DEF Start, Mkdir, Goto, InsideInv, Inside, TypeOK
<1>4. ASSUME NEW p \in Proc, WriteOwner(p)
      PROVE  InsideInv'
  BY <1>4 DEF WriteOwner, Goto, InsideInv, Inside, TypeOK
<1>5. ASSUME NEW p \in Proc, Inspect(p)
      PROVE  InsideInv'
  <2>1. ~Stale
    BY DEF Stale, InsideInv, TypeOK
  <2> QED
    BY <1>5, <2>1 DEF Inspect, Goto, InsideInv, Inside, TypeOK
<1>6. ASSUME NEW p \in Proc, Undo(p) \/ ReclaimOwner(p) \/ ReclaimDir(p)
      PROVE  FALSE
  BY <1>6 DEF Undo, ReclaimOwner, ReclaimDir, Goto, InsideInv, Inside
<1>7. ASSUME NEW p \in Proc, ReleaseCheck(p)
      PROVE  InsideInv'
  BY <1>7 DEF ReleaseCheck, Goto, InsideInv, Inside, TypeOK
<1>8. ASSUME NEW p \in Proc, ReleaseOwner(p)
      PROVE  InsideInv'
  BY <1>8 DEF ReleaseOwner, Goto, InsideInv, Inside, TypeOK
<1>9. ASSUME NEW p \in Proc, ReleaseDir(p)
      PROVE  InsideInv'
  <2>1. \A q \in Proc : Inside(q) => q = p
    BY <1>9 DEF ReleaseDir, Goto, InsideInv, Inside
  <2>2. owner = None
    BY <1>9, <2>1 DEF ReleaseDir, Goto, InsideInv, Inside, TypeOK
  <2>3. ~dir' /\ owner' = None
    BY <1>9, <2>2, Zenon DEF ReleaseDir
  <2>4. \A q \in Proc : pc'[q] \in {"idle", "try", "look"}
    BY <1>9, <2>1 DEF ReleaseDir, Goto, InsideInv, Inside, TypeOK
  <2>5. \A q \in Proc : owner' # q
    BY <2>3
  <2> QED
    BY <2>3, <2>4, <2>5 DEF InsideInv, Inside
<1>10. ASSUME NEW p \in Proc, Crash(p)
      PROVE  FALSE
  BY <1>10 DEF Crash
<1> QED
  BY <1>1, <1>2, <1>3, <1>4, <1>5, <1>6, <1>7, <1>8, <1>9, <1>10 DEF Next, Step

\* For any number of processes: if every holder releases the lock before the
\* stale threshold and none is killed, acquire_lock never returns 0 to two
\* processes at a time.
THEOREM PromptHoldersExclude ==
    ASSUME Prompt, CrashAt = {}
    PROVE  Spec => []Mutex
<1>1. Init => TypeOK /\ InsideInv
  <2> SUFFICES ASSUME Init PROVE InsideInv
    BY InitType
  <2>1. ~dir /\ owner = None
    BY Zenon DEF Init
  <2>2. \A p \in Proc : pc[p] = "idle"
    BY DEF Init
  <2>3. \A p \in Proc : owner # p
    BY <2>1
  <2> QED
    BY <2>1, <2>2, <2>3 DEF InsideInv, Inside
<1>2. TypeOK /\ InsideInv /\ [Next]_vars => (TypeOK /\ InsideInv)'
  BY TypeStep, InsideStep
<1>3. InsideInv => Mutex
  BY DEF InsideInv, Inside, Mutex
<1> QED
  BY <1>1, <1>2, <1>3, PTL DEF Spec
=============================================================================
