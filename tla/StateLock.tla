----------------------------- MODULE StateLock -----------------------------
(***************************************************************************)
(* acquire_lock and release_lock of bin/khala: a lock is a directory       *)
(* (run/brain.lock.d, run/exchange.lock.d, run/send-request.lock.d) with a *)
(* file `owner' in it that names the holder's pid and the time.  A process *)
(* that finds the directory looks at the owner file; if that is older than *)
(* the stale threshold it removes the whole directory and tries again.     *)
(*                                                                         *)
(* mkdir, the rename of the owner file, its removal and rmdir are separate *)
(* system calls, and so is every step below.                               *)
(***************************************************************************)
EXTENDS Naturals, FiniteSets

CONSTANTS
    Proc,        \* processes that want the lock
    None,        \* no owner file
    StaleAfter,  \* lock_stale_after, in ticks
    Prompt,      \* does every live holder release within StaleAfter?
    CrashAt,     \* the places where a process may be killed
    MaxCrashes   \* bound on killed processes

ASSUME LockAssumption ==
    /\ None \notin Proc
    /\ StaleAfter \in Nat
    /\ Prompt \in BOOLEAN
    /\ MaxCrashes \in Nat

VARIABLES
    dir,     \* does the lock directory exist?
    owner,   \* the pid in its owner file
    age,     \* age of the owner file, saturated just past StaleAfter
    pc       \* where each process is in acquire_lock / release_lock

vars == <<dir, owner, age, pc>>

Pc == {"idle", "try", "look", "made", "undo", "reclaim", "rmdir",
       "hold", "unown", "unlink", "dead"}

\* The shape of the lock directory and of the processes; an owner file needs
\* a directory to be in (owner is renamed into lock_path).
TypeOK ==
    /\ dir \in BOOLEAN
    /\ owner \in Proc \cup {None}
    /\ age \in 0..(StaleAfter + 1)
    /\ pc \in [Proc -> Pc]
    /\ ~dir => owner = None

Init ==
    /\ dir = FALSE
    /\ owner = None
    /\ age = 0
    /\ pc = [p \in Proc |-> "idle"]

\* Variant: -ge for -gt.
Stale_AtThreshold == owner # None /\ age >= StaleAfter

Stale == owner # None /\ age > StaleAfter

Goto(p, from, to) == pc[p] = from /\ pc' = [pc EXCEPT ![p] = to]

-----------------------------------------------------------------------------
(* acquire_lock *)

Start(p) == Goto(p, "idle", "try") /\ UNCHANGED <<dir, owner, age>>

Mkdir(p) ==
    \/ /\ ~dir
       /\ Goto(p, "try", "made")
       /\ dir' = TRUE
       /\ UNCHANGED <<owner, age>>
    \/ /\ dir
       /\ Goto(p, "try", "look")
       /\ UNCHANGED <<dir, owner, age>>

\* mv owner.tmp.$$ owner: fails only when the directory has gone.
WriteOwner(p) ==
    \/ /\ dir
       /\ Goto(p, "made", "hold")
       /\ owner' = p
       /\ age' = 0
       /\ UNCHANGED dir
    \/ /\ ~dir
       /\ Goto(p, "made", "undo")
       /\ UNCHANGED <<dir, owner, age>>

\* rmdir after a failed owner write: removes whichever empty lock is there now.
Undo(p) ==
    /\ Goto(p, "undo", "idle")
    /\ dir' = (dir /\ owner # None)
    /\ UNCHANGED <<owner, age>>

\* A fresh or missing owner file: sleep and retry, until the attempts run out.
Inspect(p) ==
    /\ \/ Stale /\ Goto(p, "look", "reclaim")
       \/ ~Stale /\ Goto(p, "look", "try")
       \/ ~Stale /\ Goto(p, "look", "idle")
    /\ UNCHANGED <<dir, owner, age>>

\* rm -rf: first what is in the directory, ...
ReclaimOwner(p) ==
    /\ Goto(p, "reclaim", "rmdir")
    /\ owner' = None
    /\ UNCHANGED <<dir, age>>

\* Variant: the directory goes with whatever owner file it has by now.
ReclaimDir_Forced(p) ==
    /\ Goto(p, "rmdir", "try")
    /\ dir' = FALSE
    /\ UNCHANGED <<owner, age>>

\* ... then the directory, unless somebody has put a new owner file there.
ReclaimDir(p) ==
    \/ /\ owner = None
       /\ Goto(p, "rmdir", "try")
       /\ dir' = FALSE
       /\ UNCHANGED <<owner, age>>
    \/ /\ owner # None
       /\ Goto(p, "rmdir", "idle")
       /\ UNCHANGED <<dir, owner, age>>

-----------------------------------------------------------------------------
(* release_lock *)

\* A lock that another process's pid is in now is not released.
ReleaseCheck(p) ==
    /\ \/ owner = p /\ Goto(p, "hold", "unown")
       \/ owner # p /\ Goto(p, "hold", "idle")
    /\ UNCHANGED <<dir, owner, age>>

ReleaseOwner(p) ==
    /\ Goto(p, "unown", "unlink")
    /\ owner' = None
    /\ UNCHANGED <<dir, age>>

\* Variant: the directory is left behind.
ReleaseDir_Forgotten(p) ==
    /\ Goto(p, "unlink", "idle")
    /\ UNCHANGED <<dir, owner, age>>

ReleaseDir(p) ==
    /\ Goto(p, "unlink", "idle")
    /\ dir' = (dir /\ owner # None)
    /\ UNCHANGED <<owner, age>>

-----------------------------------------------------------------------------
(* Time and death.  INT, TERM and PIPE run release_held_locks first and are  *)
(* ordinary releases; Crash is SIGKILL or a power failure.                   *)

Busy == {p \in Proc : pc[p] \in {"hold", "unown"} /\ owner = p}

Tick ==
    /\ owner # None /\ age <= StaleAfter
    /\ Prompt => (Busy # {} => age < StaleAfter)
    /\ age' = age + 1
    /\ UNCHANGED <<dir, owner, pc>>

Crash(p) ==
    /\ pc[p] \in CrashAt
    /\ Cardinality({q \in Proc : pc[q] = "dead"}) < MaxCrashes
    /\ pc' = [pc EXCEPT ![p] = "dead"]
    /\ UNCHANGED <<dir, owner, age>>

-----------------------------------------------------------------------------
Step(p) ==
    \/ Mkdir(p) \/ WriteOwner(p) \/ Undo(p)
    \/ Inspect(p) \/ ReclaimOwner(p) \/ ReclaimDir(p)
    \/ ReleaseCheck(p) \/ ReleaseOwner(p) \/ ReleaseDir(p)

Next == Tick \/ \E p \in Proc : Start(p) \/ Step(p) \/ Crash(p)

Spec == Init /\ [][Next]_vars

\* A process runs on until it is killed, the sync loops keep coming back for
\* the lock, and time passes.
FairSpec ==
    /\ Spec
    /\ WF_vars(Tick)
    /\ \A p \in Proc : WF_vars(Start(p) \/ Step(p))

-----------------------------------------------------------------------------
\* What the lock is for: two processes never both believe they hold it
\* (acquire_lock returned 0 and release_lock has not been called).
Mutex ==
    \A p, q \in Proc : p # q => ~(pc[p] = "hold" /\ pc[q] = "hold")

\* No lock directory outlives its holder for ever: live processes release it,
\* and one left by a dead process becomes stale and is reclaimed.
LockFreed == dir ~> ~dir
=============================================================================
