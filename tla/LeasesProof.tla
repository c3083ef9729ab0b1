---------------------------- MODULE LeasesProof ----------------------------
(***************************************************************************)
(* Theorems about Leases for any sessions, processes and overlapping       *)
(* calls, killed anywhere: its type invariant, the fencing by epochs, the  *)
(* claim of the first claimant, and that the notifier reaps only the dead. *)
(***************************************************************************)
EXTENDS Leases, TLAPS

\* What a call holds between its steps
Writing == [at : {"write", "claim"}, inst : Inst, rec : Registration, new : BOOLEAN,
            takeover : BOOLEAN]
Stamping == [at : {"stamp"}, inst : Inst, epoch : Nat]
Releasing == [at : {"remove", "free"}, inst : Inst]
Calls == [Call -> Writing \cup Stamping \cup Releasing \cup {None}]

Scans == [at : {"idle", "verify", "reclaim", "stamp", "reap"}, todo : SUBSET Inst,
          regs : [Inst -> Registration \cup {None}], verified : SUBSET Inst,
          registry : SUBSET Proc, pick : Inst \cup {None}, epoch : Nat]

\* The scan works on registrations it has loaded, and reclaims for one that may
\* own the identity.
ScanInv ==
    /\ scan.at = "verify" => \A i \in scan.todo \cup scan.verified : scan.regs[i] # None
    /\ scan.at = "reclaim" => /\ scan.pick \in Inst
                              /\ scan.regs[scan.pick] # None
                              /\ Eligible(scan.regs[scan.pick])
    /\ scan.at = "stamp" => scan.pick \in Inst

Shape ==
    /\ alive \subseteq born /\ born \subseteq Proc /\ registry \subseteq born
    /\ reg \in [Inst -> Registration \cup {None}]
    /\ age \in [Inst -> {"under 30 s", "under 10 min", "old"}]
    /\ lease \in Lease /\ (lease.owner # None => lease.epoch > 0)
    /\ calls \in 0..MaxCalls
    /\ call \in Calls /\ scan \in Scans /\ ScanInv

-----------------------------------------------------------------------------
\* What the constants are assumed to be, in parts.
LEMMA Bounded ==
  /\ 0 \in 0..MaxCalls
  /\ \A n \in 0..MaxCalls : n < MaxCalls => n + 1 \in 0..MaxCalls
<1>1. MaxCalls \in Nat
  BY LeasesAssumption, Zenon DEF LeasesAssumption
<1> QED
  BY <1>1

LEMMA Sessions ==
  /\ Running \subseteq Proc /\ Standing \subseteq Running
  /\ \A p \in Proc : /\ Of[p] \in Inst
                     /\ Kinds[Of[p]] \subseteq {"interactive", "worker"}
BY LeasesAssumption DEF LeasesAssumption

\* The three kinds of calls are told apart by where they are.
LEMMA CallKinds ==
  ASSUME call \in Calls, NEW c \in Call, call[c] # None
  PROVE  /\ call[c].at \in {"write", "claim", "stamp", "remove", "free"}
         /\ call[c].inst \in Inst
         /\ call[c].at \in {"write", "claim"} => call[c] \in Writing
         /\ call[c].at = "stamp" => call[c] \in Stamping
         /\ call[c].at \in {"remove", "free"} => call[c] \in Releasing
<1>1. call[c] \in Writing \cup Stamping \cup Releasing
  BY DEF Calls
<1>2. CASE call[c] \in Writing
  BY <1>2 DEF Writing
<1>3. CASE call[c] \in Stamping
  BY <1>3 DEF Stamping
<1>4. CASE call[c] \in Releasing
  BY <1>4 DEF Releasing
<1> QED
  BY <1>1, <1>2, <1>3, <1>4

\* Calls that go on from one step to another keep the shape.
LEMMA CallsType ==
  ASSUME call \in Calls, NEW c \in Call,
         NEW x \in Writing \cup Stamping \cup Releasing \cup {None}
  PROVE  [call EXCEPT ![c] = x] \in Calls
BY DEF Calls

\* A registration with one field changed is a registration.
LEMMA RegistrationUpdate ==
  ASSUME NEW r \in Registration
  PROVE  /\ \A v \in Pid : [r EXCEPT !.pid = v] \in Registration
         /\ \A v \in Proc \cup {None} : [r EXCEPT !.socket = v] \in Registration
         /\ \A v \in Nat : [r EXCEPT !.epoch = v] \in Registration
         /\ \A v \in {"interactive", "worker"} : [r EXCEPT !.kind = v] \in Registration
         /\ \A v \in BOOLEAN : [r EXCEPT !.optin = v] \in Registration
         /\ \A v \in BOOLEAN : [r EXCEPT !.ready = v] \in Registration
         /\ \A v \in BOOLEAN : [r EXCEPT !.verified = v] \in Registration
BY DEF Registration

\* register computes a registration.
LEMMA BoundType ==
  ASSUME registry \subseteq Proc, NEW p \in Proc, NEW old \in Registration \cup {None},
         NEW kind \in Kinds[Of[p]], NEW ready \in BOOLEAN, NEW bind \in BOOLEAN
  PROVE  Bound(p, old, kind, ready, bind) \subseteq Registration
<1> DEFINE i == Of[p]
           base == IF old = None THEN Blank ELSE old
           socket == IF bind /\ base.socket # None THEN base.socket ELSE p
           pid0 == IF ~bind /\ base.socket \notin {None, p} THEN NoPid ELSE base.pid
           mid == [base EXCEPT !.socket = socket, !.pid = pid0, !.kind = kind,
                               !.optin = @ \/ i \in OptIn, !.ready = ready,
                               !.verified = FALSE]
           m == Matches(i, mid, registry)
           shell == [mid EXCEPT !.pid = IF bind /\ @ = NoPid THEN Shell ELSE @]
<1>1. base \in Registration
  BY DEF Blank, Registration, Pid, NoPid
<1>2. i \in Inst /\ kind \in {"interactive", "worker"}
  BY Sessions
<1>3. socket \in Proc \cup {None} /\ pid0 \in Pid
  BY <1>1 DEF Registration, Pid, NoPid
<1>4. mid \in Registration
  <2> DEFINE optin == base.optin \/ i \in OptIn
             r1 == [base EXCEPT !.socket = socket]
             r2 == [r1 EXCEPT !.pid = pid0]
             r3 == [r2 EXCEPT !.kind = kind]
             r4 == [r3 EXCEPT !.optin = optin]
             r5 == [r4 EXCEPT !.ready = ready]
             r6 == [r5 EXCEPT !.verified = FALSE]
  <2>1. optin \in BOOLEAN
    OBVIOUS
  <2> HIDE DEF base, socket, pid0, optin, i
  <2>2. r1 \in Registration
    BY <1>1, <1>3, RegistrationUpdate, Zenon
  <2> HIDE DEF r1
  <2>3. r2 \in Registration
    BY <2>2, <1>3, RegistrationUpdate, Zenon
  <2> HIDE DEF r2
  <2>4. r3 \in Registration
    BY <2>3, <1>2, RegistrationUpdate, Zenon
  <2> HIDE DEF r3
  <2>5. r4 \in Registration
    BY <2>4, <2>1, RegistrationUpdate, Zenon
  <2> HIDE DEF r4
  <2>6. r5 \in Registration
    BY <2>5, RegistrationUpdate, Zenon
  <2> HIDE DEF r5
  <2>7. r6 \in Registration
    BY <2>6, RegistrationUpdate, Zenon
  <2>8. mid = r6
    BY <1>1 DEF r1, r2, r3, r4, r5, optin, Registration
  <2> QED
    BY <2>7, <2>8
<1>5. m \subseteq Proc
  BY DEF Matches
<1> HIDE DEF mid
<1>6. ASSUME NEW q \in Proc
      PROVE  [mid EXCEPT !.pid = q, !.socket = q] \in Registration
  BY <1>4 DEF Registration, Pid
<1>7. shell \in Registration
  <2>1. (IF bind /\ mid.pid = NoPid THEN Shell ELSE mid.pid) \in Pid
    BY <1>4 DEF Registration, Pid
  <2> QED
    BY <1>4, <2>1, RegistrationUpdate, Zenon
<1> HIDE DEF m, shell
<1>8. Bound(p, old, kind, ready, bind) =
        IF m # {} THEN {[mid EXCEPT !.pid = q, !.socket = q] : q \in m} ELSE {shell}
  BY Zenon DEF Bound, mid, m, shell
<1>9. ASSUME NEW x \in Bound(p, old, kind, ready, bind)
      PROVE  x \in Registration
  <2>1. CASE m # {}
    <3>1. x \in {[mid EXCEPT !.pid = q, !.socket = q] : q \in m}
      BY <1>8, <2>1, Zenon
    <3> QED
      BY <1>5, <1>6, <3>1, Zenon
  <2>2. CASE m = {}
    BY <1>7, <1>8, <2>2, Zenon
  <2> QED
    BY <2>1, <2>2
<1> QED
  BY <1>9, Zenon

\* Judging a registration yields registrations.
LEMMA VerdictType ==
  ASSUME scan \in Scans, NEW i \in Inst, NEW r \in Registration
  PROVE  Verdict(i, r) \subseteq Registration
<1>1. Matches(i, r, scan.registry) \subseteq Proc
  BY DEF Matches, Scans
<1>2. Newest(i, r) \subseteq Proc
  BY DEF Newest, Scans
<1>3. \A p \in Proc : [r EXCEPT !.pid = p, !.socket = p] \in Registration
  BY DEF Registration, Pid
<1>4. Resolved(i, r) \subseteq Registration
  <2> DEFINE m == Matches(i, r, scan.registry)
             n == IF m # {} THEN m ELSE Newest(i, r)
  <2>1. n \subseteq Proc
    BY <1>1, <1>2
  <2> HIDE DEF n
  <2>2. Resolved(i, r) = IF n = {} THEN {r} ELSE {[r EXCEPT !.pid = p, !.socket = p] : p \in n}
    BY Zenon DEF Resolved, n
  <2>3. CASE n = {}
    BY <2>2, <2>3, Zenon
  <2>4. CASE n # {}
    <3>1. Resolved(i, r) = {[r EXCEPT !.pid = p, !.socket = p] : p \in n}
      BY <2>2, <2>4, Zenon
    <3> QED
      BY <1>3, <2>1, <3>1, Zenon
  <2> QED
    BY <2>3, <2>4
<1>5. ASSUME NEW s \in Registration
      PROVE  [s EXCEPT !.verified = Verifies(i, s)] \in Registration
  <2>1. Verifies(i, s) \in BOOLEAN
    BY DEF Verifies
  <2> QED
    BY <2>1 DEF Registration
<1> QED
  BY <1>4, <1>5 DEF Verdict

\* Epochs start at one and go up.
LEMMA EpochsGoUp ==
  ASSUME NEW e \in Nat
  PROVE  /\ NextEpoch(e) \in Nat /\ NextEpoch(e) > 0 /\ NextEpoch(e) > e
         /\ (IF e = 0 THEN 1 ELSE e) \in Nat
         /\ (IF e = 0 THEN 1 ELSE e) > 0
         /\ (IF e = 0 THEN 1 ELSE e) >= e
BY DEF NextEpoch

\* What claimLease does: the same session keeps its lease without a lower
\* epoch, or loses it by its own doing; another one gets it under a higher
\* epoch, by a takeover or when no owner is live.
LEMMA ClaimedLease ==
  ASSUME lease \in Lease, lease.owner # None => lease.epoch > 0,
         NEW i \in Inst, NEW r \in Registration, NEW takeover \in BOOLEAN
  PROVE  LET result == Claimed(i, r, takeover) IN
         /\ result[1] \in Lease /\ result[2] \in Nat \cup {None}
         /\ ~takeover => result[2] \in Nat
         /\ result[1].owner # None => result[1].epoch > 0
         /\ result[1].epoch >= lease.epoch
         /\ result[1].owner \notin {None, lease.owner} => result[1].epoch > lease.epoch
         /\ result[1].owner # lease.owner /\ OwnerLive => takeover \/ i = lease.owner
         /\ (result[1].owner # lease.owner /\ OwnerLive /\ Eligible(r)) => takeover
<1> DEFINE result == Claimed(i, r, takeover)
           next == NextEpoch(lease.epoch)
           mine(e) == [owner |-> i, epoch |-> e, pid |-> r.pid]
           now == IF lease.epoch = 0 THEN 1 ELSE lease.epoch
<1>1. lease.epoch \in Nat
  BY DEF Lease
<1>2. now \in Nat /\ now > 0 /\ now >= lease.epoch /\ next \in Nat /\ next > lease.epoch
  BY <1>1, EpochsGoUp, Zenon
<1>3. ASSUME NEW e \in Nat
      PROVE  mine(e) \in Lease /\ mine(e).owner = i /\ mine(e).epoch = e
  BY DEF Lease, Registration
<1>4. [owner |-> None, epoch |-> lease.epoch, pid |-> NoPid] \in Lease
  BY <1>1 DEF Lease, Pid, NoPid
<1> HIDE DEF mine, now, next
<1>5. CASE takeover
  <2>1. CASE CanTakeOver(r)
    <3>1. result[1] = mine(next) /\ result[2] = next
      BY <1>5, <2>1 DEF Claimed, mine, next
    <3> HIDE DEF result
    <3>2. /\ result[1] \in Lease /\ result[2] \in Nat \cup {None}
          /\ result[1].epoch > 0 /\ result[1].epoch > lease.epoch
          /\ result[1].epoch >= lease.epoch
      BY <1>1, <1>2, <1>3, <3>1
    <3> QED
      BY <1>5, <3>2, Zenon DEF result
  <2>2. CASE ~CanTakeOver(r)
    <3>1. result[1] = lease /\ result[2] = None
      BY <1>5, <2>2 DEF Claimed
    <3> HIDE DEF result
    <3>2. /\ result[1] \in Lease /\ result[2] \in Nat \cup {None}
          /\ result[1].epoch >= lease.epoch
      BY <1>1, <3>1
    <3> QED
      BY <1>5, <3>1, <3>2, Zenon DEF result
  <2> QED
    BY <2>1, <2>2
<1>6. CASE ~takeover /\ lease.owner = i
  <2>1. CASE Eligible(r)
    <3>1. result[1] = mine(now) /\ result[2] = now
      BY <1>6, <2>1 DEF Claimed, mine, now
    <3> QED
      BY <1>1, <1>2, <1>3, <1>6, <3>1
  <2>2. CASE ~Eligible(r)
    <3>1. /\ result[1] = [owner |-> None, epoch |-> lease.epoch, pid |-> NoPid]
          /\ result[2] = now
      BY <1>6, <2>2 DEF Claimed, now
    <3> QED
      BY <1>1, <1>2, <1>4, <1>6, <2>2, <3>1
  <2> QED
    BY <2>1, <2>2
<1>7. CASE ~takeover /\ lease.owner # i
  <2>1. CASE MayClaim(i, r)
    <3>1. result[1] = mine(next) /\ result[2] = next /\ ~OwnerLive
      BY <1>7, <2>1 DEF Claimed, mine, next, MayClaim
    <3> QED
      BY <1>1, <1>2, <1>3, <1>7, <3>1
  <2>2. CASE ~MayClaim(i, r)
    <3>1. result[1] = lease /\ result[2] = now
      BY <1>7, <2>2 DEF Claimed, now
    <3> QED
      BY <1>1, <1>2, <1>7, <3>1
  <2> QED
    BY <2>1, <2>2
<1> QED
  BY <1>5, <1>6, <1>7

-----------------------------------------------------------------------------
(* The shape is inductive *)

LEMMA InitShape == Init => Shape
<1> SUFFICES ASSUME Init PROVE Shape
  OBVIOUS
<1>1. /\ alive \subseteq born /\ born \subseteq Proc /\ registry \subseteq born
      /\ age \in [Inst -> {"under 30 s", "under 10 min", "old"}]
      /\ calls \in 0..MaxCalls
  <2>1. calls \in 0..MaxCalls
    BY Bounded, Zenon DEF Init
  <2>2. /\ alive = Running /\ born = Running /\ registry = Running
        /\ age = [i \in Inst |-> "under 30 s"]
    BY Zenon DEF Init
  <2> QED
    BY <2>1, <2>2, Sessions
<1>2. call \in Calls
  BY DEF Init, Calls
<1>3. scan \in Scans /\ ScanInv
  BY DEF Init, Scans, ScanInv
<1>4. /\ reg \in [Inst -> Registration \cup {None}]
      /\ lease \in Lease /\ (lease.owner # None => lease.epoch > 0)
  <2>1. CASE /\ reg = [i \in Inst |-> None]
             /\ lease = [owner |-> None, epoch |-> 0, pid |-> NoPid]
    BY <2>1 DEF Lease, Pid, NoPid
  <2>2. ASSUME ~(reg = [i \in Inst |-> None]
                   /\ lease = [owner |-> None, epoch |-> 0, pid |-> NoPid])
        PROVE  /\ reg \in [Inst -> Registration \cup {None}]
               /\ lease \in Lease /\ (lease.owner # None => lease.epoch > 0)
    <3>1. PICK p \in Standing : \E kind \in Kinds[Of[p]] :
            LET r == [Blank EXCEPT !.pid = p, !.socket = p, !.epoch = 1, !.kind = kind,
                                   !.optin = Of[p] \in OptIn, !.ready = TRUE]
            IN /\ kind = "interactive" \/ Of[p] \in OptIn
               /\ reg = [i \in Inst |-> IF i = Of[p] THEN r ELSE None]
               /\ lease = [owner |-> Of[p], epoch |-> 1, pid |-> p]
      BY <2>2, Zenon DEF Init
    <3>2. PICK kind \in Kinds[Of[p]] :
            LET r == [Blank EXCEPT !.pid = p, !.socket = p, !.epoch = 1, !.kind = kind,
                                   !.optin = Of[p] \in OptIn, !.ready = TRUE]
            IN /\ reg = [i \in Inst |-> IF i = Of[p] THEN r ELSE None]
               /\ lease = [owner |-> Of[p], epoch |-> 1, pid |-> p]
      BY <3>1, Zenon
    <3>3. p \in Proc /\ Of[p] \in Inst /\ kind \in {"interactive", "worker"}
      BY Sessions
    <3> DEFINE optin == Of[p] \in OptIn
               r == [Blank EXCEPT !.pid = p, !.socket = p, !.epoch = 1, !.kind = kind,
                                  !.optin = optin, !.ready = TRUE]
    <3>4. optin \in BOOLEAN
      OBVIOUS
    <3>5. reg = [i \in Inst |-> IF i = Of[p] THEN r ELSE None]
          /\ lease = [owner |-> Of[p], epoch |-> 1, pid |-> p]
      BY <3>2, Zenon
    <3> HIDE DEF optin
    <3>6. Blank \in Registration
      BY DEF Blank, Registration, Pid
    <3>7. r \in Registration
      BY <3>3, <3>4, <3>6 DEF Registration, Pid
    <3> HIDE DEF r
    <3> QED
      BY <3>3, <3>5, <3>7 DEF Lease, Pid
  <2> QED
    BY <2>1, <2>2
<1> QED
  BY <1>1, <1>2, <1>3, <1>4 DEF Shape

\* A registration of the shape that is there is a registration.
LEMMA Registered ==
  ASSUME Shape, NEW i \in Inst
  PROVE  /\ reg[i] \in Registration \cup {None}
         /\ reg[i] # None => reg[i] \in Registration
BY DEF Shape

LEMMA RegType ==
  ASSUME reg \in [Inst -> Registration \cup {None}], NEW i \in Inst,
         NEW r \in Registration \cup {None}
  PROVE  [reg EXCEPT ![i] = r] \in [Inst -> Registration \cup {None}]
OBVIOUS

\* What register and bind compute is what their call carries.
LEMMA RegisterShape ==
  ASSUME Shape, NEW c \in Call, NEW p \in Proc, NEW kind \in {"interactive", "worker"},
         NEW phase \in {"starting", "ready"}, NEW way \in {"register", "bind", "takeover"},
         Register(c, p, kind, phase, way)
  PROVE  Shape'
<1> DEFINE i == Of[p]
           ready == phase = "ready"
           bind == way # "register"
           new == reg[i] = None
           takeover == way = "takeover"
<1>1. PICK r \in Bound(p, reg[i], kind, ready, bind) :
        call' = [call EXCEPT ![c] = [at |-> "write", inst |-> i, rec |-> r,
                                     new |-> new, takeover |-> takeover]]
  BY Zenon DEF Register
<1>2. i \in Inst /\ ready \in BOOLEAN /\ bind \in BOOLEAN /\ new \in BOOLEAN
        /\ takeover \in BOOLEAN
  BY Sessions
<1>3. /\ kind \in Kinds[Of[p]] /\ calls < MaxCalls /\ calls' = calls + 1
      /\ UNCHANGED <<world, reg, age, lease, scan>>
  BY DEF Register, Idle
<1>4. reg[i] \in Registration \cup {None} /\ registry \subseteq Proc
  BY <1>2, Registered DEF Shape
<1> HIDE DEF i, ready, bind, new, takeover
<1>5. r \in Registration
  BY <1>1, <1>2, <1>3, <1>4, BoundType, Zenon
<1>6. [at |-> "write", inst |-> i, rec |-> r, new |-> new, takeover |-> takeover] \in Writing
  BY <1>2, <1>5 DEF Writing
<1>7. call' \in Calls
  BY <1>1, <1>6, CallsType DEF Shape
<1>8. calls' \in 0..MaxCalls
  BY <1>3, Bounded, Zenon DEF Shape
<1> QED
  BY <1>3, <1>7, <1>8 DEF Shape, ScanInv, world

\* The steps of the calls that have begun.
LEMMA ReleaseShape ==
  ASSUME Shape, NEW c \in Call, NEW p \in Proc, NEW named \in BOOLEAN,
         Release(c, p, named)
  PROVE  Shape'
<1>1. /\ call' = [call EXCEPT ![c] = [at |-> "remove", inst |-> Of[p]]]
      /\ calls < MaxCalls /\ calls' = calls + 1
      /\ UNCHANGED <<world, reg, age, lease, scan>>
  BY DEF Release, Idle
<1>2. [at |-> "remove", inst |-> Of[p]] \in Releasing
  BY Sessions DEF Releasing
<1>3. call' \in Calls
  BY <1>1, <1>2, CallsType DEF Shape
<1>4. calls' \in 0..MaxCalls
  BY <1>1, Bounded, Zenon DEF Shape
<1> QED
  BY <1>1, <1>3, <1>4 DEF Shape, ScanInv, world

LEMMA WriteShape ==
  ASSUME Shape, NEW c \in Call, WriteRegistration(c)
  PROVE  Shape'
<1>1. call[c] \in Writing
  BY CallKinds DEF Shape, WriteRegistration
<1>2. [call[c] EXCEPT !.at = "claim"] \in Writing
  BY <1>1 DEF Writing
<1>3. call' = [call EXCEPT ![c] = [call[c] EXCEPT !.at = "claim"]]
  BY DEF WriteRegistration, Shape, Calls
<1>4. call' \in Calls
  BY <1>2, <1>3, CallsType, Zenon DEF Shape
<1>5. call[c].inst \in Inst /\ call[c].rec \in Registration /\ call[c].new \in BOOLEAN
  BY <1>1 DEF Writing
<1>6. reg' \in [Inst -> Registration \cup {None}]
  BY <1>5 DEF WriteRegistration, Shape
<1>7. age' \in [Inst -> {"under 30 s", "under 10 min", "old"}]
  BY <1>5 DEF WriteRegistration, Shape
<1>8. UNCHANGED <<world, lease, calls, scan>>
  BY DEF WriteRegistration
<1> QED
  BY <1>4, <1>6, <1>7, <1>8 DEF Shape, ScanInv, world

\* A claim under way: what it asks for, and what it does to the lease.
LEMMA ClaimingCall ==
  ASSUME Shape, NEW c \in Call, ClaimLease(c)
  PROVE  /\ call[c] \in Writing /\ call[c].at = "claim"
         /\ call[c].inst \in Inst /\ call[c].rec \in Registration
         /\ call[c].takeover \in BOOLEAN
<1>1. call[c] \in Writing /\ call[c].at = "claim"
  BY CallKinds DEF Shape, ClaimLease
<1> QED
  BY <1>1 DEF Writing

LEMMA ClaimShape ==
  ASSUME Shape, NEW c \in Call, ClaimLease(c)
  PROVE  Shape'
<1> DEFINE result == Claimed(call[c].inst, call[c].rec, call[c].takeover)
           x == IF result[2] = None THEN None
                ELSE [at |-> "stamp", inst |-> call[c].inst, epoch |-> result[2]]
<1>1. /\ result[1] \in Lease /\ result[2] \in Nat \cup {None}
      /\ result[1].owner # None => result[1].epoch > 0
  BY ClaimingCall, ClaimedLease, Zenon DEF Shape
<1>2. /\ lease' = result[1] /\ call' = [call EXCEPT ![c] = x]
      /\ UNCHANGED <<world, reg, age, calls, scan>>
  BY Zenon DEF ClaimLease
<1>3. call[c].inst \in Inst
  BY ClaimingCall
<1> HIDE DEF result
<1>4. x \in Stamping \cup {None}
  BY <1>1, <1>3 DEF Stamping
<1> HIDE DEF x
<1>5. call' \in Calls
  BY <1>2, <1>4, CallsType DEF Shape
<1> QED
  BY <1>1, <1>2, <1>5 DEF Shape, ScanInv, world

\* A stamp leaves registrations registrations.
LEMMA StampedType ==
  ASSUME Shape, NEW i \in Inst, NEW e \in Nat, Stamped(i, e)
  PROVE  reg' \in [Inst -> Registration \cup {None}]
<1> DEFINE r == IF reg[i] = None THEN None ELSE [reg[i] EXCEPT !.epoch = e]
<1>1. r \in Registration \cup {None}
  BY Registered, RegistrationUpdate
<1>2. reg' = [reg EXCEPT ![i] = r]
  BY DEF Stamped, Shape
<1> HIDE DEF r
<1> QED
  BY <1>1, <1>2 DEF Shape

LEMMA StampShape ==
  ASSUME Shape, NEW c \in Call, StampEpoch(c)
  PROVE  Shape'
<1>1. call[c] \in Stamping
  BY CallKinds DEF Shape, StampEpoch
<1>2. call[c].inst \in Inst /\ call[c].epoch \in Nat
  BY <1>1 DEF Stamping
<1>3. reg' \in [Inst -> Registration \cup {None}]
  BY <1>2, StampedType DEF StampEpoch
<1>4. call' \in Calls
  BY CallsType DEF Shape, StampEpoch
<1> QED
  BY <1>3, <1>4 DEF Shape, ScanInv, StampEpoch, world

LEMMA RemoveShape ==
  ASSUME Shape, NEW c \in Call, RemoveRegistration(c)
  PROVE  Shape'
<1>1. call[c] \in Releasing
  BY CallKinds DEF Shape, RemoveRegistration
<1>2. [call[c] EXCEPT !.at = "free"] \in Releasing /\ call[c].inst \in Inst
  BY <1>1 DEF Releasing
<1>3. call' = [call EXCEPT ![c] = [call[c] EXCEPT !.at = "free"]]
  BY DEF RemoveRegistration, Shape, Calls
<1>4. call' \in Calls
  BY <1>2, <1>3, CallsType, Zenon DEF Shape
<1>5. reg' \in [Inst -> Registration \cup {None}]
  BY <1>2 DEF RemoveRegistration, Shape
<1> QED
  BY <1>4, <1>5 DEF Shape, ScanInv, RemoveRegistration, world

LEMMA FreeShape ==
  ASSUME Shape, NEW c \in Call, FreeLease(c)
  PROVE  /\ Shape'
         /\ lease'.epoch = lease.epoch /\ lease'.owner \in {None, lease.owner}
<1>1. call' \in Calls
  BY CallsType DEF Shape, FreeLease
<1>2. /\ lease' \in Lease /\ (lease'.owner # None => lease'.epoch > 0)
      /\ lease'.epoch = lease.epoch /\ lease'.owner \in {None, lease.owner}
  <2>1. CASE lease.owner = call[c].inst
    BY <2>1 DEF FreeLease, Shape, Lease, Pid
  <2>2. CASE lease.owner # call[c].inst
    BY <2>2 DEF FreeLease, Shape
  <2> QED
    BY <2>1, <2>2
<1> QED
  BY <1>1, <1>2 DEF Shape, ScanInv, FreeLease, world

\* The steps of the world and of the clock, and the kill of a call.
LEMMA WorldShape ==
  ASSUME Shape, NEW p \in Proc, Start(p) \/ Publish(p) \/ Die(p)
  PROVE  Shape'
<1>1. /\ alive' \subseteq born' /\ born' \subseteq Proc /\ registry' \subseteq born'
  BY DEF Shape, Start, Publish, Die
<1>2. UNCHANGED <<reg, age, lease, call, calls, scan>>
  BY DEF Start, Publish, Die
<1> QED
  BY <1>1, <1>2 DEF Shape, ScanInv

LEMMA ElapseShape ==
  ASSUME Shape, NEW i \in Inst, Elapse(i)
  PROVE  Shape'
BY DEF Shape, Elapse, ScanInv, world

LEMMA KilledShape ==
  ASSUME Shape, NEW c \in Call, Killed(c)
  PROVE  Shape'
<1>1. call' \in Calls
  BY CallsType DEF Shape, Killed
<1> QED
  BY <1>1 DEF Shape, ScanInv, Killed, world

-----------------------------------------------------------------------------
(* The steps of the scan *)

LEMMA ToReapShape ==
  ASSUME scan \in Scans, NEW loaded \in SUBSET Inst
  PROVE  ToReap(loaded) \in Scans /\ ToReap(loaded).at = "reap"
BY DEF ToReap, NoRegs, Scans

LEMMA LoadShape ==
  ASSUME Shape, Load
  PROVE  Shape'
<1>1. scan' \in Scans
  BY DEF Shape, Load, Scans
<1>2. ScanInv'
  BY DEF Shape, Load, Scans, ScanInv
<1> QED
  BY <1>1, <1>2 DEF Shape, Load, world

\* A verified registration is written back, or not: registrations stay
\* registrations, and nothing disappears.
LEMMA VerifyShape ==
  ASSUME Shape, NEW i \in Inst, VerifyRegistration(i)
  PROVE  /\ Shape'
         /\ lease'.epoch = lease.epoch /\ lease'.owner = lease.owner
         /\ \A j \in Inst : reg[j] # None => reg'[j] # None
<1>1. /\ scan.at = "verify" /\ i \in scan.todo /\ scan.regs[i] # None
      /\ scan \in Scans /\ scan.regs[i] \in Registration
  BY DEF VerifyRegistration, Shape, Scans, ScanInv
<1>2. PICK first \in Verdict(i, scan.regs[i]) :
        LET again == IF reg[i] = None THEN {first} ELSE Verdict(i, reg[i])
        IN \E r \in (IF first = scan.regs[i] THEN {first} ELSE again) :
             LET kept == IF first # scan.regs[i] /\ reg[i] # None THEN r ELSE scan.regs[i] IN
             /\ reg' = IF first # scan.regs[i] /\ reg[i] # None
                       THEN [reg EXCEPT ![i] = r] ELSE reg
             /\ lease' = IF r.verified THEN Healed(i, kept) ELSE lease
             /\ scan' = [scan EXCEPT !.todo = @ \ {i}, !.regs[i] = kept,
                          !.verified = IF r.verified THEN @ \cup {i} ELSE @]
  BY Zenon DEF VerifyRegistration
<1> DEFINE again == IF reg[i] = None THEN {first} ELSE Verdict(i, reg[i])
           candidates == IF first = scan.regs[i] THEN {first} ELSE again
           writes == first # scan.regs[i] /\ reg[i] # None
<1>3. PICK r \in candidates :
        LET kept == IF writes THEN r ELSE scan.regs[i] IN
        /\ reg' = IF writes THEN [reg EXCEPT ![i] = r] ELSE reg
        /\ lease' = IF r.verified THEN Healed(i, kept) ELSE lease
        /\ scan' = [scan EXCEPT !.todo = @ \ {i}, !.regs[i] = kept,
                     !.verified = IF r.verified THEN @ \cup {i} ELSE @]
  BY <1>2, Zenon
<1> DEFINE kept == IF writes THEN r ELSE scan.regs[i]
           verified == IF r.verified THEN scan.verified \cup {i} ELSE scan.verified
<1>4. first \in Registration
  BY <1>1, VerdictType
<1>5. reg[i] # None => Verdict(i, reg[i]) \subseteq Registration
  BY <1>1, Registered, VerdictType
<1>6. r \in Registration
  BY <1>4, <1>5
<1>7. /\ reg' = IF writes THEN [reg EXCEPT ![i] = r] ELSE reg
      /\ lease' = IF r.verified THEN Healed(i, kept) ELSE lease
      /\ scan' = [scan EXCEPT !.todo = scan.todo \ {i},
                              !.regs = [scan.regs EXCEPT ![i] = kept],
                              !.verified = verified]
  BY <1>1, <1>3 DEF Scans
<1>8. kept \in Registration /\ kept # None /\ r # None
  BY <1>1, <1>6, NoneAssumption
<1> HIDE DEF kept, writes
<1>9. verified \subseteq scan.verified \cup {i}
  OBVIOUS
<1> HIDE DEF verified
<1>10. /\ reg' \in [Inst -> Registration \cup {None}]
       /\ \A j \in Inst : reg[j] # None => reg'[j] # None
  BY <1>6, <1>7, <1>8 DEF Shape
<1>11. /\ lease' \in Lease /\ (lease'.owner # None => lease'.epoch > 0)
       /\ lease'.epoch = lease.epoch /\ lease'.owner = lease.owner
  <2>1. lease' = lease \/ lease' = [lease EXCEPT !.pid = kept.pid]
    BY <1>7 DEF Healed
  <2>2. kept.pid \in Pid
    BY <1>8 DEF Registration
  <2> QED
    BY <2>1, <2>2 DEF Shape, Lease
<1>12. scan' \in Scans /\ scan'.at = "verify"
  BY <1>1, <1>7, <1>8, <1>9 DEF Scans
<1>13. ScanInv'
  <2>1. /\ scan'.todo \cup scan'.verified \subseteq scan.todo \cup scan.verified \cup {i}
        /\ scan'.regs = [scan.regs EXCEPT ![i] = kept]
    BY <1>1, <1>7, <1>9 DEF Scans
  <2>2. \A j \in scan.todo \cup scan.verified : scan.regs[j] # None /\ j \in Inst
    BY <1>1 DEF Shape, ScanInv, Scans
  <2> QED
    BY <1>1, <1>8, <1>12, <2>1, <2>2 DEF ScanInv, Scans
<1> QED
  BY <1>10, <1>11, <1>12, <1>13 DEF Shape, VerifyRegistration, world

LEMMA ReclaimShape ==
  ASSUME Shape, Reclaim
  PROVE  Shape'
<1> DEFINE ready == {i \in scan.verified : Eligible(scan.regs[i])}
<1>1. scan \in Scans /\ Loaded \in SUBSET Inst /\ scan.at = "verify"
  BY DEF Shape, Loaded, Reclaim
<1>2. scan' \in Scans /\ ScanInv'
  <2>1. CASE scan' = ToReap(Loaded)
    BY <1>1, <2>1, ToReapShape DEF ScanInv
  <2>2. CASE \E i \in ready : scan' = [scan EXCEPT !.at = "reclaim", !.pick = i,
               !.todo = Loaded, !.verified = {}, !.registry = {},
               !.regs = [NoRegs EXCEPT ![i] = scan.regs[i]]]
    <3>1. PICK i \in ready : scan' = [scan EXCEPT !.at = "reclaim", !.pick = i,
               !.todo = Loaded, !.verified = {}, !.registry = {},
               !.regs = [NoRegs EXCEPT ![i] = scan.regs[i]]]
      BY <2>2, Zenon
    <3>2. /\ i \in Inst /\ scan.regs[i] # None /\ Eligible(scan.regs[i])
          /\ scan.regs[i] \in Registration \cup {None}
      BY <1>1 DEF Shape, ScanInv, Scans
    <3> DEFINE regs == [NoRegs EXCEPT ![i] = scan.regs[i]]
    <3>3. regs \in [Inst -> Registration \cup {None}] /\ regs[i] = scan.regs[i]
      BY <3>2 DEF NoRegs
    <3> HIDE DEF regs
    <3>4. scan' \in Scans /\ scan'.at = "reclaim" /\ scan'.pick = i /\ scan'.regs = regs
      BY <1>1, <3>1, <3>2, <3>3 DEF Scans, regs
    <3> QED
      BY <3>2, <3>3, <3>4 DEF ScanInv
  <2> QED
    BY <2>1, <2>2, Zenon DEF Reclaim
<1> QED
  BY <1>2 DEF Shape, Reclaim, world

\* The scan claims for an eligible session and takes nothing over, so that a
\* lease in use stays where it is.
LEMMA ReclaimClaimShape ==
  ASSUME Shape, ReclaimClaim
  PROVE  /\ Shape'
         /\ lease'.epoch >= lease.epoch
         /\ lease'.owner \notin {None, lease.owner} => lease'.epoch > lease.epoch
         /\ OwnerLive => lease'.owner = lease.owner
<1> DEFINE i == scan.pick
           r == scan.regs[scan.pick]
           result == Claimed(i, r, FALSE)
<1>1. scan \in Scans /\ scan.at = "reclaim"
  BY DEF Shape, ReclaimClaim
<1>2. i \in Inst /\ r \in Registration /\ Eligible(r)
  BY <1>1 DEF Shape, ScanInv, Scans
<1>3. /\ lease' = result[1]
      /\ scan' = IF result[1].owner = i
                 THEN [scan EXCEPT !.at = "stamp", !.epoch = result[2], !.regs = NoRegs]
                 ELSE ToReap(scan.todo)
      /\ UNCHANGED <<world, reg, age, call, calls>>
  BY Zenon DEF ReclaimClaim
<1> HIDE DEF i, r
<1>4. /\ result[1] \in Lease /\ result[2] \in Nat
      /\ result[1].owner # None => result[1].epoch > 0
      /\ result[1].epoch >= lease.epoch
      /\ result[1].owner \notin {None, lease.owner} => result[1].epoch > lease.epoch
      /\ OwnerLive => result[1].owner = lease.owner
  BY <1>2, ClaimedLease, Zenon DEF Shape
<1> HIDE DEF result
<1>5. scan' \in Scans /\ ScanInv'
  <2>1. CASE result[1].owner = i
    <3>1. NoRegs \in [Inst -> Registration \cup {None}]
      BY DEF NoRegs
    <3>2. scan' = [scan EXCEPT !.at = "stamp", !.epoch = result[2], !.regs = NoRegs]
      BY <1>3, <2>1
    <3>3. scan' \in Scans /\ scan'.at = "stamp" /\ scan'.pick \in Inst
      BY <1>1, <1>2, <1>4, <3>1, <3>2 DEF Scans, i
    <3> QED
      BY <3>3 DEF ScanInv
  <2>2. CASE result[1].owner # i
    <3>1. scan' = ToReap(scan.todo) /\ scan.todo \in SUBSET Inst
      BY <1>1, <1>3, <2>2 DEF Scans
    <3> QED
      BY <1>1, <3>1, ToReapShape DEF ScanInv
  <2> QED
    BY <2>1, <2>2
<1> QED
  BY <1>3, <1>4, <1>5 DEF Shape, world

LEMMA ReclaimStampShape ==
  ASSUME Shape, ReclaimStamp
  PROVE  /\ Shape'
         /\ \A j \in Inst : reg[j] # None => reg'[j] # None
<1>1. /\ scan \in Scans /\ scan.pick \in Inst /\ scan.epoch \in Nat
      /\ scan.todo \in SUBSET Inst /\ Stamped(scan.pick, scan.epoch)
  BY DEF Shape, ReclaimStamp, ScanInv, Scans
<1>2. scan' \in Scans /\ ScanInv'
  BY <1>1, ToReapShape DEF ReclaimStamp, ScanInv
<1>3. reg' \in [Inst -> Registration \cup {None}]
  BY <1>1, StampedType
<1>4. \A j \in Inst : reg[j] # None => reg'[j] # None
  <2> DEFINE e == scan.epoch
             i == scan.pick
             r == IF reg[i] = None THEN None ELSE [reg[i] EXCEPT !.epoch = e]
  <2>1. reg[i] # None => r \in Registration
    BY <1>1, Registered, RegistrationUpdate
  <2>2. reg' = [reg EXCEPT ![i] = r]
    BY <1>1 DEF Stamped, Shape
  <2> HIDE DEF r
  <2> QED
    BY <2>1, <2>2, NoneAssumption DEF Shape
<1> QED
  BY <1>2, <1>3, <1>4 DEF Shape, ReclaimStamp, world

LEMMA ReapShape ==
  ASSUME Shape, NEW i \in Inst, Reap(i)
  PROVE  /\ Shape'
         /\ \A j \in Inst : reg[j] # None /\ reg'[j] = None => ~RegLive(j)
<1>1. scan \in Scans /\ scan.at = "reap" /\ scan' = [scan EXCEPT !.todo = scan.todo \ {i}]
  BY DEF Shape, Reap, Scans
<1>2. scan' \in Scans /\ ScanInv'
  BY <1>1 DEF Scans, ScanInv
<1>3. \/ reg' = reg
      \/ Expired(i) /\ reg' = [reg EXCEPT ![i] = None]
  BY DEF Reap
<1>4. Expired(i) => ~RegLive(i)
  BY DEF Expired, RegLive
<1> QED
  BY <1>2, <1>3, <1>4 DEF Shape, Reap, world

LEMMA EndScanShape ==
  ASSUME Shape, EndScan
  PROVE  Shape'
<1>1. scan' \in Scans /\ ScanInv'
  BY DEF Shape, EndScan, Scans, ScanInv
<1> QED
  BY <1>1 DEF Shape, EndScan, world

\* Every step keeps the shape.
LEMMA NextShape == Shape /\ [Next]_vars => Shape'
<1> SUFFICES ASSUME Shape, [Next]_vars PROVE Shape'
  OBVIOUS
<1>1. ASSUME NEW p \in Proc, Start(p) \/ Publish(p) \/ Die(p) PROVE Shape'
  BY <1>1, WorldShape
<1>2. ASSUME NEW i \in Inst, Elapse(i) PROVE Shape'
  BY <1>2, ElapseShape
<1>3. ASSUME NEW c \in Call, NEW p \in Proc, NEW kind \in {"interactive", "worker"},
             NEW phase \in {"starting", "ready"},
             NEW way \in {"register", "bind", "takeover"},
             Register(c, p, kind, phase, way)
      PROVE  Shape'
  BY <1>3, RegisterShape
<1>4. ASSUME NEW c \in Call, NEW p \in Proc, NEW named \in BOOLEAN, Release(c, p, named)
      PROVE  Shape'
  BY <1>4, ReleaseShape
<1>5. ASSUME NEW c \in Call, Work(c) PROVE Shape'
  BY <1>5, WriteShape, ClaimShape, StampShape, RemoveShape, FreeShape DEF Work
<1>6. ASSUME NEW c \in Call, Killed(c) PROVE Shape'
  BY <1>6, KilledShape
<1>7. ASSUME Scanning PROVE Shape'
  BY <1>7, LoadShape, VerifyShape, ReclaimShape, ReclaimClaimShape, ReclaimStampShape,
     ReapShape, EndScanShape DEF Scanning
<1>8. CASE UNCHANGED vars
  <2>1. UNCHANGED <<alive, born, registry, reg, age, lease, call, calls, scan>>
    BY <1>8 DEF vars, world
  <2>2. ScanInv'
    BY <2>1, Zenon DEF Shape, ScanInv
  <2> QED
    BY <2>1, <2>2 DEF Shape
<1> QED
  BY <1>1, <1>2, <1>3, <1>4, <1>5, <1>6, <1>7, <1>8 DEF Next

LEMMA Shaped == Spec => []Shape
<1>1. Init => Shape
  BY InitShape
<1>2. Shape /\ [Next]_vars => Shape'
  BY NextShape
<1> QED
  BY <1>1, <1>2, PTL DEF Spec

LEMMA ShapeTypeOK == Shape => TypeOK
<1> SUFFICES ASSUME Shape PROVE TypeOK
  OBVIOUS
<1>1. DOMAIN call = Call
  BY DEF Shape, Calls
<1>2. \A c \in Call : call[c] # None =>
         /\ call[c].at \in {"write", "claim", "stamp", "remove", "free"}
         /\ call[c].inst \in Inst
  BY CallKinds DEF Shape
<1>3. /\ scan.at \in {"idle", "verify", "reclaim", "stamp", "reap"}
      /\ scan.regs \in [Inst -> Registration \cup {None}]
      /\ scan.verified \subseteq Inst /\ scan.registry \subseteq Proc
  BY DEF Shape, Scans
<1> QED
  BY <1>1, <1>2, <1>3 DEF Shape, TypeOK

LEMMA SameEpoch == Shape => lease.epoch \in Nat /\ lease.epoch >= lease.epoch
<1>1. Shape => lease \in Lease
  BY Zenon DEF Shape
<1>2. Shape => lease.epoch \in Nat
  BY <1>1 DEF Lease
<1> QED
  BY <1>2

\* Only a claim, a release and the reclaim of a scan move the lease.
LEMMA LeaseMoves ==
  ASSUME Shape, [Next]_vars
  PROVE  \/ lease' = lease
         \/ \E c \in Call : ClaimLease(c) \/ FreeLease(c)
         \/ \E i \in Inst : VerifyRegistration(i)
         \/ ReclaimClaim
<1>1. ASSUME NEW c \in Call, Work(c)
      PROVE  lease' = lease \/ ClaimLease(c) \/ FreeLease(c)
  BY <1>1 DEF Work, WriteRegistration, StampEpoch, RemoveRegistration
<1>2. ASSUME NEW c \in Call, Killed(c) PROVE lease' = lease
  BY <1>2 DEF Killed
<1>3. ASSUME Scanning
      PROVE  lease' = lease \/ (\E i \in Inst : VerifyRegistration(i)) \/ ReclaimClaim
  BY <1>3 DEF Scanning, Load, Reclaim, ReclaimStamp, EndScan, Reap
<1>4. ASSUME NEW p \in Proc, Start(p) \/ Publish(p) \/ Die(p) PROVE lease' = lease
  BY <1>4 DEF Start, Publish, Die
<1>5. ASSUME NEW i \in Inst, Elapse(i) PROVE lease' = lease
  BY <1>5 DEF Elapse
<1>6. ASSUME NEW c \in Call, NEW p \in Proc, NEW kind, NEW phase, NEW way,
             Register(c, p, kind, phase, way)
      PROVE  lease' = lease
  BY <1>6, Zenon DEF Register
<1>7. ASSUME NEW c \in Call, NEW p \in Proc, NEW named, Release(c, p, named)
      PROVE  lease' = lease
  BY <1>7, Zenon DEF Release
<1>8. CASE UNCHANGED vars
  BY <1>8 DEF vars
<1> QED
  BY <1>1, <1>2, <1>3, <1>4, <1>5, <1>6, <1>7, <1>8, Zenon DEF Next

\* What ClaimLease does to the lease.
LEMMA ClaimMoves ==
  ASSUME Shape, NEW c \in Call, ClaimLease(c)
  PROVE  /\ lease'.epoch >= lease.epoch
         /\ lease'.owner \notin {None, lease.owner} => lease'.epoch > lease.epoch
         /\ lease'.owner # lease.owner /\ OwnerLive =>
              /\ call[c].takeover \/ call[c].inst = lease.owner
              /\ call[c] # None /\ call[c] # call'[c] /\ call[c].at = "claim"
<1> DEFINE result == Claimed(call[c].inst, call[c].rec, call[c].takeover)
<1>1. /\ result[1].epoch >= lease.epoch
      /\ result[1].owner \notin {None, lease.owner} => result[1].epoch > lease.epoch
      /\ result[1].owner # lease.owner /\ OwnerLive
           => call[c].takeover \/ call[c].inst = lease.owner
  BY ClaimingCall, ClaimedLease, Zenon DEF Shape
<1>2. lease' = result[1]
  BY Zenon DEF ClaimLease
<1>3. call[c] # None /\ call[c].at = "claim"
  BY DEF ClaimLease
<1>4. call[c] # call'[c]
  <2> DEFINE x == IF result[2] = None THEN None
                  ELSE [at |-> "stamp", inst |-> call[c].inst, epoch |-> result[2]]
  <2>1. call' = [call EXCEPT ![c] = x]
    BY Zenon DEF ClaimLease
  <2> HIDE DEF result
  <2>2. x # call[c]
    BY <1>3
  <2> HIDE DEF x
  <2> QED
    BY <2>1, <2>2 DEF Shape, Calls
<1> HIDE DEF result
<1> QED
  BY <1>1, <1>2, <1>3, <1>4, Zenon

-----------------------------------------------------------------------------
(* Theorems *)

\* Whatever calls overlap, are killed half-way or race the scan, registrations,
\* lease and calls keep their types, and an owned lease has an epoch
\* (runtime.go, conduit.go).
THEOREM TypeCorrect == Spec => []TypeOK
<1>1. Shape => TypeOK
  BY ShapeTypeOK
<1> QED
  BY <1>1, Shaped, PTL

\* A lease never changes hands under an epoch that was in use: claimLease,
\* Release and reclaimLeases, in any interleaving and with any crash.
THEOREM EpochsFence == Spec => Fenced
<1> DEFINE Step == /\ lease'.epoch >= lease.epoch
                   /\ lease'.owner \notin {None, lease.owner} => lease'.epoch > lease.epoch
<1>1. Shape /\ [Next]_vars => [Step]_vars
  <2> SUFFICES ASSUME Shape, [Next]_vars PROVE Step
    OBVIOUS
  <2>1. CASE lease' = lease
    BY <2>1, SameEpoch, Zenon
  <2>2. ASSUME NEW c \in Call, ClaimLease(c) PROVE Step
    BY <2>2, ClaimMoves
  <2>3. ASSUME NEW c \in Call, FreeLease(c) PROVE Step
    <3>1. lease'.epoch = lease.epoch /\ lease'.owner \in {None, lease.owner}
      BY <2>3, FreeShape
    <3> QED
      BY <3>1, SameEpoch, Zenon
  <2>4. ASSUME NEW i \in Inst, VerifyRegistration(i) PROVE Step
    <3>1. lease'.epoch = lease.epoch /\ lease'.owner = lease.owner
      BY <2>4, VerifyShape
    <3> QED
      BY <3>1, SameEpoch, Zenon
  <2>5. CASE ReclaimClaim
    BY <2>5, ReclaimClaimShape
  <2> QED
    BY <2>1, <2>2, <2>3, <2>4, <2>5, LeaseMoves, Zenon
<1> QED
  BY <1>1, Shaped, PTL DEF Spec, Fenced

\* No other session's registration, release or scan takes the identity from a
\* live owner without a takeover (claimLease, reclaimLeases).
THEOREM FirstClaimantKeeps == Spec => FirstClaimant
<1> DEFINE Step == OwnerLive /\ lease'.owner # lease.owner =>
         \E c \in Call : /\ call[c] # None /\ call[c] # call'[c]
                         /\ \/ call[c].at = "claim" /\ (call[c].takeover \/ call[c].inst = lease.owner)
                            \/ call[c].at = "free" /\ call[c].inst = lease.owner
<1>1. Shape /\ [Next]_vars => [Step]_vars
  <2> SUFFICES ASSUME Shape, [Next]_vars PROVE Step
    OBVIOUS
  <2>1. CASE lease' = lease
    BY <2>1
  <2>2. ASSUME NEW c \in Call, ClaimLease(c) PROVE Step
    BY <2>2, ClaimMoves, Zenon
  <2>3. ASSUME NEW c \in Call, FreeLease(c) PROVE Step
    <3>1. lease'.owner # lease.owner => call[c].inst = lease.owner
      BY <2>3 DEF FreeLease
    <3>2. call[c] # None /\ call[c].at = "free" /\ call[c] # call'[c]
      BY <2>3 DEF FreeLease, Shape, Calls
    <3> QED
      BY <3>1, <3>2
  <2>4. ASSUME NEW i \in Inst, VerifyRegistration(i) PROVE Step
    BY <2>4, VerifyShape
  <2>5. CASE ReclaimClaim
    BY <2>5, ReclaimClaimShape
  <2> QED
    BY <2>1, <2>2, <2>3, <2>4, <2>5, LeaseMoves, Zenon
<1> QED
  BY <1>1, Shaped, PTL DEF Spec, FirstClaimant

\* The scan never removes the registration of a running process, nor of one it
\* does not know yet and that may still appear (verifyRegistration,
\* reclaimLeases, reapDeadRegistrations).
THEOREM OnlyDeadReaped == Spec => ReapsDead
<1> DEFINE Step == \A i \in Inst : reg[i] # None /\ reg'[i] = None /\ scan' # scan
                                    => ~RegLive(i)
<1>1. Shape /\ [Next]_vars => [Step]_vars
  <2> SUFFICES ASSUME Shape, [Next]_vars PROVE Step
    OBVIOUS
  <2>1. CASE scan' = scan
    BY <2>1
  <2>2. CASE Scanning
    <3>1. ASSUME NEW i \in Inst, VerifyRegistration(i) PROVE Step
      BY <3>1, VerifyShape, Zenon
    <3>2. ASSUME NEW i \in Inst, Reap(i) PROVE Step
      BY <3>2, ReapShape, Zenon
    <3>3. CASE ReclaimStamp
      BY <3>3, ReclaimStampShape, Zenon
    <3>4. CASE Load \/ Reclaim \/ ReclaimClaim \/ EndScan
      BY <3>4 DEF Load, Reclaim, ReclaimClaim, EndScan
    <3> QED
      BY <2>2, <3>1, <3>2, <3>3, <3>4, Zenon DEF Scanning
  <2>3. CASE ~Scanning /\ scan' # scan
    <3>1. ASSUME NEW c \in Call, Work(c) \/ Killed(c) PROVE scan' = scan
      BY <3>1 DEF Work, Killed, WriteRegistration, ClaimLease, StampEpoch,
         RemoveRegistration, FreeLease
    <3>2. ASSUME NEW p \in Proc, Start(p) \/ Publish(p) \/ Die(p) PROVE scan' = scan
      BY <3>2 DEF Start, Publish, Die
    <3>3. ASSUME NEW i \in Inst, Elapse(i) PROVE scan' = scan
      BY <3>3 DEF Elapse
    <3>4. ASSUME NEW c \in Call, NEW p \in Proc, NEW kind, NEW phase, NEW way,
                 Register(c, p, kind, phase, way)
          PROVE  scan' = scan
      BY <3>4, Zenon DEF Register
    <3>5. ASSUME NEW c \in Call, NEW p \in Proc, NEW named, Release(c, p, named)
          PROVE  scan' = scan
      BY <3>5, Zenon DEF Release
    <3>6. UNCHANGED vars => scan' = scan
      BY DEF vars
    <3> QED
      BY <2>3, <3>1, <3>2, <3>3, <3>4, <3>5, <3>6, Zenon DEF Next
  <2> QED
    BY <2>1, <2>2, <2>3
<1> QED
  BY <1>1, Shaped, PTL DEF Spec, ReapsDead
=============================================================================
