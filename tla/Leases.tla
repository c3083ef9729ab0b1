------------------------------- MODULE Leases -------------------------------
(***************************************************************************)
(* Session registrations and the lease of one identity, in the runtime     *)
(* directory of a node (link/runtime.go, and the part of each scan of      *)
(* link/conduit.go that repairs both).  Hooks and the CLI run register,    *)
(* bind and release in several steps, each under one of two locks or none; *)
(* the notifier verifies, heals, reclaims and reaps from a snapshot it     *)
(* took at the start of its scan.  One boot of the node.                   *)
(***************************************************************************)
EXTENDS Naturals, FiniteSets

CONSTANTS
    Inst,         \* registrations; each belongs to one Claude session
    Proc,         \* the Claude processes that may run them: 2, 3, ...
    Of,           \* the session a process opens (resume: several to one)
    Kinds,        \* how each session may register: "interactive", "worker"
    OptIn,        \* the sessions that register with a receive opt-in
    Running,      \* the processes that run, and are in the registry, at the start
    Standing,     \* of those, the ones that may have registered before
    Phases,       \* phases a hook may register: "starting", "ready"
    Call,         \* slots for hooks and CLI calls under way: 1, 2, ...; the first free is taken
    None,
    Ways,         \* calls made: "register", "bind", "takeover", "release",
                  \* and "release by instance"
    Killable,     \* may a call be killed half-way?
    MaxCalls      \* bound on calls

NoPid == 0   \* not known yet
Shell == 1   \* the pid of the CLI call itself: gone once it returns

ASSUME LeasesAssumption ==
    /\ Proc \subseteq Nat \ {NoPid, Shell}
    /\ Of \in [Proc -> Inst]
    /\ Kinds \in [Inst -> SUBSET {"interactive", "worker"}]
    /\ OptIn \subseteq Inst /\ Running \subseteq Proc
    /\ Standing \subseteq Running /\ None \notin Proc
    /\ Phases \subseteq {"starting", "ready"}
    /\ Call \subseteq Nat /\ None \notin Inst
    /\ Ways \subseteq {"register", "bind", "takeover", "release", "release by instance"}
    /\ Killable \in BOOLEAN /\ MaxCalls \in Nat

VARIABLES
    alive,      \* running Claude processes
    born,       \* processes that have been started
    registry,   \* processes with a file in ~/.claude/sessions
    reg,        \* sessions/<instance>.json
    age,        \* how long ago each registration was started
    lease,      \* identities/<identity>.lease
    call,       \* calls under way
    calls,      \* calls so far
    scan        \* the notifier's scan

world == <<alive, born, registry>>
vars == <<world, reg, age, lease, call, calls, scan>>

Pid == Proc \cup {NoPid, Shell}

Registration ==
    [pid : Pid, socket : Proc \cup {None}, epoch : Nat,
     kind : {"interactive", "worker"}, optin : BOOLEAN, ready : BOOLEAN,
     verified : BOOLEAN]

Lease == [owner : Inst \cup {None}, epoch : Nat, pid : Pid]

ASSUME NoneAssumption == None \notin Registration

TypeOK ==
    /\ alive \subseteq born /\ born \subseteq Proc /\ registry \subseteq born
    /\ reg \in [Inst -> Registration \cup {None}]
    /\ age \in [Inst -> {"under 30 s", "under 10 min", "old"}]
    /\ lease \in Lease
    /\ lease.owner # None => lease.epoch > 0
    /\ calls \in 0..MaxCalls
    /\ DOMAIN call = Call
    /\ \A c \in Call : call[c] # None =>
         /\ call[c].at \in {"write", "claim", "stamp", "remove", "free"}
         /\ call[c].inst \in Inst
    /\ scan.at \in {"idle", "verify", "reclaim", "stamp", "reap"}
    /\ scan.regs \in [Inst -> Registration \cup {None}]
    /\ scan.verified \subseteq Inst
    /\ scan.registry \subseteq Proc

Blank == [pid |-> NoPid, socket |-> None, epoch |-> 0, kind |-> "worker",
          optin |-> FALSE, ready |-> FALSE, verified |-> FALSE]

\* Nobody has registered, or one session has and owns the identity.
Init ==
    /\ alive = Running /\ born = Running /\ registry = Running
    /\ \/ /\ reg = [i \in Inst |-> None]
          /\ lease = [owner |-> None, epoch |-> 0, pid |-> NoPid]
       \/ \E p \in Standing : \E kind \in Kinds[Of[p]] :
            LET r == [Blank EXCEPT !.pid = p, !.socket = p, !.epoch = 1, !.kind = kind,
                                   !.optin = Of[p] \in OptIn, !.ready = TRUE]
            IN /\ kind = "interactive" \/ Of[p] \in OptIn
               /\ reg = [i \in Inst |-> IF i = Of[p] THEN r ELSE None]
               /\ lease = [owner |-> Of[p], epoch |-> 1, pid |-> p]
    /\ age = [i \in Inst |-> "under 30 s"]
    /\ call = [c \in Call |-> None] /\ calls = 0
    /\ scan = [at |-> "idle", todo |-> {}, regs |-> [i \in Inst |-> None],
               verified |-> {}, registry |-> {}, pick |-> None, epoch |-> 0]

-----------------------------------------------------------------------------
(* Claude Code and the clock *)

Start(p) ==
    /\ p \notin born
    /\ alive' = alive \cup {p} /\ born' = born \cup {p}
    /\ UNCHANGED <<registry, reg, age, lease, call, calls, scan>>

\* The registry file can land after the hook has registered the session.
Publish(p) ==
    /\ p \in alive \ registry
    /\ registry' = registry \cup {p}
    /\ UNCHANGED <<alive, born, reg, age, lease, call, calls, scan>>

Die(p) ==
    /\ p \in alive /\ alive' = alive \ {p}
    /\ UNCHANGED <<born, registry, reg, age, lease, call, calls, scan>>

\* Time passes where somebody can tell: 30 s while the pid is not known, ten
\* minutes once the process is gone.
Elapse(i) ==
    /\ reg[i] # None
    /\ age' = [age EXCEPT ![i] = IF reg[i].pid = NoPid THEN "under 10 min" ELSE "old"]
    /\ age[i] # "old" /\ age' # age /\ reg[i].pid \notin alive
    /\ UNCHANGED <<world, reg, lease, call, calls, scan>>

-----------------------------------------------------------------------------
Eligible(r) == r.kind = "interactive" \/ r.optin

\* processAliveWithStart: a pid is taken with the start of its process.
Alive(r) == r.pid \in alive

\* registrationLive: the process runs, or there is none yet.
RegLive(i) ==
    /\ reg[i] # None
    /\ Alive(reg[i]) \/ (reg[i].pid = NoPid /\ age[i] = "under 30 s")

OwnerLive == lease.owner # None /\ RegLive(lease.owner)

\* matchingRegistry
Matches(i, r, files) ==
    {p \in files : /\ Of[p] = i
                   /\ r.socket # None => p = r.socket
                   /\ r.pid # NoPid => p = r.pid}

-----------------------------------------------------------------------------
(* register and bind *)

Idle(c) ==
    /\ calls < MaxCalls
    /\ call[c] = None /\ \A d \in Call : d < c => call[d] # None

\* The record register writes back, from the one it has read.  The hook names
\* p's socket; bind inherits it, and never replaces one with it.
Bound(p, old, kind, ready, bind) ==
    LET i == Of[p]
        base == IF old = None THEN Blank ELSE old
        socket == IF bind /\ base.socket # None THEN base.socket ELSE p
        pid0 == IF ~bind /\ base.socket \notin {None, p} THEN NoPid ELSE base.pid
        mid == [base EXCEPT !.socket = socket, !.pid = pid0, !.kind = kind,
                            !.optin = @ \/ i \in OptIn, !.ready = ready,
                            !.verified = FALSE]
        m == Matches(i, mid, registry)
    IN IF m # {} THEN {[mid EXCEPT !.pid = q, !.socket = q] : q \in m}
       ELSE {[mid EXCEPT !.pid = IF bind /\ @ = NoPid THEN Shell ELSE @]}

\* SessionStart registers as starting, then as ready; `khala bind' binds, with
\* or without --takeover.
Register(c, p, kind, phase, way) ==
    /\ Idle(c) /\ p \in alive /\ kind \in Kinds[Of[p]]
    /\ way \in Ways /\ phase \in Phases
    /\ way # "register" => phase = "ready"
    /\ calls' = calls + 1
    /\ \E r \in Bound(p, reg[Of[p]], kind, phase = "ready", way # "register") :
         \* a process start is read for the pid, so it has to run
         /\ r.pid \in alive \cup {NoPid, Shell}
         /\ call' = [call EXCEPT ![c] = [at |-> "write", inst |-> Of[p],
                       rec |-> r, new |-> reg[Of[p]] = None, takeover |-> way = "takeover"]]
    /\ UNCHANGED <<world, reg, age, lease, scan>>

\* writeRegistration: the whole record, as computed.
WriteRegistration(c) ==
    /\ call[c] # None /\ call[c].at = "write"
    /\ reg' = [reg EXCEPT ![call[c].inst] = call[c].rec]
    /\ age' = [age EXCEPT ![call[c].inst] = IF call[c].new THEN "under 30 s" ELSE @]
    /\ call' = [call EXCEPT ![c].at = "claim"]
    /\ UNCHANGED <<world, lease, calls, scan>>

\* Variants: a claim that keeps the epoch, of any lease or of one in use.
NextEpoch_Kept(e) == e
NextEpoch_Same(e) == IF e = 0 THEN 1 ELSE e

NextEpoch(e) == e + 1

CanTakeOver(r) ==
    /\ Eligible(r)
    /\ r.kind = "interactive" \/ ~(OwnerLive /\ reg[lease.owner].kind = "interactive")

\* Variants: whoever asks; only a lease without an owner, live or dead.
MayClaim_Always(i, r) == Eligible(r)
MayClaim_Free(i, r) == Eligible(r) /\ lease.owner = None

\* Only over a dead or absent owner.
MayClaim(i, r) == Eligible(r) /\ ~OwnerLive

\* claimLease under .leases.lock: <<lease afterwards, epoch it returns>>.
Claimed(i, r, takeover) ==
    LET mine(e) == [owner |-> i, epoch |-> e, pid |-> r.pid]
        now == IF lease.epoch = 0 THEN 1 ELSE lease.epoch
    IN CASE takeover ->
              IF CanTakeOver(r) THEN <<mine(NextEpoch(lease.epoch)), NextEpoch(lease.epoch)>>
                                ELSE <<lease, None>>
         [] ~takeover /\ lease.owner = i ->
              IF Eligible(r) THEN <<mine(now), now>>
              ELSE <<[owner |-> None, epoch |-> lease.epoch, pid |-> NoPid], now>>
         [] ~takeover /\ lease.owner # i ->
              IF MayClaim(i, r) THEN <<mine(NextEpoch(lease.epoch)), NextEpoch(lease.epoch)>>
              ELSE <<lease, now>>

ClaimLease(c) ==
    /\ call[c] # None /\ call[c].at = "claim"
    /\ LET result == Claimed(call[c].inst, call[c].rec, call[c].takeover) IN
         /\ lease' = result[1]
         /\ call' = [call EXCEPT ![c] =
              IF result[2] = None THEN None
              ELSE [at |-> "stamp", inst |-> call[c].inst, epoch |-> result[2]]]
    /\ UNCHANGED <<world, reg, age, calls, scan>>

\* mutateRegistration; nothing if the file is gone.
Stamped(i, e) ==
    reg' = [reg EXCEPT ![i] = IF @ = None THEN None ELSE [@ EXCEPT !.epoch = e]]

StampEpoch(c) ==
    /\ call[c] # None /\ call[c].at = "stamp"
    /\ Stamped(call[c].inst, call[c].epoch)
    /\ call' = [call EXCEPT ![c] = None]
    /\ UNCHANGED <<world, age, lease, calls, scan>>

-----------------------------------------------------------------------------
(* release *)

\* Without an instance: what is dead, has no pid, or is the caller's ancestor.
Owns(p, r) == r.pid \in {NoPid, p} \/ ~Alive(r)

\* Targets are chosen from an unlocked read.
Release(c, p, named) ==
    /\ Idle(c) /\ p \in alive
    /\ (IF named THEN "release by instance" ELSE "release") \in Ways
    /\ LET i == Of[p] IN
         /\ reg[i] # None /\ (named \/ Owns(p, reg[i]))
         /\ call' = [call EXCEPT ![c] = [at |-> "remove", inst |-> i]]
    /\ calls' = calls + 1
    /\ UNCHANGED <<world, reg, age, lease, scan>>

RemoveRegistration(c) ==
    /\ call[c] # None /\ call[c].at = "remove"
    /\ reg' = [reg EXCEPT ![call[c].inst] = None]
    /\ call' = [call EXCEPT ![c].at = "free"]
    /\ UNCHANGED <<world, age, lease, calls, scan>>

FreeLease(c) ==
    /\ call[c] # None /\ call[c].at = "free"
    /\ lease' = IF lease.owner = call[c].inst
                THEN [lease EXCEPT !.owner = None, !.pid = NoPid] ELSE lease
    /\ call' = [call EXCEPT ![c] = None]
    /\ UNCHANGED <<world, reg, age, calls, scan>>

\* The call is killed with its session, or by its deadline.
Killed(c) ==
    /\ Killable /\ call[c] # None
    /\ call' = [call EXCEPT ![c] = None]
    /\ UNCHANGED <<world, reg, age, lease, calls, scan>>

-----------------------------------------------------------------------------
(* The notifier's scan *)

Load ==
    /\ scan.at = "idle"
    /\ scan' = [scan EXCEPT !.at = "verify", !.todo = {i \in Inst : reg[i] # None},
                            !.regs = reg, !.verified = {}, !.registry = registry]
    /\ UNCHANGED <<world, reg, age, lease, call, calls>>

\* Live processes with the session open, when there are several and the
\* registration points to one: the last started wins.
Newest(i, r) ==
    LET open == {p \in scan.registry \cap alive : Of[p] = i}
    IN IF Cardinality(open) < 2 \/ ~\E p \in open : p \in {r.pid, r.socket} THEN {}
       ELSE {p \in open : \A q \in open : q <= p}

Resolved(i, r) ==
    LET m == Matches(i, r, scan.registry)
        n == IF m # {} THEN m ELSE Newest(i, r)
    IN IF n = {} THEN {r} ELSE {[r EXCEPT !.pid = p, !.socket = p] : p \in n}

Verifies(i, r) ==
    /\ r.ready /\ Eligible(r) /\ Alive(r) /\ r.socket # None
    /\ Matches(i, r, scan.registry) # {}

Verdict(i, r) == {[s EXCEPT !.verified = Verifies(i, s)] : s \in Resolved(i, r)}

\* Variant: the lease keeps the pid it was claimed with.
Healed_Never(i, r) == lease

\* healLease, under its lock, against the registration the scan holds.
Healed(i, r) ==
    IF /\ r.pid # NoPid /\ r.epoch # 0
       /\ lease.owner = i /\ lease.epoch = r.epoch
    THEN [lease EXCEPT !.pid = r.pid] ELSE lease

\* Verify one registration, commit what changed after judging the file again
\* under its lock, and heal its lease.
VerifyRegistration(i) ==
    /\ scan.at = "verify" /\ i \in scan.todo
    /\ \E first \in Verdict(i, scan.regs[i]) :
       LET again == IF reg[i] = None THEN {first} ELSE Verdict(i, reg[i])
       IN \E r \in (IF first = scan.regs[i] THEN {first} ELSE again) :
            LET kept == IF first # scan.regs[i] /\ reg[i] # None THEN r ELSE scan.regs[i] IN
            /\ reg' = IF first # scan.regs[i] /\ reg[i] # None
                      THEN [reg EXCEPT ![i] = r] ELSE reg
            /\ lease' = IF r.verified THEN Healed(i, kept) ELSE lease
            /\ scan' = [scan EXCEPT !.todo = @ \ {i}, !.regs[i] = kept,
                         !.verified = IF r.verified THEN @ \cup {i} ELSE @]
    /\ UNCHANGED <<world, age, call, calls>>

NoRegs == [i \in Inst |-> None]

\* On to the reaper, with what was loaded.
ToReap(loaded) == [scan EXCEPT !.at = "reap", !.todo = loaded, !.regs = NoRegs,
                     !.verified = {}, !.registry = {}, !.pick = None, !.epoch = 0]

Loaded == {i \in Inst : scan.regs[i] # None}

\* reclaimLeases: the owner is judged before the lock is taken.
Reclaim ==
    /\ scan.at = "verify" /\ scan.todo = {}
    /\ LET ready == {i \in scan.verified : Eligible(scan.regs[i])} IN
       \/ /\ ready = {} \/ OwnerLive
          /\ scan' = ToReap(Loaded)
       \/ /\ ~OwnerLive
          /\ \E i \in ready : scan' = [scan EXCEPT !.at = "reclaim", !.pick = i,
               !.todo = Loaded, !.verified = {}, !.registry = {},
               !.regs = [NoRegs EXCEPT ![i] = scan.regs[i]]]
    /\ UNCHANGED <<world, reg, age, lease, call, calls>>

ReclaimClaim ==
    /\ scan.at = "reclaim"
    /\ LET result == Claimed(scan.pick, scan.regs[scan.pick], FALSE) IN
         /\ lease' = result[1]
         /\ scan' = IF result[1].owner = scan.pick
                    THEN [scan EXCEPT !.at = "stamp", !.epoch = result[2], !.regs = NoRegs]
                    ELSE ToReap(scan.todo)
    /\ UNCHANGED <<world, reg, age, call, calls>>

ReclaimStamp ==
    /\ scan.at = "stamp"
    /\ Stamped(scan.pick, scan.epoch)
    /\ scan' = ToReap(scan.todo)
    /\ UNCHANGED <<world, age, lease, call, calls>>

\* Variant: a process that is not known yet counts as dead.
Expired_Young(i) ==
    ~Alive(reg[i])

\* deadRegistrationExpired, judged again on the file.
Expired(i) ==
    reg[i].pid # NoPid /\ ~Alive(reg[i]) /\ age[i] = "old"

\* reapDeadRegistrations
Reap(i) ==
    /\ scan.at = "reap" /\ i \in scan.todo
    /\ reg' = IF reg[i] # None /\ Expired(i) /\ lease.owner # i
              THEN [reg EXCEPT ![i] = None] ELSE reg
    /\ scan' = [scan EXCEPT !.todo = @ \ {i}]
    /\ UNCHANGED <<world, age, lease, call, calls>>

EndScan ==
    /\ scan.at = "reap" /\ scan.todo = {}
    /\ scan' = [scan EXCEPT !.at = "idle"]
    /\ UNCHANGED <<world, reg, age, lease, call, calls>>

-----------------------------------------------------------------------------
Work(c) == WriteRegistration(c) \/ ClaimLease(c) \/ StampEpoch(c)
              \/ RemoveRegistration(c) \/ FreeLease(c)

Scanning ==
    \/ Load \/ Reclaim \/ ReclaimClaim \/ ReclaimStamp \/ EndScan
    \/ \E i \in Inst : VerifyRegistration(i) \/ Reap(i)

Next ==
    \/ \E p \in Proc : Start(p) \/ Publish(p) \/ Die(p)
    \/ \E i \in Inst : Elapse(i)
    \/ \E c \in Call, p \in Proc, kind \in {"interactive", "worker"},
          phase \in {"starting", "ready"}, way \in {"register", "bind", "takeover"} :
             Register(c, p, kind, phase, way)
    \/ \E c \in Call, p \in Proc, named \in BOOLEAN : Release(c, p, named)
    \/ \E c \in Call : Work(c) \/ Killed(c)
    \/ Scanning

Spec == Init /\ [][Next]_vars

\* Calls run to their end, Claude writes its registry, the notifier scans
\* every second.
FairSpec ==
    /\ Spec
    /\ WF_vars(Scanning)
    /\ \A c \in Call : WF_vars(Work(c))
    /\ \A p \in Proc : WF_vars(Publish(p))

-----------------------------------------------------------------------------
\* The epoch fences: the lease never reaches another session, or the same one
\* again after a release, under an epoch that was in use before.
Fenced ==
    [][/\ lease'.epoch >= lease.epoch
       /\ lease'.owner \notin {None, lease.owner} => lease'.epoch > lease.epoch]_vars

\* The first live claimant owns the identity: it loses it only to a takeover,
\* to its own release or to its own registration as a plain worker.
FirstClaimant ==
    [][OwnerLive /\ lease'.owner # lease.owner =>
         \E c \in Call : /\ call[c] # None /\ call[c] # call'[c]
                         /\ \/ call[c].at = "claim" /\ (call[c].takeover \/ call[c].inst = lease.owner)
                            \/ call[c].at = "free" /\ call[c].inst = lease.owner]_vars

\* The notifier never removes the registration of a running process.
ReapsDead ==
    [][\A i \in Inst : reg[i] # None /\ reg'[i] = None /\ scan' # scan
         => ~RegLive(i)]_vars

\* What maybeNotify and watch-ready ask before a doorbell.
Rings(i) ==
    /\ reg[i] # None /\ reg[i].verified /\ reg[i].ready
    /\ lease.owner = i /\ lease.epoch = reg[i].epoch /\ lease.pid = reg[i].pid

Receivable(i) ==
    /\ reg[i] # None /\ Eligible(reg[i]) /\ reg[i].ready
    /\ reg[i].socket \in alive \cap registry /\ reg[i].pid \in {NoPid, reg[i].socket}

\* While a session that can be rung stays registered, the identity ends up with
\* a live owner, whatever releases, deaths and half-done calls came before.
Recovers == <>[](\E i \in Inst : Receivable(i)) => <>[]OwnerLive

\* ... and if no call was killed half-way, with one the doorbell rings.
Heard == <>[](\E i \in Inst : Receivable(i)) => <>[](\E i \in Inst : Rings(i))
=============================================================================
