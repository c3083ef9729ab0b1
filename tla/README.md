# A TLA+ model of khala

khala is a mail system for coding sessions on several machines. Everything a
machine knows is a file under `~/.khala`; a bash program, `bin/khala`, gives the
files their meaning, and Go daemons, `link/`, move them faster than rsync does,
tell sessions that mail has come and carry it into a chat. This directory models
the store-and-forward protocol of `bin/khala` with its directory locks, and of
`link/` the relay, the registrations and leases of sessions, the notifier and the
chat gateway.

## 1. The system

| Part | State it keeps | Operations | What is hard, what makes it correct | Model |
|---|---|---|---|---|
| Mail store (`bin/khala`) | `outbox/new,acked,dead`, `spool/for/<node>`, `inbox/*/new,cur`, `log/delivered` | `send`, `reconcile`, `inbox --drain`, `inbox ack-read` | Any process can die between two file operations; every letter is retransmitted until settled. Delivered at most once, acked only if delivered, never dead without a bounce, always resolved. | `Mail` |
| Exchange (`bin/khala`) | the same spools, on two machines | `exchange_with_endpoint`: pull, settle acks, push, pull, streams and presence, drop pushed acks | Runs outside the state lock, links break half way. Nothing lost, no ack without a delivery. | `Mail` |
| Directory locks (`bin/khala`) | `run/*.lock.d/owner` | `acquire_lock`, `release_lock` | mkdir, owner file, staleness test and rm are separate steps. Mutual exclusion; a dead holder's lock is freed. | `StateLock` |
| Relay (`link/pump.go`, `install.go`, `watch.go`, `protocol.go`) | per-connection caches of stored, rejected and received transfers; temporaries | OFFER/NEED/HAVE/DATA/STORED, install without clobbering, removal of transit copies, quarantine | Two directions share a connection; sessions break; rsync and the CLI write the same paths. Nothing unlinked unless the peer had it, nothing changed under its name, everything offered settles. | `Relay` |
| Leases (`link/runtime.go`, part of `conduit.go`) | one registration per session, one lease per identity with an epoch | register, bind, takeover, release; verify, heal, reclaim, reap | Several steps under two locks, sessions resumed by another process, kills half-way. Epochs fence, the first live claimant keeps the identity, whoever stays is rung. | `Leases` |
| Notifier (`link/conduit.go`, stamps of `ears.go`) | doorbell memory per identity, journals, sidecar | scan, ring, journal, back off, restore | Owner, mail and stamps change between two steps; restart in mid attempt. Rung neither early nor late. | `Notifier` |
| Chat gateway (`link/gateway*.go`, `telegram.go`) | poll offset, topics, references, out queue | poll, send as user, create and forget topics, post, ack-read | Two threads, a chat whose answers get lost, a crash between an effect and the offset that records it. | `Gateway` |
| Keyed sends (`bin/khala`) | `requests/send/<session>/<key>` | `send --request-id` | Crash between ledger, outbox and receipt. One key, one letter. | in `Gateway` |
| Alerts, watchdogs (`bin/khala`) | notices in spools and inboxes, `presence/*.watcher` | `notify`, coalescing, heartbeat timeout, retirement | Arrival order differs from sending order; a timeout races a late heartbeat. | |
| Streams, session status (`bin/khala`) | entries and generations per owner, reader cursors | `say`, `join`, `mind`, pruning, preservation | A cursor must not pass over an entry that arrives late. | |
| Parent notices, triage, listener snapshots (`link/parent.go`, `triage.go`, `ears.go`) | covered Ids, verdict cache, snapshots | notice, classify, publish | Crash between the notice and its record; workers and scan write one file. | |
| Dashboard, CLI, configuration, hooks, installer | none of their own | | Read-only or plumbing. | |

`send` and the session hooks leave files; `reconcile` and the exchange run in a
loop (cron, daemon or hand) and move them; the relay replaces the exchange when a
connection is up and starts `reconcile` when something has arrived; the notifier
watches the inboxes and rings the session that owns the identity's lease; the
gateway is one more reader and a sender through keyed sends. All of `bin/khala`'s
state changes on a machine happen under the state lock (`run/brain.lock.d`) except
those of `send` and of the exchange's transfers.

The parts meet in files, and a model takes the others' effect on its files as
steps that may come at any time: letters arrive and are drained in `Notifier` and
`Gateway` because `Mail` installs and reads them, paths appear and vanish in
`Relay` because `reconcile` and rsync touch them (`Put`, `Take`), the owner of an
identity changes in `Notifier` (`Move`, `Verify`) because it does in `Leases`.

`PROJECT.json` lists every part with its status and, under `hazards`, the places
where it can go wrong in ways a test hardly reaches.

## 2. Modules

| Module | What it is |
|---|---|
| `Mail` | the mail store and the exchange: state, actions, properties, inductive invariant |
| `MailPromise` | what `khala send` promises sender and reader, with no spools, locks or crashes |
| `MailProof` | theorems for every network and any faults: types, acks, bounces |
| `MailOnceProof` | theorems for every network and any crashes: dedup, at-most-once |
| `MailPromiseProof` | the theorem that `Mail` implements `MailPromise` |
| `StateLock` | the directory lock, system call by system call |
| `StateLockProof` | theorems for any number of processes: types, mutual exclusion of prompt holders |
| `Relay` | one connection of the relay daemon, over several sessions |
| `RelayProof` | theorems for any paths, contents and sessions: types, immutability, whole files, declarations, unlinks |
| `Leases` | registrations and the lease of one identity |
| `LeasesProof` | theorems for any sessions, processes, overlapping calls and kills: types, fencing, first claimant, reaping |
| `Notifier` | the doorbell of one identity |
| `NotifierProof` | theorems for any processes, registrations and schedules: types, degradation, pacing |
| `Gateway` | the chat gateway |
| `GatewayProof` | theorems for any sessions, updates, letters and faults: types, posted before read, repeats, updates handled |
| `MCMail`, `MCStateLock`, `MCRelay`, `MCLeases`, `MCNotifier`, `MCGateway` | the small instances that TLC checks |

Definitions named `X_Something` are faulty variants of `X`: with the variant in
place of `X`, TLC finds a property violated.

### Mail

*State.* `outbox[m]` says which outbox directory holds letter `m` at its sender;
`spool[n]` are the files under `spool/for/*` of machine `n`; `inNew`, `inCur` and
`log` are the inboxes and the dedup log, each file at its home node. A file is its
type and the Id of the letter it is or refers to: Ids of acks and bounces are
computed from `Refs` (`infrastructure_message_id`), so two acks for one letter are
one file. `landed` is history: what was ever installed in an inbox.

*Processes.* `sendPc` is the `send` process of each letter, which holds no lock.
`phase/todo/step/cur` is the holder of a machine's state lock: the phase of
`reconcile_cycle`, the rest of the glob its `for` loop expanded, the operation
inside the loop body it is about to do, and the letter in hand. `xpc/xtodo/xmoved`
is the machine's exchange, which needs the state lock only for
`settle_visible_acks`.

*Steps.* One action per file operation that another process could see on its own:
install, dedup record, ack and removal of the spool copy are four steps of a
delivery, bounce, burial and removal three of an expiry; a pulled file is copied
and unlinked upstream in two. `CoreDies`, `SendDies` and `ExchangeFails` can come
between any two of them.

*Abstractions.*
- A loop over an empty glob does nothing, so it is passed over in the step that
  ends the loop before it (`Advance`); `copy_outbox_to_spool` and `expire_outbox`
  read the clock once before their loop, so what they skip is left out of `todo`.
- Ids contain random digits, so the order of a glob is arbitrary.
- Time is what clocks say about `Expires`: `Lapse(n, m)` is the moment `n`'s own
  clock passes it, for the machines in `Clock`. Clocks may differ by any amount. Ages of archived files are not
  modelled: the archive sweep may take any of them.
- `prune_delivered_log` drops an Id after 60 days and `send -e` allows at most 59,
  so `StaleLog` lets it drop only Ids of letters that have expired on that machine.
  That needs the recipient's clock to be less than a day behind the sender's, which
  is the margin the code relies on too.
- Types `message` and `operator` are treated alike by this code and are one kind.
  Files that fail `validate_spool_file` are not modelled; notices, streams and
  presence are other parts.
- A letter is addressed to a machine; sessions of one machine are not told apart.
- The state lock and the exchange lock are taken to exclude. `StateLock` studies
  when they do.

### MailPromise

Two variables: where the sender's copy is, and whether the reader has not got the
letter, has it unread, or has taken it. `Mail` maps to it with `sender <- outbox`
and `reader` computed from `inNew` and `landed`; `KeepsPromise` is the refinement.

### StateLock

`dir` and `owner` are the lock directory and its owner file, `age` the age of the
latter, saturated one past the threshold, and `pc` the place of each process in
`acquire_lock` / `release_lock`. `rm -rf` is two steps, removal of the owner file and
rmdir. `Prompt` says whether live holders always finish within the threshold;
`CrashAt` where a process may be killed. Signals that bash can trap release the
lock and are ordinary releases.

### Relay

*State.* `file[s][p]` is what is at path `p` on side `s`, `Torn` if its writer has
not finished. `wire`, `answers` and `queue` are the frames under way, the channel
from `readLoop` to `sendCandidate` and the candidates; `send` and `incoming` the
offer each direction is busy with; `install` and `staged` the install goroutines
and whose file is at the temporary name they share; `known`, `rejected` and
`origins` the caches of `relayLoop`. `landed` is history: what a side ever had
durably at a path.

*Steps.* One action per case of `sendCandidate` and of `readLoop`, three for
`installer.receive` (create the temporary, write and sync it, compare and rename)
and one for the reply. `Connect` starts with empty caches; `Break` ends a session
anywhere, after which the client's install goroutine runs on while the server's
process is gone; `DialDies` kills the client. `Put` and `Take` are the CLI, rsync
and other downstreams on the same directories.

*Abstractions.* A transfer Id is the path and the bytes. Kinds of paths are those
the code treats differently: letters, acks and bounces, watcher declarations (the
only files renamed over; their bytes are their epoch), stream entries (expired or
in the future by each side's own clock). HELLO, keepalive and version checks are
part of `Connect` and `Break`.

### Leases

*State.* `alive`, `born` and `registry` are the processes and Claude's own session
files; `reg` the registrations, `lease` the lease, `call` the hooks and CLI calls
under way with what they have read or computed, `scan` the notifier's scan with the
registrations it loaded. A pid together with its start time is a process; `Shell`
is the pid of the calling command, which `bind` registers when it finds no
process and which is dead at once.

*Steps.* register and bind are four (compute from an unlocked read, write the
record, claim the lease, stamp the epoch), release three; each is atomic because it
happens under one lock. The scan loads, verifies one registration after the other,
reclaims (judge, claim, stamp) and reaps. `Killed` stops a call anywhere.
`age` is time where the code tells it apart: 30 seconds for a registration without
pid, ten minutes for a dead one.

*Abstractions.* One identity and one boot; a reboot makes every registration and
lease void (`loadRegistrations` and `claimLease` compare boot ids). Sockets are
named by their process. `holders` and status commands only read.

### Notifier

*State.* `inbox` is the set of letters to ring for, which stands for their digest;
`drained` and `turn` the stamps of `khala inbox` and of the hooks; `journal`,
`sidecar` and `native` what is on disk; `mem` the record `notifierState`; `scan` what
`maybeNotify` holds between its steps. `rung` and `quiet` are history: frames the
owner has not read, with the reason why one was forgotten, and how many whole
seconds a ready owner has waited unrung.

*Steps.* `Decide` is the first half of `maybeNotify` under `statesMu`, with
`restoreState` when there is no memory; then `Ring`, `Fail` or `Skip`, `Journal`, and
`Note`, the second half. `Crash` comes between any two. The scan comes every second,
so the clock does not pass a second without one (`Tick`).

*Abstractions.* Times are whole seconds; the socket, channel and native ways of
delivery are one write that is made or fails; `Backoff` and `RetryAfter` are
schedules of one and two delays instead of four and five.

### Gateway

*State.* `chat` is every update of the group, `threads` its topics, `confirmed` what
Telegram has forgotten; `disk` and `mem` are `gateway.state.json` and its copy;
`main` is the main loop, which holds `g.mu` whenever it is not idle, `sender` the send
loop, `queue`, `inflight` and `held` the out queue; `inbox`, `read`, `ledger` and `sent`
are the mail store of the node. `posted`, `again`, `said` and `refused` are history.

*Steps.* An update is taken (`HandleBatch`), carried out (`SendAsUser`, `Say`, `Close`,
`CreateTopic`) and passed (`Advance`); a letter is looked at (`IsInflight`), relayed or
skipped, posted (`Post`), acknowledged. Whatever the code does when a command, the
network or the state file fails is a disjunct with `Fault`. Keyed sends are `Sends`:
a retry finds the request saved, linked or published and never links twice.

*Abstractions.* `pollLoop` delivers a batch and a crash or error drops its rest, so
updates are taken one by one from the offset. A topic is refused when it is closed
and unknown when it is deleted. Texts, replies to commands, status posts, notice
preferences, chunks and the rate limit are left out: none of them touches this
state.

## 3. What TLC checks

| Run | Instance | Properties |
|---|---|---|
| `mail_self` | one machine, one letter to itself, both age-out sweeps, three crashes, fair, clocks advance | `TypeOK`, `NoSilentDeath`, `DedupCovers`, `AtMostOnce`, `Resolved`, `BounceArrives` |
| `mail_up` | client to upstream, one letter, one crash, lost link or failing operation, fair | `NoSilentDeath`, `KeepsPromise`, `Delivered` |
| `mail_via` | client to client through an upstream that runs no reconcile, one crash or lost link; only the recipient's clock reaches the `Expires` | `AckMeansDelivered`, `AtMostOnce` |
| `lock_race` | three processes, one death while holding, holders of any speed | `TypeOK`, `LockFreed` |
| `relay` | an ack, a letter and a watcher declaration with two contents each, two appearances, two sessions, queues of one | `TypeOK`, `Whole`, `SafeUnlink`, `Immutable`, `WatcherForward` |
| `relay_live` | an ack, a letter and three stream entries on which the clocks disagree, two sessions, fair | `Converges` |
| `leases` | an interactive session and a worker that opted in, two calls that may overlap and be killed, fair | `TypeOK`, `Fenced`, `FirstClaimant`, `Recovers` |
| `leases_resume` | one session opened by two processes, three calls one after the other, starting and ready, fair | `ReapsDead`, `Heard` |
| `notifier` | two letters (symmetric), a session resumed in another process, six seconds, one drain, one move of the lease or turn, one crash, failed write or killed drain | `TypeOK`, `Prompt`, `Degraded`, `Paced` |
| `gateway` | one session, two updates of every sort, one letter, bounce or notice, two faults (deleted topic, failure, stop or crash), fair | `TypeOK`, `ReadAfterPosted`, `Repeats`, `Handled`, `Progress`, `Relayed` |
| `lock_steal` (violated) | three processes, one death, prompt holders | `Mutex` |
| `leases_heard` (violated) | one process, a register and a takeover, one after the other | `Heard` |

*The bounds.* One letter in `Mail` already meets itself in every place, because it
is retransmitted while its ack, its bounce and its copies are under way; one fault
stops a run at every point once, three (`mail_self`) also during recovery. In `Relay`
two contents are what a path needs to be changed, two sessions what a cache or a
temporary needs to outlive one, and a queue of one is always full. In `Leases` two
overlapping calls and the scan make three writers; a third call only matters when
one session registers, is resumed and registers again (`leases_resume`). Six seconds
in `Notifier` are enough for a frame, its repetition by the longest delay and a
restart in between; a failure in a row needs two attempts, which is `DegradeAt`.
In `Gateway` two faults make a retry fail. Runs may stop because all letters are
settled, all calls made or the clock at its bound, so deadlock is checked in the
lock runs only.

*Fairness.* The core loop starts reconcile and exchange again and again, and a
process that was started and is not killed runs to its end (weak fairness of
`CoreStep`, `ExchangeStep`, `SendStep`). Processes that need the state lock retry
every second or quarter of a second, so they get a lock that keeps becoming free
(strong fairness of `StartReconcile` and `StartPreSettle`). `TimedSpec` adds that
the sender's clock passes every `Expires`. In `StateLock` time passes, and processes
come back for the lock. In `Relay` the dial loop, the goroutines of a session and
its installs go on; a candidate that is eligible gets into the queue again and
again becoming free (strong fairness of `Enqueue`: the scan, every 30 seconds,
walks the whole tree in a fixed order and `sendLoop` drains the queue meanwhile).
In `Leases` calls run to their end, Claude writes its registry file, and the
notifier scans every second; nobody is made to call anything. In `Gateway` both
loops run, systemd starts the gateway again, and the sender gets the mutex that
the main loop keeps releasing (strong fairness of `ForgetThread`; Go's mutex hands
itself to a waiter of one millisecond). Nothing is assumed about faults but their
number, and nothing about readers and users.

### Disagreements with the documents

Two runs show the code doing something else than a document of the repository
says; `findings` in `PROJECT.json` quotes the lines.

- `lock_steal` (`Mutex`): two waiters that judge the same dead owner stale can end
  up both holding the lock.
- `leases_heard` (`Heard`): the claim of `bind --takeover` and that of the notifier's
  reclaim stamp the registration in the other order; its epoch stays another than
  the lease's, and the only live session is never rung. Overlapping register calls
  or a call killed between claim and stamp come to the same, hence `leases_resume`
  checks `Heard` for calls that neither overlap nor die.

More were met while modelling and have no run of their own:

- After a crash between the bounce (`bin/khala:2931`) and the burial (2936), an ack
  settles a letter whose sender has already got the bounce; `DESIGN.md:957-958` calls
  the verdict final.
- An ack queued while an exchange is between its push and its clean-up
  (`bin/khala:2583`) is deleted unpushed. The retransmission heals it.
- The spool copy that a slow `send` links (`bin/khala:4217`) after its letter was
  buried stays at the sender for ever and is pushed in every exchange.
- A lock directory without an owner file, left by a kill inside `acquire_lock` or
  `release_lock` (`bin/khala:703`), is never freed.
- An ERROR frame names no transfer. The refusal of an oversized object
  (`pump.go:483-490`) can answer another offer that is pending (`pump.go:591`), which
  is then taken to be refused in this session, and a sender whose offer is answered
  so early may make the next while the peer still waits for DATA or is installing:
  that offer is a second one in flight, which ends the session, whereas the comment
  on `installIncoming` (`pump.go:366-368`) says it cannot happen.
- An install goroutine of a session that has broken can meet, in the dial process,
  the install of the same object in the next session. Both use
  `tmp/link.<id>.<pid>` (`install.go:160`), and the older may rename the newer's
  half-written file into place. With `Linger = TRUE` TLC finds `Whole` violated.
- A notifier that starts while nobody owns an identity with mail remembers a blank
  schedule (`conduit.go:612`), and rings the owner that comes back at once, although
  it has unread frames.
- The bounce of a text whose topic was deleted is posted into the dead thread once a
  minute (`gateway.go:999-1032`) until a save prunes the reference after a week;
  in a chat where nobody writes no save comes.
- A text can be sent and answered with "use /open" too: when the topic is forgotten
  between a send that failed after linking the letter and its retry.
- A text that `khala send --request-id` refuses every time, because the saved request
  has expired before it was published or `user expires` was changed, blocks all later
  updates (`gateway.go:508`).
- `/say` has no key: it is repeated when the gateway dies before the offset is saved.

## 4. What is proved

Each theorem holds for every value of the constants that the named assumption of
its component allows (`MailAssumption`, `LockAssumption`, `RelayAssumption`,
`LeasesAssumption`, `NotifierAssumption`, `GatewayAssumption`: the types of the
constants, and what the code makes of them), and that `None`, the missing file or
record, is not one of them (`NoneAssumption`, `NoState`). Further hypotheses stand
in the table.

| Theorem | Says | Provided that |
|---|---|---|
| `MailProof!TypeCorrect` | `Spec => []TypeOK` | |
| `MailProof!AcksAreProofOfDelivery` | `Spec => []AckMeansDelivered` | |
| `MailProof!DeadLettersBounce` | `Spec => []NoSilentDeath` | |
| `MailOnceProof!DedupAlwaysCovers` | `Spec => []DedupCovers` | `~IOFaults` |
| `MailOnceProof!ReadersSeeLettersOnce` | `Spec => AtMostOnce` | `~IOFaults` |
| `MailPromiseProof!ProtocolKeepsPromise` | `Spec => KeepsPromise` | `EvidenceKept` |
| `StateLockProof!LockTypeCorrect` | `Spec => []TypeOK` | |
| `StateLockProof!PromptHoldersExclude` | `Spec => []Mutex` | nobody dies, holders release in time |
| `RelayProof!TypeCorrect` | `Spec => []TypeOK` | |
| `RelayProof!FilesAreImmutable` | `Spec => Immutable` | |
| `RelayProof!FilesAreWhole` | `Spec => []Whole` | `~Linger` |
| `RelayProof!DeclarationsGoForward` | `Spec => WatcherForward` | `~Linger` |
| `RelayProof!UnlinksAreSafe` | `Spec => SafeUnlink` | `~Linger` |
| `LeasesProof!TypeCorrect` | `Spec => []TypeOK` | |
| `LeasesProof!EpochsFence` | `Spec => Fenced` | |
| `LeasesProof!FirstClaimantKeeps` | `Spec => FirstClaimant` | |
| `LeasesProof!OnlyDeadReaped` | `Spec => ReapsDead` | |
| `NotifierProof!TypeCorrect` | `Spec => []TypeOK` | |
| `NotifierProof!DegradedByOwnFailures` | `Spec => []Degraded` | |
| `NotifierProof!RingsArePaced` | `Spec => Paced` | `Lengthening` |
| `NotifierProof!OwnersAreRungPromptly` | `Spec => []Prompt` | `Schedules` |
| `GatewayProof!TypeCorrect` | `Spec => []TypeOK` | |
| `GatewayProof!PostedBeforeRead` | `Spec => []ReadAfterPosted` | |
| `GatewayProof!RepeatsAccounted` | `Spec => []Repeats` | |
| `GatewayProof!UpdatesHandled` | `Spec => []Handled` | |

### The hypotheses

- `~IOFaults`: crashes and lost links at any point, but no single file operation that
  fails while its process lives on. Without it a pass of reconcile can go on from a
  failed `record_delivered` to the sweep that removes the last trace of the delivery.
- `EvidenceKept` (`IOFaults = FALSE \/ Retention = FALSE`) is that hypothesis made as
  weak as the refinement allows: failing operations and the age-out of delivered
  letters do not meet.
- `~Linger`: no install goroutine outlives its session and meets the next install of
  the same object in the dial process. With it `Whole` is false (section 3,
  Disagreements). `Immutable` needs no such condition.
- `Lengthening`: no repeat of a frame waits shorter than the one before. The schedule
  in the code doubles from 10 to 320 minutes (`conduit.go:268`); only the override
  `KHALA_CONDUIT_TEST_REWRITE_AFTER` can break it. It is needed because a new
  notifier counts the unread frames in the journal, and that may be more than this
  process got: with falling delays the larger count would ring too early.
- `Schedules`: the pauses after failures do not get shorter either, the longest of
  them is at least one second and at most the longest wait for unread frames, and
  that is more than one second. In the code they end with 30 seconds and 320 minutes
  (`conduit.go:298`, `:268`). It is needed because the wait of an owner need not begin
  when the notifier sets its timer: the inbox was empty, somebody else owned the
  identity, or a turn stamp was still missing, and that state can end one second
  into a wait.
- The lock's hypotheses: `lock_steal` shows that the second is needed.

### The arguments

None of the properties is inductive by itself. The strengthenings stand at the end
of each component's module, or of its proof module, as conjunctions of named parts;
TLC checked every part on small instances before it was proved. Each part has its
own step lemma, with one case per action that touches its variables; lemmas named
`...Steps` say which actions those are, lemmas named `...Effect` what a complicated
action does.

*Mail.* `SafeInv == TypeOK /\ LoopInv /\ LinkInv /\ LandedInv /\ BounceInv`:
`LoopInv` says what kind of letters a lock holder has in hand, `LinkInv` what kind
of files an exchange has, `LandedInv` that everything which speaks of a delivery
(log line, ack in a spool or in transit, a letter in outbox/acked, a loop that is
past the install) comes after it, and `BounceInv` that between bounce and burial
the bounce is still there or has arrived. For dedup, `DedupInv` describes the one
dangerous state, a letter installed but not in the log (`Unrecorded`): its spool
copy and its inbox copy are both still there, no ack for it exists anywhere, and
the holder of the state lock is not past its delivery loop, so the next pass writes
the missing line before any sweep can remove the evidence.

*The refinement of `MailPromise`* maps spools, locks, loops and crashes away. Every
action is a stutter or one abstract step; the two that need an invariant are the
install, which must be of a letter its reader was never given (`DedupInv`, or, without
age-out, `KeptInv`: an inbox or the log still shows it), and the settlement of a
letter, which must come after its delivery (`LandedInv`). `SentInv` says that nothing
travels that was not sent, and that nobody else settles what `expire_outbox` found.

*The lock.* `InsideInv` says that the directory exists just while one process is
between its mkdir and its rmdir, and that the owner file is that process's own and
never stale, so nobody starts to reclaim.

*Relay.* `OneInstaller`: a side has one install goroutine at a time, so nobody writes to
the temporary another is about to rename, and `Whole` follows. `TruthfulInv` follows the
evidence for an unlink back through the connection: a STORED frame on the wire or in
the channel of answers, an entry of the `known` cache and an install that is about to
answer are all about bytes that side has had (`landed`), because the installer wrote or
compared them first. For a watcher declaration STORED may also mean a newer one,
which is why `HasHad` leaves it out.

*Leases.* `Shape` adds to the types what calls and scan carry with them, and
`ScanInv` that the scan judges only registrations it has loaded and reclaims only for
one that is eligible. The second is what `FirstClaimant` needs: between the judgement
outside the lock and the claim inside it the owner may have come to life, and
`claimLease`, asked for an eligible session, then leaves the lease alone
(`ClaimedLease`). `LeaseMoves` says which steps touch the lease at all.

*Notifier.* `NotifierInv == TypeOK /\ Past /\ AtWork /\ Failing`. `Past`: no stamp is
in the future. `AtWork`: a scan under way has its memory, and the memory is about
the process it rings. `Failing`: the failures that memory counts are the last
attempts in the journal of its target, and those of a registration are a run
somewhere in its own; so a count that a restart restores from the journal
(`RestoredType`), or that the next owner inherits, is never too long. `Scheduled`, for
`Paced`, relates four records of the same frames: what the process got (`rung`), what
the journal holds, what the memory counts and what the scan under way has not
written down yet. The journal has at least as many unread frames as the process, the
last of them is the last it got, and whatever failed after it failed after the next
was due; hence a restart between any two steps finds the same schedule or a later
one.

For `Prompt`, `WaitInv` follows the quiet seconds of a ready owner back to the moment
they began. `Undisturbed`: nothing was attempted since. `Accounted`: a frame the memory
counts is in a journal, so it cannot be younger than that moment. `Foreseeable`: the next
attempt lies at most a schedule's length after it. `Scanned`: once the scan of a
second is over, the wait goes on only because that scan found, for this very owner, that
it is not yet time; the exceptions last one second. Together they put every tick of the
clock that prolongs the wait before `next`, and `next` before the bound.

*Gateway.* `GatewayInv` has ten parts. `InHand` says what the main loop has in hand
between the steps at which it can die, `InFlight` that a letter under way is in the queue
or with the sender, once, and unread until its post is acknowledged. `Unposted` counts:
a letter was posted as often as something went wrong, and once more when it is read or
about to be; it yields `ReadAfterPosted` and `Repeats`. For `Handled`, `Passed` says that
what lies behind the offset, in memory, on disk or at Telegram, was carried out, `Keyed`
that a published key has exactly one letter, `Referenced` that memory and file have its
reference as long as no save failed, and `SaidOnce` that a `/say` is carried out once in
each life of the daemon. `Linked` says that topics and updates which are named exist.

*Only model-checked.* Liveness (`Delivered`, `Resolved`, `BounceArrives`, `LockFreed`,
`Converges`, `Recovers`, `Heard`, `Progress`, `Relayed`) needs fairness and `ENABLED`,
which is beyond the prover. Every invariant and every action
property that a passing run checks has a theorem, under the hypotheses of the table.
`Mutex` of the lock, which `lock_steal` shows violated, has one for the case in which it
holds (`PromptHoldersExclude`).
## 5. Not modelled, and plan

Not modelled: in the gateway, replies, status posts, notice preferences, chunks and
the rate limit; in the relay, `recoverStaleTemps`, the age-out of `spool/dead` and
listener snapshots; alerts and watchdogs; streams and session status as readers see
them; parent notices; triage; presence. Dashboard, CLI parsing, configuration, hooks
and the installer keep no protocol state of their own.

Next:

1. Proofs: mutual exclusion of `StateLock` for two processes with
   deaths while holding.
2. `Alerts`: coalescing, expiry, heartbeat timeout and deregistration.
3. `Streams`: cursors, pruning, generations; `ParentNotice`; `Triage`.
