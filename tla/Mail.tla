-------------------------------- MODULE Mail --------------------------------
(***************************************************************************)
(* The store-and-forward mail protocol of the core CLI, bin/khala: send,   *)
(* the reconcile pass, the rsync exchange with the upstream ("mailbox")    *)
(* node, inbox reads and retention.                                        *)
(*                                                                         *)
(* Everything a node knows is a file; every step below is one atomic file  *)
(* operation (ln, mv, rm, an rsync'd file) or a group of them under the    *)
(* state lock that no other process can observe half way.  A process can   *)
(* die between any two steps.                                              *)
(*                                                                         *)
(* Expiry is observed per node: Lapse(n, m) is the moment node n's own     *)
(* clock passes the Expires header of m, so clocks may disagree by any     *)
(* amount, but no clock runs backwards over an Expires it has passed.      *)
(***************************************************************************)
EXTENDS Naturals

CONSTANTS
    Node,       \* the machines
    Hub,        \* the upstream node named by the "mailbox" config line
    Core,       \* nodes on which `khala reconcile' runs at all
    Letter,     \* messages, identified by their Id
    Origin,     \* Origin[m]: the node part of From
    Dest,       \* Dest[m]: the node part of To
    None,       \* "no letter in hand"
    Clock,      \* the machines whose clocks reach an Expires
    Retention,  \* does retention_due ever say yes?
    IOFaults,   \* may a single file operation fail while the process lives on?
    MaxFaults   \* bound on crashes, failed file operations and lost links

ASSUME MailAssumption ==
    /\ Hub \in Node
    /\ Core \subseteq Node
    /\ Origin \in [Letter -> Core]
    /\ Dest \in [Letter -> Core]
    /\ None \notin Letter
    /\ Clock \subseteq Node
    /\ Retention \in BOOLEAN
    /\ IOFaults \in BOOLEAN
    /\ MaxFaults \in Nat

VARIABLES
    outbox,   \* outbox[m]: which of outbox/new, acked, dead holds m at Origin[m]
    spool,    \* spool[n]: the files under n's spool/for/*/
    inNew,    \* files in inbox/*/new, at their home node
    inCur,    \* files in inbox/*/cur
    log,      \* Ids in log/delivered, at their home node
    landed,   \* history: files ever installed in an inbox
    lapsed,   \* lapsed[n]: letters whose Expires n's clock has passed
    sendPc,   \* progress of the `khala send' process of each letter
    phase,    \* what the holder of n's state lock (brain.lock.d) is doing
    todo,     \* the rest of the holder's current `for' loop
    step,     \* where in the loop body the holder is
    cur,      \* the letter in the loop body
    xpc,      \* progress of n's exchange (holder of exchange.lock.d)
    xtodo,    \* files the exchange has listed and not transferred yet
    xmoved,   \* files the running transfer has copied: a pull has yet to unlink
              \* their source, a push will not send them again
    faults

store == <<outbox, spool, inNew, inCur, log, landed>>
core == <<phase, todo, step, cur>>
xchg == <<xpc, xtodo, xmoved>>
vars == <<store, core, xchg, lapsed, sendPc, faults>>

-----------------------------------------------------------------------------
(* Files.  A spool or inbox file is its Type and the Id of the letter it    *)
(* is, or refers to: acks and bounces have Ids computed from Refs, so two   *)
(* of them for one letter are the same file.                                *)

Kind == {"message", "ack", "bounce"}
File == Kind \X Letter

Message(m) == <<"message", m>>
Ack(m) == <<"ack", m>>
Bounce(m) == <<"bounce", m>>

\* The node part of a file's To header: acks and bounces go back to the sender.
Home(f) == IF f[1] = "message" THEN Dest[f[2]] ELSE Origin[f[2]]

\* outbox/new/* at n, and the letters of Type k in n's own spool/for/<self>/*.
Queue(n) == {m \in Letter : Origin[m] = n /\ outbox[m] = "new"}
Arrived(n, k) == {m \in Letter : <<k, m>> \in spool[n] /\ Home(<<k, m>>) = n}

\* Files of n that belong to other nodes: spool/for/<X>/* for X # self.
Outgoing(n) == {f \in spool[n] : Home(f) # n}

-----------------------------------------------------------------------------
Outbox == {"unsent", "new", "acked", "dead", "pruned"}
SendPc == {"idle", "queued", "copied", "done"}
Phase == {"idle", "copy", "deliver", "infra", "settle", "expire",
          "archives", "dedup", "presettle"}
Step == {"scan", "log", "ack", "remove", "unspool", "consume", "bury"}
XPc == {"idle", "pull", "settle", "push", "pull2", "purge"}

\* The shape of the state; a lock holder has a letter in hand exactly while it
\* is inside a loop body (the shell variables of the bin/khala loops).
TypeOK ==
    /\ outbox \in [Letter -> Outbox]
    /\ spool \in [Node -> SUBSET File]
    /\ inNew \subseteq File
    /\ inCur \subseteq File
    /\ log \subseteq File
    /\ landed \subseteq File
    /\ lapsed \in [Node -> SUBSET Letter]
    /\ sendPc \in [Letter -> SendPc]
    /\ phase \in [Node -> Phase]
    /\ todo \in [Node -> SUBSET Letter]
    /\ step \in [Node -> Step]
    /\ cur \in [Node -> Letter \cup {None}]
    /\ xpc \in [Node -> XPc]
    /\ xtodo \in [Node -> SUBSET File]
    /\ xmoved \in [Node -> SUBSET File]
    /\ faults \in 0..MaxFaults
    /\ \A n \in Node : step[n] = "scan" <=> cur[n] = None

Init ==
    /\ outbox = [m \in Letter |-> "unsent"]
    /\ spool = [n \in Node |-> {}]
    /\ inNew = {}
    /\ inCur = {}
    /\ log = {}
    /\ landed = {}
    /\ lapsed = [n \in Node |-> {}]
    /\ sendPc = [m \in Letter |-> "idle"]
    /\ phase = [n \in Node |-> "idle"]
    /\ todo = [n \in Node |-> {}]
    /\ step = [n \in Node |-> "scan"]
    /\ cur = [n \in Node |-> None]
    /\ xpc = [n \in Node |-> "idle"]
    /\ xtodo = [n \in Node |-> {}]
    /\ xmoved = [n \in Node |-> {}]
    /\ faults = 0

-----------------------------------------------------------------------------
(* khala send.  Runs under no lock: the hard link into outbox/new is the    *)
(* send; the eager spool copy is a cp into tmp/ and a no-clobber ln.        *)

Send(m) ==
    /\ sendPc[m] = "idle"
    /\ outbox' = [outbox EXCEPT ![m] = "new"]
    /\ sendPc' = [sendPc EXCEPT ![m] = "queued"]
    /\ UNCHANGED <<spool, inNew, inCur, log, landed, core, xchg, lapsed, faults>>

\* atomic_copy's cp fails when the letter has already left outbox/new.
SendCopy(m) ==
    /\ sendPc[m] = "queued"
    /\ sendPc' = [sendPc EXCEPT ![m] = IF outbox[m] = "new" THEN "copied" ELSE "done"]
    /\ UNCHANGED <<store, core, xchg, lapsed, faults>>

SendLink(m) ==
    /\ sendPc[m] = "copied"
    /\ spool' = [spool EXCEPT ![Origin[m]] = @ \cup {Message(m)}]
    /\ sendPc' = [sendPc EXCEPT ![m] = "done"]
    /\ UNCHANGED <<outbox, inNew, inCur, log, landed, core, xchg, lapsed, faults>>

-----------------------------------------------------------------------------
(* The state-lock holder: loop bookkeeping.  Each phase of reconcile_cycle  *)
(* is a `for' loop over a glob expanded when the loop starts; Ids carry     *)
(* $RANDOM, so the order in which the glob yields two letters is arbitrary. *)
(* copy_outbox_to_spool and expire_outbox read the clock once, before their *)
(* loop, so what they will pass over is known then.                         *)

\* Letters of n whose files prune_message_archives walks: inbox/*/cur,
\* outbox/acked, outbox/dead.
Archive(n) ==
    {m \in Letter : \/ Origin[m] = n /\ outbox[m] \in {"acked", "dead"}
                    \/ \E f \in inCur : Home(f) = n /\ f[2] = m}

\* Variant: a dedup record may go while the letter can still be retransmitted.
StaleLog_TtlUncapped(n) == {f \in log : Home(f) = n}

\* Lines of n's log/delivered that may be older than 60 days.
StaleLog(n) == {f \in log : Home(f) = n /\ f[2] \in lapsed[n]}

Glob(n, p) ==
    {m \in Letter :
        \/ p = "copy" /\ m \in Queue(n) \ lapsed[n]
        \/ p = "deliver" /\ m \in Arrived(n, "message")
        \/ p = "infra" /\ m \in Arrived(n, "bounce")
        \/ p \in {"settle", "presettle"} /\ m \in Arrived(n, "ack")
        \/ p = "expire" /\ m \in Queue(n) \cap lapsed[n]
        \/ p = "archives" /\ m \in Archive(n)
        \/ p = "dedup" /\ \E f \in StaleLog(n) : f[2] = m}

Enter(n, p) ==
    /\ phase' = [phase EXCEPT ![n] = p]
    /\ todo' = [todo EXCEPT ![n] = Glob(n, p)]
    /\ UNCHANGED <<step, cur>>

\* Take m into the loop body and stop before the body's operation s.
Hold(n, m, s) ==
    /\ step' = [step EXCEPT ![n] = s]
    /\ cur' = [cur EXCEPT ![n] = m]
    /\ UNCHANGED <<phase, todo>>

\* Variant: the loop goes on without leaving the body.
Finish_KeepsStep(n, m) ==
    /\ todo' = [todo EXCEPT ![n] = @ \ {m}]
    /\ cur' = [cur EXCEPT ![n] = None]
    /\ UNCHANGED <<phase, step>>

\* The loop body is done with m (`continue', `return' or its end).
Finish(n, m) ==
    /\ todo' = [todo EXCEPT ![n] = @ \ {m}]
    /\ step' = [step EXCEPT ![n] = "scan"]
    /\ cur' = [cur EXCEPT ![n] = None]
    /\ UNCHANGED phase

InBody(n, p, s) == phase[n] \in p /\ step[n] = s
AtLoop(n, p, m) == InBody(n, p, "scan") /\ m \in todo[n]
LoopDone(n, p) == InBody(n, p, "scan") /\ todo[n] = {}

\* The order of reconcile_cycle.  A loop over an empty glob does nothing, so
\* it is passed over in the step that ends the loop before it; retention_due
\* decides whether the two age-out sweeps run in this pass.
Rank == [idle |-> 0, copy |-> 1, deliver |-> 2, infra |-> 3, settle |-> 4,
         expire |-> 5, archives |-> 6, dedup |-> 7, presettle |-> 8]
Sweep == {"archives", "dedup"}

Ahead(n, due) ==
    {p \in Phase \ {"presettle"} :
        Rank[p] > Rank[phase[n]] /\ Glob(n, p) # {} /\ (p \in Sweep => due)}

Advance(n) ==
    \E due \in {FALSE, Retention} :
       \/ Ahead(n, due) = {} /\ Enter(n, "idle")
       \/ \E p \in Ahead(n, due) :
             (\A q \in Ahead(n, due) : Rank[p] <= Rank[q]) /\ Enter(n, p)

StartReconcile(n) ==
    /\ n \in Core
    /\ phase[n] = "idle"
    /\ Advance(n)
    /\ UNCHANGED <<store, xchg, lapsed, sendPc, faults>>

NextPhase(n) ==
    /\ LoopDone(n, Phase \ {"idle", "presettle"})
    /\ Advance(n)
    /\ UNCHANGED <<store, xchg, lapsed, sendPc, faults>>

-----------------------------------------------------------------------------
(* copy_outbox_to_spool *)

\* Variant: only send itself materialises the spool copy.
CopyOutboxToSpool_Never(n, m) ==
    /\ AtLoop(n, {"copy"}, m)
    /\ Finish(n, m)
    /\ UNCHANGED <<store, xchg, lapsed, sendPc, faults>>

CopyOutboxToSpool(n, m) ==
    /\ AtLoop(n, {"copy"}, m)
    /\ spool' = [spool EXCEPT ![n] = @ \cup {Message(m)}]
    /\ Finish(n, m)
    /\ UNCHANGED <<outbox, inNew, inCur, log, landed, xchg, lapsed, sendPc, faults>>

-----------------------------------------------------------------------------
(* deliver_regular_message and deliver_fire_and_forget: inbox copy, dedup   *)
(* record, (for messages) ack, and only then consumption of the spool file. *)

Delivering(n) == IF phase[n] = "deliver" THEN "message" ELSE "bounce"

\* After the dedup record a message is acked; a bounce is just consumed.
AfterLog(n) == IF phase[n] = "deliver" THEN "ack" ELSE "remove"

\* Variant: an expired message is acknowledged as well as dropped.
DropExpired_Acks(n, m) ==
    /\ AtLoop(n, {"deliver"}, m)
    /\ m \in lapsed[n]
    /\ spool' = [spool EXCEPT ![n] = (@ \ {Message(m)}) \cup {Ack(m)}]
    /\ Finish(n, m)
    /\ UNCHANGED <<outbox, inNew, inCur, log, landed, xchg, lapsed, sendPc, faults>>

\* Only a message is dropped when it has expired on arrival.
DropExpired(n, m) ==
    /\ AtLoop(n, {"deliver"}, m)
    /\ m \in lapsed[n]
    /\ spool' = [spool EXCEPT ![n] = @ \ {Message(m)}]
    /\ Finish(n, m)
    /\ UNCHANGED <<outbox, inNew, inCur, log, landed, xchg, lapsed, sendPc, faults>>

\* Deliver m unless its Id is among the known ones.
DeliverKnowing(known, n, m) ==
    LET f == <<Delivering(n), m>> IN
    /\ AtLoop(n, {"deliver", "infra"}, m)
    /\ phase[n] = "deliver" => m \notin lapsed[n]
    /\ IF f \in known
       THEN /\ log' = log \cup {f}
            /\ Hold(n, m, AfterLog(n))
            /\ UNCHANGED <<inNew, landed>>
       ELSE /\ inNew' = inNew \cup {f}
            /\ landed' = landed \cup {f}
            /\ Hold(n, m, "log")
            /\ UNCHANGED log
    /\ UNCHANGED <<outbox, spool, inCur, xchg, lapsed, sendPc, faults>>

\* Variants: only the dedup log, or only unread mail, is consulted.
Deliver_LogOnly(n, m) == DeliverKnowing(log, n, m)
Deliver_UnreadOnly(n, m) == DeliverKnowing(inNew, n, m)

\* delivered_or_inbox: an Id in log/delivered, or already in new/ or cur/
\* (whose missing log line is then written), is not installed again.
Deliver(n, m) == DeliverKnowing(log \cup inNew \cup inCur, n, m)

RecordDelivered(n) ==
    /\ InBody(n, {"deliver", "infra"}, "log")
    /\ log' = log \cup {<<Delivering(n), cur[n]>>}
    /\ Hold(n, cur[n], AfterLog(n))
    /\ UNCHANGED <<outbox, spool, inNew, inCur, landed, xchg, lapsed, sendPc, faults>>

QueueAck(n) ==
    /\ InBody(n, {"deliver"}, "ack")
    /\ spool' = [spool EXCEPT ![n] = @ \cup {Ack(cur[n])}]
    /\ Hold(n, cur[n], "remove")
    /\ UNCHANGED <<outbox, inNew, inCur, log, landed, xchg, lapsed, sendPc, faults>>

ConsumeDelivered(n) ==
    /\ InBody(n, {"deliver", "infra"}, "remove")
    /\ spool' = [spool EXCEPT ![n] = @ \ {<<Delivering(n), cur[n]>>}]
    /\ Finish(n, cur[n])
    /\ UNCHANGED <<outbox, inNew, inCur, log, landed, xchg, lapsed, sendPc, faults>>

-----------------------------------------------------------------------------
(* settle_acks, run by reconcile and, between pull and push, by the         *)
(* exchange (settle_visible_acks).                                          *)

\* Variant: a late ack revives a dead letter.
SettleAck_Revives(n, m) ==
    /\ AtLoop(n, {"settle", "presettle"}, m)
    /\ outbox' = [outbox EXCEPT ![m] = IF @ \in {"new", "dead"} THEN "acked" ELSE @]
    /\ Hold(n, m, "unspool")
    /\ UNCHANGED <<spool, inNew, inCur, log, landed, xchg, lapsed, sendPc, faults>>

\* A letter in outbox/new moves to acked; one already in acked or dead only
\* has its spool copy removed again; for an unknown letter the ack is consumed.
SettleAck(n, m) ==
    /\ AtLoop(n, {"settle", "presettle"}, m)
    /\ outbox' = [outbox EXCEPT ![m] = IF @ = "new" THEN "acked" ELSE @]
    /\ Hold(n, m, IF outbox[m] \in {"new", "acked", "dead"} THEN "unspool" ELSE "consume")
    /\ UNCHANGED <<spool, inNew, inCur, log, landed, xchg, lapsed, sendPc, faults>>

SettleUnspool(n) ==
    /\ InBody(n, {"settle", "presettle"}, "unspool")
    /\ spool' = [spool EXCEPT ![n] = @ \ {Message(cur[n])}]
    /\ Hold(n, cur[n], "consume")
    /\ UNCHANGED <<outbox, inNew, inCur, log, landed, xchg, lapsed, sendPc, faults>>

ConsumeAck(n) ==
    /\ InBody(n, {"settle", "presettle"}, "consume")
    /\ spool' = [spool EXCEPT ![n] = @ \ {Ack(cur[n])}]
    /\ Finish(n, cur[n])
    /\ UNCHANGED <<outbox, inNew, inCur, log, landed, xchg, lapsed, sendPc, faults>>

-----------------------------------------------------------------------------
(* expire_outbox: the bounce is queued first, then the letter becomes a     *)
(* dead letter, then its retransmission copy goes.                          *)

\* Variants: the letter is buried without a bounce, or left where it is.
ExpireQueueBounce_Silent(n, m) ==
    /\ AtLoop(n, {"expire"}, m)
    /\ Hold(n, m, "bury")
    /\ UNCHANGED <<store, xchg, lapsed, sendPc, faults>>

ExpireQueueBounce_Skips(n, m) ==
    /\ AtLoop(n, {"expire"}, m)
    /\ Finish(n, m)
    /\ UNCHANGED <<store, xchg, lapsed, sendPc, faults>>

ExpireQueueBounce(n, m) ==
    /\ AtLoop(n, {"expire"}, m)
    /\ spool' = [spool EXCEPT ![n] = @ \cup {Bounce(m)}]
    /\ Hold(n, m, "bury")
    /\ UNCHANGED <<outbox, inNew, inCur, log, landed, xchg, lapsed, sendPc, faults>>

ExpireBury(n) ==
    /\ InBody(n, {"expire"}, "bury")
    /\ outbox' = [outbox EXCEPT ![cur[n]] = "dead"]
    /\ Hold(n, cur[n], "unspool")
    /\ UNCHANGED <<spool, inNew, inCur, log, landed, xchg, lapsed, sendPc, faults>>

ExpireUnspool(n) ==
    /\ InBody(n, {"expire"}, "unspool")
    /\ spool' = [spool EXCEPT ![n] = @ \ {Message(cur[n])}]
    /\ Finish(n, cur[n])
    /\ UNCHANGED <<outbox, inNew, inCur, log, landed, xchg, lapsed, sendPc, faults>>

-----------------------------------------------------------------------------
(* Retention.  Ages are not modelled: prune_message_archives may find any   *)
(* read mail and any settled letter old enough.  prune_delivered_log drops  *)
(* Ids after 60 days and `send -e' is capped at 59, so an Id is dropped     *)
(* only once the letter it stands for has expired there.                    *)

PruneMessageArchives(n, m) ==
    /\ AtLoop(n, {"archives"}, m)
    /\ \E old \in SUBSET {f \in inCur : Home(f) = n /\ f[2] = m} : inCur' = inCur \ old
    /\ \/ UNCHANGED outbox
       \/ /\ Origin[m] = n /\ outbox[m] \in {"acked", "dead"}
          /\ outbox' = [outbox EXCEPT ![m] = "pruned"]
    /\ Finish(n, m)
    /\ UNCHANGED <<spool, inNew, log, landed, xchg, lapsed, sendPc, faults>>

PruneDeliveredLog(n) ==
    /\ phase[n] = "dedup"
    /\ \E old \in SUBSET StaleLog(n) : log' = log \ old
    /\ Enter(n, "idle")
    /\ UNCHANGED <<outbox, spool, inNew, inCur, landed, xchg, lapsed, sendPc, faults>>

-----------------------------------------------------------------------------
(* Reading.  Under the state lock `khala inbox --drain' moves what fits its *)
(* limits from new to cur, oldest first; ack-read moves the Ids it is given.*)

Drain(n) ==
    /\ phase[n] = "idle"
    /\ \E read \in SUBSET {f \in inNew : Home(f) = n} :
          /\ read # {}
          /\ inNew' = inNew \ read
          /\ inCur' = inCur \cup read
    /\ UNCHANGED <<outbox, spool, log, landed, core, xchg, lapsed, sendPc, faults>>

AckRead(n, f) ==
    /\ phase[n] = "idle"
    /\ f \in inNew /\ Home(f) = n
    /\ inNew' = inNew \ {f}
    /\ inCur' = inCur \cup {f}
    /\ UNCHANGED <<outbox, spool, log, landed, core, xchg, lapsed, sendPc, faults>>

-----------------------------------------------------------------------------
(* exchange_with_endpoint, on every node but the upstream.  Holds only the  *)
(* exchange lock; pull -> settle -> push -> pull -> drop pushed acks.       *)

PullList(n) == {f \in spool[Hub] : Home(f) = n}

StartExchange(n) ==
    /\ n # Hub
    /\ xpc[n] = "idle"
    /\ xpc' = [xpc EXCEPT ![n] = IF PullList(n) = {} THEN "settle" ELSE "pull"]
    /\ xtodo' = [xtodo EXCEPT ![n] = PullList(n)]
    /\ UNCHANGED <<store, core, xmoved, lapsed, sendPc, faults>>

\* rsync --remove-source-files: a file is unlinked upstream after it is here.
PullCopy(n, f) ==
    /\ xpc[n] \in {"pull", "pull2"}
    /\ f \in xtodo[n]
    /\ spool' = [spool EXCEPT ![n] = @ \cup {f}]
    /\ xtodo' = [xtodo EXCEPT ![n] = @ \ {f}]
    /\ xmoved' = [xmoved EXCEPT ![n] = @ \cup {f}]
    /\ UNCHANGED <<outbox, inNew, inCur, log, landed, core, xpc, lapsed, sendPc, faults>>

PullRemove(n, f) ==
    /\ xpc[n] \in {"pull", "pull2"}
    /\ f \in xmoved[n]
    /\ spool' = [spool EXCEPT ![Hub] = @ \ {f}]
    /\ xmoved' = [xmoved EXCEPT ![n] = @ \ {f}]
    /\ UNCHANGED <<outbox, inNew, inCur, log, landed, core, xpc, xtodo, lapsed, sendPc, faults>>

PushedInfrastructure(n) == {f \in Outgoing(n) : f[1] \in {"ack", "bounce"}}

PullDone(n) ==
    /\ xtodo[n] = {} /\ xmoved[n] = {}
    /\ \/ /\ xpc[n] = "pull"
          /\ xpc' = [xpc EXCEPT ![n] = "settle"]
          /\ UNCHANGED xtodo
       \/ /\ xpc[n] = "pull2"
          /\ xpc' = [xpc EXCEPT ![n] = IF PushedInfrastructure(n) = {} THEN "idle" ELSE "purge"]
          /\ xtodo' = [xtodo EXCEPT ![n] = PushedInfrastructure(n)]
    /\ UNCHANGED <<store, core, xmoved, lapsed, sendPc, faults>>

StartPush(n) ==
    /\ xpc' = [xpc EXCEPT ![n] = "push"]
    /\ xtodo' = [xtodo EXCEPT ![n] = Outgoing(n)]
    /\ UNCHANGED xmoved

\* settle_visible_acks needs the state lock for its settle_acks.
StartPreSettle(n) ==
    /\ xpc[n] = "settle"
    /\ phase[n] = "idle"
    /\ IF Arrived(n, "ack") = {}
       THEN StartPush(n) /\ UNCHANGED core
       ELSE Enter(n, "presettle") /\ UNCHANGED xchg
    /\ UNCHANGED <<store, lapsed, sendPc, faults>>

PreSettleDone(n) ==
    /\ LoopDone(n, {"presettle"})
    /\ Enter(n, "idle")
    /\ StartPush(n)
    /\ UNCHANGED <<store, lapsed, sendPc, faults>>

\* Each spool/for/<X> is one rsync that lists its files when it starts, so a
\* file that appears during the push may or may not go with it.
PushFile(n, f) ==
    /\ xpc[n] = "push"
    /\ f \in Outgoing(n) \ xmoved[n]
    /\ spool' = [spool EXCEPT ![Hub] = @ \cup {f}]
    /\ xtodo' = [xtodo EXCEPT ![n] = @ \ {f}]
    /\ xmoved' = [xmoved EXCEPT ![n] = @ \cup {f}]
    /\ UNCHANGED <<outbox, inNew, inCur, log, landed, core, xpc, lapsed, sendPc, faults>>

PushDone(n) ==
    /\ xpc[n] = "push"
    /\ xtodo[n] \cap spool[n] = {}
    /\ xpc' = [xpc EXCEPT ![n] = "pull2"]
    /\ xtodo' = [xtodo EXCEPT ![n] = PullList(n)]
    /\ xmoved' = [xmoved EXCEPT ![n] = {}]
    /\ UNCHANGED <<store, core, lapsed, sendPc, faults>>

\* remove_pushed_infrastructure looks at what the directories hold now.
RemovePushedInfrastructure(n, f) ==
    /\ xpc[n] = "purge"
    /\ f \in xtodo[n]
    /\ spool' = [spool EXCEPT ![n] = @ \ {f}]
    /\ xtodo' = [xtodo EXCEPT ![n] = @ \ {f}]
    /\ UNCHANGED <<outbox, inNew, inCur, log, landed, core, xpc, xmoved, lapsed, sendPc, faults>>

ExchangeDone(n) ==
    /\ xpc[n] = "purge"
    /\ xtodo[n] = {}
    /\ xpc' = [xpc EXCEPT ![n] = "idle"]
    /\ UNCHANGED <<store, core, xtodo, xmoved, lapsed, sendPc, faults>>

-----------------------------------------------------------------------------
(* The environment: clocks, process death, failing operations, lost links.  *)

Lapse(n, m) ==
    /\ outbox[m] # "unsent"
    /\ n \in Clock \cap {Origin[m], Dest[m]}
    /\ m \notin lapsed[n]
    /\ lapsed' = [lapsed EXCEPT ![n] = @ \cup {m}]
    /\ UNCHANGED <<store, core, xchg, sendPc, faults>>

Fault == faults < MaxFaults /\ faults' = faults + 1

SendDies(m) ==
    /\ Fault
    /\ sendPc[m] \in {"queued", "copied"}
    /\ sendPc' = [sendPc EXCEPT ![m] = "done"]
    /\ UNCHANGED <<store, core, xchg, lapsed>>

\* The state-lock holder dies; the lock itself is reclaimed (see StateLock).
CoreDies(n) ==
    /\ Fault
    /\ phase[n] # "idle"
    /\ phase' = [phase EXCEPT ![n] = "idle"]
    /\ todo' = [todo EXCEPT ![n] = {}]
    /\ step' = [step EXCEPT ![n] = "scan"]
    /\ cur' = [cur EXCEPT ![n] = None]
    /\ xpc' = [xpc EXCEPT ![n] = IF phase[n] = "presettle" THEN "idle" ELSE @]
    /\ UNCHANGED <<store, xtodo, xmoved, lapsed, sendPc>>

\* One operation fails: the loop reports it and goes on with the next file.
OperationFails(n) ==
    /\ IOFaults
    /\ Fault
    /\ \/ \E m \in todo[n] : step[n] = "scan" /\ Finish(n, m)
       \/ step[n] # "scan" /\ Finish(n, cur[n])
    /\ UNCHANGED <<store, xchg, lapsed, sendPc>>

\* An rsync fails or the exchange process dies outside the settlement.
ExchangeFails(n) ==
    /\ Fault
    /\ xpc[n] # "idle" /\ phase[n] # "presettle"
    /\ xpc' = [xpc EXCEPT ![n] = "idle"]
    /\ xtodo' = [xtodo EXCEPT ![n] = {}]
    /\ xmoved' = [xmoved EXCEPT ![n] = {}]
    /\ UNCHANGED <<store, core, lapsed, sendPc>>

-----------------------------------------------------------------------------
SendStep(m) == SendCopy(m) \/ SendLink(m)

CoreStep(n) ==
    \/ NextPhase(n)
    \/ \E m \in Letter :
          \/ CopyOutboxToSpool(n, m)
          \/ DropExpired(n, m)
          \/ Deliver(n, m)
          \/ SettleAck(n, m)
          \/ PruneMessageArchives(n, m)
          \/ ExpireQueueBounce(n, m)
    \/ RecordDelivered(n)
    \/ QueueAck(n)
    \/ ConsumeDelivered(n)
    \/ SettleUnspool(n)
    \/ ConsumeAck(n)
    \/ ExpireBury(n)
    \/ ExpireUnspool(n)
    \/ PruneDeliveredLog(n)
    \/ PreSettleDone(n)

ExchangeStep(n) ==
    \/ PullDone(n)
    \/ PushDone(n)
    \/ ExchangeDone(n)
    \/ \E f \in File :
          \/ PullCopy(n, f)
          \/ PullRemove(n, f)
          \/ PushFile(n, f)
          \/ RemovePushedInfrastructure(n, f)

Next ==
    \/ \E m \in Letter : Send(m) \/ SendStep(m) \/ SendDies(m)
    \/ \E n \in Node :
          \/ StartReconcile(n)
          \/ CoreStep(n)
          \/ Drain(n)
          \/ \E f \in File : AckRead(n, f)
          \/ StartExchange(n)
          \/ StartPreSettle(n)
          \/ ExchangeStep(n)
          \/ CoreDies(n)
          \/ OperationFails(n)
          \/ ExchangeFails(n)
          \/ \E m \in Letter : Lapse(n, m)

Spec == Init /\ [][Next]_vars

-----------------------------------------------------------------------------
(* Fairness.  The core loop starts a reconcile and an exchange pass over and *)
(* over; a started process runs to its end unless it dies; a process waiting *)
(* for the state lock retries, so it gets a lock that keeps becoming free;   *)
(* every Expires is eventually in the sender's past.                         *)

Scheduling ==
    /\ \A m \in Letter : WF_vars(SendStep(m))
    /\ \A n \in Core :
          /\ SF_vars(StartReconcile(n))
          /\ WF_vars(CoreStep(n))
    /\ \A n \in Node \ {Hub} :
          /\ WF_vars(StartExchange(n))
          /\ SF_vars(StartPreSettle(n))
          /\ WF_vars(ExchangeStep(n))

Expiry == \A m \in Letter : WF_vars(Lapse(Origin[m], m))

FairSpec == Spec /\ Scheduling
TimedSpec == FairSpec /\ Expiry

-----------------------------------------------------------------------------
(* Safety. *)

\* An ack is proof of delivery: wherever an ack for m is spooled or has
\* settled m into outbox/acked, m was installed in the recipient's inbox
\* (deliver_regular_message acks last; settle_acks trusts what it finds).
AckMeansDelivered ==
    \A m \in Letter :
       (outbox[m] = "acked" \/ \E n \in Node : Ack(m) \in spool[n])
          => Message(m) \in landed

\* No letter dies silently: one that expire_outbox moved to outbox/dead has a
\* bounce in the sender's own spool or already in the sender's inbox, whatever
\* crash came between the two.
NoSilentDeath ==
    \A m \in Letter :
       outbox[m] = "dead" => Bounce(m) \in spool[Origin[m]] \cup landed

\* Until the recipient's clock has passed its Expires, a letter that was once
\* installed is still recognised by delivered_or_inbox, so no retransmission
\* can install it again: not after a crash between install and dedup record,
\* nor after it has been read and aged out of the archive.
DedupCovers ==
    \A m \in Letter :
       Message(m) \in landed /\ m \notin lapsed[Dest[m]]
          => Message(m) \in log \cup inNew \cup inCur

\* A letter is put before the reader at most once in the life of the system,
\* although sender, upstream and recipient all keep retransmitting it.
AtMostOnce ==
    [][\A m \in Letter :
          Message(m) \in inNew' \ inNew => Message(m) \notin landed]_vars

\* The files of one letter as its sender and its reader see them.
Seen(m) ==
    IF Message(m) \in inNew THEN "unread"
    ELSE IF Message(m) \in landed THEN "taken" ELSE "none"

Promise == INSTANCE MailPromise WITH
    sender <- outbox,
    reader <- [m \in Letter |-> Seen(m)]

\* The protocol, with everything that can interleave, fail or be repeated,
\* implements the promise `khala send' makes to sender and reader.
KeepsPromise == Promise!Spec


-----------------------------------------------------------------------------
(* Why the safety properties hold: the inductive invariant.                  *)

\* A lock holder works on letters of the kind its loop is about, and keeps no
\* body state between loops.
LoopInv ==
    \A n \in Node :
       /\ cur[n] # None => cur[n] \in todo[n]
       /\ phase[n] \in {"idle", "dedup"} => step[n] = "scan"
       /\ phase[n] = "deliver" => \A m \in todo[n] : Dest[m] = n
       /\ phase[n] \in {"infra", "settle", "presettle", "expire"} =>
             \A m \in todo[n] : Origin[m] = n
       /\ phase[n] = "expire" => todo[n] \subseteq lapsed[n]

\* Pulls move only files addressed to the puller, the purge touches only
\* infrastructure addressed to others, and settlement happens inside an exchange.
LinkInv ==
    \A n \in Node :
       /\ xpc[n] # "idle" => n # Hub
       /\ phase[n] = "presettle" => xpc[n] = "settle"
       /\ xpc[n] \in {"idle", "settle", "purge"} => xmoved[n] = {}
       /\ xpc[n] \in {"pull", "pull2"} => \A f \in xtodo[n] \cup xmoved[n] : Home(f) = n
       /\ xpc[n] = "purge" => \A f \in xtodo[n] : f[1] # "message" /\ Home(f) # n

\* Whatever speaks of a delivery comes after it.
LandedInv ==
    /\ log \cup inNew \cup inCur \subseteq landed
    /\ \A m \in Letter : outbox[m] = "acked" => Message(m) \in landed
    /\ \A n \in Node :
          /\ phase[n] \in {"deliver", "infra"} /\ step[n] # "scan" =>
                <<Delivering(n), cur[n]>> \in landed
          /\ phase[n] \in {"settle", "presettle"} =>
                \A m \in todo[n] : Message(m) \in landed
          /\ \A m \in Letter : Ack(m) \in spool[n] \cup xtodo[n] => Message(m) \in landed

\* The bounce exists before the letter is buried.
BounceInv ==
    /\ NoSilentDeath
    /\ \A n \in Node :
          phase[n] = "expire" /\ step[n] = "bury" => Bounce(cur[n]) \in spool[n] \cup landed

\* Installed, still deliverable, and missing from log/delivered: the state a
\* crash between atomic_copy and record_delivered leaves behind.
Unrecorded(m) == Message(m) \in landed \ log /\ m \notin lapsed[Dest[m]]

\* In that state the spool copy is still there and nothing past the delivery
\* loop has run, so the next pass repairs the log before any retention sweep.
DedupInv ==
    /\ \A m \in Letter : Unrecorded(m) =>
          /\ Message(m) \in spool[Dest[m]]
          /\ Message(m) \in inNew \cup inCur
          /\ phase[Dest[m]] \in {"idle", "copy", "presettle", "deliver"}
          /\ phase[Dest[m]] = "deliver" => m \in todo[Dest[m]]
    /\ \A n \in Node :
          /\ phase[n] = "deliver" => \A m \in todo[n] : Message(m) \in spool[n]
          /\ phase[n] = "deliver" /\ step[n] \in {"ack", "remove"} => Message(cur[n]) \in log
          /\ phase[n] \in {"settle", "presettle"} => \A m \in todo[n] : ~Unrecorded(m)
          /\ \A m \in Letter : Ack(m) \in spool[n] \cup xtodo[n] => ~Unrecorded(m)

\* Nothing is delivered, or given up on, that was not sent; and while
\* expire_outbox holds the state lock nobody else settles the letters it found.
SentInv ==
    /\ \A m \in Letter : sendPc[m] = "idle" <=> outbox[m] = "unsent"
    /\ \A n \in Node :
          /\ \A m \in Letter :
                Message(m) \in spool[n] \cup xtodo[n] => outbox[m] # "unsent"
          /\ phase[n] \in {"copy", "deliver"} =>
                \A m \in todo[n] : outbox[m] # "unsent"
          /\ phase[n] = "expire" =>
                \A m \in todo[n] :
                   outbox[m] = "new" \/ (step[n] = "unspool" /\ m = cur[n])

\* Without retention the evidence of a delivery is never thrown away, whatever
\* single operation fails.
KeptInv ==
    Retention = FALSE =>
       /\ \A n \in Node : phase[n] \notin Sweep
       /\ landed \subseteq log \cup inNew \cup inCur

-----------------------------------------------------------------------------
(* Liveness. *)

\* A sent letter reaches the recipient's inbox unless some clock passes its
\* Expires first, in spite of crashes and broken links.
Delivered ==
    \A m \in Letter :
       outbox[m] # "unsent" ~>
          (Message(m) \in landed \/ \E n \in Node : m \in lapsed[n])

\* The sender always learns: no letter stays in outbox/new for ever.
Resolved == \A m \in Letter : outbox[m] = "new" ~> outbox[m] # "new"

\* A dead letter's bounce reaches the sender's inbox.
BounceArrives == \A m \in Letter : outbox[m] = "dead" ~> Bounce(m) \in landed

=============================================================================
