---------------------------- MODULE Projections ----------------------------
(***************************************************************************)
(* The read side of one process: the two projectors of                     *)
(* internal/projections over the in-memory read model, fed by the          *)
(* in-process bus (internal/bus/inmemory) and by the CatchUp polls that    *)
(* cmd/streamledger starts.                                                *)
(*                                                                         *)
(* The write side is the atomic ledger that LedgerService implements: a    *)
(* command appends its events in one step. What comes after the append is  *)
(* not atomic with it: the handler's goroutine (a writer here) publishes   *)
(* them in its own time, delivery by delivery.                             *)
(*                                                                         *)
(* cmd/streamledger pairs this read model with the in-memory event store   *)
(* (-storage=memory). Log, views and checkpoints are all in the memory of  *)
(* one process: a restart begins again at Init, so a behaviour is the life *)
(* of one process.                                                         *)
(***************************************************************************)
EXTENDS ReadModel

CONSTANTS Streams, Commands, NoKey,
          Writers,           \* goroutines serving commands
          BusOn,             \* FALSE: nothing is delivered in process
          ExtraDeliveries,   \* redeliveries of each publish (DuplicatingPublisher)
          BatchSize,         \* CatchUp's batch size (catchUpBatchSize)
          MaxFaults          \* bound on failed deliveries and failed polls

ASSUME StreamsAssumption == Streams = Accounts \cup Items
ASSUME CommandsAssumption == \A c \in Commands : WellFormed(c)
ASSUME DeliveryAssumption ==
    /\ ExtraDeliveries \in Nat
    /\ BatchSize \in Nat \ {0}
    /\ BusOn \in BOOLEAN
    /\ MaxFaults \in Nat

VARIABLES events, used,   \* the log and the dedupe keys, as in AtomicLedger
          views,          \* the materialized view of each stream
          checkpoint,     \* each projector's checkpoint
          applied,        \* history: sequence numbers each projector applied, in order
          pub,            \* each writer's publish in progress
          poll,           \* each projector's CatchUp in progress
          faults          \* number of faults so far

vars == <<events, used, views, checkpoint, applied, pub, poll, faults>>
logVars == <<events, used>>
readVars == <<views, checkpoint, applied>>

Log == INSTANCE AtomicLedger

-----------------------------------------------------------------------------
\* The read model never lets a checkpoint move backwards.
SetCheckpoint(p, seq) == checkpoint' = [checkpoint EXCEPT ![p] = IF seq > @ THEN seq ELSE @]

\* The transaction's effect: view and checkpoint move together.
Advance(p, e, seq) ==
    /\ SetCheckpoint(p, seq)
    /\ IF Relevant(p, e)
       THEN /\ views' = [views EXCEPT ![e.stream] = ApplyView(p, @, e)]
            /\ applied' = [applied EXCEPT ![p] = Append(@, e.seq)]
       ELSE UNCHANGED <<views, applied>>

\* Mutant: the last event applied is not recognised when it comes again.
ApplyEventMutOffByOne(p, e) == IF e.seq < checkpoint[p] THEN UNCHANGED readVars ELSE Advance(p, e, e.seq)

\* Mutant: no duplicate check at all.
ApplyEventMutUnchecked(p, e) == Advance(p, e, e.seq)

\* Mutant: the checkpoint is the next event expected, not the last one applied.
ApplyEventMutNextSeq(p, e) == IF e.seq <= checkpoint[p] THEN UNCHANGED readVars ELSE Advance(p, e, e.seq + 1)

\* Projector.ApplyEvent: check the checkpoint, change the view, advance the
\* checkpoint, all while WithTx holds the store's mutex.
ApplyEvent(p, e) == IF e.seq <= checkpoint[p] THEN UNCHANGED readVars ELSE Advance(p, e, e.seq)

-----------------------------------------------------------------------------
(* Writers: a command, then its publishes on the same goroutine.           *)

NotPublishing == [batch |-> <<>>, rounds |-> 0, left |-> <<>>]

Command(w, c) ==
    /\ pub[w] = NotPublishing
    /\ Log!Execute(c)
    /\ pub' = [pub EXCEPT ![w] =
                  [batch  |-> SubSeq(events', Len(events) + 1, Len(events')),
                   rounds |-> IF BusOn THEN 1 + ExtraDeliveries ELSE 0,
                   left   |-> <<>>]]
    /\ UNCHANGED <<readVars, poll, faults>>

\* The handlers are taken from a Go map: any order, the same for the whole batch.
HandlerOrders == {<<"balances", "inventory">>, <<"inventory", "balances">>}

\* Every event of the batch, in log order, to every handler.
Deliveries(batch, order) ==
    [i \in 1 .. 2 * Len(batch) |->
        [event |-> batch[(i + 1) \div 2], to |-> order[IF i % 2 = 1 THEN 1 ELSE 2]]]

BeginPublish(w) ==
    /\ pub[w].left = <<>>
    /\ pub[w].rounds > 0
    /\ \E order \in HandlerOrders :
          pub' = [pub EXCEPT ![w].left = Deliveries(pub[w].batch, order), ![w].rounds = @ - 1]
    /\ UNCHANGED <<logVars, readVars, poll, faults>>

Deliver(w) ==
    /\ pub[w].left # <<>>
    /\ ApplyEvent(Head(pub[w].left).to, Head(pub[w].left).event)
    /\ pub' = [pub EXCEPT ![w].left = Tail(@)]
    /\ UNCHANGED <<logVars, poll, faults>>

\* All delivered: the handler is free for the next command.
EndPublish(w) ==
    /\ pub[w].batch # <<>>
    /\ pub[w].left = <<>>
    /\ pub[w].rounds = 0
    /\ pub' = [pub EXCEPT ![w] = NotPublishing]
    /\ UNCHANGED <<logVars, readVars, poll, faults>>

Fault == faults < MaxFaults /\ faults' = faults + 1

\* A handler returns an error: Publish stops there, and the error is only logged.
DeliverFails(w) ==
    /\ Fault
    /\ pub[w].left # <<>>
    /\ pub' = [pub EXCEPT ![w].left = <<>>, ![w].rounds = 0]
    /\ UNCHANGED <<logVars, readVars, poll>>

-----------------------------------------------------------------------------
(* Pollers: Projector.CatchUp, started once and then by a ticker. The      *)
(* ticker's wait and the loop's next turn are the same state, "waiting".   *)

Waiting == [pc |-> "waiting", since |-> 0, batch |-> <<>>]

GetCheckpoint(p) ==
    /\ poll[p].pc = "waiting"
    /\ poll' = [poll EXCEPT ![p] = [pc |-> "load", since |-> checkpoint[p], batch |-> <<>>]]
    /\ UNCHANGED <<logVars, readVars, pub, faults>>

\* CatchUp loads a page with the checkpoint read before; nothing newer ends the poll.
LoadBatch(p) ==
    /\ poll[p].pc = "load"
    /\ LET batch == LoadSince(events, poll[p].since, BatchSize)
       IN  poll' = [poll EXCEPT ![p] = IF batch = <<>> THEN Waiting
                                       ELSE [pc |-> "apply", since |-> @.since, batch |-> batch]]
    /\ UNCHANGED <<logVars, readVars, pub, faults>>

CatchUpApply(p) ==
    /\ poll[p].pc = "apply"
    /\ ApplyEvent(p, Head(poll[p].batch))
    /\ poll' = [poll EXCEPT ![p] = IF Len(@.batch) = 1 THEN Waiting
                                    ELSE [pc |-> "apply", since |-> @.since, batch |-> Tail(@.batch)]]
    /\ UNCHANGED <<logVars, pub, faults>>

\* CatchUp returns an error, which the ticker loop logs.
CatchUpFails(p) ==
    /\ Fault
    /\ poll[p].pc # "waiting"
    /\ poll' = [poll EXCEPT ![p] = Waiting]
    /\ UNCHANGED <<logVars, readVars, pub>>

-----------------------------------------------------------------------------
Init ==
    /\ Log!Init
    /\ views = [s \in Streams |-> ZeroView(s)]
    /\ checkpoint = [p \in Projectors |-> 0]
    /\ applied = [p \in Projectors |-> <<>>]
    /\ pub = [w \in Writers |-> NotPublishing]
    /\ poll = [p \in Projectors |-> Waiting]
    /\ faults = 0

WriterStep(w) == BeginPublish(w) \/ Deliver(w) \/ EndPublish(w)

PollStep(p) == GetCheckpoint(p) \/ LoadBatch(p) \/ CatchUpApply(p)

Next ==
    \/ \E w \in Writers : \E c \in Commands : Command(w, c)
    \/ \E w \in Writers : WriterStep(w) \/ DeliverFails(w)
    \/ \E p \in Projectors : PollStep(p) \/ CatchUpFails(p)

\* Publishing goroutines run on, and the ticker keeps polling.
Fairness ==
    /\ \A w \in Writers : WF_vars(WriterStep(w))
    /\ \A p \in Projectors : WF_vars(PollStep(p))

Spec == Init /\ [][Next]_vars

FairSpec == Spec /\ Fairness

-----------------------------------------------------------------------------
(* Properties.                                                             *)

\* Views keep the shape of their kind, and nothing refers to an event that is not in
\* the log.
TypeOK ==
    /\ \A s \in Streams : views[s] \in ViewType(s)
    /\ \A p \in Projectors : checkpoint[p] \in 0 .. Len(events)
    /\ \A p \in Projectors : poll[p].since \in 0 .. checkpoint[p]
    /\ \A w \in Writers : pub[w].rounds \in 0 .. (1 + ExtraDeliveries)

\* "Effectively once": whatever is redelivered, reordered or polled twice, no projector
\* applies an event twice or goes back in the log, and the checkpoint covers all it
\* applied (projector.go, ApplyEvent).
NeverAppliedTwice ==
    \A p \in Projectors :
        /\ \A i, j \in 1 .. Len(applied[p]) : i < j => applied[p][i] < applied[p][j]
        /\ \A i \in 1 .. Len(applied[p]) : applied[p][i] <= checkpoint[p]

\* The checkpoint is the truth: every view is what the ledger's own fold gives for the
\* log up to the checkpoint. In particular a projector whose lag is 0 serves exactly the
\* states the command side would decide on.
ViewIsFoldAtCheckpoint ==
    \A s \in Streams : views[s] = ViewOf(s, Fold(s, events)[checkpoint[ProjectorOf(s)]])

Current == \A s \in Streams : views[s] = ViewOf(s, Fold(s, events)[Len(events)])

\* The read model becomes and stays consistent with the log once commands stop coming
\* (CatchUp: "periodic CatchUp calls make the read model eventually consistent").
EventuallyConsistent == <>[]Current

\* Checkpoints never move backwards, and views change only under a moving checkpoint:
\* a duplicate delivery leaves no trace.
CheckpointsOnlyAdvance ==
    [][\A p \in Projectors :
          /\ checkpoint'[p] >= checkpoint[p]
          /\ checkpoint'[p] = checkpoint[p] =>
                \A s \in Streams : ProjectorOf(s) = p => views'[s] = views[s]]_vars

-----------------------------------------------------------------------------
(* The inductive strengthening of TypeOK and NeverAppliedTwice: whatever   *)
(* a publish or a poll still has to hand over is an event of the log.      *)

LoggedEvent ==
    [seq : Nat, stream : Streams, version : Nat, type : AccountEventTypes \cup ItemEventTypes,
     amt : Int64, key : {c.key : c \in Commands}]

Delivery == [event : LoggedEvent, to : Projectors]

InLog(e) == e.seq \in 1 .. Len(events) /\ e = events[e.seq]

LogInv ==
    /\ events \in Seq(LoggedEvent)
    /\ \A n \in 1 .. Len(events) : events[n].seq = n /\ Decodable(events[n])

ViewsInv ==
    /\ views \in [Streams -> AccountView \cup InventoryView]
    /\ \A s \in Streams : views[s] \in ViewType(s)
    /\ checkpoint \in [Projectors -> Nat]
    /\ \A p \in Projectors : checkpoint[p] <= Len(events)
    /\ applied \in [Projectors -> Seq(Nat)]
    /\ NeverAppliedTwice

Publishing == [batch : Seq(LoggedEvent), rounds : Nat, left : Seq(Delivery)]

PublishInv(r) ==
    /\ r.rounds <= 1 + ExtraDeliveries
    /\ \A i \in 1 .. Len(r.batch) : InLog(r.batch[i])
    /\ \A i \in 1 .. Len(r.left) : InLog(r.left[i].event)

Polling == [pc : {"waiting", "load", "apply"}, since : Nat, batch : Seq(LoggedEvent)]

PollInv(p, r) ==
    /\ r.since <= checkpoint[p]
    /\ \A i \in 1 .. Len(r.batch) : InLog(r.batch[i])
    /\ r.pc = "apply" => r.batch # <<>>

ReadInv ==
    /\ LogInv
    /\ ViewsInv
    /\ pub \in [Writers -> Publishing] /\ \A w \in Writers : PublishInv(pub[w])
    /\ poll \in [Projectors -> Polling] /\ \A p \in Projectors : PollInv(p, poll[p])

-----------------------------------------------------------------------------
(* The inductive strengthening of ViewIsFoldAtCheckpoint, when deliveries  *)
(* cannot overtake each other: there is no bus, or one writer publishes    *)
(* and nothing fails.                                                      *)

InOrder == BusOn => MaxFaults = 0 /\ \A v, w \in Writers : v = w

\* Everything a poll or a publish hands to a projector is an old event, the next one, or
\* comes after its predecessor from the same source.
PageInOrder(p, batch) ==
    \A i \in 1 .. Len(batch) :
        \/ batch[i].seq <= checkpoint[p] + 1
        \/ i > 1 /\ batch[i-1].seq + 1 = batch[i].seq

QueueInOrder(left) ==
    \A i \in 1 .. Len(left) :
        \/ left[i].event.seq <= checkpoint[left[i].to] + 1
        \/ \E j \in 1 .. (i - 1) : left[j].to = left[i].to /\ left[j].event.seq + 1 = left[i].event.seq

\* The writer's batch is the end of the log. No checkpoint is further back than just
\* before it, and once it is being delivered nobody misses its last event.
BatchIsNext(r) ==
    /\ r.batch = <<>> => r.left = <<>>
    /\ \A i \in 1 .. Len(r.batch) : r.batch[i].seq = Len(events) - Len(r.batch) + i
    /\ \A p \in Projectors : checkpoint[p] >= Len(events) - Len(r.batch)
    /\ r.rounds <= ExtraDeliveries =>
          \A p \in Projectors :
             \/ checkpoint[p] = Len(events)
             \/ \E i \in 1 .. Len(r.left) : r.left[i].to = p /\ r.left[i].event.seq = Len(events)

NoBus(r) == r.left = <<>> /\ r.rounds = 0

ViewInv ==
    /\ faults \in Nat
    /\ ViewIsFoldAtCheckpoint
    /\ \A p \in Projectors : PageInOrder(p, poll[p].batch)
    /\ \A w \in Writers : QueueInOrder(pub[w].left)
    /\ \A w \in Writers : IF BusOn THEN BatchIsNext(pub[w]) ELSE NoBus(pub[w])
=============================================================================
