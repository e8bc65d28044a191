------------------------- MODULE PostgresReadModels -------------------------
(***************************************************************************)
(* Projectors over the PostgreSQL read model                               *)
(* (internal/projections/postgres/store.go). ApplyEvent is a READ          *)
(* COMMITTED transaction of up to four statements and a commit. Every      *)
(* statement is a step: a SELECT takes no lock and sees what is committed  *)
(* when it runs; an upsert waits for a transaction that has written the    *)
(* same row and then overwrites it. CatchUp's own reads, outside the       *)
(* transaction, are steps too.                                             *)
(*                                                                         *)
(* A worker is a goroutine that calls ApplyEvent for one projector: a      *)
(* CatchUp poller, or a bus subscription, which may be handed any          *)
(* committed event at any time, any number of times.                       *)
(*                                                                         *)
(* This read model is only used with the PostgreSQL event store (main.go,  *)
(* buildStorage), whose Append draws an event's sequence number when it    *)
(* inserts the event and shows it to others when it commits. The log is    *)
(* in the order of the numbers; those of open appends are in flight. What  *)
(* a command appends is AtomicLedger's, which LedgerService and            *)
(* PostgresStore implement, and its numbers are drawn in a row. Appends    *)
(* that are rolled back are left out: they only leave gaps in the numbers, *)
(* which are compared and never counted.                                   *)
(***************************************************************************)
EXTENDS ReadModel

CONSTANTS Streams, Commands, NoKey,
          Pollers, Subscribers,  \* the workers
          Serves,                \* the projector of each worker
          BatchSize,             \* CatchUp's batch size
          MaxDeliveries,         \* bound on the deliveries to subscribers
          MaxFaults              \* bound on failed statements, lost answers and crashes

Workers == Pollers \cup Subscribers

ASSUME StreamsAssumption == Streams = Accounts \cup Items
ASSUME CommandsAssumption == \A c \in Commands : WellFormed(c)
ASSUME WorkersAssumption ==
    /\ Pollers \cap Subscribers = {}
    /\ Serves \in [Workers -> Projectors]
\* The views and the checkpoints are rows of different tables.
ASSUME RowsAssumption == Streams \cap Projectors = {}
ASSUME BoundsAssumption == BatchSize \in Nat \ {0} /\ MaxDeliveries \in Nat /\ MaxFaults \in Nat

VARIABLES events, used,         \* the log and the dedupe keys, as in AtomicLedger
          open,                 \* the numbers of each append that has not committed yet
          views, checkpoint,    \* the committed rows of the view and checkpoint tables
          job,                  \* each worker's place, its events and its open transaction
          deliveries, faults,   \* number of deliveries and of faults so far
          skipped               \* history: projectors that loaded a page past a number in flight

vars == <<events, used, open, views, checkpoint, job, deliveries, faults, skipped>>
logVars == <<events, used, open>>
tables == <<views, checkpoint>>
counters == <<deliveries, faults, skipped>>

Log == INSTANCE AtomicLedger

InFlight == UNION open

\* What a SELECT sees of the log. The row of a number in flight is not there yet: it
\* reads as number 0, which no reader asks for.
Visible == [n \in 1 .. Len(events) |-> IF n \in InFlight THEN [events[n] EXCEPT !.seq = 0] ELSE events[n]]

-----------------------------------------------------------------------------
(* Workers. todo holds the events still to apply, the one in the open      *)
(* transaction first. row is the view to be written and seq the checkpoint *)
(* to be written; locks are the rows the transaction has written.          *)

Idle(w) == [pc |-> "idle", since |-> 0, todo |-> <<>>, row |-> <<>>, seq |-> 0, locks |-> {}]

Becomes(w, j) == job' = [job EXCEPT ![w] = j]

\* WithTx begins a transaction for the first event, if there is one.
Begin(w, evs) == IF evs = <<>> THEN Idle(w) ELSE [Idle(w) EXCEPT !.pc = "getCheckpoint", !.todo = evs]

InTx(w) == job[w].pc \notin {"idle", "load"}

Event(w) == Head(job[w].todo)

\* Rows that some other transaction has written and not yet released.
LockedByOthers(w) == UNION {job[o].locks : o \in Workers \ {w}}

\* CatchUp reads the checkpoint, on a pool connection.
CatchUp(w) ==
    /\ w \in Pollers
    /\ job[w].pc = "idle"
    /\ Becomes(w, [Idle(w) EXCEPT !.pc = "load", !.since = checkpoint[Serves[w]]])
    /\ UNCHANGED <<logVars, tables, counters>>

\* A page that starts after since goes past a number in flight.
GoesPast(since, page) == \E n \in InFlight : since < n /\ \E i \in 1 .. Len(page) : n < page[i].seq

\* CatchUp loads a page and starts on it; an empty one ends the poll.
LoadPage(w) ==
    /\ job[w].pc = "load"
    /\ LET page == LoadSince(Visible, job[w].since, BatchSize)
       IN  /\ Becomes(w, Begin(w, page))
           /\ skipped' = IF GoesPast(job[w].since, page) THEN skipped \cup {Serves[w]} ELSE skipped
    /\ UNCHANGED <<logVars, tables, deliveries, faults>>

\* The bus hands a subscriber a message: new, late or again. The service publishes an
\* event after its commit.
Receive(w, e) ==
    /\ w \in Subscribers
    /\ job[w].pc = "idle"
    /\ deliveries < MaxDeliveries
    /\ deliveries' = deliveries + 1
    /\ Becomes(w, Begin(w, <<e>>))
    /\ UNCHANGED <<logVars, tables, faults, skipped>>

-----------------------------------------------------------------------------
(* The statements of ApplyEvent's transaction.                             *)

\* SELECT global_seq: no lock. An event at or below it is skipped.
GetCheckpoint(w) ==
    /\ job[w].pc = "getCheckpoint"
    /\ Becomes(w, [job[w] EXCEPT !.pc =
                      IF Event(w).seq <= checkpoint[Serves[w]] THEN "commit"
                      ELSE IF Relevant(Serves[w], Event(w)) THEN "getView" ELSE "setCheckpoint"])
    /\ UNCHANGED <<logVars, tables, counters>>

\* SELECT the view, again without a lock, and compute the new row from it.
GetView(w) ==
    /\ job[w].pc = "getView"
    /\ Becomes(w, [job[w] EXCEPT !.pc = "upsertView",
                                 !.row = ApplyView(Serves[w], views[Event(w).stream], Event(w))])
    /\ UNCHANGED <<logVars, tables, counters>>

\* Mutant: the upsert goes to the pool, not to the transaction in the context.
UpsertViewMutPool(w) ==
    /\ job[w].pc = "upsertView"
    /\ Event(w).stream \notin LockedByOthers(w)
    /\ views' = [views EXCEPT ![Event(w).stream] = job[w].row]
    /\ Becomes(w, [job[w] EXCEPT !.pc = "setCheckpoint"])
    /\ UNCHANGED <<logVars, checkpoint, counters>>

\* UpsertAccount / UpsertInventory: whatever the row is now, it becomes job.row.
UpsertView(w) ==
    /\ job[w].pc = "upsertView"
    /\ Event(w).stream \notin LockedByOthers(w)
    /\ Becomes(w, [job[w] EXCEPT !.pc = "setCheckpoint", !.locks = @ \cup {Event(w).stream}])
    /\ UNCHANGED <<logVars, tables, counters>>

\* Mutant: SET global_seq = EXCLUDED.global_seq.
SetCheckpointMutOverwrites(w) ==
    /\ job[w].pc = "setCheckpoint"
    /\ Serves[w] \notin LockedByOthers(w)
    /\ Becomes(w, [job[w] EXCEPT !.pc = "commit", !.locks = @ \cup {Serves[w]}, !.seq = Event(w).seq])
    /\ UNCHANGED <<logVars, tables, counters>>

\* Mutant: the checkpoint is the next event expected, not the last one applied.
SetCheckpointMutNextSeq(w) ==
    /\ job[w].pc = "setCheckpoint"
    /\ Serves[w] \notin LockedByOthers(w)
    /\ Becomes(w, [job[w] EXCEPT !.pc = "commit", !.locks = @ \cup {Serves[w]}, !.seq = Event(w).seq + 1])
    /\ UNCHANGED <<logVars, tables, counters>>

\* Upsert of GREATEST(the row as it is now, the event's sequence number).
SetCheckpoint(w) ==
    /\ job[w].pc = "setCheckpoint"
    /\ Serves[w] \notin LockedByOthers(w)
    /\ LET seq == Event(w).seq
           now == checkpoint[Serves[w]]
       IN  Becomes(w, [job[w] EXCEPT !.pc = "commit", !.locks = @ \cup {Serves[w]},
                                     !.seq = IF seq > now THEN seq ELSE now])
    /\ UNCHANGED <<logVars, tables, counters>>

\* What the transaction wrote becomes visible, all at once.
Writes(w) ==
    /\ views' = [s \in Streams |-> IF s \in job[w].locks THEN job[w].row ELSE views[s]]
    /\ checkpoint' = [p \in Projectors |-> IF p \in job[w].locks THEN job[w].seq ELSE checkpoint[p]]

\* The transaction commits; CatchUp goes on with the next event of its page.
Commit(w) ==
    /\ job[w].pc = "commit"
    /\ Writes(w)
    /\ Becomes(w, Begin(w, Tail(job[w].todo)))
    /\ UNCHANGED <<logVars, counters>>

-----------------------------------------------------------------------------
(* Faults.                                                                 *)

Fault == faults < MaxFaults /\ faults' = faults + 1

\* Mutant: no deferred Rollback: the connection keeps the transaction, and its locks.
FailsMutNoRollback(w) ==
    /\ Fault
    /\ job[w].pc # "idle"
    /\ Becomes(w, [Idle(w) EXCEPT !.locks = job[w].locks])
    /\ UNCHANGED <<logVars, tables, deliveries, skipped>>

\* A statement, the load or the commit fails, or the process dies: the transaction is
\* rolled back and the page abandoned. CatchUp is called again by the ticker or at
\* the restart.
Fails(w) ==
    /\ Fault
    /\ job[w].pc # "idle"
    /\ Becomes(w, Idle(w))
    /\ UNCHANGED <<logVars, tables, deliveries, skipped>>

\* The commit takes effect, but the worker sees an error or dies.
CommitAnswerLost(w) ==
    /\ Fault
    /\ job[w].pc = "commit"
    /\ Writes(w)
    /\ Becomes(w, Idle(w))
    /\ UNCHANGED <<logVars, deliveries, skipped>>

-----------------------------------------------------------------------------
(* The write side.                                                         *)

\* A command's append draws its numbers. The rows of the streams it writes are locked
\* from then on, so that no other open append has written them.
Command(c) ==
    /\ Log!Execute(c)
    /\ LET new == (Len(events) + 1) .. Len(events')
       IN  /\ \A n \in InFlight : \A m \in new : events'[m].stream # events[n].stream
           /\ open' = open \cup {new}
    /\ UNCHANGED <<tables, job, counters>>

\* The append commits: all its events appear at once.
CommitAppend(b) ==
    /\ b \in open
    /\ open' = open \ {b}
    /\ UNCHANGED <<events, used, tables, job, counters>>

Init ==
    /\ Log!Init
    /\ open = {}
    /\ skipped = {}
    /\ views = [s \in Streams |-> ZeroView(s)]
    /\ checkpoint = [p \in Projectors |-> 0]
    /\ job = [w \in Workers |-> Idle(w)]
    /\ deliveries = 0
    /\ faults = 0

TxStep(w) == GetCheckpoint(w) \/ GetView(w) \/ UpsertView(w) \/ SetCheckpoint(w) \/ Commit(w)

WorkerStep(w) == CatchUp(w) \/ LoadPage(w) \/ TxStep(w)

Next ==
    \/ \E c \in Commands : Command(c)
    \/ \E b \in open : CommitAppend(b)
    \/ \E w \in Subscribers : \E n \in 1 .. Len(events) \ InFlight : Receive(w, events[n])
    \/ \E w \in Workers : WorkerStep(w)
    \/ \E w \in Workers : Fails(w) \/ CommitAnswerLost(w)

\* Tickers keep polling, statements keep being executed and a row that is released
\* goes to a waiting transaction; an append that has drawn its numbers commits. Messages
\* need not arrive and faults need not happen.
Fairness ==
    /\ \A w \in Workers : WF_vars(WorkerStep(w))
    /\ WF_vars(\E b \in open : CommitAppend(b))

Spec == Init /\ [][Next]_vars

FairSpec == Spec /\ Fairness

-----------------------------------------------------------------------------
(* Properties.                                                             *)

\* Rows and pending rows keep the shape of their table, an open transaction has an
\* event of the log and only locks rows of its own projector.
TypeOK ==
    /\ \A b \in open : b \subseteq 1 .. Len(events)
    /\ \A s \in Streams : views[s] \in ViewType(s)
    /\ \A p \in Projectors : checkpoint[p] \in 0 .. Len(events)
    /\ \A w \in Workers :
          /\ InTx(w) => Event(w) \in {events[n] : n \in 1 .. Len(events)}
          /\ job[w].locks \subseteq {s \in Streams : ProjectorOf(s) = Serves[w]} \cup {Serves[w]}
          /\ job[w].pc \in {"upsertView", "setCheckpoint"} /\ Relevant(Serves[w], Event(w)) =>
                job[w].row \in ViewType(Event(w).stream)

\* Projectors that only one goroutine works for.
Solo == {p \in Projectors : \E w \in Workers : {v \in Workers : Serves[v] = p} = {w}}
SoloStreams == {s \in Streams : ProjectorOf(s) \in Solo}

Atomic == INSTANCE AtomicReadModel
    WITH Served <- Solo, Views <- SoloStreams,
         views <- [s \in SoloStreams |-> views[s]],
         checkpoint <- [p \in Solo |-> checkpoint[p]]

\* For a projector that one goroutine works for, the transaction is the indivisible
\* unit WithTx promises, wherever it fails and whatever became of the answer to its
\* COMMIT: "a crash or error partway through leaves neither the view nor the
\* checkpoint changed" (store.go, WithTx).
ImplementsReadModel == Atomic!Spec

\* A projector fed by CatchUp alone serves the ledger's own fold of the log up to its
\* checkpoint, whatever fails and wherever it stops, as long as no page it loaded went
\* past a number in flight (what happens otherwise is PostgresStore's CatchUpMissesNothing).
ViewIsFoldAtCheckpoint ==
    \A s \in SoloStreams :
        ProjectorOf(s) \notin skipped =>
            views[s] = ViewOf(s, Fold(s, events)[checkpoint[ProjectorOf(s)]])

\* Every event of a stream is counted once in its view: the view is the fold of the
\* stream up to the view's own version (projector.go, ApplyEvent: "safe against the
\* same event being handed to ApplyEvent twice concurrently").
CountedOnce ==
    \A s \in Streams :
        \E n \in 0 .. Len(events) : views[s] = ViewOf(s, Fold(s, events)[n])

\* CatchUp alone makes the views consistent with the log once commands stop, though
\* statements fail, answers are lost and the process restarts, unless some page went
\* past a number in flight.
EventuallyConsistent ==
    <>[](\A s \in SoloStreams :
            ProjectorOf(s) \in skipped \/ views[s] = ViewOf(s, Fold(s, events)[Len(events)]))

\* However many workers race on it, a committed checkpoint never moves backwards
\* (SetCheckpoint's GREATEST).
CheckpointsOnlyAdvance ==
    [][\A p \in Projectors : checkpoint'[p] >= checkpoint[p]]_vars

\* Every ApplyEvent ends: workers that wait for each other's rows take them in one
\* order, the view first and the checkpoint last, so that no two wait for each other,
\* and a failed transaction releases its rows.
EveryApplyEnds == \A w \in Workers : []<> ~ InTx(w)

-----------------------------------------------------------------------------
(* The inductive strengthening of TypeOK and CheckpointsOnlyAdvance: what  *)
(* a worker still has to apply is in the log, what an open transaction has *)
(* written is locked, and no row is locked twice.                          *)

LoggedEvent ==
    [seq : Nat, stream : Streams, version : Nat, type : AccountEventTypes \cup ItemEventTypes,
     amt : Int64, key : {c.key : c \in Commands}]

LogInv ==
    /\ \A b \in open : b \subseteq 1 .. Len(events)
    /\ events \in Seq(LoggedEvent)
    /\ \A n \in 1 .. Len(events) : events[n].seq = n /\ Decodable(events[n])

TablesInv ==
    /\ views \in [Streams -> AccountView \cup InventoryView]
    /\ \A s \in Streams : views[s] \in ViewType(s)
    /\ checkpoint \in [Projectors -> Nat]
    /\ \A p \in Projectors : checkpoint[p] <= Len(events)

InLog(e) == e.seq \in 1 .. Len(events) /\ e = events[e.seq]

Job ==
    [pc : {"idle", "load", "getCheckpoint", "getView", "upsertView", "setCheckpoint", "commit"},
     since : Nat, todo : Seq(LoggedEvent), row : AccountView \cup InventoryView \cup {<<>>},
     seq : Nat, locks : SUBSET (Streams \cup Projectors)]

\* The view that event e changes, if it is one of projector p's.
ViewRow(p, e) == IF Relevant(p, e) THEN {e.stream} ELSE {}

\* The new row of the view has been computed and is not committed.
ViewPending(j) == j.pc = "upsertView" \/ (j.locks # {} /\ Head(j.todo).stream \in j.locks)

JobInv(p, j) ==
    LET e == Head(j.todo)
    IN  /\ j.pc \in {"idle", "load"} <=> j.todo = <<>>
        /\ \A i \in 1 .. Len(j.todo) : InLog(j.todo[i])
        /\ j.pc \notin {"setCheckpoint", "commit"} => j.locks = {}
        /\ j.pc = "setCheckpoint" => j.locks = ViewRow(p, e)
        /\ j.pc = "commit" =>
              \/ j.locks = {}
              \/ j.locks = ViewRow(p, e) \cup {p} /\ j.seq \in checkpoint[p] .. Len(events)
        /\ j.pc \in {"getView", "upsertView"} => Relevant(p, e)
        /\ ViewPending(j) => j.row \in ViewType(e.stream)

TxInv ==
    /\ LogInv
    /\ TablesInv
    /\ job \in [Workers -> Job]
    /\ \A w \in Workers : JobInv(Serves[w], job[w])
    /\ \A v, w \in Workers : v # w => job[v].locks \cap job[w].locks = {}

-----------------------------------------------------------------------------
(* ... of ImplementsReadModel: what the only worker of a projector read is *)
(* still true when it commits ...                                          *)

SoloJob(p, j) ==
    LET e == Head(j.todo)
    IN  /\ j.pc \in {"getView", "upsertView", "setCheckpoint"} \/ p \in j.locks => e.seq > checkpoint[p]
        /\ p \in j.locks => j.seq = e.seq
        /\ ViewPending(j) => j.row = ApplyView(p, views[e.stream], e)

SoloInv == \A w \in Workers : Serves[w] \in Solo => SoloJob(Serves[w], job[w])

(* ... and of ViewIsFoldAtCheckpoint: if that worker is a poller that went *)
(* past no number in flight, what it has to apply is what follows the      *)
(* checkpoint in the log.                                                  *)

Polled == \A w \in Subscribers : Serves[w] \notin Solo

NextJob(p, j) ==
    /\ j.pc = "load" => j.since = checkpoint[p]
    /\ \A i \in 1 .. Len(j.todo) : j.todo[i].seq = checkpoint[p] + i
    /\ j.pc = "commit" => p \in j.locks

FoldInv ==
    /\ ViewIsFoldAtCheckpoint
    /\ \A w \in Workers : Serves[w] \in Solo \ skipped => NextJob(Serves[w], job[w])
=============================================================================
