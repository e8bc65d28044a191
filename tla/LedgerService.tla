--------------------------- MODULE LedgerService ---------------------------
(***************************************************************************)
(* The command layer, internal/ledger/service.go: concurrent handlers      *)
(* (one goroutine per gRPC call) that look up the dedupe key, load and     *)
(* fold the streams they touch, decide, append with an optimistic          *)
(* concurrency check, retry after losing a race, and publish.              *)
(*                                                                         *)
(* Every call on the Store is a separate atomic step: what a handler       *)
(* loaded may be stale by the time it appends. The purely local code       *)
(* between two Store calls belongs to the step before it.                  *)
(***************************************************************************)
EXTENDS EventStore, LedgerRules

CONSTANTS Handlers,      \* concurrently served commands
          Commands,      \* the commands clients send
          MaxRetries,    \* Service.MaxRetries
          MaxCalls,      \* bound on the number of calls clients make
          PinAhead,      \* how far past a stream's version a client may pin (0: only versions that exist)
          Faults         \* TRUE: Store calls may fail and the process may crash

\* A command; "to" matters to Transfer only.
Command ==
    [op : AccountOps, stream : Accounts, to : Accounts, amt : Int64, key : Keys \cup {NoKey}]
    \cup [op : ItemOps, stream : Items, to : Items, amt : Int64, key : Keys \cup {NoKey}]

ASSUME StreamsAssumption == Streams = Accounts \cup Items
ASSUME CommandsAssumption == Commands \subseteq Command
ASSUME BoundsAssumption ==
    /\ MaxRetries \in Nat \ {0}
    /\ MaxCalls \in Nat
    /\ PinAhead \in Nat
    /\ Faults \in BOOLEAN

VARIABLES call,        \* the state of each handler
          calls,       \* number of calls made so far
          published    \* sequence numbers handed to the EventPublisher, in order

vars == <<storeVars, call, calls, published>>

-----------------------------------------------------------------------------
(* Handlers. since is a history field: the length of the log when the call *)
(* came in. The other fields are the handler's arguments and locals.       *)

Idle == [pc |-> "idle"]

NoResult == [applied |-> FALSE, duplicate |-> FALSE, newVersion |-> 0, err |-> "nil"]
Failed(err) == [NoResult EXCEPT !.err = err]

\* Mutant: the original version is not recovered.
duplicateResultMutNoVersion(evs, s) == [NoResult EXCEPT !.duplicate = TRUE]

\* The version of the named stream among the events a key produced.
duplicateResult(evs, s) ==
    LET hits == {i \in 1 .. Len(evs) : evs[i].stream = s}
    IN  [applied |-> FALSE, duplicate |-> TRUE, err |-> "nil",
         newVersion |-> IF hits = {} THEN 0
                        ELSE evs[CHOOSE i \in hits : \A j \in hits : j <= i].version]

\* Whether the op takes a client-supplied expected version. The gRPC server has a field
\* for it only in Deposit and Withdraw; the service offers it for stock as well.
TakesVersion(op) == op \notin {"OpenAccount", "Transfer"}

\* planVersion: attempts of a command; pinned commands and OpenAccount get one.
MaxAttempts(c, pin) ==
    IF c.op = "OpenAccount" \/ pin # NoVersionCheck THEN 1 ELSE MaxRetries + 1

\* The event type a command's (first) decision produces.
EventTypeOf(op) ==
    CASE op = "OpenAccount"     -> "AccountOpened"
      [] op = "Deposit"         -> "FundsDeposited"
      [] op = "Withdraw"        -> "FundsWithdrawn"
      [] op = "Transfer"        -> "FundsWithdrawn"
      [] op = "AdjustInventory" -> "InventoryAdjusted"
      [] op = "ReserveStock"    -> "StockReserved"
      [] op = "ReleaseStock"    -> "StockReleased"

\* Mutant: the two accounts of a transfer are swapped.
DecideCommandMutSwapped(c, from, to) ==
    LET first == Decide(EventTypeOf(c.op), IF c.op = "Transfer" THEN to ELSE from, c.amt)
    IN  IF c.op = "Transfer" /\ first = "nil" THEN DecideDeposit(from, c.amt) ELSE first

\* The decision on the loaded states: Transfer decides the withdrawal first.
DecideCommand(c, from, to) ==
    LET first == Decide(EventTypeOf(c.op), from, c.amt)
    IN  IF c.op = "Transfer" /\ first = "nil" THEN DecideDeposit(to, c.amt) ELSE first

\* Mutant: "-1, any version" is passed through to the store.
ExpectedVersionMutAsSent(c, pin, from) == IF c.op = "OpenAccount" THEN StreamDoesNotExist ELSE pin

\* The ExpectedVersion of the primary stream (expectedVersionFor).
ExpectedVersion(c, pin, from) ==
    IF c.op = "OpenAccount" THEN StreamDoesNotExist
    ELSE IF pin # NoVersionCheck THEN pin
    ELSE from.version

\* The batch handed to Append.
Batch(c, pin, from, to) ==
    LET first == [stream |-> c.stream, type |-> EventTypeOf(c.op), amt |-> c.amt,
                  expect |-> ExpectedVersion(c, pin, from)]
        credit == [stream |-> c.to, type |-> "FundsDeposited", amt |-> c.amt, expect |-> to.version]
    IN  IF c.op = "Transfer" THEN <<first, credit>> ELSE <<first>>

\* Mutant: the newest event is not seen.
LoadMutLagging(s) == Fold(s, events)[IF events = <<>> THEN 0 ELSE Len(events) - 1]

\* loadAccount / loadInventory: LoadStream and fold, on the log as it is now.
Load(s) == Fold(s, events)[Len(events)]

\* The expected versions a client may send with a command.
Pins(c) ==
    IF TakesVersion(c.op) THEN {NoVersionCheck} \cup 0 .. (versions[c.stream] + PinAhead)
    ELSE {NoVersionCheck}

-----------------------------------------------------------------------------
Init ==
    /\ StoreInit
    /\ call = [h \in Handlers |-> Idle]
    /\ calls = 0
    /\ published = <<>>

\* Handler h moves on to the given local state.
Becomes(h, r) == call' = [call EXCEPT ![h] = r]

Answers(h, res) == Becomes(h, [call[h] EXCEPT !.pc = "done", !.result = res])

\* A client calls: a transfer to the same account is refused before anything
\* else, and a command without a key skips the lookup.
Receive(h, c, pin) ==
    /\ call[h].pc = "idle"
    /\ calls < MaxCalls
    /\ calls' = calls + 1
    /\ LET refused == c.op = "Transfer" /\ c.stream = c.to
       IN  Becomes(h, [pc       |-> IF refused THEN "done" ELSE IF c.key = NoKey THEN "load" ELSE "lookup",
                       cmd      |-> c,
                       pin      |-> pin,
                       attempt  |-> 0,
                       from     |-> EmptyState(c.stream),
                       to       |-> EmptyState(c.to),
                       appended |-> <<>>,
                       result   |-> IF refused THEN Failed("ErrSameAccountTransfer") ELSE NoResult,
                       since    |-> Len(events)])
    /\ UNCHANGED <<storeVars, published>>

\* The dedupe lookup that precedes every decision.
Lookup(h) ==
    /\ call[h].pc = "lookup"
    /\ LET prior == LookupDedupe(call[h].cmd.key)
       IN  IF prior.found THEN Answers(h, duplicateResult(prior.events, call[h].cmd.stream))
           ELSE Becomes(h, [call[h] EXCEPT !.pc = "load"])
    /\ UNCHANGED <<storeVars, calls, published>>

\* The states are loaded: decide, and answer with the error or go on to append.
DecideOn(h, from, to) ==
    LET c == call[h].cmd
        err == DecideCommand(c, from, to)
    IN  IF err # "nil"
        THEN Answers(h, Failed(err))
        ELSE Becomes(h, [call[h] EXCEPT !.pc = "append", !.from = from, !.to = to])

\* Every command but Transfer loads one stream.
LoadOne(h) ==
    /\ call[h].pc = "load"
    /\ call[h].cmd.op # "Transfer"
    /\ DecideOn(h, Load(call[h].cmd.stream), call[h].to)
    /\ UNCHANGED <<storeVars, calls, published>>

\* Transfer loads the source, then, in a second Store call, the destination.
LoadFrom(h) ==
    /\ call[h].pc = "load"
    /\ call[h].cmd.op = "Transfer"
    /\ Becomes(h, [call[h] EXCEPT !.pc = "loadTo", !.from = Load(call[h].cmd.stream)])
    /\ UNCHANGED <<storeVars, calls, published>>

LoadTo(h) ==
    /\ call[h].pc = "loadTo"
    /\ DecideOn(h, call[h].from, Load(call[h].cmd.to))
    /\ UNCHANGED <<storeVars, calls, published>>

BatchOf(h) == Batch(call[h].cmd, call[h].pin, call[h].from, call[h].to)

\* Mutant: no early return for a duplicate, the old events are published again.
AppendDuplicateMutPublishes(h) ==
    /\ call[h].pc = "append"
    /\ AppendIsDuplicate(call[h].cmd.key)
    /\ Becomes(h, [call[h] EXCEPT !.pc = "publish", !.appended = dedupe[call[h].cmd.key].events])
    /\ UNCHANGED <<storeVars, calls, published>>

\* A concurrent call with the same key committed first.
AppendDuplicate(h) ==
    /\ call[h].pc = "append"
    /\ AppendIsDuplicate(call[h].cmd.key)
    /\ Answers(h, duplicateResult(dedupe[call[h].cmd.key].events, call[h].cmd.stream))
    /\ UNCHANGED <<storeVars, calls, published>>

\* Mutant: the next attempt appends what the last one decided.
AppendConflictMutNoReload(h) ==
    /\ call[h].pc = "append"
    /\ AppendConflicts(call[h].cmd.key, BatchOf(h))
    /\ IF call[h].attempt < MaxAttempts(call[h].cmd, call[h].pin) - 1
       THEN Becomes(h, [call[h] EXCEPT !.attempt = @ + 1])
       ELSE Answers(h, Failed("ErrVersionConflict"))
    /\ UNCHANGED <<storeVars, calls, published>>

\* Mutant: ... and there is no retry budget either.
AppendConflictMutForever(h) ==
    /\ call[h].pc = "append"
    /\ AppendConflicts(call[h].cmd.key, BatchOf(h))
    /\ UNCHANGED vars

\* Lost the race: decide again on fresh state while attempts remain.
AppendConflict(h) ==
    /\ call[h].pc = "append"
    /\ AppendConflicts(call[h].cmd.key, BatchOf(h))
    /\ IF call[h].attempt < MaxAttempts(call[h].cmd, call[h].pin) - 1
       THEN Becomes(h, [call[h] EXCEPT !.pc = "load", !.attempt = @ + 1])
       ELSE Answers(h, Failed("ErrVersionConflict"))
    /\ UNCHANGED <<storeVars, calls, published>>

\* Mutant: the events are committed and never published.
AppendCommitMutSilent(h) ==
    /\ call[h].pc = "append"
    /\ AppendWrites(call[h].cmd.key, BatchOf(h))
    /\ Answers(h, [NoResult EXCEPT !.applied = TRUE, !.newVersion = Produced(call[h].cmd.key, BatchOf(h))[1].version])
    /\ UNCHANGED <<calls, published>>

\* Append succeeded: the transaction is in the log, all of it.
AppendCommit(h) ==
    /\ call[h].pc = "append"
    /\ AppendWrites(call[h].cmd.key, BatchOf(h))
    /\ Becomes(h, [call[h] EXCEPT !.pc = "publish",
                                  !.appended = Produced(call[h].cmd.key, BatchOf(h))])
    /\ UNCHANGED <<calls, published>>

\* Mutant: the answer names the last event's version.
PublishMutLastVersion(h) ==
    /\ call[h].pc = "publish"
    /\ published' = published \o [i \in 1 .. Len(call[h].appended) |-> call[h].appended[i].seq]
    /\ Answers(h, [NoResult EXCEPT !.applied = TRUE,
                                  !.newVersion = call[h].appended[Len(call[h].appended)].version])
    /\ UNCHANGED <<storeVars, calls>>

\* Mutant: the answer repeats the expected version the client sent.
PublishMutAsSent(h) ==
    /\ call[h].pc = "publish"
    /\ published' = published \o [i \in 1 .. Len(call[h].appended) |-> call[h].appended[i].seq]
    /\ Answers(h, [NoResult EXCEPT !.applied = TRUE, !.newVersion = call[h].pin])
    /\ UNCHANGED <<storeVars, calls>>

\* After the commit, outside the store's lock: hand the events to the publisher.
Publish(h) ==
    /\ call[h].pc = "publish"
    /\ published' = published \o [i \in 1 .. Len(call[h].appended) |-> call[h].appended[i].seq]
    /\ Answers(h, [NoResult EXCEPT !.applied = TRUE, !.newVersion = call[h].appended[1].version])
    /\ UNCHANGED <<storeVars, calls>>

\* The response leaves the service.
Respond(h) ==
    /\ call[h].pc = "done"
    /\ Becomes(h, Idle)
    /\ UNCHANGED <<storeVars, calls, published>>

-----------------------------------------------------------------------------
(* Failures of a durable store and of the process.                         *)

\* A lookup, a load or an append fails without effect: the error is returned.
StoreFails(h) ==
    /\ Faults
    /\ call[h].pc \in {"lookup", "load", "loadTo", "append"}
    /\ Answers(h, Failed("Internal"))
    /\ UNCHANGED <<storeVars, calls, published>>

\* The append commits, but the service gets an error instead of the answer:
\* nothing is published and the client is told the command failed.
AppendAckLost(h) ==
    /\ Faults
    /\ call[h].pc = "append"
    /\ AppendWrites(call[h].cmd.key, BatchOf(h))
    /\ Answers(h, Failed("Internal"))
    /\ UNCHANGED <<calls, published>>

\* The process dies and restarts: every call in progress is gone, the log is not.
Crash ==
    /\ Faults
    /\ \E h \in Handlers : call[h].pc # "idle"
    /\ call' = [h \in Handlers |-> Idle]
    /\ UNCHANGED <<storeVars, calls, published>>

-----------------------------------------------------------------------------
HandlerStep(h) ==
    \/ Lookup(h)
    \/ LoadOne(h)
    \/ LoadFrom(h)
    \/ LoadTo(h)
    \/ AppendDuplicate(h)
    \/ AppendConflict(h)
    \/ AppendCommit(h)
    \/ Publish(h)
    \/ Respond(h)

Next ==
    \/ \E h \in Handlers : \E c \in Commands : \E pin \in Pins(c) : Receive(h, c, pin)
    \/ \E h \in Handlers : HandlerStep(h)
    \/ \E h \in Handlers : StoreFails(h) \/ AppendAckLost(h)
    \/ Crash

\* Every handler is a goroutine the Go scheduler keeps running. Clients need not
\* call, and faults need not happen.
Fairness == \A h \in Handlers : WF_vars(HandlerStep(h))

Spec == Init /\ [][Next]_vars

FairSpec == Spec /\ Fairness

-----------------------------------------------------------------------------
(* Types.                                                                  *)

Event ==
    [seq : Nat, stream : Accounts, version : Nat, type : AccountEventTypes, amt : Int64, key : Keys \cup {NoKey}]
    \cup [seq : Nat, stream : Items, version : Nat, type : ItemEventTypes, amt : Int64, key : Keys \cup {NoKey}]

Result ==
    [applied : BOOLEAN, duplicate : BOOLEAN, newVersion : Nat,
     err : {"nil", "ErrSameAccountTransfer", "ErrVersionConflict", "Internal"} \cup BusinessErrors]

Call ==
    [pc : {"lookup", "load", "loadTo", "append", "publish", "done"},
     cmd : Commands, pin : Int, attempt : Nat,
     from : AccountState \cup InventoryState, to : AccountState \cup InventoryState,
     appended : Seq(Event), result : Result, since : Nat]

\* Every variable holds a value of its Go type; in particular an account stream
\* only ever holds account events, so the folds' "unknown event type" errors are
\* unreachable.
TypeOK ==
    /\ events \in Seq(Event)
    /\ versions \in [Streams -> Nat]
    /\ globalSeq \in Nat
    /\ dedupe \in [Keys -> [found : BOOLEAN, events : Seq(Event)]]
    /\ call \in [Handlers -> {Idle} \cup Call]
    /\ calls \in 0 .. MaxCalls
    /\ published \in Seq(Nat)

-----------------------------------------------------------------------------
(* Safety of the log.                                                      *)

\* Every event in the log was decided on exactly the state its stream had just
\* before it, and versions are consecutive: no handler's stale load ever commits
\* (service.go, Deposit to ReleaseStock: load, decide, append, retry).
LogIsSerial == \A n \in 1 .. Len(events) : LegalAt(events, n)

NoOverflow == \A n \in 1 .. Len(events) : ~ OverflowsAt(events, n)

\* No account balance, available stock or reserved stock is negative, as long as
\* no credit overflowed int64: the promise of DecideWithdraw, DecideReserveStock
\* and DecideReleaseStock under any interleaving of handlers.
Solvent == NoOverflow => \A s \in Streams : NonNegative(s, Load(s))

\* DecideWithdraw's comment as it stands: the balance can never go negative.
BalanceNeverNegative == \A s \in Accounts : Load(s).balance >= 0

\* All the events that carry a dedupe key are the ones its dedupe entry remembers:
\* however often the command is retried or raced by its copies, and wherever the
\* process dies, the key takes effect at most once (Store.Append's contract).
OneEffectPerKey ==
    \A k \in Keys :
        \A n \in 1 .. Len(events) :
            events[n].key = k =>
                /\ dedupe[k].found
                /\ \E m \in 1 .. Len(dedupe[k].events) : dedupe[k].events[m] = events[n]

-----------------------------------------------------------------------------
(* The inductive strengthening of LogIsSerial, when no client pins a       *)
(* version that does not exist yet.                                        *)

\* Sequence numbers are positions, and the version map agrees with the replay.
StoreConsistent ==
    /\ globalSeq = Len(events)
    /\ \A n \in 1 .. Len(events) : events[n].seq = n
    /\ \A s \in Streams : versions[s] = Load(s).version

\* A loaded state is a past state of its stream; if the version still matches, it
\* is the present one.
Snapshot(s, st) ==
    /\ st \in StateType(s)
    /\ st.version <= versions[s]
    /\ st.version = versions[s] => st = Load(s)

HandlerConsistent(c) ==
    /\ c.pin = NoVersionCheck \/ (TakesVersion(c.cmd.op) /\ c.pin \in 0 .. versions[c.cmd.stream])
    /\ c.pc # "done" => (c.cmd.op = "Transfer" => c.cmd.stream # c.cmd.to)
    /\ c.pc = "loadTo" => c.cmd.op = "Transfer"
    /\ c.pc \in {"loadTo", "append"} => Snapshot(c.cmd.stream, c.from)
    /\ c.pc = "append" =>
          /\ c.pin <= c.from.version
          /\ c.cmd.op = "Transfer" => Snapshot(c.cmd.to, c.to)
          /\ DecideCommand(c.cmd, c.from, c.to) = "nil"

SerialInv ==
    /\ TypeOK
    /\ StoreConsistent
    /\ LogIsSerial
    /\ \A h \in Handlers : call[h].pc # "idle" => HandlerConsistent(call[h])

-----------------------------------------------------------------------------
(* What clients are told.                                                  *)

Done(h) == call[h].pc = "done"

\* e is the (first) event that command c writes.
FirstEventOf(c, e) ==
    /\ e.stream = c.stream
    /\ e.type = EventTypeOf(c.op)
    /\ e.amt = c.amt
    /\ e.key = c.key

\* Command c's event stands in the log, after position since, with the given version.
InLog(c, version, since) ==
    \E n \in (since + 1) .. Len(events) : FirstEventOf(c, events[n]) /\ events[n].version = version

\* An "applied" answer names an event of the log that is this command's, written
\* after the call came in, at the version returned.
AppliedIsInLog ==
    \A h \in Handlers :
        Done(h) /\ call[h].result.applied =>
            InLog(call[h].cmd, call[h].result.newVersion, call[h].since)

\* A key identifies one command (clients do not reuse it for another).
KeyIsOwn(c) == \A d \in Commands : d.key = c.key => d = c

\* A "duplicate" answer returns the version the first, effective call produced,
\* even when that call itself answered with an error or died (duplicateResult).
DuplicateIsOriginal ==
    \A h \in Handlers :
        Done(h) /\ call[h].result.duplicate /\ KeyIsOwn(call[h].cmd) =>
            InLog(call[h].cmd, call[h].result.newVersion, 0)

\* The rules gave command c this error on the log as it was at some point after since.
WasRefused(c, err, since) ==
    \E n \in since .. Len(events) :
        \/ Decide(EventTypeOf(c.op), Fold(c.stream, events)[n], c.amt) = err
        \/ c.op = "Transfer" /\ DecideDeposit(Fold(c.to, events)[n], c.amt) = err

\* A business error was true at some moment while the call was in progress, though
\* the streams may have moved on since the handler loaded them.
RejectionIsJustified ==
    \A h \in Handlers :
        Done(h) /\ call[h].result.err \in BusinessErrors =>
            WasRefused(call[h].cmd, call[h].result.err, call[h].since)

\* Optimistic concurrency is lock-free: each attempt an unpinned command lost was
\* won by somebody else's append. So ErrVersionConflict reaches a client that did not
\* pin a version only after MaxAttempts appends overtook it.
LostAttempts(h) ==
    call[h].attempt + (IF call[h].result.err = "ErrVersionConflict" THEN 1 ELSE 0)

ConflictMeansProgress ==
    \A h \in Handlers :
        call[h].pc # "idle" /\ call[h].pin = NoVersionCheck =>
            LostAttempts(h) <= Len(events) - call[h].since

\* No event is handed to the publisher twice or before it is in the log; and unless
\* something fails, every event is published or about to be by the one handler that
\* wrote it.
PublishedExactlyOnce ==
    /\ \A i, j \in 1 .. Len(published) : published[i] = published[j] => i = j
    /\ \A n \in 1 .. Len(events) :
          LET sent == \E i \in 1 .. Len(published) : published[i] = n
              held == {h \in Handlers : call[h].pc = "publish"
                          /\ \E i \in 1 .. Len(call[h].appended) : call[h].appended[i] = events[n]}
          IN  Cardinality(held) + (IF sent THEN 1 ELSE 0) \in (IF Faults THEN {0, 1} ELSE {1})
    /\ \A i \in 1 .. Len(published) : published[i] \in 1 .. Len(events)

-----------------------------------------------------------------------------
(* The inductive strengthening of the answers.                             *)

\* The answer of a finished call is an honest one.
Told(r) ==
    /\ r.result.applied => InLog(r.cmd, r.result.newVersion, r.since)
    /\ r.result.duplicate /\ KeyIsOwn(r.cmd) => InLog(r.cmd, r.result.newVersion, 0)
    /\ r.result.err \in BusinessErrors => WasRefused(r.cmd, r.result.err, r.since)

\* What a handler knows of the log while it works: a loaded state is one the stream has
\* had since the call came in, and what is about to be published is in the log.
AnswerInv(r) ==
    /\ r.since <= Len(events)
    /\ r.pc # "done" => r.result = NoResult
    /\ r.pc \in {"loadTo", "append"} =>
          \E n \in r.since .. Len(events) : r.from = Fold(r.cmd.stream, events)[n]
    /\ r.pc = "publish" => InLog(r.cmd, r.appended[1].version, r.since)
    /\ r.pc = "done" => Told(r)

\* What a key's dedupe entry remembers was written for one command that carries the
\* key, and only the first event of it is on that command's own stream.
WrittenFor(c, evs) ==
    /\ evs # <<>>
    /\ evs[1].stream = c.stream
    /\ InLog(c, evs[1].version, 0)
    /\ \A i \in 2 .. Len(evs) : evs[i].stream # c.stream

AnswersInv ==
    /\ \A h \in Handlers : call[h].pc # "idle" => AnswerInv(call[h])
    /\ \A k \in Keys :
          dedupe[k].found => \E c \in Commands : c.key = k /\ WrittenFor(c, dedupe[k].events)

\* The attempt in progress is lost, or already was: a stream has moved since it was loaded.
Overtaken(r) ==
    \/ r.pc \in {"loadTo", "append"} /\ versions[r.cmd.stream] # r.from.version
    \/ r.pc = "append" /\ r.cmd.op = "Transfer" /\ versions[r.cmd.to] # r.to.version
    \/ r.pc = "done" /\ r.result.err = "ErrVersionConflict"

Progressing(r) ==
    r.pin = NoVersionCheck =>
        /\ r.attempt <= Len(events) - r.since
        /\ Overtaken(r) => r.attempt < Len(events) - r.since

ProgressInv == \A h \in Handlers : call[h].pc # "idle" => Progressing(call[h])

\* The sequence numbers handed to the publisher, and those handler r is about to hand over.
Sent == {published[i] : i \in 1 .. Len(published)}

Holds(r) == IF r.pc = "publish" THEN {r.appended[i].seq : i \in 1 .. Len(r.appended)} ELSE {}

\* A handler about to publish holds distinct, unpublished events of the log.
HeldInv(r) ==
    r.pc = "publish" =>
        /\ \A i \in 1 .. Len(r.appended) :
              r.appended[i].seq \in 1 .. Len(events) /\ events[r.appended[i].seq] = r.appended[i]
        /\ \A i, j \in 1 .. Len(r.appended) : r.appended[i].seq = r.appended[j].seq => i = j

PublishInv ==
    /\ globalSeq = Len(events)
    /\ \A n \in 1 .. Len(events) : events[n].seq = n
    /\ \A i, j \in 1 .. Len(published) : published[i] = published[j] => i = j
    /\ Sent \subseteq 1 .. Len(events)
    /\ \A h \in Handlers : HeldInv(call[h]) /\ Holds(call[h]) \cap Sent = {}
    /\ \A g, h \in Handlers : g # h => Holds(call[g]) \cap Holds(call[h]) = {}
    /\ ~ Faults => \A n \in 1 .. Len(events) : n \in Sent \/ \E h \in Handlers : n \in Holds(call[h])

-----------------------------------------------------------------------------
(* Refinement and liveness.                                                *)

Atomic == INSTANCE AtomicLedger WITH used <- {k \in Keys : dedupe[k].found}

\* The handlers together implement the atomic ledger: commands take effect one at a
\* time, each deciding on the state it changes, a transfer's two legs in one step.
ImplementsAtomicLedger == Atomic!Spec

\* Every call is answered: the retry loop ends whatever the other handlers do.
EveryCallEnds == \A h \in Handlers : call[h].pc # "idle" ~> call[h].pc = "idle"

\* Whatever is in the log is eventually handed to the publisher.
EveryEventPublished ==
    \A n \in 1 .. 2 * MaxCalls :
        Len(events) >= n ~> \E i \in 1 .. Len(published) : published[i] = n
=============================================================================
