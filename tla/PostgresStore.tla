--------------------------- MODULE PostgresStore ---------------------------
(***************************************************************************)
(* internal/eventstore/postgres/store.go: Append as a transaction under    *)
(* READ COMMITTED (pgx's default), statement by statement, with the row    *)
(* locks and unique indexes its schema gives it; and the CatchUp poll as   *)
(* the reader of LoadSince.                                                *)
(*                                                                         *)
(* PostgreSQL is modelled from how the code uses it: a row another         *)
(* transaction inserted or locked makes a statement wait for that          *)
(* transaction's end; a statement sees what was committed when it ran;     *)
(* sequence numbers are handed out at once and never given back; a         *)
(* transaction in a cycle of waits is aborted. Payloads are left out.      *)
(***************************************************************************)
EXTENDS Integers, Sequences, FiniteSets

CONSTANTS Streams, Keys, NoKey, Batches,
          Txs,          \* concurrent callers of Append
          MaxAppends,   \* bound on the number of Append calls
          PinAhead,     \* how far past a stream's version an expected version may lie
          PageSize,     \* LoadSince's limit, as CatchUp passes it
          Faults        \* TRUE: any statement may fail, and a commit's answer may be lost

ASSUME NoKeyAssumption == NoKey \notin Keys
ASSUME BatchesAssumption == Batches \subseteq Seq(Streams) /\ \A b \in Batches : Len(b) > 0
ASSUME BoundsAssumption == MaxAppends \in Nat /\ PinAhead \in Nat /\ PageSize \in Nat \ {0} /\ Faults \in BOOLEAN

VARIABLES rows,     \* stream_versions, committed (no row reads as version 0)
          log,      \* events, committed
          keys,     \* idempotency_keys, committed
          links,    \* idempotency_key_events, committed: <<key, seq>> pairs
          nextSeq,  \* last value drawn from the BIGSERIAL
          tx,       \* the transaction of each caller
          begun,    \* number of Append calls so far
          cursor,   \* the checkpoint of a projector that only polls
          seen      \* the events it was handed

tables == <<rows, log, keys, links>>
vars == <<tables, nextSeq, tx, begun, cursor, seen>>

NoVersionCheck == -1

\* A session: where it is in Append, the arguments, the events written so far, and what
\* it returns, an answer and events.
Idle == [pc |-> "idle", key |-> NoKey, batch |-> <<>>, expect |-> <<>>, writes |-> <<>>,
         answer |-> "none", events |-> {}]

-----------------------------------------------------------------------------
(* What a transaction sees and holds.                                      *)

\* Rows of stream_versions t has locked: those of the events it has written.
Holds(t, s) == \E i \in 1 .. Len(tx[t].writes) : tx[t].writes[i].stream = s

\* t has inserted its key into idempotency_keys and not ended yet.
HoldsKey(t, k) == tx[t].pc \in {"write", "commit"} /\ k # NoKey /\ tx[t].key = k

\* The version of stream s as transaction t sees it: committed, plus its own writes.
SeenVersion(t, s) == rows[s] + Cardinality({i \in 1 .. Len(tx[t].writes) : tx[t].writes[i].stream = s})

NextStream(t) == tx[t].batch[Len(tx[t].writes) + 1]

\* The events of batch b before the i-th that go to the i-th one's stream.
Earlier(b, i) == Cardinality({j \in 1 .. i - 1 : b[j] = b[i]})

\* The events transaction t would commit.
Written(t) == {tx[t].writes[i] : i \in 1 .. Len(tx[t].writes)}

\* The statement t is at waits for transaction u to end.
WaitsFor(t, u) ==
    /\ t # u
    /\ \/ tx[t].pc = "insertKey" /\ HoldsKey(u, tx[t].key)
       \/ tx[t].pc = "write" /\ Holds(u, NextStream(t))

Blocked(t) == \E u \in Txs : WaitsFor(t, u)

\* t is on a cycle of waits: every member waits for a member and is waited for by one.
InCycle(t) ==
    \E C \in SUBSET Txs :
        /\ t \in C
        /\ \A u \in C : \E v \in C : WaitsFor(u, v)
        /\ \A v \in C : \E u \in C : WaitsFor(u, v)

-----------------------------------------------------------------------------
Init ==
    /\ rows = [s \in Streams |-> 0]
    /\ log = {}
    /\ keys = {}
    /\ links = {}
    /\ nextSeq = 0
    /\ tx = [t \in Txs |-> Idle]
    /\ begun = 0
    /\ cursor = 0
    /\ seen = {}

Becomes(t, r) == tx' = [tx EXCEPT ![t] = r]

\* The transaction is over, its locks are released, and Append returns.
Ends(t, answer, events) ==
    Becomes(t, [Idle EXCEPT !.pc = "done", !.answer = answer, !.events = events])

\* The deferred Rollback: what was written is discarded.
Rollback(t, answer) == Ends(t, answer, {})

\* A caller appends with versions it has just read, with one that does not exist yet, or
\* without a check; they may be out of date by the time the rows are locked.
Begin(t, k, b) ==
    /\ tx[t].pc = "idle"
    /\ begun < MaxAppends
    /\ begun' = begun + 1
    /\ \E checked \in BOOLEAN : \E ahead \in 0 .. PinAhead :
          Becomes(t, [Idle EXCEPT
              !.pc = IF k = NoKey THEN "write" ELSE "checkKey",
              !.key = k,
              !.batch = b,
              !.expect = [i \in 1 .. Len(b) |->
                  IF checked THEN rows[b[i]] + Earlier(b, i) + ahead ELSE NoVersionCheck]])
    /\ UNCHANGED <<tables, nextSeq, cursor, seen>>

\* The events a key's link rows name.
loadDedupeEvents(k) == {e \in log : <<k, e.seq>> \in links}

\* SELECT EXISTS ... FOR UPDATE: only a committed key is seen.
CheckKey(t) ==
    /\ tx[t].pc = "checkKey"
    /\ IF tx[t].key \in keys THEN Ends(t, "duplicate", loadDedupeEvents(tx[t].key))
       ELSE Becomes(t, [tx[t] EXCEPT !.pc = "insertKey"])
    /\ UNCHANGED <<tables, nextSeq, begun, cursor, seen>>

\* INSERT INTO idempotency_keys: waits for a concurrent insert of the same key, and
\* fails on the unique index if that one committed.
InsertKey(t) ==
    /\ tx[t].pc = "insertKey"
    /\ ~ Blocked(t)
    /\ IF tx[t].key \in keys THEN Rollback(t, "uniqueViolation")
       ELSE Becomes(t, [tx[t] EXCEPT !.pc = "write"])
    /\ UNCHANGED <<tables, nextSeq, begun, cursor, seen>>

\* The transaction with one more event written: the version check has passed, a
\* sequence number is drawn.
WithEvent(t, s) ==
    LET e == [seq |-> nextSeq + 1, stream |-> s, version |-> SeenVersion(t, s) + 1, key |-> tx[t].key]
    IN  [tx[t] EXCEPT !.writes = Append(@, e),
                      !.pc = IF Len(tx[t].writes) + 1 = Len(tx[t].batch) THEN "commit" ELSE "write"]

\* Mutant: the stream row is read without FOR UPDATE.
WriteMutNoLock(t) ==
    /\ tx[t].pc = "write"
    /\ LET s == NextStream(t)
           want == tx[t].expect[Len(tx[t].writes) + 1]
       IN  IF want \notin {NoVersionCheck, SeenVersion(t, s)}
           THEN Rollback(t, "versionConflict") /\ UNCHANGED nextSeq
           ELSE Becomes(t, WithEvent(t, s)) /\ nextSeq' = nextSeq + 1
    /\ UNCHANGED <<tables, begun, cursor, seen>>

\* Mutant: the expected version is not compared with the row.
WriteMutUnchecked(t) ==
    /\ tx[t].pc = "write"
    /\ ~ Blocked(t)
    /\ Becomes(t, WithEvent(t, NextStream(t)))
    /\ nextSeq' = nextSeq + 1
    /\ UNCHANGED <<tables, begun, cursor, seen>>

\* Mutant: a version conflict is retried inside the transaction.
WriteMutSpins(t) ==
    /\ tx[t].pc = "write"
    /\ ~ Blocked(t)
    /\ tx[t].expect[Len(tx[t].writes) + 1] \in {NoVersionCheck, SeenVersion(t, NextStream(t))}
    /\ Becomes(t, WithEvent(t, NextStream(t)))
    /\ nextSeq' = nextSeq + 1
    /\ UNCHANGED <<tables, begun, cursor, seen>>

\* One turn of the loop over the batch: ensure and lock the stream's row, check the
\* version, insert the event, bump the version, link the key.
Write(t) ==
    /\ tx[t].pc = "write"
    /\ ~ Blocked(t)
    /\ LET s == NextStream(t)
           want == tx[t].expect[Len(tx[t].writes) + 1]
       IN  IF want \notin {NoVersionCheck, SeenVersion(t, s)}
           THEN Rollback(t, "versionConflict") /\ UNCHANGED nextSeq
           ELSE Becomes(t, WithEvent(t, s)) /\ nextSeq' = nextSeq + 1
    /\ UNCHANGED <<tables, begun, cursor, seen>>

\* The effect of COMMIT on the tables.
Commits(t) ==
    /\ tx[t].pc = "commit"
    /\ rows' = [s \in Streams |-> SeenVersion(t, s)]
    /\ log' = log \cup Written(t)
    /\ keys' = keys \cup ({tx[t].key} \ {NoKey})
    /\ links' = links \cup (IF tx[t].key = NoKey THEN {} ELSE {<<tx[t].key, e.seq>> : e \in Written(t)})
    /\ UNCHANGED <<nextSeq, begun, cursor, seen>>

\* Mutant: only the last event of the batch is linked to the key.
CommitMutLinksLast(t) ==
    /\ tx[t].pc = "commit"
    /\ rows' = [s \in Streams |-> SeenVersion(t, s)]
    /\ log' = log \cup Written(t)
    /\ keys' = keys \cup ({tx[t].key} \ {NoKey})
    /\ links' = links \cup (IF tx[t].key = NoKey THEN {}
                            ELSE {<<tx[t].key, tx[t].writes[Len(tx[t].writes)].seq>>})
    /\ UNCHANGED <<nextSeq, begun, cursor, seen>>
    /\ Ends(t, "ok", Written(t))

\* The locks go with the commit, and the produced events are returned.
Commit(t) == Commits(t) /\ Ends(t, "ok", Written(t))

\* The caller takes the answer.
Return(t) ==
    /\ tx[t].pc = "done"
    /\ Becomes(t, Idle)
    /\ UNCHANGED <<tables, nextSeq, begun, cursor, seen>>

\* PostgreSQL's deadlock detector picks a victim; the error is not a version conflict,
\* so the service returns it.
Deadlock(t) ==
    /\ InCycle(t)
    /\ Rollback(t, "deadlock")
    /\ UNCHANGED <<tables, nextSeq, begun, cursor, seen>>

\* A statement fails, the connection breaks or the caller's context ends.
Fails(t) ==
    /\ Faults
    /\ tx[t].pc \in {"checkKey", "insertKey", "write", "commit"}
    /\ Rollback(t, "error")
    /\ UNCHANGED <<tables, nextSeq, begun, cursor, seen>>

\* The commit happens, its answer is lost.
CommitAckLost(t) == Faults /\ Commits(t) /\ Rollback(t, "error")

-----------------------------------------------------------------------------
(* The polling reader.                                                     *)

\* LoadSince: the committed events after a sequence number, the first limit of them.
LoadSince(after, limit) ==
    LET newer == {e \in log : e.seq > after}
    IN  {e \in newer : Cardinality({f \in newer : f.seq < e.seq}) < limit}

\* Mutant: the checkpoint is the next number expected, not the last one handled.
PollMutNextSeq ==
    LET page == LoadSince(cursor, PageSize)
    IN  /\ page # {}
        /\ seen' = seen \cup page
        /\ cursor' = (CHOOSE e \in page : \A f \in page : f.seq <= e.seq).seq + 1
        /\ UNCHANGED <<tables, nextSeq, tx, begun>>

\* One page of CatchUp: every event of it is handed on, and the checkpoint moves to
\* the last one.
Poll ==
    LET page == LoadSince(cursor, PageSize)
    IN  /\ page # {}
        /\ seen' = seen \cup page
        /\ cursor' = (CHOOSE e \in page : \A f \in page : f.seq <= e.seq).seq
        /\ UNCHANGED <<tables, nextSeq, tx, begun>>

-----------------------------------------------------------------------------
TxStep(t) == CheckKey(t) \/ InsertKey(t) \/ Write(t) \/ Commit(t) \/ Return(t) \/ Deadlock(t)

Next ==
    \/ \E t \in Txs : \E k \in Keys \cup {NoKey} : \E b \in Batches : Begin(t, k, b)
    \/ \E t \in Txs : TxStep(t)
    \/ \E t \in Txs : Fails(t) \/ CommitAckLost(t)
    \/ Poll

\* Sessions run on unless they wait for a lock, and the ticker keeps polling.
Fairness == (\A t \in Txs : WF_vars(TxStep(t))) /\ WF_vars(Poll)

Spec == Init /\ [][Next]_vars

FairSpec == Spec /\ Fairness

-----------------------------------------------------------------------------
(* Properties.                                                             *)

Event == [seq : Nat \ {0}, stream : Streams, version : Nat \ {0}, key : Keys \cup {NoKey}]

Transaction ==
    [pc : {"idle", "checkKey", "insertKey", "write", "commit", "done"},
     key : Keys \cup {NoKey}, batch : Seq(Streams), expect : Seq(Int), writes : Seq(Event),
     answer : {"none", "ok", "duplicate", "uniqueViolation", "versionConflict", "deadlock", "error"},
     events : SUBSET Event]

\* Variables hold values of their types, and a transaction past its version checks has
\* written a prefix of its batch.
TypeOK ==
    /\ rows \in [Streams -> Nat]
    /\ log \subseteq Event
    /\ keys \subseteq Keys
    /\ links \subseteq (Keys \X Nat)
    /\ nextSeq \in Nat
    /\ cursor \in 0 .. nextSeq
    /\ seen \subseteq log
    /\ begun \in 0 .. MaxAppends
    /\ tx \in [Txs -> Transaction]
    /\ \A t \in Txs : Len(tx[t].writes) <= Len(tx[t].batch)

\* What the contract tells apart: not the sequence number of an event, nor why an Append
\* failed if not for a version.
Mark(e) == [stream |-> e.stream, version |-> e.version, key |-> e.key]
Marks(E) == {Mark(e) : e \in E}
CallOf(r) ==
    [key |-> r.key, batch |-> r.batch, expect |-> r.expect, events |-> Marks(r.events),
     answer |-> IF r.answer \in {"uniqueViolation", "deadlock"} THEN "error" ELSE r.answer]

Contract ==
    INSTANCE AppendContract WITH
        Callers <- Txs, versions <- rows, log <- Marks(log), done <- keys,
        calls <- [t \in Txs |-> CallOf(tx[t])]

\* The transactions implement Append's contract (eventstore.go): every call takes effect
\* in one step, on the versions it expected or not at all, a processed key is answered
\* with the events it wrote the first time, and ErrVersionConflict is only said when it
\* is true, whatever the interleaving, the rollbacks and the lost answers.
ImplementsContract == Contract!Spec

\* The row lock alone keeps versions unique: the UNIQUE (aggregate, version) constraint
\* never has to reject an insert, committed or in flight.
VersionsNeverCollide ==
    \A e, f \in log \cup UNION {Written(t) : t \in Txs} : e.stream = f.stream /\ e.version = f.version => e = f

\* What a retried command is answered with (loadDedupeEvents through the link table) is
\* all of what the key wrote and nothing else.
LinksAreComplete == \A k \in Keys : \A e \in log : e.key = k <=> <<k, e.seq>> \in links

\* A poller never meets a stream's events out of version order, although sequence
\* numbers of different streams commit out of order.
SeenInVersionOrder ==
    [][\A e \in seen' \ seen : \A f \in seen :
          e.stream = f.stream => f.version < e.version /\ f.seq < e.seq]_vars

\* Every Append comes back: lock waits end, if need be with a deadlock's victim.
EveryAppendEnds == \A t \in Txs : tx[t].pc # "idle" ~> tx[t].pc = "idle"

\* CatchUp's comment: polling alone makes the read model consistent with the log.
CatchUpMissesNothing == <>[](seen = log)

-----------------------------------------------------------------------------
(* The inductive strengthening of the safety properties.                   *)

\* All events committed or in flight.
Existing == log \cup UNION {Written(t) : t \in Txs}

\* Where t is in its batch, and that its writes carry exactly the versions between the
\* committed one and the one it sees.
TxConsistent(t) ==
    /\ tx[t].pc \in {"write", "commit"} \/ tx[t].writes = <<>>
    /\ tx[t].pc \notin {"idle", "done"} => tx[t].batch \in Batches
    /\ tx[t].pc = "write" => Len(tx[t].writes) < Len(tx[t].batch)
    /\ tx[t].pc = "commit" => Len(tx[t].writes) = Len(tx[t].batch)
    /\ \A i \in 1 .. Len(tx[t].writes) : tx[t].writes[i].stream = tx[t].batch[i]
    /\ \A e \in Written(t) :
          /\ e.key = tx[t].key
          /\ rows[e.stream] < e.version
          /\ e.version <= SeenVersion(t, e.stream)
    /\ \A s \in Streams : \A v \in (rows[s] + 1) .. SeenVersion(t, s) :
          \E e \in Written(t) : e.stream = s /\ e.version = v

\* A stream's row is locked by one transaction at a time.
LocksExclude ==
    \A t, u \in Txs : t # u => \A e \in Written(t) : \A f \in Written(u) : e.stream # f.stream

\* A key is being inserted by one transaction at a time, and only if nobody committed it.
KeysExclude ==
    \A t \in Txs : \A k \in Keys :
        HoldsKey(t, k) => k \notin keys /\ \A u \in Txs : HoldsKey(u, k) => u = t

\* Within a stream sequence numbers grow with versions; no number is drawn twice.
SeqsFollowVersions ==
    /\ \A e \in Existing : e.seq <= nextSeq
    /\ \A e, f \in Existing :
          /\ e.seq = f.seq => e = f
          /\ e.stream = f.stream /\ e.version = f.version => e = f
          /\ e.stream = f.stream /\ e.version < f.version => e.seq < f.seq

\* stream_versions and events agree: no version is missing and none is ahead.
RowsMatchLog ==
    /\ \A e \in log : e.version <= rows[e.stream]
    /\ \A s \in Streams : \A v \in 1 .. rows[s] : \E e \in log : e.stream = s /\ e.version = v

LinksMatchLog == links = {<<e.key, e.seq>> : e \in {f \in log : f.key # NoKey}}

StoreInv ==
    /\ TypeOK
    /\ \A t \in Txs : TxConsistent(t)
    /\ LocksExclude
    /\ KeysExclude
    /\ SeqsFollowVersions
    /\ RowsMatchLog
    /\ LinksMatchLog
    /\ \A e \in seen : e.seq <= cursor

\* Every event written so far passed its version check, and would pass it now.
WritesChecked(t) ==
    \A i \in 1 .. Len(tx[t].writes) :
        /\ tx[t].writes[i].version = rows[tx[t].batch[i]] + Earlier(tx[t].batch, i) + 1
        /\ tx[t].expect[i] \in {NoVersionCheck, tx[t].writes[i].version - 1}

\* Append's caller sees nothing of it before it returns.
CallInv(t) ==
    /\ tx[t].pc = "idle" => tx[t] = Idle
    /\ tx[t].pc # "done" => tx[t].answer = "none" /\ tx[t].events = {}
    /\ tx[t].pc = "done" => tx[t].answer # "none"

\* What the contract needs on top of StoreInv.
CallsInv == \A t \in Txs : WritesChecked(t) /\ CallInv(t)
=============================================================================
