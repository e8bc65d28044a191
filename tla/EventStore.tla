----------------------------- MODULE EventStore -----------------------------
(***************************************************************************)
(* The append-only event log: the eventstore.Store contract as the         *)
(* in-memory store implements it (internal/eventstore/memory/store.go).    *)
(* Every method runs under one mutex, so each is one atomic step here.     *)
(* Payloads are the two fields type and amt, which the store never reads.  *)
(***************************************************************************)
EXTENDS Integers, Sequences, FiniteSets

CONSTANTS Streams,   \* (AggregateType, AggregateID) pairs
          Keys,      \* non-empty dedupe keys
          NoKey      \* the empty dedupe key ""

ASSUME NoKeyAssumption == NoKey \notin Keys

NoVersionCheck == -1
StreamDoesNotExist == 0

VARIABLES events,      \* the log, in append order
          versions,    \* current version of each stream (a missing map entry reads 0)
          globalSeq,   \* last global sequence number handed out
          dedupe       \* dedupe key -> whether it was processed, and the events it produced

storeVars == <<events, versions, globalSeq, dedupe>>

NotFound == [found |-> FALSE, events |-> <<>>]

StoreInit ==
    /\ events = <<>>
    /\ versions = [s \in Streams |-> 0]
    /\ globalSeq = 0
    /\ dedupe = [k \in Keys |-> NotFound]

-----------------------------------------------------------------------------
(* Append. A batch is a sequence of [stream, type, amt, expect] records.   *)

\* How many of the first n events of the batch go to stream s.
Touches(batch, n, s) == Cardinality({j \in 1 .. n : batch[j].stream = s})

\* The version of the i-th event's stream once the earlier ones are counted:
\* the validation loop's "pending" map.
PendingVersion(batch, i) == versions[batch[i].stream] + Touches(batch, i - 1, batch[i].stream)

\* Mutant: only versions from the future are refused.
ValidatesMutStale(batch) == \A i \in 1 .. Len(batch) : batch[i].expect <= PendingVersion(batch, i)

\* The optimistic concurrency check of the whole batch, before any write.
Validates(batch) ==
    \A i \in 1 .. Len(batch) :
        batch[i].expect = NoVersionCheck \/ batch[i].expect = PendingVersion(batch, i)

\* The events the write loop produces.
Produced(key, batch) ==
    [i \in 1 .. Len(batch) |->
        [seq     |-> globalSeq + i,
         stream  |-> batch[i].stream,
         version |-> PendingVersion(batch, i) + 1,
         type    |-> batch[i].type,
         amt     |-> batch[i].amt,
         key     |-> key]]

LookupDedupe(key) == IF key = NoKey THEN NotFound ELSE dedupe[key]

\* Mutant: the key is looked up before the decision only, not again by Append.
AppendIsDuplicateMutNever(key) == FALSE

\* Append answers a processed key with the events of the first time ...
AppendIsDuplicate(key) == key # NoKey /\ dedupe[key].found

\* ... otherwise refuses the batch if one expectation fails ...
AppendConflicts(key, batch) == ~ AppendIsDuplicate(key) /\ ~ Validates(batch)

\* Mutant: the events are written, the dedupe entry is not.
AppendWritesMutForgetsKey(key, batch) ==
    /\ ~ AppendIsDuplicate(key)
    /\ Validates(batch)
    /\ events' = events \o Produced(key, batch)
    /\ versions' = [s \in Streams |-> versions[s] + Touches(batch, Len(batch), s)]
    /\ globalSeq' = globalSeq + Len(batch)
    /\ UNCHANGED dedupe

\* ... and otherwise writes all of it, the dedupe entry included.
AppendWrites(key, batch) ==
    /\ ~ AppendIsDuplicate(key)
    /\ Validates(batch)
    /\ events' = events \o Produced(key, batch)
    /\ versions' = [s \in Streams |-> versions[s] + Touches(batch, Len(batch), s)]
    /\ globalSeq' = globalSeq + Len(batch)
    /\ dedupe' = IF key = NoKey THEN dedupe
                 ELSE [dedupe EXCEPT ![key] = [found |-> TRUE, events |-> Produced(key, batch)]]
=============================================================================
