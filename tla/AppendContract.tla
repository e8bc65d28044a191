--------------------------- MODULE AppendContract ---------------------------
(***************************************************************************)
(* The promise of eventstore.Store.Append (internal/eventstore/            *)
(* eventstore.go) without the transactions behind it. Each call takes      *)
(* effect in one step between its start and its answer:                    *)
(*                                                                         *)
(*  - it writes its whole batch, every event at the next version of its    *)
(*    stream, provided that every ExpectedVersion matches, and is answered *)
(*    with the events;                                                     *)
(*  - if its dedupe key has been processed, it writes nothing and is       *)
(*    answered duplicate=true with the events written the first time;      *)
(*  - if an ExpectedVersion does not match, it writes nothing and is       *)
(*    answered ErrVersionConflict.                                         *)
(*                                                                         *)
(* The doc comment says nothing of other errors. Such an answer may come   *)
(* at any time and leaves open whether the batch was written. Sequence     *)
(* numbers and payloads are left out.                                      *)
(***************************************************************************)
EXTENDS Integers, Sequences, FiniteSets

CONSTANTS Streams, Keys, NoKey,
          Batches,    \* what callers append: sequences of streams, one per event
          Callers

VARIABLES versions,   \* the version of each stream
          log,        \* the events written
          done,       \* dedupe keys processed
          calls       \* each caller's call of Append: its arguments, then its answer

store == <<versions, log, done>>

NoVersionCheck == -1

\* A caller that has an answer and no call under way.
Answered(answer, events) ==
    [key |-> NoKey, batch |-> <<>>, expect |-> <<>>, answer |-> answer, events |-> events]

NoCall == Answered("none", {})

Request ==
    [key : Keys \cup {NoKey}, batch : Batches, expect : Seq(Int), answer : {"none"}, events : {{}}]

Pending(c) == calls[c].batch # <<>>

\* The version event i of the batch finds: its stream's, and the batch's own earlier events.
Current(c, i) ==
    LET batch == calls[c].batch
    IN  versions[batch[i]] + Cardinality({j \in 1 .. i - 1 : batch[j] = batch[i]})

VersionsMatch(c) ==
    \A i \in 1 .. Len(calls[c].batch) : calls[c].expect[i] \in {NoVersionCheck, Current(c, i)}

Produced(c) ==
    {[stream |-> calls[c].batch[i], version |-> Current(c, i) + 1, key |-> calls[c].key] :
        i \in 1 .. Len(calls[c].batch)}

Answer(c, answer, events) == calls' = [calls EXCEPT ![c] = Answered(answer, events)]

-----------------------------------------------------------------------------
Init ==
    /\ versions = [s \in Streams |-> 0]
    /\ log = {}
    /\ done = {}
    /\ calls = [c \in Callers |-> NoCall]

Call(c) ==
    /\ calls[c] = NoCall
    /\ calls'[c] \in Request
    /\ Len(calls'[c].expect) = Len(calls'[c].batch)
    /\ calls' = [calls EXCEPT ![c] = calls'[c]]
    /\ UNCHANGED store

Writes(c) ==
    /\ Pending(c)
    /\ calls[c].key \notin done
    /\ VersionsMatch(c)
    /\ versions' = [s \in Streams |->
           versions[s] + Cardinality({i \in 1 .. Len(calls[c].batch) : calls[c].batch[i] = s})]
    /\ log' = log \cup Produced(c)
    /\ done' = done \cup ({calls[c].key} \ {NoKey})
    /\ Answer(c, "ok", Produced(c)) \/ Answer(c, "error", {})

Duplicate(c) ==
    /\ Pending(c)
    /\ calls[c].key \in done
    /\ Answer(c, "duplicate", {e \in log : e.key = calls[c].key})
    /\ UNCHANGED store

Conflict(c) ==
    /\ Pending(c)
    /\ calls[c].key \notin done
    /\ ~ VersionsMatch(c)
    /\ Answer(c, "versionConflict", {})
    /\ UNCHANGED store

Fails(c) ==
    /\ Pending(c)
    /\ Answer(c, "error", {})
    /\ UNCHANGED store

Return(c) ==
    /\ calls[c].answer # "none"
    /\ calls' = [calls EXCEPT ![c] = NoCall]
    /\ UNCHANGED store

Next ==
    \E c \in Callers :
        Call(c) \/ Writes(c) \/ Duplicate(c) \/ Conflict(c) \/ Fails(c) \/ Return(c)

Spec == Init /\ [][Next]_<<store, calls>>
=============================================================================
