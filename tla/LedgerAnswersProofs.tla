------------------------ MODULE LedgerAnswersProofs ------------------------
(***************************************************************************)
(* What LedgerService tells its clients and its publisher, for every set   *)
(* of handlers, accounts, items, keys and commands, every width of integer *)
(* and every retry budget: answers are honest, retries are lock-free, and  *)
(* every event is published once.                                          *)
(***************************************************************************)
EXTENDS LedgerServiceProofs

-----------------------------------------------------------------------------
(* The log only grows, and answers stay true of a longer log.              *)

LogExtended ==
    /\ Len(events) \in Nat /\ Len(events') \in Nat /\ Len(events) <= Len(events')
    /\ \A n \in 1 .. Len(events) : events'[n] = events[n]
    /\ \A s : \A n \in 0 .. Len(events) : Fold(s, events')[n] = Fold(s, events)[n]

LEMMA SameLogExtended == ASSUME TypeOK, UNCHANGED storeVars PROVE LogExtended
  BY DEF TypeOK, storeVars, LogExtended

\* What the batch P is to the command it was written for.
WrittenBatch(c, P) ==
    /\ Len(P) \in {1, 2}
    /\ FirstEventOf(c, P[1])
    /\ \A i \in 2 .. Len(P) : P[i].stream # c.stream
    /\ \A i \in 1 .. Len(P) : P[i].seq = globalSeq + i

LEMMA ProducedIsWritten ==
  ASSUME TypeInv, NEW h \in Handlers, call[h].pc = "append"
  PROVE  WrittenBatch(call[h].cmd, Produced(call[h].cmd.key, BatchOf(h)))
<1>1. PICK c \in Commands : c = call[h].cmd
  BY ActiveCall DEF TypeInv, Call
<1>2. call[h] \in Call /\ TypeOK /\ (c.op = "Transfer" => c.stream # c.to)
  BY <1>1, ActiveCall DEF TypeInv, CallShapes, Shape
<1>3. globalSeq \in Nat
  BY <1>2 DEF TypeOK
<1>4. CASE c.op # "Transfer"
  <2>1. PICK e : /\ e = Stored(c.stream, EventTypeOf(c.op), c.amt, c.key, 1)
                 /\ Produced(c.key, BatchOf(h)) = <<e>>
    BY <1>1, <1>2, <1>4, ProducedSingle
  <2>2. FirstEventOf(c, e) /\ e.seq = globalSeq + 1
    BY <2>1 DEF Stored, FirstEventOf
  <2>3. Len(<<e>>) = 1 /\ <<e>>[1] = e
    OBVIOUS
  <2> QED
    BY <1>1, <1>3, <2>1, <2>2, <2>3 DEF WrittenBatch
<1>5. CASE c.op = "Transfer"
  <2>1. PICK d, e :
          /\ d = Stored(c.stream, "FundsWithdrawn", c.amt, c.key, 1)
          /\ e = Stored(c.to, "FundsDeposited", c.amt, c.key, 2)
          /\ Produced(c.key, BatchOf(h)) = <<d, e>>
    BY <1>1, <1>2, <1>5, ProducedTransfer
  <2>2. /\ FirstEventOf(c, d) /\ d.seq = globalSeq + 1
        /\ e.stream # c.stream /\ e.seq = globalSeq + 2
    BY <1>2, <1>5, <2>1 DEF Stored, FirstEventOf, EventTypeOf
  <2>3. Len(<<d, e>>) = 2 /\ <<d, e>>[1] = d /\ <<d, e>>[2] = e
    OBVIOUS
  <2> QED
    BY <1>1, <1>3, <2>1, <2>2, <2>3 DEF WrittenBatch
<1> QED
  BY <1>4, <1>5

\* What a committed append does to the log.
LEMMA WriteExtendsLog ==
  ASSUME TypeInv, NEW h \in Handlers, call[h].pc = "append",
         AppendWrites(call[h].cmd.key, BatchOf(h))
  PROVE  \E P \in Seq(Event) :
            /\ P = Produced(call[h].cmd.key, BatchOf(h))
            /\ WrittenBatch(call[h].cmd, P)
            /\ globalSeq' = globalSeq + Len(P)
            /\ Len(events') = Len(events) + Len(P)
            /\ \A i \in 1 .. Len(P) : events'[Len(events) + i] = P[i]
            /\ LogExtended
<1>1. call[h] \in Call /\ TypeOK /\ (call[h].cmd.op = "Transfer" => call[h].cmd.stream # call[h].cmd.to)
  BY ActiveCall DEF TypeInv, CallShapes, Shape
<1>2. PICK P \in Seq(Event) : P = Produced(call[h].cmd.key, BatchOf(h)) /\ Len(P) = Len(BatchOf(h))
  BY <1>1, ProducedType
<1>3. events' = events \o P /\ globalSeq' = globalSeq + Len(P)
  BY <1>2 DEF AppendWrites
<1>4. events \in Seq(Event) /\ Len(events) \in Nat /\ Len(P) \in Nat
  BY <1>1 DEF TypeOK
<1>5a. events \o P \in Seq(Event)
  BY <1>4
<1>5. PICK longer \in Seq(Event) : longer = events \o P
  BY <1>5a, Zenon
<1>6. /\ Len(longer) = Len(events) + Len(P)
      /\ \A n \in 1 .. Len(events) : longer[n] = events[n]
      /\ \A i \in 1 .. Len(P) : longer[Len(events) + i] = P[i]
  BY <1>4, <1>5
<1>7. \A s : \A n \in 0 .. Len(events) : Fold(s, longer)[n] = Fold(s, events)[n]
  BY <1>4, <1>6, FoldPrefix
<1>8. LogExtended
  BY <1>3, <1>4, <1>5, <1>6, <1>7 DEF LogExtended
<1>9. WrittenBatch(call[h].cmd, P)
  BY <1>2, ProducedIsWritten
<1> QED
  BY <1>2, <1>3, <1>5, <1>6, <1>8, <1>9

LEMMA InLogGrows ==
  ASSUME LogExtended, NEW c, NEW v, NEW since \in Nat, InLog(c, v, since)
  PROVE  InLog(c, v, since)'
<1>1. PICK n \in (since + 1) .. Len(events) : FirstEventOf(c, events[n]) /\ events[n].version = v
  BY DEF InLog
<1>2. n \in (since + 1) .. Len(events') /\ events'[n] = events[n]
  BY DEF LogExtended
<1> QED
  BY <1>1, <1>2 DEF InLog

LEMMA WasRefusedGrows ==
  ASSUME LogExtended, NEW c, NEW err, NEW since \in Nat, WasRefused(c, err, since)
  PROVE  WasRefused(c, err, since)'
<1>1. PICK n \in since .. Len(events) :
         \/ Decide(EventTypeOf(c.op), Fold(c.stream, events)[n], c.amt) = err
         \/ c.op = "Transfer" /\ DecideDeposit(Fold(c.to, events)[n], c.amt) = err
  BY DEF WasRefused
<1>2. n \in since .. Len(events') /\ n \in 0 .. Len(events)
  BY DEF LogExtended
<1>3. \A s : Fold(s, events')[n] = Fold(s, events)[n]
  BY <1>2 DEF LogExtended
<1> QED
  BY <1>1, <1>2, <1>3 DEF WasRefused

LEMMA ToldGrows ==
  ASSUME LogExtended, NEW r, r.since \in Nat, Told(r)
  PROVE  Told(r)'
<1>1. PICK since \in Nat : since = r.since
  OBVIOUS
<1>2. PICK c, v, err : c = r.cmd /\ v = r.result.newVersion /\ err = r.result.err
  OBVIOUS
<1>3. /\ r.result.applied => InLog(c, v, since)
      /\ r.result.duplicate /\ KeyIsOwn(c) => InLog(c, v, 0)
      /\ err \in BusinessErrors => WasRefused(c, err, since)
  BY <1>1, <1>2 DEF Told
<1>4. /\ r.result.applied => InLog(c, v, since)'
      /\ r.result.duplicate /\ KeyIsOwn(c) => InLog(c, v, 0)'
      /\ err \in BusinessErrors => WasRefused(c, err, since)'
  BY <1>3, InLogGrows, WasRefusedGrows
<1> QED
  BY <1>1, <1>2, <1>4 DEF Told, KeyIsOwn

LEMMA AnswerGrows ==
  ASSUME LogExtended, NEW r, r.since \in Nat, AnswerInv(r)
  PROVE  AnswerInv(r)'
<1>1. r.since <= Len(events')
  BY DEF AnswerInv, LogExtended
<1>2. r.pc \in {"loadTo", "append"} =>
         \E n \in r.since .. Len(events') : r.from = Fold(r.cmd.stream, events')[n]
  <2> SUFFICES ASSUME r.pc \in {"loadTo", "append"}
               PROVE  \E n \in r.since .. Len(events') : r.from = Fold(r.cmd.stream, events')[n]
    OBVIOUS
  <2>1. PICK n \in r.since .. Len(events) : r.from = Fold(r.cmd.stream, events)[n]
    BY DEF AnswerInv
  <2>2. n \in r.since .. Len(events') /\ n \in 0 .. Len(events)
    BY DEF LogExtended
  <2>3. Fold(r.cmd.stream, events')[n] = Fold(r.cmd.stream, events)[n]
    BY <2>2 DEF LogExtended
  <2> QED
    BY <2>1, <2>2, <2>3
<1>3. r.pc = "publish" => InLog(r.cmd, r.appended[1].version, r.since)'
  BY InLogGrows DEF AnswerInv
<1>4. r.pc = "done" => Told(r)'
  BY ToldGrows DEF AnswerInv
<1> QED
  BY <1>1, <1>2, <1>3, <1>4 DEF AnswerInv
LEMMA WrittenForGrows ==
  ASSUME LogExtended, NEW c, NEW evs, WrittenFor(c, evs)
  PROVE  WrittenFor(c, evs)'
<1>1. InLog(c, evs[1].version, 0)'
  BY InLogGrows DEF WrittenFor
<1> QED
  BY <1>1 DEF WrittenFor

-----------------------------------------------------------------------------
(* Every step leaves the answers honest.                                   *)

\* A duplicate is answered with the version of the command's own, first event.
LEMMA DuplicateIsFirst ==
  ASSUME NEW c, NEW evs \in Seq(Event), WrittenFor(c, evs)
  PROVE  duplicateResult(evs, c.stream) =
            [applied |-> FALSE, duplicate |-> TRUE, err |-> "nil", newVersion |-> evs[1].version]
<1> DEFINE hits == {i \in 1 .. Len(evs) : evs[i].stream = c.stream}
<1>1. Len(evs) \in Nat /\ Len(evs) # 0
  BY DEF WrittenFor
<1>2. evs[1].stream = c.stream /\ \A i \in 2 .. Len(evs) : evs[i].stream # c.stream
  BY DEF WrittenFor
<1>3. hits = {1}
  BY <1>1, <1>2
<1>4. (CHOOSE i \in {1} : \A j \in {1} : j <= i) = 1
  OBVIOUS
<1> QED
  BY <1>3, <1>4 DEF duplicateResult

LEMMA DuplicateTold ==
  ASSUME TypeInv, AnswersInv, NEW c \in Commands, c.key \in Keys, dedupe[c.key].found,
         NEW r, r.cmd = c, r.result = duplicateResult(dedupe[c.key].events, c.stream)
  PROVE  Told(r)
<1>1. PICK evs \in Seq(Event) : evs = dedupe[c.key].events
  BY DEF TypeInv, TypeOK
<1>2. PICK d \in Commands : d.key = c.key /\ WrittenFor(d, evs)
  BY <1>1 DEF AnswersInv
<1>3. KeyIsOwn(c) => WrittenFor(c, evs)
  BY <1>2 DEF KeyIsOwn
<1>4. KeyIsOwn(c) => r.result.newVersion = evs[1].version
  <2> SUFFICES ASSUME KeyIsOwn(c) PROVE r.result.newVersion = evs[1].version
    OBVIOUS
  <2>1. duplicateResult(evs, c.stream) =
           [applied |-> FALSE, duplicate |-> TRUE, err |-> "nil", newVersion |-> evs[1].version]
    BY <1>3, DuplicateIsFirst
  <2> QED
    BY <1>1, <2>1
<1>5. KeyIsOwn(c) => InLog(c, r.result.newVersion, 0)
  BY <1>3, <1>4 DEF WrittenFor
<1>6. r.result.applied = FALSE /\ r.result.err = "nil"
  <2>1. PICK v : r.result = [applied |-> FALSE, duplicate |-> TRUE, err |-> "nil", newVersion |-> v]
    BY Zenon DEF duplicateResult
  <2> QED
    BY <2>1
<1> QED
  BY <1>5, <1>6 DEF Told, BusinessErrors

LEMMA HandlersAnswer ==
  ASSUME TypeInv, AnswersInv, LogExtended, NEW h \in Handlers, NEW r, Becomes(h, r),
         r.pc = "idle" \/ AnswerInv(r)'
  PROVE  \A g \in Handlers : call'[g].pc # "idle" => AnswerInv(call[g])'
<1> SUFFICES ASSUME NEW g \in Handlers, call'[g].pc # "idle" PROVE AnswerInv(call[g])'
  OBVIOUS
<1>1. call'[g] = IF g = h THEN r ELSE call[g]
  BY DEF Becomes, TypeInv, TypeOK
<1>2. PICK q : q = call'[g]
  OBVIOUS
<1>3. AnswerInv(q)'
  <2>1. CASE g = h
    BY <1>1, <1>2, <2>1
  <2>2. CASE g # h
    <3>1. q = call[g] /\ q.pc # "idle"
      BY <1>1, <1>2, <2>2
    <3>2. q \in Call
      BY <3>1, ActiveCall DEF TypeInv
    <3>3. q.since \in Nat /\ AnswerInv(q)
      BY <3>1, <3>2 DEF AnswersInv, Call
    <3> QED
      BY <3>3, AnswerGrows
  <2> QED
    BY <2>1, <2>2
<1> QED
  BY <1>2, <1>3

\* What an action that leaves the store alone has to establish.
LEMMA LocalStepAnswers ==
  ASSUME TypeInv, AnswersInv, UNCHANGED storeVars, NEW h \in Handlers, NEW r, Becomes(h, r),
         r.pc = "idle" \/ (r.since \in Nat /\ AnswerInv(r))
  PROVE  AnswersInv'
<1>1. LogExtended
  BY SameLogExtended DEF TypeInv
<1>2. r.pc = "idle" \/ AnswerInv(r)'
  BY <1>1, AnswerGrows
<1>3. \A g \in Handlers : call'[g].pc # "idle" => AnswerInv(call[g])'
  BY <1>1, <1>2, HandlersAnswer
<1>4. ASSUME NEW k \in Keys, dedupe'[k].found
      PROVE  \E c \in Commands : c.key = k /\ WrittenFor(c, dedupe[k].events)'
  <2>1. PICK evs : evs = dedupe[k].events
    OBVIOUS
  <2>2. dedupe' = dedupe
    BY DEF storeVars
  <2>3. PICK c \in Commands : c.key = k /\ WrittenFor(c, evs)
    BY <1>4, <2>1, <2>2 DEF AnswersInv
  <2>4. WrittenFor(c, evs)'
    BY <1>1, <2>3, WrittenForGrows
  <2>5. evs = dedupe'[k].events
    BY <2>1, <2>2
  <2> QED
    BY <2>3, <2>4, <2>5
<1> QED
  BY <1>3, <1>4 DEF AnswersInv

LEMMA AnswerHonest ==
  ASSUME TypeInv, AnswersInv, UNCHANGED storeVars, NEW h \in Handlers, call[h].pc # "idle",
         NEW res, Answers(h, res), Told([call[h] EXCEPT !.pc = "done", !.result = res])
  PROVE  AnswersInv'
<1>1. PICK r : r = [call[h] EXCEPT !.pc = "done", !.result = res]
  OBVIOUS
<1>2. Becomes(h, r) /\ Told(r)
  BY <1>1 DEF Answers
<1>3. call[h] \in Call /\ AnswerInv(call[h])
  BY ActiveCall DEF TypeInv, AnswersInv
<1>4. r.pc = "done" /\ r.since = call[h].since /\ r.since \in Nat
  BY <1>1, <1>3 DEF Call
<1>5. AnswerInv(r)
  BY <1>2, <1>3, <1>4 DEF AnswerInv
<1> QED
  BY <1>2, <1>4, <1>5, LocalStepAnswers

\* A step that commits an append, whether or not the service learns of it.
LEMMA WriteAnswers ==
  ASSUME TypeInv, AnswersInv, NEW h \in Handlers, call[h].pc = "append",
         AppendWrites(call[h].cmd.key, BatchOf(h)), NEW r, Becomes(h, r),
         r.cmd = call[h].cmd, r.since = call[h].since,
         \/ /\ r.pc = "publish" /\ r.result = NoResult
            /\ r.appended = Produced(call[h].cmd.key, BatchOf(h))
         \/ r.pc = "done" /\ r.result = Failed("Internal")
  PROVE  AnswersInv'
<1>1. PICK c \in Commands : c = call[h].cmd
  BY ActiveCall DEF TypeInv, Call
<1>2. call[h] \in Call /\ AnswerInv(call[h])
  BY ActiveCall DEF TypeInv, AnswersInv
<1>3. r.since \in Nat /\ r.since <= Len(events)
  BY <1>2 DEF Call, AnswerInv
<1>4. PICK P \in Seq(Event) :
         /\ P = Produced(c.key, BatchOf(h))
         /\ WrittenBatch(c, P)
         /\ Len(events') = Len(events) + Len(P)
         /\ \A i \in 1 .. Len(P) : events'[Len(events) + i] = P[i]
         /\ LogExtended
  BY <1>1, WriteExtendsLog
<1>5. /\ Len(P) \in Nat /\ 1 \in 1 .. Len(P) /\ Len(events) \in Nat
      /\ FirstEventOf(c, P[1])
      /\ \A i \in 2 .. Len(P) : P[i].stream # c.stream
  BY <1>4 DEF WrittenBatch, LogExtended
<1>6. ASSUME NEW since \in Nat, since <= Len(events)
      PROVE  InLog(c, P[1].version, since)'
  <2>1. Len(events) + 1 \in (since + 1) .. Len(events') /\ events'[Len(events) + 1] = P[1]
    BY <1>4, <1>5, <1>6
  <2> QED
    BY <1>5, <2>1 DEF InLog
<1>7. AnswerInv(r)'
  <2>1. r.since <= Len(events')
    BY <1>3, <1>4, <1>5
  <2>2. CASE r.pc = "publish"
    <3>1. r.appended = P /\ r.cmd = c /\ r.result = NoResult
      BY <1>1, <1>4, <2>2
    <3>2. InLog(r.cmd, r.appended[1].version, r.since)'
      BY <1>3, <1>6, <3>1
    <3> QED
      BY <2>1, <2>2, <3>1, <3>2 DEF AnswerInv
  <2>3. CASE r.pc = "done"
    <3>1. r.result.applied = FALSE /\ r.result.duplicate = FALSE /\ r.result.err = "Internal"
      BY <2>3 DEF Failed, NoResult
    <3>2. Told(r)'
      BY <3>1 DEF Told, BusinessErrors
    <3> QED
      BY <2>1, <2>3, <3>2 DEF AnswerInv
  <2> QED
    BY <2>2, <2>3
<1>8. \A g \in Handlers : call'[g].pc # "idle" => AnswerInv(call[g])'
  BY <1>4, <1>7, HandlersAnswer
<1>9. WrittenFor(c, P)'
  <2>1. InLog(c, P[1].version, 0)'
    BY <1>5, <1>6
  <2>2. P # <<>> /\ P[1].stream = c.stream
    BY <1>5 DEF FirstEventOf
  <2> QED
    BY <1>5, <2>1, <2>2 DEF WrittenFor
<1>10. ASSUME NEW k \in Keys, dedupe'[k].found
       PROVE  \E d \in Commands : d.key = k /\ WrittenFor(d, dedupe[k].events)'
  <2>1. dedupe' = IF c.key = NoKey THEN dedupe
                  ELSE [dedupe EXCEPT ![c.key] = [found |-> TRUE, events |-> P]]
    BY <1>1, <1>4 DEF AppendWrites
  <2>2. PICK evs : evs = dedupe'[k].events
    OBVIOUS
  <2>3. CASE k = c.key
    <3>1. k # NoKey
      BY NoKeyAssumption
    <3>2. evs = P
      BY <2>1, <2>2, <2>3, <3>1 DEF TypeInv, TypeOK
    <3> QED
      BY <1>9, <2>2, <2>3, <3>2
  <2>4. CASE k # c.key
    <3>1. dedupe'[k] = dedupe[k]
      BY <2>1, <2>4 DEF TypeInv, TypeOK
    <3>2. PICK d \in Commands : d.key = k /\ WrittenFor(d, evs)
      BY <1>10, <2>2, <3>1 DEF AnswersInv
    <3>3. WrittenFor(d, evs)'
      BY <1>4, <3>2, WrittenForGrows
    <3> QED
      BY <2>2, <3>2, <3>3
  <2> QED
    BY <2>3, <2>4
<1> QED
  BY <1>8, <1>10 DEF AnswersInv
LEMMA FailedTold ==
  ASSUME NEW r, NEW err, r.result = Failed(err),
         err \in BusinessErrors => WasRefused(r.cmd, err, r.since)
  PROVE  Told(r)
<1>1. r.result.applied = FALSE /\ r.result.duplicate = FALSE /\ r.result.err = err
  BY DEF Failed, NoResult
<1> QED
  BY <1>1 DEF Told

\* An error that the rules do not know needs no justification.
LEMMA ErrorHonest ==
  ASSUME TypeInv, AnswersInv, UNCHANGED storeVars, NEW h \in Handlers, call[h].pc # "idle",
         NEW err, err \notin BusinessErrors, Answers(h, Failed(err))
  PROVE  AnswersInv'
<1>1. call[h] \in Call
  BY ActiveCall DEF TypeInv
<1>2. PICK r : r = [call[h] EXCEPT !.pc = "done", !.result = Failed(err)]
  OBVIOUS
<1>3. r.result = Failed(err)
  BY <1>1, <1>2 DEF Call
<1>4. Told(r)
  BY <1>3, FailedTold
<1> QED
  BY <1>2, <1>4, AnswerHonest

\* A decision is taken on states the streams had while the call was in progress.
LEMMA DecideHonest ==
  ASSUME TypeInv, AnswersInv, UNCHANGED storeVars, NEW h \in Handlers, call[h].pc \in {"load", "loadTo"},
         NEW from, NEW to, DecideOn(h, from, to),
         \E n \in call[h].since .. Len(events) : from = Fold(call[h].cmd.stream, events)[n],
         call[h].cmd.op = "Transfer" => to = Load(call[h].cmd.to)
  PROVE  AnswersInv'
<1>1. call[h] \in Call /\ AnswerInv(call[h])
  BY ActiveCall DEF TypeInv, AnswersInv
<1>2. PICK c \in Commands : c = call[h].cmd
  BY <1>1 DEF Call
<1>3. PICK since \in Nat : since = call[h].since
  BY <1>1 DEF Call
<1>4. since <= Len(events) /\ Len(events) \in Nat
  BY <1>1, <1>3 DEF AnswerInv, TypeInv, TypeOK
<1>5. PICK err : err = DecideCommand(c, from, to)
  OBVIOUS
<1>6. CASE err # "nil"
  <2>1. PICK r : r = [call[h] EXCEPT !.pc = "done", !.result = Failed(err)]
    OBVIOUS
  <2>2. r.result = Failed(err) /\ r.cmd = c /\ r.since = since
    BY <1>1, <1>2, <1>3, <2>1 DEF Call
  <2>3. WasRefused(c, err, since)
    <3>1. CASE err = Decide(EventTypeOf(c.op), from, c.amt)
      BY <1>2, <1>3, <3>1 DEF WasRefused
    <3>2. CASE c.op = "Transfer" /\ err = DecideDeposit(to, c.amt)
      <4>1. to = Fold(c.to, events)[Len(events)] /\ Len(events) \in since .. Len(events)
        BY <1>2, <1>4, <3>2 DEF Load
      <4> QED
        BY <3>2, <4>1 DEF WasRefused
    <3> QED
      BY <1>5, <3>1, <3>2 DEF DecideCommand
  <2>4. Told(r)
    BY <2>2, <2>3, FailedTold
  <2>5. Answers(h, Failed(err))
    BY <1>2, <1>5, <1>6 DEF DecideOn
  <2> QED
    BY <2>1, <2>4, <2>5, AnswerHonest
<1>7. CASE err = "nil"
  <2>1. PICK r : r = [call[h] EXCEPT !.pc = "append", !.from = from, !.to = to]
    OBVIOUS
  <2>2. Becomes(h, r)
    BY <1>2, <1>5, <1>7, <2>1 DEF DecideOn
  <2>3. /\ r.pc = "append" /\ r.from = from /\ r.cmd = c /\ r.since = since
        /\ r.result = call[h].result
    BY <1>1, <1>2, <1>3, <2>1 DEF Call
  <2>4. r.result = NoResult
    BY <1>1, <2>3 DEF AnswerInv
  <2>5. AnswerInv(r)
    BY <1>2, <1>3, <1>4, <2>3, <2>4 DEF AnswerInv
  <2> QED
    BY <2>2, <2>3, <2>5, LocalStepAnswers
<1> QED
  BY <1>6, <1>7

LEMMA AnswersInvInit == Init => AnswersInv
  BY DEF Init, StoreInit, AnswersInv, Idle, NotFound

LEMMA AnswersInvStep == TypeInv /\ AnswersInv /\ [Next]_vars => AnswersInv'
<1> SUFFICES ASSUME TypeInv, AnswersInv, [Next]_vars PROVE AnswersInv'
  OBVIOUS
<1>0. Len(events) \in Nat
  BY DEF TypeInv, TypeOK
<1>1. ASSUME NEW h \in Handlers, NEW c \in Commands, NEW pin \in Pins(c), Receive(h, c, pin)
      PROVE  AnswersInv'
  <2> DEFINE refused == c.op = "Transfer" /\ c.stream = c.to
  <2>1. PICK r : r = [pc       |-> IF refused THEN "done" ELSE IF c.key = NoKey THEN "load" ELSE "lookup",
                      cmd      |-> c,
                      pin      |-> pin,
                      attempt  |-> 0,
                      from     |-> EmptyState(c.stream),
                      to       |-> EmptyState(c.to),
                      appended |-> <<>>,
                      result   |-> IF refused THEN Failed("ErrSameAccountTransfer") ELSE NoResult,
                      since    |-> Len(events)]
    OBVIOUS
  <2>2. Becomes(h, r) /\ UNCHANGED storeVars
    BY <1>1, <2>1 DEF Receive
  <2>3. /\ r.since = Len(events)
        /\ \/ r.pc = "done" /\ r.result = Failed("ErrSameAccountTransfer")
           \/ r.pc \in {"load", "lookup"} /\ r.result = NoResult
    BY <2>1
  <2>4. r.pc = "done" => Told(r)
    BY <2>3, FailedTold DEF BusinessErrors
  <2>5. AnswerInv(r)
    BY <1>0, <2>3, <2>4 DEF AnswerInv
  <2> QED
    BY <1>0, <2>2, <2>3, <2>5, LocalStepAnswers
<1>2. ASSUME NEW h \in Handlers, Lookup(h)
      PROVE  AnswersInv'
  <2>1. call[h] \in Call /\ call[h].pc = "lookup" /\ AnswerInv(call[h])
    BY <1>2, ActiveCall DEF Lookup, TypeInv, AnswersInv
  <2>2. PICK c \in Commands : c = call[h].cmd
    BY <2>1 DEF Call
  <2>3. CASE LookupDedupe(c.key).found
    <3>1. c.key \in Keys /\ dedupe[c.key].found /\ LookupDedupe(c.key).events = dedupe[c.key].events
      BY <2>3, CommandParts DEF LookupDedupe, NotFound
    <3>2. PICK res : res = duplicateResult(dedupe[c.key].events, c.stream)
      OBVIOUS
    <3>3. Answers(h, res) /\ UNCHANGED storeVars
      BY <1>2, <2>2, <2>3, <3>1, <3>2 DEF Lookup
    <3>4. PICK r : r = [call[h] EXCEPT !.pc = "done", !.result = res]
      OBVIOUS
    <3>5. r.cmd = c /\ r.result = res
      BY <2>1, <2>2, <3>4 DEF Call
    <3>6. Told(r)
      BY <3>1, <3>2, <3>5, DuplicateTold
    <3> QED
      BY <2>1, <3>3, <3>4, <3>6, AnswerHonest
  <2>4. CASE ~ LookupDedupe(c.key).found
    <3>1. PICK r : r = [call[h] EXCEPT !.pc = "load"]
      OBVIOUS
    <3>2. Becomes(h, r) /\ UNCHANGED storeVars
      BY <1>2, <2>2, <2>4, <3>1 DEF Lookup
    <3>3. r.pc = "load" /\ r.since = call[h].since /\ r.since \in Nat /\ r.result = call[h].result
      BY <2>1, <3>1 DEF Call
    <3>4. AnswerInv(r)
      BY <2>1, <3>3 DEF AnswerInv
    <3> QED
      BY <3>2, <3>3, <3>4, LocalStepAnswers
  <2> QED
    BY <2>3, <2>4
<1>3. ASSUME NEW h \in Handlers, LoadOne(h)
      PROVE  AnswersInv'
  <2>1. call[h] \in Call /\ call[h].pc = "load" /\ AnswerInv(call[h]) /\ call[h].cmd.op # "Transfer"
    BY <1>3, ActiveCall DEF LoadOne, TypeInv, AnswersInv
  <2>2. Len(events) \in call[h].since .. Len(events)
    BY <1>0, <2>1 DEF AnswerInv, Call
  <2>3. Load(call[h].cmd.stream) = Fold(call[h].cmd.stream, events)[Len(events)]
    BY DEF Load
  <2>4. DecideOn(h, Load(call[h].cmd.stream), call[h].to) /\ UNCHANGED storeVars
    BY <1>3 DEF LoadOne
  <2> QED
    BY <2>1, <2>2, <2>3, <2>4, DecideHonest
<1>4. ASSUME NEW h \in Handlers, LoadFrom(h)
      PROVE  AnswersInv'
  <2>1. call[h] \in Call /\ call[h].pc = "load" /\ AnswerInv(call[h])
    BY <1>4, ActiveCall DEF LoadFrom, TypeInv, AnswersInv
  <2>2. PICK r : r = [call[h] EXCEPT !.pc = "loadTo", !.from = Load(call[h].cmd.stream)]
    OBVIOUS
  <2>3. Becomes(h, r) /\ UNCHANGED storeVars
    BY <1>4, <2>2 DEF LoadFrom
  <2>4. /\ r.pc = "loadTo" /\ r.since = call[h].since /\ r.since \in Nat /\ r.result = call[h].result
        /\ r.cmd = call[h].cmd /\ r.from = Fold(r.cmd.stream, events)[Len(events)]
    BY <2>1, <2>2 DEF Call, Load
  <2>5. Len(events) \in r.since .. Len(events)
    BY <1>0, <2>1, <2>4 DEF AnswerInv
  <2>6. AnswerInv(r)
    BY <2>1, <2>4, <2>5 DEF AnswerInv
  <2> QED
    BY <2>3, <2>4, <2>6, LocalStepAnswers
<1>5. ASSUME NEW h \in Handlers, LoadTo(h)
      PROVE  AnswersInv'
  <2>1. call[h].pc = "loadTo" /\ AnswerInv(call[h])
    BY <1>5 DEF LoadTo, AnswersInv
  <2>2. \E n \in call[h].since .. Len(events) : call[h].from = Fold(call[h].cmd.stream, events)[n]
    BY <2>1 DEF AnswerInv
  <2>3. DecideOn(h, call[h].from, Load(call[h].cmd.to)) /\ UNCHANGED storeVars
    BY <1>5 DEF LoadTo
  <2> QED
    BY <2>1, <2>2, <2>3, DecideHonest
<1>6. ASSUME NEW h \in Handlers, AppendDuplicate(h)
      PROVE  AnswersInv'
  <2>1. call[h] \in Call /\ call[h].pc = "append"
    BY <1>6, ActiveCall DEF AppendDuplicate, TypeInv
  <2>2. PICK c \in Commands : c = call[h].cmd
    BY <2>1 DEF Call
  <2>3. c.key \in Keys /\ dedupe[c.key].found
    BY <1>6, <2>2, CommandParts DEF AppendDuplicate, AppendIsDuplicate
  <2>4. PICK res : res = duplicateResult(dedupe[c.key].events, c.stream)
    OBVIOUS
  <2>5. Answers(h, res) /\ UNCHANGED storeVars
    BY <1>6, <2>2, <2>4 DEF AppendDuplicate
  <2>6. PICK r : r = [call[h] EXCEPT !.pc = "done", !.result = res]
    OBVIOUS
  <2>7. r.cmd = c /\ r.result = res
    BY <2>1, <2>2, <2>6 DEF Call
  <2>8. Told(r)
    BY <2>3, <2>4, <2>7, DuplicateTold
  <2> QED
    BY <2>1, <2>5, <2>6, <2>8, AnswerHonest
<1>7. ASSUME NEW h \in Handlers, AppendConflict(h)
      PROVE  AnswersInv'
  <2>1. call[h] \in Call /\ call[h].pc = "append" /\ AnswerInv(call[h]) /\ UNCHANGED storeVars
    BY <1>7, ActiveCall DEF AppendConflict, TypeInv, AnswersInv
  <2>2. PICK r : r = [call[h] EXCEPT !.pc = "load", !.attempt = @ + 1]
    OBVIOUS
  <2>3. CASE Becomes(h, r)
    <3>1. r.pc = "load" /\ r.since = call[h].since /\ r.since \in Nat /\ r.result = call[h].result
      BY <2>1, <2>2 DEF Call
    <3>2. AnswerInv(r)
      BY <2>1, <3>1 DEF AnswerInv
    <3> QED
      BY <2>1, <2>3, <3>1, <3>2, LocalStepAnswers
  <2>4. CASE Answers(h, Failed("ErrVersionConflict"))
    BY <2>1, <2>4, ErrorHonest DEF BusinessErrors
  <2> QED
    BY <1>7, <2>2, <2>3, <2>4 DEF AppendConflict
<1>8. ASSUME NEW h \in Handlers, AppendCommit(h)
      PROVE  AnswersInv'
  <2>1. call[h] \in Call /\ call[h].pc = "append" /\ AnswerInv(call[h])
    BY <1>8, ActiveCall DEF AppendCommit, TypeInv, AnswersInv
  <2>2. PICK r : r = [call[h] EXCEPT !.pc = "publish",
                                     !.appended = Produced(call[h].cmd.key, BatchOf(h))]
    OBVIOUS
  <2>3. Becomes(h, r) /\ AppendWrites(call[h].cmd.key, BatchOf(h))
    BY <1>8, <2>2 DEF AppendCommit
  <2>4. /\ r.pc = "publish" /\ r.cmd = call[h].cmd /\ r.since = call[h].since
        /\ r.result = call[h].result /\ r.appended = Produced(call[h].cmd.key, BatchOf(h))
    BY <2>1, <2>2 DEF Call
  <2>5. r.result = NoResult
    BY <2>1, <2>4 DEF AnswerInv
  <2> QED
    BY <2>1, <2>3, <2>4, <2>5, WriteAnswers
<1>9. ASSUME NEW h \in Handlers, Publish(h)
      PROVE  AnswersInv'
  <2>1. call[h] \in Call /\ call[h].pc = "publish" /\ AnswerInv(call[h])
    BY <1>9, ActiveCall DEF Publish, TypeInv, AnswersInv
  <2>2. PICK res : res = [NoResult EXCEPT !.applied = TRUE, !.newVersion = call[h].appended[1].version]
    OBVIOUS
  <2>3. Answers(h, res) /\ UNCHANGED storeVars
    BY <1>9, <2>2 DEF Publish
  <2>4. PICK r : r = [call[h] EXCEPT !.pc = "done", !.result = res]
    OBVIOUS
  <2>5. r.cmd = call[h].cmd /\ r.since = call[h].since /\ r.result = res
    BY <2>1, <2>4 DEF Call
  <2>6. /\ res.newVersion = call[h].appended[1].version
        /\ res.duplicate = FALSE /\ res.err = "nil"
    BY <2>2 DEF NoResult
  <2>7. InLog(r.cmd, res.newVersion, r.since)
    BY <2>1, <2>5, <2>6 DEF AnswerInv
  <2>8. Told(r)
    BY <2>5, <2>6, <2>7 DEF Told, BusinessErrors
  <2> QED
    BY <2>1, <2>3, <2>4, <2>8, AnswerHonest
<1>10. ASSUME NEW h \in Handlers, Respond(h)
       PROVE  AnswersInv'
  <2>1. PICK r : r = Idle
    OBVIOUS
  <2>2. Becomes(h, r) /\ UNCHANGED storeVars /\ r.pc = "idle"
    BY <1>10, <2>1 DEF Respond, Idle
  <2> QED
    BY <2>2, LocalStepAnswers
<1>11. ASSUME NEW h \in Handlers, StoreFails(h)
       PROVE  AnswersInv'
  BY <1>11, ErrorHonest DEF StoreFails, BusinessErrors
<1>12. ASSUME NEW h \in Handlers, AppendAckLost(h)
       PROVE  AnswersInv'
  <2>1. call[h] \in Call /\ call[h].pc = "append"
    BY <1>12, ActiveCall DEF AppendAckLost, TypeInv
  <2>2. PICK r : r = [call[h] EXCEPT !.pc = "done", !.result = Failed("Internal")]
    OBVIOUS
  <2>3. Becomes(h, r) /\ AppendWrites(call[h].cmd.key, BatchOf(h))
    BY <1>12, <2>2 DEF AppendAckLost, Answers
  <2>4. r.pc = "done" /\ r.cmd = call[h].cmd /\ r.since = call[h].since /\ r.result = Failed("Internal")
    BY <2>1, <2>2 DEF Call
  <2> QED
    BY <2>1, <2>3, <2>4, WriteAnswers
<1>13. CASE Crash
  <2>1. \A g \in Handlers : call'[g].pc = "idle"
    BY <1>13 DEF Crash, Idle
  <2>2. UNCHANGED storeVars
    BY <1>13 DEF Crash
  <2> QED
    BY <2>1, <2>2 DEF AnswersInv, WrittenFor, InLog, storeVars
<1>14. CASE UNCHANGED vars
  BY <1>14 DEF vars, storeVars, AnswersInv, WrittenFor, InLog, AnswerInv, Told, WasRefused, KeyIsOwn
<1> QED
  BY <1>1, <1>2, <1>3, <1>4, <1>5, <1>6, <1>7, <1>8, <1>9, <1>10, <1>11, <1>12, <1>13, <1>14
  DEF Next, HandlerStep

-----------------------------------------------------------------------------
(* What clients are told. None of this depends on what clients pin.        *)

\* A client that is told "applied" finds its event in the log, written since it called.
THEOREM AppliedAnswers == Spec => []AppliedIsInLog
<1>1. AnswersInv => AppliedIsInLog
  BY DEF AnswersInv, AnswerInv, Told, AppliedIsInLog, Done
<1> QED
  BY <1>1, TypeInvInit, AnswersInvInit, TypeInvStep, AnswersInvStep, PTL DEF Spec

\* A client that is told "duplicate" gets the version its first, effective call produced.
THEOREM DuplicateAnswers == Spec => []DuplicateIsOriginal
<1>1. AnswersInv => DuplicateIsOriginal
  BY DEF AnswersInv, AnswerInv, Told, DuplicateIsOriginal, Done
<1> QED
  BY <1>1, TypeInvInit, AnswersInvInit, TypeInvStep, AnswersInvStep, PTL DEF Spec

\* A client that is refused was refused by the rules, on the streams as they stood at
\* some moment of its call.
THEOREM JustRejections == Spec => []RejectionIsJustified
<1>1. AnswersInv => RejectionIsJustified
  BY DEF AnswersInv, AnswerInv, Told, RejectionIsJustified, Done
<1> QED
  BY <1>1, TypeInvInit, AnswersInvInit, TypeInvStep, AnswersInvStep, PTL DEF Spec
-----------------------------------------------------------------------------
(* Optimistic concurrency is lock-free.                                    *)

\* A batch decided on the streams' present versions passes the store's check.
LEMMA CurrentValidates ==
  ASSUME TypeInv, SerialInv, AnswersInv, NEW h \in Handlers, call[h].pc = "append",
         call[h].pin = NoVersionCheck, ~ Overtaken(call[h])
  PROVE  Validates(BatchOf(h))
<1>1. call[h] \in Call /\ TypeOK /\ AnswerInv(call[h]) /\ HandlerConsistent(call[h])
  BY ActiveCall DEF TypeInv, AnswersInv, SerialInv
<1>2. PICK c \in Commands : c = call[h].cmd
  BY <1>1 DEF Call
<1>3. PICK from, to : from = call[h].from /\ to = call[h].to
  OBVIOUS
<1>4. /\ versions[c.stream] = from.version
      /\ c.op = "Transfer" => versions[c.to] = to.version /\ c.stream # c.to
  BY <1>1, <1>2, <1>3 DEF Overtaken, HandlerConsistent
<1>5. versions[c.stream] \in Nat /\ versions[c.to] \in Nat
  BY <1>1, CommandParts DEF TypeOK
<1>6. ExpectedVersion(c, call[h].pin, from) = versions[c.stream]
  <2>1. CASE c.op = "OpenAccount"
    <3>1. c.stream \in Accounts
      BY <2>1, CommandParts DEF AccountOps
    <3>2. PICK n \in call[h].since .. Len(events) : from = Fold(c.stream, events)[n]
      BY <1>1, <1>2, <1>3 DEF AnswerInv
    <3>3. n \in 0 .. Len(events) /\ Len(events) \in Nat
      BY <1>1 DEF Call, TypeOK
    <3>4. \A m \in 1 .. Len(events) : Decodable(events[m])
      BY <1>1, EventsDecodable DEF TypeOK
    <3>5. \A m \in 1 .. Len(events) : LegalAt(events, m)
      BY DEF SerialInv, LogIsSerial
    <3>6. from.opened \/ from.version = 0
      BY <3>1, <3>2, <3>3, <3>4, <3>5, SerialAccountsOpen
    <3>7. DecideOpenAccount(from, c.amt) = "nil"
      BY <1>1, <1>2, <1>3, <2>1 DEF HandlerConsistent, DecideCommand, Decide, EventTypeOf
    <3>8. ~ from.opened
      BY <3>7 DEF DecideOpenAccount
    <3> QED
      BY <1>4, <2>1, <3>6, <3>8 DEF ExpectedVersion, StreamDoesNotExist
  <2>2. CASE c.op # "OpenAccount"
    BY <1>4, <2>2 DEF ExpectedVersion
  <2> QED
    BY <2>1, <2>2
<1> DEFINE first == [stream |-> c.stream, type |-> EventTypeOf(c.op), amt |-> c.amt,
                     expect |-> versions[c.stream]]
           credit == [stream |-> c.to, type |-> "FundsDeposited", amt |-> c.amt, expect |-> to.version]
<1>7. CASE c.op # "Transfer"
  <2>1. PICK B : B = BatchOf(h)
    OBVIOUS
  <2>2. B = <<first>>
    BY <1>2, <1>3, <1>6, <1>7, <2>1 DEF BatchOf, Batch
  <2>3. Len(B) = 1 /\ B[1].stream = c.stream /\ B[1].expect = versions[c.stream]
    BY <2>2
  <2>4. PendingVersion(B, 1) = versions[c.stream]
    BY <1>5, <2>3, TouchesZero DEF PendingVersion
  <2> QED
    BY <2>1, <2>3, <2>4 DEF Validates
<1>8. CASE c.op = "Transfer"
  <2>1. PICK B : B = BatchOf(h)
    OBVIOUS
  <2>2. B = <<first, credit>>
    BY <1>2, <1>3, <1>6, <1>8, <2>1 DEF BatchOf, Batch
  <2>3. /\ Len(B) = 2 /\ B[1].stream = c.stream /\ B[1].expect = versions[c.stream]
        /\ B[2].stream = c.to /\ B[2].expect = versions[c.to]
    BY <1>4, <1>8, <2>2
  <2>4. PendingVersion(B, 1) = versions[c.stream]
    BY <1>5, <2>3, TouchesZero DEF PendingVersion
  <2>5. Touches(B, 1, c.to) = 0
    BY <1>4, <1>8, <2>3, TouchesOne
  <2>6. PendingVersion(B, 2) = versions[c.to]
    BY <1>5, <2>3, <2>5 DEF PendingVersion
  <2> QED
    BY <2>1, <2>3, <2>4, <2>6 DEF Validates
<1> QED
  BY <1>7, <1>8

\* What an action that leaves the store alone has to establish.
LEMMA LocalStepProgress ==
  ASSUME TypeInv, ProgressInv, UNCHANGED storeVars, NEW h \in Handlers, NEW r, Becomes(h, r),
         r.pc = "idle" \/ Progressing(r)
  PROVE  ProgressInv'
<1> SUFFICES ASSUME NEW g \in Handlers, call'[g].pc # "idle" PROVE Progressing(call[g])'
  BY DEF ProgressInv
<1>1. call'[g] = IF g = h THEN r ELSE call[g]
  BY DEF Becomes, TypeInv, TypeOK
<1>2. PICK q : q = call'[g]
  OBVIOUS
<1>3. Progressing(q)
  BY <1>1, <1>2 DEF ProgressInv
<1>4. Progressing(q)'
  BY <1>3 DEF storeVars, Progressing, Overtaken
<1> QED
  BY <1>2, <1>4

\* The handler goes on, or answers, without having lost this attempt.
LEMMA GoesOn ==
  ASSUME TypeInv, ProgressInv, UNCHANGED storeVars, NEW h \in Handlers, call[h].pc # "idle",
         NEW r, Becomes(h, r), r.pin = call[h].pin, r.attempt = call[h].attempt,
         r.since = call[h].since, Overtaken(r) => Overtaken(call[h])
  PROVE  ProgressInv'
<1>1. Progressing(r)
  BY DEF ProgressInv, Progressing
<1> QED
  BY <1>1, LocalStepProgress

LEMMA AnswersProgress ==
  ASSUME TypeInv, ProgressInv, UNCHANGED storeVars, NEW h \in Handlers, call[h].pc # "idle",
         NEW res, Answers(h, res), res.err # "ErrVersionConflict"
  PROVE  ProgressInv'
<1>1. call[h] \in Call
  BY ActiveCall DEF TypeInv
<1>2. PICK r : r = [call[h] EXCEPT !.pc = "done", !.result = res]
  OBVIOUS
<1>3. Becomes(h, r)
  BY <1>2 DEF Answers
<1>4. /\ r.pc = "done" /\ r.result = res /\ r.pin = call[h].pin /\ r.attempt = call[h].attempt
      /\ r.since = call[h].since
  BY <1>1, <1>2 DEF Call
<1>5. ~ Overtaken(r)
  BY <1>4 DEF Overtaken
<1> QED
  BY <1>3, <1>4, <1>5, GoesOn

\* A committed append makes up for one lost attempt of every other handler.
LEMMA WriteProgress ==
  ASSUME TypeInv, ProgressInv, NEW h \in Handlers, call[h].pc = "append",
         AppendWrites(call[h].cmd.key, BatchOf(h)), NEW r, Becomes(h, r),
         r.pin = call[h].pin, r.attempt = call[h].attempt, r.since = call[h].since
  PROVE  ProgressInv'
<1> SUFFICES ASSUME NEW g \in Handlers, call'[g].pc # "idle" PROVE Progressing(call[g])'
  BY DEF ProgressInv
<1>1. call'[g] = IF g = h THEN r ELSE call[g]
  BY DEF Becomes, TypeInv, TypeOK
<1>2. PICK q : q = call'[g]
  OBVIOUS
<1>3. /\ call[g].pc # "idle" /\ q.pin = call[g].pin /\ q.attempt = call[g].attempt
      /\ q.since = call[g].since
  BY <1>1, <1>2
<1>4. call[g] \in Call
  BY <1>3, ActiveCall DEF TypeInv
<1>5. q.attempt \in Nat /\ q.since \in Nat
  BY <1>3, <1>4 DEF Call
<1>6. q.pin = NoVersionCheck => q.attempt <= Len(events) - q.since
  BY <1>3 DEF ProgressInv, Progressing
<1>7. PICK k \in {1, 2} : Len(events') = Len(events) + k /\ Len(events) \in Nat
  BY WriteExtendsLog DEF WrittenBatch, LogExtended
<1>8. q.pin = NoVersionCheck => q.attempt < Len(events') - q.since
  BY <1>5, <1>6, <1>7
<1>9. Len(events') \in Nat
  BY <1>7
<1>10. Progressing(q)'
  BY <1>5, <1>8, <1>9 DEF Progressing
<1> QED
  BY <1>2, <1>10

LEMMA ProgressInvStep ==
  TypeInv /\ SerialInv /\ AnswersInv /\ ProgressInv /\ [Next]_vars => ProgressInv'
<1> SUFFICES ASSUME TypeInv, SerialInv, AnswersInv, ProgressInv, [Next]_vars PROVE ProgressInv'
  OBVIOUS
<1>0. Len(events) \in Nat
  BY DEF TypeInv, TypeOK
<1>1. ASSUME NEW h \in Handlers, NEW c \in Commands, NEW pin \in Pins(c), Receive(h, c, pin)
      PROVE  ProgressInv'
  <2> DEFINE refused == c.op = "Transfer" /\ c.stream = c.to
  <2>1. PICK r : r = [pc       |-> IF refused THEN "done" ELSE IF c.key = NoKey THEN "load" ELSE "lookup",
                      cmd      |-> c,
                      pin      |-> pin,
                      attempt  |-> 0,
                      from     |-> EmptyState(c.stream),
                      to       |-> EmptyState(c.to),
                      appended |-> <<>>,
                      result   |-> IF refused THEN Failed("ErrSameAccountTransfer") ELSE NoResult,
                      since    |-> Len(events)]
    OBVIOUS
  <2>2. Becomes(h, r) /\ UNCHANGED storeVars
    BY <1>1, <2>1 DEF Receive
  <2>3. /\ r.since = Len(events) /\ r.attempt = 0
        /\ r.pc \in {"done", "load", "lookup"} /\ r.result.err # "ErrVersionConflict"
    BY <2>1 DEF Failed, NoResult
  <2>4. Progressing(r)
    BY <1>0, <2>3 DEF Progressing, Overtaken
  <2> QED
    BY <2>2, <2>4, LocalStepProgress
<1>2. ASSUME NEW h \in Handlers, Lookup(h)
      PROVE  ProgressInv'
  <2>1. call[h] \in Call /\ call[h].pc = "lookup" /\ UNCHANGED storeVars
    BY <1>2, ActiveCall DEF Lookup, TypeInv
  <2>2. CASE \E evs : Answers(h, duplicateResult(evs, call[h].cmd.stream))
    <3>1. PICK evs : Answers(h, duplicateResult(evs, call[h].cmd.stream))
      BY <2>2
    <3>2. PICK v : duplicateResult(evs, call[h].cmd.stream)
                     = [applied |-> FALSE, duplicate |-> TRUE, err |-> "nil", newVersion |-> v]
      BY Zenon DEF duplicateResult
    <3> QED
      BY <2>1, <3>1, <3>2, AnswersProgress
  <2>3. CASE Becomes(h, [call[h] EXCEPT !.pc = "load"])
    <3>1. PICK r : r = [call[h] EXCEPT !.pc = "load"]
      OBVIOUS
    <3>2. /\ r.pc = "load" /\ r.pin = call[h].pin /\ r.attempt = call[h].attempt
          /\ r.since = call[h].since
      BY <2>1, <3>1 DEF Call
    <3> QED
      BY <2>1, <2>3, <3>1, <3>2, GoesOn DEF Overtaken
  <2> QED
    BY <1>2, <2>2, <2>3 DEF Lookup
<1>3. ASSUME NEW h \in Handlers, NEW from, NEW to, call[h].pc \in {"load", "loadTo"},
             DecideOn(h, from, to), UNCHANGED storeVars,
             from.version = versions[call[h].cmd.stream] \/ (call[h].pc = "loadTo" /\ from = call[h].from),
             call[h].cmd.op = "Transfer" => to.version = versions[call[h].cmd.to]
      PROVE  ProgressInv'
  <2>1. call[h] \in Call
    BY <1>3, ActiveCall DEF TypeInv
  <2>2. PICK err : err = DecideCommand(call[h].cmd, from, to)
    OBVIOUS
  <2>3. CASE err # "nil"
    <3>1. err \in {"nil"} \cup BusinessErrors
      BY <2>1, <2>2, DecideCommandType DEF Call
    <3>2. Failed(err).err # "ErrVersionConflict"
      BY <3>1 DEF Failed, NoResult, BusinessErrors
    <3> QED
      BY <1>3, <2>2, <2>3, <3>2, AnswersProgress DEF DecideOn
  <2>4. CASE err = "nil"
    <3>1. PICK r : r = [call[h] EXCEPT !.pc = "append", !.from = from, !.to = to]
      OBVIOUS
    <3>2. /\ r.pc = "append" /\ r.pin = call[h].pin /\ r.attempt = call[h].attempt
          /\ r.since = call[h].since /\ r.cmd = call[h].cmd /\ r.from = from /\ r.to = to
      BY <2>1, <3>1 DEF Call
    <3>3. Overtaken(r) => Overtaken(call[h])
      BY <1>3, <3>2 DEF Overtaken
    <3>4. Becomes(h, r)
      BY <1>3, <2>2, <2>4, <3>1 DEF DecideOn
    <3> QED
      BY <1>3, <3>2, <3>3, <3>4, GoesOn
  <2> QED
    BY <2>3, <2>4
<1>4. ASSUME NEW h \in Handlers, LoadOne(h)
      PROVE  ProgressInv'
  <2>1. call[h] \in Call /\ call[h].pc = "load"
    BY <1>4, ActiveCall DEF LoadOne, TypeInv
  <2>2. Load(call[h].cmd.stream).version = versions[call[h].cmd.stream]
    BY <2>1, CommandParts, LoadSnapshot DEF Call
  <2> QED
    BY <1>3, <1>4, <2>1, <2>2 DEF LoadOne
<1>5. ASSUME NEW h \in Handlers, LoadFrom(h)
      PROVE  ProgressInv'
  <2>1. call[h] \in Call /\ call[h].pc = "load"
    BY <1>5, ActiveCall DEF LoadFrom, TypeInv
  <2>2. Load(call[h].cmd.stream).version = versions[call[h].cmd.stream]
    BY <2>1, CommandParts, LoadSnapshot DEF Call
  <2>3. PICK r : r = [call[h] EXCEPT !.pc = "loadTo", !.from = Load(call[h].cmd.stream)]
    OBVIOUS
  <2>4. /\ r.pc = "loadTo" /\ r.pin = call[h].pin /\ r.attempt = call[h].attempt
        /\ r.since = call[h].since /\ r.cmd = call[h].cmd /\ r.from = Load(call[h].cmd.stream)
    BY <2>1, <2>3 DEF Call
  <2>5. ~ Overtaken(r)
    BY <2>2, <2>4 DEF Overtaken
  <2>6. Becomes(h, r) /\ UNCHANGED storeVars
    BY <1>5, <2>3 DEF LoadFrom
  <2> QED
    BY <2>1, <2>4, <2>5, <2>6, GoesOn
<1>6. ASSUME NEW h \in Handlers, LoadTo(h)
      PROVE  ProgressInv'
  <2>1. call[h] \in Call /\ call[h].pc = "loadTo"
    BY <1>6, ActiveCall DEF LoadTo, TypeInv
  <2>2. Load(call[h].cmd.to).version = versions[call[h].cmd.to]
    BY <2>1, CommandParts, LoadSnapshot DEF Call
  <2> QED
    BY <1>3, <1>6, <2>1, <2>2 DEF LoadTo
<1>7. ASSUME NEW h \in Handlers, AppendDuplicate(h)
      PROVE  ProgressInv'
  <2>1. PICK evs : evs = dedupe[call[h].cmd.key].events
    OBVIOUS
  <2>2. PICK v : duplicateResult(evs, call[h].cmd.stream)
                   = [applied |-> FALSE, duplicate |-> TRUE, err |-> "nil", newVersion |-> v]
    BY Zenon DEF duplicateResult
  <2>3. call[h].pc # "idle" /\ UNCHANGED storeVars /\ Answers(h, duplicateResult(evs, call[h].cmd.stream))
    BY <1>7, <2>1 DEF AppendDuplicate
  <2> QED
    BY <2>2, <2>3, AnswersProgress
<1>8. ASSUME NEW h \in Handlers, AppendConflict(h)
      PROVE  ProgressInv'
  <2>1. call[h] \in Call /\ call[h].pc = "append" /\ UNCHANGED storeVars
    BY <1>8, ActiveCall DEF AppendConflict, TypeInv
  <2>2. call[h].attempt \in Nat /\ call[h].since \in Nat
    BY <2>1 DEF Call
  <2>3. call[h].pin = NoVersionCheck => Overtaken(call[h])
    BY <1>8, CurrentValidates DEF AppendConflict, AppendConflicts
  <2>4. call[h].pin = NoVersionCheck => call[h].attempt < Len(events) - call[h].since
    BY <2>1, <2>3 DEF ProgressInv, Progressing
  <2>5. CASE Becomes(h, [call[h] EXCEPT !.pc = "load", !.attempt = @ + 1])
    <3>1. PICK r : r = [call[h] EXCEPT !.pc = "load", !.attempt = @ + 1]
      OBVIOUS
    <3>2. /\ r.pc = "load" /\ r.pin = call[h].pin /\ r.attempt = call[h].attempt + 1
          /\ r.since = call[h].since
      BY <2>1, <3>1 DEF Call
    <3>3. r.pin = NoVersionCheck => r.attempt <= Len(events) - r.since
      BY <1>0, <2>2, <2>4, <3>2
    <3>4. Progressing(r)
      BY <3>2, <3>3 DEF Progressing, Overtaken
    <3> QED
      BY <2>1, <2>5, <3>1, <3>4, LocalStepProgress
  <2>6. CASE Answers(h, Failed("ErrVersionConflict"))
    <3>1. PICK r : r = [call[h] EXCEPT !.pc = "done", !.result = Failed("ErrVersionConflict")]
      OBVIOUS
    <3>2. /\ r.pc = "done" /\ r.pin = call[h].pin /\ r.attempt = call[h].attempt
          /\ r.since = call[h].since
      BY <2>1, <3>1 DEF Call
    <3>3. r.pin = NoVersionCheck => r.attempt < Len(events) - r.since
      BY <2>4, <3>2
    <3>4. r.attempt \in Nat /\ r.since \in Nat
      BY <2>2, <3>2
    <3>5. Progressing(r)
      BY <1>0, <3>3, <3>4 DEF Progressing
    <3> QED
      BY <2>1, <2>6, <3>1, <3>5, LocalStepProgress DEF Answers
  <2> QED
    BY <1>8, <2>5, <2>6 DEF AppendConflict
<1>9. ASSUME NEW h \in Handlers, AppendCommit(h)
      PROVE  ProgressInv'
  <2>1. call[h] \in Call /\ call[h].pc = "append"
    BY <1>9, ActiveCall DEF AppendCommit, TypeInv
  <2>2. PICK r : r = [call[h] EXCEPT !.pc = "publish",
                                     !.appended = Produced(call[h].cmd.key, BatchOf(h))]
    OBVIOUS
  <2>3. Becomes(h, r) /\ AppendWrites(call[h].cmd.key, BatchOf(h))
    BY <1>9, <2>2 DEF AppendCommit
  <2>4. r.pin = call[h].pin /\ r.attempt = call[h].attempt /\ r.since = call[h].since
    BY <2>1, <2>2 DEF Call
  <2> QED
    BY <2>1, <2>3, <2>4, WriteProgress
<1>10. ASSUME NEW h \in Handlers, Publish(h)
       PROVE  ProgressInv'
  <2>1. PICK res : res = [NoResult EXCEPT !.applied = TRUE, !.newVersion = call[h].appended[1].version]
    OBVIOUS
  <2>2. res.err = "nil"
    BY <2>1 DEF NoResult
  <2>3. call[h].pc # "idle" /\ UNCHANGED storeVars /\ Answers(h, res)
    BY <1>10, <2>1 DEF Publish
  <2> QED
    BY <2>2, <2>3, AnswersProgress
<1>11. ASSUME NEW h \in Handlers, Respond(h)
       PROVE  ProgressInv'
  <2>1. PICK r : r = Idle
    OBVIOUS
  <2>2. Becomes(h, r) /\ UNCHANGED storeVars /\ r.pc = "idle"
    BY <1>11, <2>1 DEF Respond, Idle
  <2> QED
    BY <2>2, LocalStepProgress
<1>12. ASSUME NEW h \in Handlers, StoreFails(h)
       PROVE  ProgressInv'
  <2>1. Failed("Internal").err # "ErrVersionConflict"
    BY DEF Failed, NoResult
  <2> QED
    BY <1>12, <2>1, AnswersProgress DEF StoreFails
<1>13. ASSUME NEW h \in Handlers, AppendAckLost(h)
       PROVE  ProgressInv'
  <2>1. call[h] \in Call /\ call[h].pc = "append"
    BY <1>13, ActiveCall DEF AppendAckLost, TypeInv
  <2>2. PICK r : r = [call[h] EXCEPT !.pc = "done", !.result = Failed("Internal")]
    OBVIOUS
  <2>3. Becomes(h, r) /\ AppendWrites(call[h].cmd.key, BatchOf(h))
    BY <1>13, <2>2 DEF AppendAckLost, Answers
  <2>4. r.pin = call[h].pin /\ r.attempt = call[h].attempt /\ r.since = call[h].since
    BY <2>1, <2>2 DEF Call
  <2> QED
    BY <2>1, <2>3, <2>4, WriteProgress
<1>14. CASE Crash
  BY <1>14 DEF Crash, Idle, ProgressInv
<1>15. CASE UNCHANGED vars
  BY <1>15 DEF vars, storeVars, ProgressInv, Progressing, Overtaken
<1> QED
  BY <1>1, <1>2, <1>4, <1>5, <1>6, <1>7, <1>8, <1>9, <1>10, <1>11, <1>12, <1>13, <1>14, <1>15
  DEF Next, HandlerStep

\* A command that pins no version loses an attempt only to an append that succeeded:
\* the retry loop is lock-free, and a conflict answer has MaxAttempts others' appends
\* behind it.
THEOREM LockFree ==
  ASSUME PinAhead = 0
  PROVE  Spec => []ConflictMeansProgress
<1>1. Init => TypeInv /\ SerialInv /\ AnswersInv /\ ProgressInv
  BY TypeInvInit, SerialInvInit, AnswersInvInit DEF Init, ProgressInv, Idle
<1>2. TypeInv /\ SerialInv /\ AnswersInv /\ ProgressInv /\ [Next]_vars
        => TypeInv' /\ SerialInv' /\ AnswersInv' /\ ProgressInv'
  BY TypeInvStep, SerialInvStep, AnswersInvStep, ProgressInvStep
<1>3. TypeInv /\ AnswersInv /\ ProgressInv => ConflictMeansProgress
  <2> SUFFICES ASSUME TypeInv, AnswersInv, ProgressInv, NEW h \in Handlers,
                      call[h].pc # "idle", call[h].pin = NoVersionCheck
               PROVE  LostAttempts(h) <= Len(events) - call[h].since
    BY DEF ConflictMeansProgress
  <2>1. call[h] \in Call /\ AnswerInv(call[h]) /\ Progressing(call[h])
    BY ActiveCall DEF TypeInv, AnswersInv, ProgressInv
  <2>2. call[h].attempt \in Nat /\ call[h].since \in Nat /\ Len(events) \in Nat
    BY <2>1 DEF Call, TypeInv, TypeOK
  <2>3. call[h].result.err = "ErrVersionConflict" => call[h].pc = "done"
    BY <2>1 DEF AnswerInv, NoResult
  <2>4. call[h].result.err = "ErrVersionConflict" => Overtaken(call[h])
    BY <2>3 DEF Overtaken
  <2> QED
    BY <2>1, <2>2, <2>4 DEF Progressing, LostAttempts
<1> QED
  BY <1>1, <1>2, <1>3, PTL DEF Spec
-----------------------------------------------------------------------------
(* Every event is published once.                                          *)

LEMMA HeldGrows ==
  ASSUME LogExtended, NEW r, HeldInv(r)
  PROVE  HeldInv(r)'
<1> SUFFICES ASSUME r.pc = "publish"
             PROVE  /\ \A i \in 1 .. Len(r.appended) :
                          /\ r.appended[i].seq \in 1 .. Len(events')
                          /\ events'[r.appended[i].seq] = r.appended[i]
                    /\ \A i, j \in 1 .. Len(r.appended) : r.appended[i].seq = r.appended[j].seq => i = j
  BY DEF HeldInv
<1>1. ASSUME NEW i \in 1 .. Len(r.appended)
      PROVE  r.appended[i].seq \in 1 .. Len(events') /\ events'[r.appended[i].seq] = r.appended[i]
  <2>1. PICK n : n = r.appended[i].seq
    OBVIOUS
  <2>2. n \in 1 .. Len(events) /\ events[n] = r.appended[i]
    BY <2>1 DEF HeldInv
  <2>3. n \in 1 .. Len(events') /\ events'[n] = events[n]
    BY <2>2 DEF LogExtended
  <2> QED
    BY <2>1, <2>2, <2>3
<1> QED
  BY <1>1 DEF HeldInv

LEMMA HeldInLog ==
  ASSUME NEW r, HeldInv(r), NEW n \in Holds(r)
  PROVE  n \in 1 .. Len(events)
  BY DEF HeldInv, Holds

\* A step that neither writes nor publishes.
LEMMA QuietPublish ==
  ASSUME TypeInv, PublishInv, UNCHANGED storeVars, UNCHANGED published,
         NEW h \in Handlers, call[h].pc # "publish", NEW r, Becomes(h, r), r.pc # "publish"
  PROVE  PublishInv'
<1>1. \A g \in Handlers : call'[g] = IF g = h THEN r ELSE call[g]
  BY DEF Becomes, TypeInv, TypeOK
<1>2. \A g \in Handlers : Holds(call'[g]) = Holds(call[g])
  BY <1>1 DEF Holds
<1>3. \A g \in Handlers : HeldInv(call[g])'
  <2> TAKE g \in Handlers
  <2>1. PICK q : q = call'[g]
    OBVIOUS
  <2>2. HeldInv(q)
    BY <1>1, <2>1 DEF PublishInv, HeldInv
  <2>3. HeldInv(q)'
    BY <2>2, HeldGrows, SameLogExtended DEF TypeInv
  <2> QED
    BY <2>1, <2>3
<1>4. Sent' = Sent
  BY DEF Sent
<1> QED
  BY <1>2, <1>3, <1>4 DEF PublishInv, storeVars

LEMMA AnswersQuiet ==
  ASSUME TypeInv, PublishInv, UNCHANGED storeVars, UNCHANGED published, NEW h \in Handlers,
         call[h].pc \notin {"idle", "publish"}, NEW res, Answers(h, res)
  PROVE  PublishInv'
<1>1. call[h] \in Call
  BY ActiveCall DEF TypeInv
<1>2. PICK r : r = [call[h] EXCEPT !.pc = "done", !.result = res]
  OBVIOUS
<1>3. Becomes(h, r) /\ r.pc = "done"
  BY <1>1, <1>2 DEF Answers, Call
<1> QED
  BY <1>3, QuietPublish

\* A step that commits an append: the events are held, or lost to the publisher.
LEMMA WritePublish ==
  ASSUME TypeInv, PublishInv, NEW h \in Handlers, call[h].pc = "append",
         AppendWrites(call[h].cmd.key, BatchOf(h)), UNCHANGED published, NEW r, Becomes(h, r),
         \/ r.pc = "publish" /\ r.appended = Produced(call[h].cmd.key, BatchOf(h))
         \/ r.pc = "done" /\ Faults
  PROVE  PublishInv'
<1>1. PICK P \in Seq(Event) :
         /\ P = Produced(call[h].cmd.key, BatchOf(h))
         /\ WrittenBatch(call[h].cmd, P)
         /\ globalSeq' = globalSeq + Len(P)
         /\ Len(events') = Len(events) + Len(P)
         /\ \A i \in 1 .. Len(P) : events'[Len(events) + i] = P[i]
         /\ LogExtended
  BY WriteExtendsLog
<1>2. PICK n \in Nat : n = Len(events)
  BY <1>1 DEF LogExtended
<1>3. PICK k \in Nat : k = Len(P)
  OBVIOUS
<1>4. /\ globalSeq' = n + k /\ Len(events') = n + k
      /\ \A i \in 1 .. k : P[i].seq = n + i /\ events'[n + i] = P[i]
      /\ \A i \in 1 .. n : events'[i] = events[i]
  BY <1>1, <1>2, <1>3 DEF WrittenBatch, LogExtended, PublishInv
<1>5. \A g \in Handlers : call'[g] = IF g = h THEN r ELSE call[g]
  BY DEF Becomes, TypeInv, TypeOK
<1>6. Holds(call[h]) = {}
  BY DEF Holds
<1>7. \A m \in Holds(r) : m \in (n + 1) .. (n + k)
  BY <1>1, <1>3, <1>4 DEF Holds
<1>8. \A g \in Handlers : HeldInv(call[g]) /\ Holds(call[g]) \subseteq 1 .. n
  BY <1>2, HeldInLog DEF PublishInv
<1>9. Sent' = Sent /\ Sent \subseteq 1 .. n
  BY <1>2 DEF Sent, PublishInv
<1>10. HeldInv(r)'
  <2> SUFFICES ASSUME r.pc = "publish" PROVE HeldInv(r)'
    BY DEF HeldInv
  <2>1. r.appended = P
    BY <1>1
  <2>2. ASSUME NEW i \in 1 .. k
        PROVE  P[i].seq \in 1 .. Len(events') /\ events'[P[i].seq] = P[i]
    <3>1. n + i \in 1 .. Len(events')
      BY <1>4
    <3> QED
      BY <1>4, <3>1
  <2>3. \A i, j \in 1 .. k : P[i].seq = P[j].seq => i = j
    BY <1>4
  <2> QED
    BY <1>3, <2>1, <2>2, <2>3 DEF HeldInv
<1>11. \A g \in Handlers : HeldInv(call[g])'
  <2> TAKE g \in Handlers
  <2>1. PICK q : q = call'[g]
    OBVIOUS
  <2>2. HeldInv(q)'
    BY <1>1, <1>5, <1>8, <1>10, <2>1, HeldGrows
  <2> QED
    BY <2>1, <2>2
<1>12. \A g \in Handlers : Holds(call'[g]) = IF g = h THEN Holds(r) ELSE Holds(call[g])
  BY <1>5
<1>13. \A g \in Handlers : Holds(call'[g]) \cap Sent' = {}
  <2> TAKE g \in Handlers
  <2>1. CASE g = h
    BY <1>7, <1>9, <1>12, <2>1
  <2>2. CASE g # h
    BY <1>9, <1>12, <2>2 DEF PublishInv
  <2> QED
    BY <2>1, <2>2
<1>14. ASSUME NEW g1 \in Handlers, NEW g2 \in Handlers, g1 # g2
       PROVE  Holds(call'[g1]) \cap Holds(call'[g2]) = {}
  <2>0. ASSUME NEW g \in Handlers PROVE Holds(call[g]) \cap Holds(r) = {}
    BY <1>7, <1>8
  <2>1. CASE g1 = h
    BY <1>12, <1>14, <2>0, <2>1
  <2>2. CASE g2 = h
    BY <1>12, <1>14, <2>0, <2>2
  <2>3. CASE g1 # h /\ g2 # h
    BY <1>12, <1>14, <2>3 DEF PublishInv
  <2> QED
    BY <2>1, <2>2, <2>3
<1>15. ASSUME ~ Faults, NEW m \in 1 .. Len(events')
       PROVE  m \in Sent' \/ \E g \in Handlers : m \in Holds(call'[g])
  <2>1. CASE m \in 1 .. n
    <3>1. m \in Sent \/ \E g \in Handlers : m \in Holds(call[g])
      BY <1>2, <1>15, <2>1 DEF PublishInv
    <3> QED
      BY <1>6, <1>9, <1>12, <3>1
  <2>2. CASE m \notin 1 .. n
    <3>1. r.pc = "publish" /\ r.appended = P
      BY <1>1, <1>15
    <3>2. m - n \in 1 .. k /\ n + (m - n) = m
      BY <1>4, <2>2
    <3>3. P[m - n].seq = m
      BY <1>4, <3>2
    <3>4. m \in Holds(r)
      BY <1>3, <3>1, <3>2, <3>3 DEF Holds
    <3> QED
      BY <1>12, <3>4
  <2> QED
    BY <2>1, <2>2
<1>16. ASSUME NEW m \in 1 .. Len(events') PROVE events'[m].seq = m
  <2>1. CASE m \in 1 .. n
    BY <1>2, <1>4, <2>1 DEF PublishInv
  <2>2. CASE m \notin 1 .. n
    <3>1. m - n \in 1 .. k /\ n + (m - n) = m
      BY <1>4, <2>2
    <3> QED
      BY <1>4, <3>1
  <2> QED
    BY <2>1, <2>2
<1>17. Sent' \subseteq 1 .. Len(events')
  BY <1>4, <1>9
<1> QED
  BY <1>4, <1>11, <1>13, <1>14, <1>15, <1>16, <1>17 DEF PublishInv
\* Publishing moves what the handler held to what is sent.
LEMMA PublishSends ==
  ASSUME TypeInv, PublishInv, NEW h \in Handlers, Publish(h)
  PROVE  PublishInv'
<1>1. call[h] \in Call /\ call[h].pc = "publish"
  BY ActiveCall DEF Publish, TypeInv
<1>2. PICK A \in Seq(Event) : A = call[h].appended
  BY <1>1 DEF Call
<1>3. PICK r : Becomes(h, r) /\ r.pc = "done"
  <2>1. \E res : Answers(h, res)
    BY DEF Publish
  <2>2. PICK res : Answers(h, res)
    BY <2>1
  <2>3. PICK r : r = [call[h] EXCEPT !.pc = "done", !.result = res]
    OBVIOUS
  <2>4. Becomes(h, r) /\ r.pc = "done"
    BY <1>1, <2>2, <2>3 DEF Answers, Call
  <2> QED
    BY <2>4
<1>4. PICK old \in Seq(Nat) : old = published
  BY DEF TypeInv, TypeOK
<1>5. PICK n \in Nat, k \in Nat : n = Len(old) /\ k = Len(A)
  OBVIOUS
<1>6. \A i \in 1 .. k : A[i].seq \in Nat
  BY <1>5 DEF Event
<1>7. [i \in 1 .. k |-> A[i].seq] \in Seq(Nat)
  BY <1>6
<1>8. PICK new \in Seq(Nat) : new = [i \in 1 .. k |-> A[i].seq]
  BY <1>7, Zenon
<1>9. Len(new) = k /\ \A i \in 1 .. k : new[i] = A[i].seq
  BY <1>8
<1>10. published' = old \o new
  BY <1>2, <1>4, <1>5, <1>8 DEF Publish
<1>11. /\ Len(published') = n + k
       /\ \A i \in 1 .. n : published'[i] = old[i]
       /\ \A i \in 1 .. k : published'[n + i] = A[i].seq
  BY <1>5, <1>9, <1>10
<1>12. /\ \A i \in 1 .. k : A[i].seq \in 1 .. Len(events)
       /\ \A i, j \in 1 .. k : A[i].seq = A[j].seq => i = j
  BY <1>1, <1>2, <1>5 DEF PublishInv, HeldInv
<1>13. Sent = {old[i] : i \in 1 .. n} /\ Holds(call[h]) = {A[i].seq : i \in 1 .. k}
  BY <1>1, <1>2, <1>4, <1>5 DEF Sent, Holds
<1>14. \A i \in 1 .. n + k : \/ i \in 1 .. n /\ published'[i] = old[i]
                             \/ i - n \in 1 .. k /\ published'[i] = A[i - n].seq
  <2> TAKE i \in 1 .. n + k
  <2>1. CASE i \in 1 .. n
    BY <1>11, <2>1
  <2>2. CASE i \notin 1 .. n
    <3>1. i - n \in 1 .. k /\ n + (i - n) = i
      BY <2>2
    <3>2. published'[n + (i - n)] = A[i - n].seq
      BY <1>11, <3>1
    <3> QED
      BY <3>1, <3>2
  <2> QED
    BY <2>1, <2>2
<1>15. Sent' = Sent \cup Holds(call[h])
  <2>1. Sent' = {published'[i] : i \in 1 .. n + k}
    BY <1>11 DEF Sent
  <2>2. ASSUME NEW x \in Sent' PROVE x \in Sent \cup Holds(call[h])
    <3>1. PICK i \in 1 .. n + k : x = published'[i]
      BY <2>1
    <3> QED
      BY <1>13, <1>14, <3>1
  <2>3. ASSUME NEW x \in Sent PROVE x \in Sent'
    <3>1. PICK i \in 1 .. n : x = old[i]
      BY <1>13
    <3>2. i \in 1 .. n + k /\ published'[i] = x
      BY <1>11, <3>1
    <3> QED
      BY <2>1, <3>2
  <2>4. ASSUME NEW x \in Holds(call[h]) PROVE x \in Sent'
    <3>1. PICK i \in 1 .. k : x = A[i].seq
      BY <1>13
    <3>2. n + i \in 1 .. n + k /\ published'[n + i] = x
      BY <1>11, <3>1
    <3> QED
      BY <2>1, <3>2
  <2> QED
    BY <2>2, <2>3, <2>4
<1>16. \A i, j \in 1 .. Len(published') : published'[i] = published'[j] => i = j
  <2> SUFFICES ASSUME NEW i \in 1 .. n + k, NEW j \in 1 .. n + k, published'[i] = published'[j]
               PROVE  i = j
    BY <1>11
  <2>1. \A x, y \in 1 .. n : old[x] = old[y] => x = y
    BY <1>4, <1>5 DEF PublishInv
  <2>2. ASSUME NEW x \in 1 .. n, NEW y \in 1 .. k PROVE old[x] # A[y].seq
    <3>1. old[x] \in Sent /\ A[y].seq \in Holds(call[h])
      BY <1>13
    <3>2. Holds(call[h]) \cap Sent = {}
      BY DEF PublishInv
    <3> QED
      BY <3>1, <3>2
  <2>3. CASE i \in 1 .. n /\ j \in 1 .. n
    BY <1>11, <2>1, <2>3
  <2>4. CASE i \notin 1 .. n /\ j \notin 1 .. n
    <3>1. i - n \in 1 .. k /\ j - n \in 1 .. k /\ A[i - n].seq = A[j - n].seq
      BY <1>14, <2>4
    <3>2. i - n = j - n
      BY <1>12, <3>1
    <3> QED
      BY <3>2
  <2>5. CASE i \in 1 .. n /\ j \notin 1 .. n
    BY <1>11, <1>14, <2>2, <2>5
  <2>6. CASE i \notin 1 .. n /\ j \in 1 .. n
    BY <1>11, <1>14, <2>2, <2>6
  <2> QED
    BY <2>3, <2>4, <2>5, <2>6
<1>17. UNCHANGED storeVars
  BY DEF Publish
<1>18. \A g \in Handlers : call'[g] = IF g = h THEN r ELSE call[g]
  BY <1>3 DEF Becomes, TypeInv, TypeOK
<1>19. \A g \in Handlers : HeldInv(call[g])'
  <2> TAKE g \in Handlers
  <2>1. PICK q : q = call'[g]
    OBVIOUS
  <2>2. HeldInv(q)
    <3>1. CASE g = h
      BY <1>3, <1>18, <2>1, <3>1 DEF HeldInv
    <3>2. CASE g # h
      BY <1>18, <2>1, <3>2 DEF PublishInv
    <3> QED
      BY <3>1, <3>2
  <2>3. HeldInv(q)'
    BY <1>17, <2>2, HeldGrows, SameLogExtended DEF TypeInv
  <2> QED
    BY <2>1, <2>3
<1>20. \A g \in Handlers : Holds(call'[g]) = IF g = h THEN {} ELSE Holds(call[g])
  BY <1>3, <1>18 DEF Holds
<1>21. \A g \in Handlers : Holds(call'[g]) \cap Sent' = {}
  BY <1>15, <1>20 DEF PublishInv
<1>22. \A f, g \in Handlers : f # g => Holds(call'[f]) \cap Holds(call'[g]) = {}
  BY <1>20 DEF PublishInv
<1>23. Sent' \subseteq 1 .. Len(events)
  BY <1>12, <1>13, <1>15 DEF PublishInv
<1>24. ~ Faults => \A m \in 1 .. Len(events) : m \in Sent' \/ \E g \in Handlers : m \in Holds(call'[g])
  BY <1>15, <1>20 DEF PublishInv
<1>25. events' = events /\ globalSeq' = globalSeq
  BY <1>17 DEF storeVars
<1> QED
  BY <1>16, <1>19, <1>21, <1>22, <1>23, <1>24, <1>25 DEF PublishInv

LEMMA PublishInvInit == Init => PublishInv
<1> SUFFICES ASSUME Init PROVE PublishInv
  OBVIOUS
<1>1. events = <<>> /\ published = <<>> /\ globalSeq = 0 /\ \A h \in Handlers : call[h].pc = "idle"
  BY DEF Init, StoreInit, Idle
<1>2. Len(events) = 0 /\ 1 .. Len(events) = {} /\ 1 .. Len(published) = {}
  BY <1>1
<1>3. Sent = {} /\ \A h \in Handlers : Holds(call[h]) = {} /\ HeldInv(call[h])
  BY <1>1, <1>2 DEF Sent, Holds, HeldInv
<1> QED
  BY <1>1, <1>2, <1>3 DEF PublishInv

LEMMA PublishInvStep == TypeInv /\ PublishInv /\ [Next]_vars => PublishInv'
<1> SUFFICES ASSUME TypeInv, PublishInv, [Next]_vars PROVE PublishInv'
  OBVIOUS
<1>1. ASSUME NEW h \in Handlers, NEW c \in Commands, NEW pin \in Pins(c), Receive(h, c, pin)
      PROVE  PublishInv'
  <2>1. PICK r : Becomes(h, r) /\ r.pc \in {"done", "load", "lookup"}
    BY <1>1 DEF Receive
  <2>2. call[h].pc = "idle" /\ UNCHANGED storeVars /\ UNCHANGED published
    BY <1>1 DEF Receive
  <2> QED
    BY <2>1, <2>2, QuietPublish
<1>2. ASSUME NEW h \in Handlers, Lookup(h)
      PROVE  PublishInv'
  <2>1. call[h] \in Call /\ call[h].pc = "lookup" /\ UNCHANGED storeVars /\ UNCHANGED published
    BY <1>2, ActiveCall DEF Lookup, TypeInv
  <2>2. (\E res : Answers(h, res)) \/ Becomes(h, [call[h] EXCEPT !.pc = "load"])
    BY <1>2 DEF Lookup
  <2>3. [call[h] EXCEPT !.pc = "load"].pc = "load"
    BY <2>1 DEF Call
  <2> QED
    BY <2>1, <2>2, <2>3, AnswersQuiet, QuietPublish
<1>3. ASSUME NEW h \in Handlers, call[h].pc \in {"load", "loadTo"}, NEW from, NEW to,
             DecideOn(h, from, to), UNCHANGED storeVars, UNCHANGED published
      PROVE  PublishInv'
  <2>1. call[h] \in Call
    BY <1>3, ActiveCall DEF TypeInv
  <2>2. PICK r : r = [call[h] EXCEPT !.pc = "append", !.from = from, !.to = to]
    OBVIOUS
  <2>3. r.pc = "append"
    BY <2>1, <2>2 DEF Call
  <2>4. (\E res : Answers(h, res)) \/ Becomes(h, r)
    BY <1>3, <2>2 DEF DecideOn
  <2> QED
    BY <1>3, <2>3, <2>4, AnswersQuiet, QuietPublish
<1>4. ASSUME NEW h \in Handlers, LoadOne(h) \/ LoadTo(h)
      PROVE  PublishInv'
  BY <1>3, <1>4 DEF LoadOne, LoadTo
<1>5. ASSUME NEW h \in Handlers, LoadFrom(h)
      PROVE  PublishInv'
  <2>1. call[h] \in Call /\ call[h].pc = "load" /\ UNCHANGED storeVars /\ UNCHANGED published
    BY <1>5, ActiveCall DEF LoadFrom, TypeInv
  <2>2. PICK r : r = [call[h] EXCEPT !.pc = "loadTo", !.from = Load(call[h].cmd.stream)]
    OBVIOUS
  <2>3. Becomes(h, r) /\ r.pc = "loadTo"
    BY <1>5, <2>1, <2>2 DEF LoadFrom, Call
  <2> QED
    BY <2>1, <2>3, QuietPublish
<1>6. ASSUME NEW h \in Handlers, AppendDuplicate(h) \/ StoreFails(h)
      PROVE  PublishInv'
  <2>1. PICK res : Answers(h, res)
    BY <1>6 DEF AppendDuplicate, StoreFails
  <2> QED
    BY <1>6, <2>1, AnswersQuiet DEF AppendDuplicate, StoreFails
<1>7. ASSUME NEW h \in Handlers, AppendConflict(h)
      PROVE  PublishInv'
  <2>1. call[h] \in Call /\ call[h].pc = "append" /\ UNCHANGED storeVars /\ UNCHANGED published
    BY <1>7, ActiveCall DEF AppendConflict, TypeInv
  <2>2. PICK r : r = [call[h] EXCEPT !.pc = "load", !.attempt = @ + 1]
    OBVIOUS
  <2>3. r.pc = "load"
    BY <2>1, <2>2 DEF Call
  <2>4. (\E res : Answers(h, res)) \/ Becomes(h, r)
    BY <1>7, <2>2 DEF AppendConflict
  <2> QED
    BY <2>1, <2>3, <2>4, AnswersQuiet, QuietPublish
<1>8. ASSUME NEW h \in Handlers, AppendCommit(h)
      PROVE  PublishInv'
  <2>1. call[h] \in Call /\ call[h].pc = "append"
    BY <1>8, ActiveCall DEF AppendCommit, TypeInv
  <2>2. PICK r : r = [call[h] EXCEPT !.pc = "publish",
                                     !.appended = Produced(call[h].cmd.key, BatchOf(h))]
    OBVIOUS
  <2>3. Becomes(h, r) /\ AppendWrites(call[h].cmd.key, BatchOf(h)) /\ UNCHANGED published
    BY <1>8, <2>2 DEF AppendCommit
  <2>4. r.pc = "publish" /\ r.appended = Produced(call[h].cmd.key, BatchOf(h))
    BY <2>1, <2>2 DEF Call
  <2> QED
    BY <2>1, <2>3, <2>4, WritePublish
<1>9. ASSUME NEW h \in Handlers, Respond(h)
      PROVE  PublishInv'
  BY <1>9, QuietPublish DEF Respond, Idle
<1>10. ASSUME NEW h \in Handlers, AppendAckLost(h)
       PROVE  PublishInv'
  <2>1. call[h] \in Call /\ call[h].pc = "append" /\ Faults
    BY <1>10, ActiveCall DEF AppendAckLost, TypeInv
  <2>2. PICK r : r = [call[h] EXCEPT !.pc = "done", !.result = Failed("Internal")]
    OBVIOUS
  <2>3. Becomes(h, r) /\ AppendWrites(call[h].cmd.key, BatchOf(h)) /\ UNCHANGED published
    BY <1>10, <2>2 DEF AppendAckLost, Answers
  <2>4. r.pc = "done"
    BY <2>1, <2>2 DEF Call
  <2> QED
    BY <2>1, <2>3, <2>4, WritePublish
<1>11. CASE Crash
  <2>1. Faults /\ UNCHANGED storeVars /\ UNCHANGED published
    BY <1>11 DEF Crash
  <2>2. \A h \in Handlers : call'[h].pc = "idle"
    BY <1>11 DEF Crash, Idle
  <2>3. \A h \in Handlers : Holds(call'[h]) = {} /\ HeldInv(call[h])'
    BY <2>2 DEF Holds, HeldInv
  <2>4. Sent' = Sent
    BY <2>1 DEF Sent
  <2> QED
    BY <2>1, <2>3, <2>4 DEF PublishInv, storeVars
<1>12. CASE UNCHANGED vars
  <2>1. UNCHANGED storeVars /\ UNCHANGED call /\ UNCHANGED published
    BY <1>12 DEF vars
  <2>2. Sent' = Sent
    BY <2>1 DEF Sent
  <2>3. \A h \in Handlers : HeldInv(call[h])'
    BY <2>1 DEF PublishInv, HeldInv, storeVars
  <2> QED
    BY <2>1, <2>2, <2>3 DEF PublishInv, storeVars
<1> QED
  BY <1>1, <1>2, <1>4, <1>5, <1>6, <1>7, <1>8, <1>9, <1>10, <1>11, <1>12, PublishSends
  DEF Next, HandlerStep

\* No event is handed to the publisher twice or before it is in the log, and unless
\* something fails none is forgotten: it is published, or one handler is about to.
THEOREM PublishedOnce == Spec => []PublishedExactlyOnce
<1>1. PublishInv => PublishedExactlyOnce
  <2> SUFFICES ASSUME PublishInv PROVE PublishedExactlyOnce
    OBVIOUS
  <2>1. ASSUME NEW n \in 1 .. Len(events)
        PROVE  LET sent == \E i \in 1 .. Len(published) : published[i] = n
                   held == {h \in Handlers : call[h].pc = "publish"
                              /\ \E i \in 1 .. Len(call[h].appended) : call[h].appended[i] = events[n]}
               IN  Cardinality(held) + (IF sent THEN 1 ELSE 0) \in (IF Faults THEN {0, 1} ELSE {1})
    <3> DEFINE sent == \E i \in 1 .. Len(published) : published[i] = n
               held == {h \in Handlers : call[h].pc = "publish"
                          /\ \E i \in 1 .. Len(call[h].appended) : call[h].appended[i] = events[n]}
    <3>1. sent <=> n \in Sent
      BY DEF Sent
    <3>2. ASSUME NEW h \in Handlers PROVE h \in held <=> n \in Holds(call[h])
      <4>1. events[n].seq = n
        BY DEF PublishInv
      <4>2. \A i \in 1 .. Len(call[h].appended) :
               call[h].pc = "publish" => (call[h].appended[i] = events[n] <=> call[h].appended[i].seq = n)
        BY <4>1 DEF PublishInv, HeldInv
      <4> QED
        BY <4>2 DEF Holds
    <3>3. CASE held = {}
      <4>1. Cardinality(held) = 0
        BY <3>3, FS_EmptySet
      <4>2. ~ Faults => sent
        BY <3>1, <3>2, <3>3 DEF PublishInv
      <4> HIDE DEF held, sent
      <4>3. Cardinality(held) + (IF sent THEN 1 ELSE 0) \in (IF Faults THEN {0, 1} ELSE {1})
        BY <4>1, <4>2
      <4> QED
        BY <4>3 DEF held, sent
    <3>4. CASE held # {}
      <4>1. PICK h \in held : TRUE
        BY <3>4
      <4>2. n \in Holds(call[h]) /\ h \in Handlers
        BY <3>2
      <4>3. \A g \in held : g = h
        BY <3>2, <4>2 DEF PublishInv
      <4>4. held = {h}
        BY <4>1, <4>3
      <4>5. Cardinality(held) = 1
        BY <4>4, FS_Singleton
      <4>6. ~ sent
        BY <3>1, <4>2 DEF PublishInv
      <4> HIDE DEF held, sent
      <4>7. Cardinality(held) + (IF sent THEN 1 ELSE 0) \in (IF Faults THEN {0, 1} ELSE {1})
        BY <4>5, <4>6
      <4> QED
        BY <4>7 DEF held, sent
    <3> QED
      BY <3>3, <3>4
  <2>2. \A i \in 1 .. Len(published) : published[i] \in 1 .. Len(events)
    BY DEF PublishInv, Sent
  <2>3. \A i, j \in 1 .. Len(published) : published[i] = published[j] => i = j
    BY DEF PublishInv
  <2> QED
    BY <2>1, <2>2, <2>3 DEF PublishedExactlyOnce
<1> QED
  BY <1>1, TypeInvInit, PublishInvInit, TypeInvStep, PublishInvStep, PTL DEF Spec
=============================================================================
