------------------------ MODULE LedgerServiceProofs ------------------------
(***************************************************************************)
(* LedgerService for every set of handlers, accounts, items, keys and      *)
(* commands, every width of integer and every retry budget: its log is a   *)
(* serial, solvent history, it implements AtomicLedger, and a dedupe key   *)
(* has one effect.                                                         *)
(***************************************************************************)
EXTENDS LedgerService, LedgerRulesProofs, FiniteSetTheorems, SequenceTheorems

-----------------------------------------------------------------------------
(* Counting inside a batch.                                                *)

LEMMA TouchesType ==
  ASSUME NEW batch, NEW n \in Nat, NEW s
  PROVE  Touches(batch, n, s) \in Nat
<1>1. IsFiniteSet(1 .. n)
  BY FS_Interval
<1>2. {j \in 1 .. n : batch[j].stream = s} \subseteq 1 .. n
  OBVIOUS
<1>3. IsFiniteSet({j \in 1 .. n : batch[j].stream = s})
  BY <1>1, <1>2, FS_Subset
<1> QED
  BY <1>3, FS_CardinalityType DEF Touches

LEMMA TouchesZero == ASSUME NEW batch, NEW s PROVE Touches(batch, 0, s) = 0
<1>1. {j \in 1 .. 0 : batch[j].stream = s} = {}
  OBVIOUS
<1> QED
  BY <1>1, FS_EmptySet DEF Touches

LEMMA TouchesOne ==
  ASSUME NEW batch, NEW s
  PROVE  Touches(batch, 1, s) = IF batch[1].stream = s THEN 1 ELSE 0
<1>1. CASE batch[1].stream = s
  <2>1. {j \in 1 .. 1 : batch[j].stream = s} = {1}
    BY <1>1
  <2> QED
    BY <1>1, <2>1, FS_Singleton DEF Touches
<1>2. CASE batch[1].stream # s
  <2>1. {j \in 1 .. 1 : batch[j].stream = s} = {}
    BY <1>2
  <2> QED
    BY <1>2, <2>1, FS_EmptySet DEF Touches
<1> QED
  BY <1>1, <1>2

LEMMA TouchesTwo ==
  ASSUME NEW batch, NEW s, batch[1].stream # batch[2].stream
  PROVE  Touches(batch, 2, s) = IF batch[1].stream = s \/ batch[2].stream = s THEN 1 ELSE 0
<1>0. 1 .. 2 = {1, 2}
  OBVIOUS
<1>1. CASE batch[1].stream = s
  <2>1. {j \in 1 .. 2 : batch[j].stream = s} = {1}
    BY <1>0, <1>1
  <2> QED
    BY <1>1, <2>1, FS_Singleton DEF Touches
<1>2. CASE batch[2].stream = s
  <2>1. {j \in 1 .. 2 : batch[j].stream = s} = {2}
    BY <1>0, <1>2
  <2> QED
    BY <1>2, <2>1, FS_Singleton DEF Touches
<1>3. CASE batch[1].stream # s /\ batch[2].stream # s
  <2>1. {j \in 1 .. 2 : batch[j].stream = s} = {}
    BY <1>0, <1>3
  <2> QED
    BY <1>3, <2>1, FS_EmptySet DEF Touches
<1> QED
  BY <1>1, <1>2, <1>3

-----------------------------------------------------------------------------
(* Types of what the handlers compute.                                     *)

LEMMA EventsDecodable == ASSUME NEW e \in Event PROVE Decodable(e)
  BY KindsAssumption DEF Event, Decodable

LEMMA LoadType ==
  ASSUME events \in Seq(Event), NEW s
  PROVE  Load(s) \in StateType(s)
<1>1. Len(events) \in Nat /\ Len(events) \in 0 .. Len(events)
  OBVIOUS
<1>2. \A n \in 1 .. Len(events) : Decodable(events[n])
  BY EventsDecodable
<1> QED
  BY <1>1, <1>2, FoldType DEF Load

LEMMA CommandParts ==
  ASSUME NEW c \in Commands
  PROVE  /\ c.op \in AccountOps \cup ItemOps
         /\ c.stream \in Streams /\ c.to \in Streams
         /\ c.amt \in Int64
         /\ c.key \in Keys \cup {NoKey}
         /\ c.op \in AccountOps => c.stream \in Accounts /\ c.to \in Accounts
         /\ c.op \in ItemOps => c.stream \in Items /\ c.to \in Items
  BY CommandsAssumption, StreamsAssumption DEF Command, AccountOps, ItemOps

LEMMA DecideCommandType ==
  ASSUME NEW c \in Commands, NEW from, NEW to
  PROVE  DecideCommand(c, from, to) \in {"nil"} \cup BusinessErrors
<1>1. c.op \in AccountOps \cup ItemOps
  BY CommandParts
<1>2. Decide(EventTypeOf(c.op), from, c.amt) \in {"nil"} \cup BusinessErrors
  BY <1>1 DEF AccountOps, ItemOps, EventTypeOf, Decide, BusinessErrors, DecideOpenAccount,
     DecideDeposit, DecideWithdraw, DecideAdjustInventory, DecideReserveStock, DecideReleaseStock
<1>3. DecideDeposit(to, c.amt) \in {"nil"} \cup BusinessErrors
  BY DEF DecideDeposit, BusinessErrors
<1> QED
  BY <1>2, <1>3 DEF DecideCommand

LEMMA ResultTypes ==
  /\ NoResult \in Result
  /\ \A err \in {"nil", "ErrSameAccountTransfer", "ErrVersionConflict", "Internal"} \cup BusinessErrors :
        Failed(err) \in Result
  BY DEF NoResult, Failed, Result

LEMMA DuplicateResultType ==
  ASSUME NEW evs \in Seq(Event), NEW s
  PROVE  duplicateResult(evs, s) \in Result
<1> DEFINE hits == {j \in 1 .. Len(evs) : evs[j].stream = s}
           last == CHOOSE j \in hits : \A k \in hits : k <= j
<1>1. hits # {} => \E j \in hits : \A k \in hits : k <= j
  <2> SUFFICES ASSUME hits # {} PROVE \E j \in hits : \A k \in hits : k <= j
    OBVIOUS
  <2> DEFINE T == {d \in Nat : Len(evs) - d \in hits}
  <2>1. PICK j0 \in hits : TRUE
    OBVIOUS
  <2>2. Len(evs) \in Nat /\ \A j \in hits : j \in 1 .. Len(evs)
    OBVIOUS
  <2> HIDE DEF hits
  <2>3. Len(evs) - j0 \in T /\ T \subseteq Nat
    <3>1. Len(evs) - j0 \in Nat /\ Len(evs) - (Len(evs) - j0) = j0
      BY <2>1, <2>2
    <3> QED
      BY <2>1, <3>1
  <2>4. PICK d \in T : \A k \in T : d <= k
    BY <2>3, LeastNat
  <2>5. d \in Nat /\ Len(evs) - d \in hits
    OBVIOUS
  <2>6. ASSUME NEW k \in hits PROVE k <= Len(evs) - d
    <3>1. Len(evs) - k \in Nat /\ Len(evs) - (Len(evs) - k) = k
      BY <2>2
    <3>2. Len(evs) - k \in T
      BY <3>1
    <3>3. d <= Len(evs) - k
      BY <3>2, <2>4
    <3> QED
      BY <3>1, <3>3, <2>2, <2>5
  <2> QED
    BY <2>5, <2>6
<1>2. hits # {} => last \in 1 .. Len(evs)
  BY <1>1
<1>3. \A j \in 1 .. Len(evs) : evs[j].version \in Nat
  BY DEF Event
<1> HIDE DEF last
<1>4. (IF hits = {} THEN 0 ELSE evs[last].version) \in Nat
  BY <1>2, <1>3
<1> QED
  BY <1>4 DEF duplicateResult, Result, last

-----------------------------------------------------------------------------
(* What a handler that reached Append writes.                              *)

\* The stored form of an event that takes the next version of its stream.
Stored(s, type, amt, key, i) ==
    [seq |-> globalSeq + i, stream |-> s, version |-> versions[s] + 1, type |-> type, amt |-> amt, key |-> key]

LEMMA ProducedSingle ==
  ASSUME TypeOK, NEW h \in Handlers, call[h] \in Call, call[h].cmd.op # "Transfer"
  PROVE  LET c == call[h].cmd
             e == Stored(c.stream, EventTypeOf(c.op), c.amt, c.key, 1)
         IN  /\ e \in Event
             /\ Len(BatchOf(h)) = 1
             /\ Produced(c.key, BatchOf(h)) = <<e>>
             /\ Validates(BatchOf(h)) =>
                   ExpectedVersion(c, call[h].pin, call[h].from) \in {NoVersionCheck, versions[c.stream]}
             /\ \A s : Touches(BatchOf(h), Len(BatchOf(h)), s) = IF s = c.stream THEN 1 ELSE 0
<1> DEFINE c == call[h].cmd
           first == [stream |-> c.stream, type |-> EventTypeOf(c.op), amt |-> c.amt,
                     expect |-> ExpectedVersion(c, call[h].pin, call[h].from)]
           e == Stored(c.stream, EventTypeOf(c.op), c.amt, c.key, 1)
<1>1. c \in Commands
  BY DEF Call
<1>2. versions[c.stream] \in Nat /\ globalSeq \in Nat
  BY <1>1, CommandParts DEF TypeOK
<1>3. e \in Event
  <2>1. CASE c.op \in AccountOps
    <3>1. EventTypeOf(c.op) \in AccountEventTypes
      BY <2>1 DEF AccountOps, EventTypeOf, AccountEventTypes
    <3>2. c.stream \in Accounts /\ c.amt \in Int64 /\ c.key \in Keys \cup {NoKey}
      BY <1>1, <2>1, CommandParts
    <3> QED
      BY <1>2, <3>1, <3>2 DEF Stored, Event
  <2>2. CASE c.op \in ItemOps
    <3>1. EventTypeOf(c.op) \in ItemEventTypes
      BY <2>2 DEF ItemOps, EventTypeOf, ItemEventTypes
    <3>2. c.stream \in Items /\ c.amt \in Int64 /\ c.key \in Keys \cup {NoKey}
      BY <1>1, <2>2, CommandParts
    <3> QED
      BY <1>2, <3>1, <3>2 DEF Stored, Event
  <2> QED
    BY <1>1, <2>1, <2>2, CommandParts
<1>4. BatchOf(h) = <<first>>
  BY DEF BatchOf, Batch
<1>5. Len(BatchOf(h)) = 1 /\ BatchOf(h)[1] = first
  BY <1>4
<1>6. PendingVersion(BatchOf(h), 1) = versions[c.stream]
  BY <1>2, <1>5, TouchesZero DEF PendingVersion
<1>7. Produced(c.key, BatchOf(h)) = <<e>>
  BY <1>5, <1>6 DEF Produced, Stored
<1>8. Validates(BatchOf(h)) =>
         ExpectedVersion(c, call[h].pin, call[h].from) \in {NoVersionCheck, versions[c.stream]}
  BY <1>5, <1>6 DEF Validates
<1>9. \A s : Touches(BatchOf(h), Len(BatchOf(h)), s) = IF s = c.stream THEN 1 ELSE 0
  BY <1>5, TouchesOne
<1> QED
  BY <1>3, <1>5, <1>7, <1>8, <1>9

LEMMA ProducedTransfer ==
  ASSUME TypeOK, NEW h \in Handlers, call[h] \in Call, call[h].cmd.op = "Transfer",
         call[h].cmd.stream # call[h].cmd.to
  PROVE  LET c == call[h].cmd
             debit == Stored(c.stream, "FundsWithdrawn", c.amt, c.key, 1)
             credit == Stored(c.to, "FundsDeposited", c.amt, c.key, 2)
         IN  /\ debit \in Event /\ credit \in Event
             /\ Len(BatchOf(h)) = 2
             /\ Produced(c.key, BatchOf(h)) = <<debit, credit>>
             /\ Validates(BatchOf(h)) =>
                   /\ ExpectedVersion(c, call[h].pin, call[h].from) \in {NoVersionCheck, versions[c.stream]}
                   /\ call[h].to.version \in {NoVersionCheck, versions[c.to]}
             /\ \A s : Touches(BatchOf(h), Len(BatchOf(h)), s) = IF s \in {c.stream, c.to} THEN 1 ELSE 0
<1> DEFINE c == call[h].cmd
           B == BatchOf(h)
           first == [stream |-> c.stream, type |-> EventTypeOf(c.op), amt |-> c.amt,
                     expect |-> ExpectedVersion(c, call[h].pin, call[h].from)]
           second == [stream |-> c.to, type |-> "FundsDeposited", amt |-> c.amt,
                      expect |-> call[h].to.version]
           debit == Stored(c.stream, "FundsWithdrawn", c.amt, c.key, 1)
           credit == Stored(c.to, "FundsDeposited", c.amt, c.key, 2)
<1>1. c \in Commands
  BY DEF Call
<1>2. versions[c.stream] \in Nat /\ versions[c.to] \in Nat /\ globalSeq \in Nat
  BY <1>1, CommandParts DEF TypeOK
<1>3. debit \in Event /\ credit \in Event
  <2>1. /\ c.stream \in Accounts /\ c.to \in Accounts
        /\ c.amt \in Int64 /\ c.key \in Keys \cup {NoKey}
    BY <1>1, CommandParts DEF AccountOps
  <2> QED
    BY <1>2, <2>1 DEF Stored, Event, AccountEventTypes
<1>4. B = <<first, second>>
  BY DEF BatchOf, Batch
<1>5. Len(B) = 2 /\ B[1] = first /\ B[2] = second
  BY <1>4
<1>6. first.stream = c.stream /\ second.stream = c.to /\ first.type = "FundsWithdrawn"
  BY DEF EventTypeOf
<1> HIDE DEF B
<1>7. PendingVersion(B, 1) = versions[c.stream]
  BY <1>2, <1>5, <1>6, TouchesZero DEF PendingVersion
<1>8. PendingVersion(B, 2) = versions[c.to]
  <2>1. Touches(B, 1, c.to) = 0
    BY <1>5, <1>6, TouchesOne
  <2> QED
    BY <1>2, <1>5, <1>6, <2>1 DEF PendingVersion
<1>9. Produced(c.key, B) = <<debit, credit>>
  <2>1. Produced(c.key, B) =
          [i \in 1 .. 2 |-> [seq |-> globalSeq + i, stream |-> B[i].stream,
                             version |-> PendingVersion(B, i) + 1,
                             type |-> B[i].type, amt |-> B[i].amt, key |-> c.key]]
    BY <1>5 DEF Produced
  <2>2. Produced(c.key, B)[1] = debit
    BY <1>5, <1>6, <1>7, <2>1 DEF Stored
  <2>3. Produced(c.key, B)[2] = credit
    BY <1>5, <1>6, <1>8, <2>1 DEF Stored
  <2> QED
    BY <2>1, <2>2, <2>3
<1>10. Validates(B) =>
          /\ ExpectedVersion(c, call[h].pin, call[h].from) \in {NoVersionCheck, versions[c.stream]}
          /\ call[h].to.version \in {NoVersionCheck, versions[c.to]}
  <2> SUFFICES ASSUME Validates(B)
               PROVE  /\ ExpectedVersion(c, call[h].pin, call[h].from) \in {NoVersionCheck, versions[c.stream]}
                      /\ call[h].to.version \in {NoVersionCheck, versions[c.to]}
    OBVIOUS
  <2>1. 1 \in 1 .. Len(B) /\ 2 \in 1 .. Len(B)
    BY <1>5
  <2>2. B[1].expect = NoVersionCheck \/ B[1].expect = PendingVersion(B, 1)
    BY <2>1 DEF Validates
  <2>3. B[2].expect = NoVersionCheck \/ B[2].expect = PendingVersion(B, 2)
    BY <2>1 DEF Validates
  <2> QED
    BY <1>5, <1>7, <1>8, <2>2, <2>3
<1>11. \A s : Touches(B, Len(B), s) = IF s \in {c.stream, c.to} THEN 1 ELSE 0
  BY <1>5, <1>6, TouchesTwo
<1> QED
  BY <1>3, <1>5, <1>9, <1>10, <1>11 DEF B

LEMMA ProducedType ==
  ASSUME TypeOK, NEW h \in Handlers, call[h] \in Call,
         call[h].cmd.op = "Transfer" => call[h].cmd.stream # call[h].cmd.to
  PROVE  /\ Produced(call[h].cmd.key, BatchOf(h)) \in Seq(Event)
         /\ Len(Produced(call[h].cmd.key, BatchOf(h))) = Len(BatchOf(h))
         /\ Len(BatchOf(h)) \in {1, 2}
<1> DEFINE P == Produced(call[h].cmd.key, BatchOf(h))
<1>1. CASE call[h].cmd.op # "Transfer"
  <2>1. PICK e \in Event : P = <<e>> /\ Len(BatchOf(h)) = 1
    BY <1>1, ProducedSingle
  <2> HIDE DEF P
  <2> QED
    BY <2>1 DEF P
<1>2. CASE call[h].cmd.op = "Transfer"
  <2>1. PICK e \in Event, f \in Event : P = <<e, f>> /\ Len(BatchOf(h)) = 2
    BY <1>2, ProducedTransfer
  <2>2. <<e, f>> \in Seq(Event) /\ Len(<<e, f>>) = 2
    OBVIOUS
  <2> QED
    BY <2>1, <2>2
<1> QED
  BY <1>1, <1>2

-----------------------------------------------------------------------------
(* Type correctness.                                                       *)

\* Beyond the refusal in Receive, the two accounts of a transfer differ; and there is
\* something to publish after an append.
Shape(r) ==
    /\ r.pc \notin {"idle", "done"} /\ r.cmd.op = "Transfer" => r.cmd.stream # r.cmd.to
    /\ r.pc = "publish" => r.appended # <<>>

CallShapes == \A h \in Handlers : Shape(call[h])

TypeInv == TypeOK /\ CallShapes

LEMMA ActiveCall ==
  ASSUME TypeOK, NEW h \in Handlers, call[h].pc # "idle"
  PROVE  call[h] \in Call
  BY DEF TypeOK, Idle

LEMMA AnswersType ==
  ASSUME TypeInv, NEW h \in Handlers, call[h] \in Call, NEW res \in Result, Answers(h, res)
  PROVE  call' \in [Handlers -> {Idle} \cup Call] /\ CallShapes'
<1> DEFINE r == [call[h] EXCEPT !.pc = "done", !.result = res]
<1>1. r \in Call /\ r.pc = "done"
  BY DEF Call
<1>2. call' = [call EXCEPT ![h] = r]
  BY DEF Answers, Becomes
<1> HIDE DEF r
<1>3. call' \in [Handlers -> {Idle} \cup Call]
  BY <1>1, <1>2 DEF TypeInv, TypeOK
<1>4. CallShapes'
  <2>1. Shape(r)
    BY <1>1 DEF Shape
  <2> QED
    BY <1>2, <2>1 DEF TypeInv, TypeOK, CallShapes
<1> QED
  BY <1>3, <1>4

LEMMA BecomesType ==
  ASSUME TypeInv, NEW h \in Handlers, NEW r \in {Idle} \cup Call, Becomes(h, r),
         Shape(r)
  PROVE  call' \in [Handlers -> {Idle} \cup Call] /\ CallShapes'
  BY DEF Becomes, TypeInv, TypeOK, CallShapes

LEMMA StateTypeIn == ASSUME NEW s PROVE StateType(s) \subseteq AccountState \cup InventoryState
  BY DEF StateType

LEMMA DecideOnType ==
  ASSUME TypeInv, NEW h \in Handlers, call[h] \in Call, call[h].pc # "done", call[h].pc # "idle",
         NEW from \in AccountState \cup InventoryState,
         NEW to \in AccountState \cup InventoryState, DecideOn(h, from, to)
  PROVE  call' \in [Handlers -> {Idle} \cup Call] /\ CallShapes'
<1> DEFINE c == call[h].cmd
           err == DecideCommand(c, from, to)
<1>1. c \in Commands
  BY DEF Call
<1>2. err \in {"nil"} \cup BusinessErrors
  BY <1>1, DecideCommandType
<1>3. CASE err # "nil"
  <2>1. Answers(h, Failed(err))
    BY <1>3 DEF DecideOn
  <2>2. Failed(err) \in Result
    BY <1>2, ResultTypes
  <2> QED
    BY <2>1, <2>2, AnswersType
<1>4. CASE err = "nil"
  <2> DEFINE r == [call[h] EXCEPT !.pc = "append", !.from = from, !.to = to]
  <2>1. Becomes(h, r)
    BY <1>4 DEF DecideOn
  <2>2. r \in Call /\ r.cmd = call[h].cmd
    BY DEF Call
  <2>3. Shape(r)
    BY <2>2 DEF TypeInv, CallShapes, Shape
  <2> HIDE DEF r
  <2> QED
    BY <2>1, <2>2, <2>3, BecomesType
<1> QED
  BY <1>3, <1>4

\* A committed append keeps the store well typed.
LEMMA WriteType ==
  ASSUME TypeInv, NEW h \in Handlers, call[h] \in Call, call[h].pc = "append",
         AppendWrites(call[h].cmd.key, BatchOf(h))
  PROVE  /\ events' \in Seq(Event)
         /\ versions' \in [Streams -> Nat]
         /\ globalSeq' \in Nat
         /\ dedupe' \in [Keys -> [found : BOOLEAN, events : Seq(Event)]]
<1> DEFINE key == call[h].cmd.key
           B == BatchOf(h)
           P == Produced(key, B)
<1>1. P \in Seq(Event) /\ Len(B) \in Nat
  BY ProducedType DEF TypeInv, CallShapes, Shape
<1>2. key \in Keys \cup {NoKey}
  BY CommandParts DEF Call
<1>3. /\ events' = events \o P
      /\ versions' = [s \in Streams |-> versions[s] + Touches(B, Len(B), s)]
      /\ globalSeq' = globalSeq + Len(B)
      /\ dedupe' = IF key = NoKey THEN dedupe
                   ELSE [dedupe EXCEPT ![key] = [found |-> TRUE, events |-> P]]
  BY DEF AppendWrites
<1> HIDE DEF P, B, key
<1>4. \A s \in Streams : versions[s] + Touches(B, Len(B), s) \in Nat
  BY <1>1, TouchesType DEF TypeInv, TypeOK
<1> QED
  BY <1>1, <1>2, <1>3, <1>4 DEF TypeInv, TypeOK

\* What an action that leaves the store alone has to establish.
LEMMA LocalStepType ==
  ASSUME TypeInv, UNCHANGED storeVars,
         call' \in [Handlers -> {Idle} \cup Call] /\ CallShapes',
         calls' \in 0 .. MaxCalls, published' \in Seq(Nat)
  PROVE  TypeInv'
  BY DEF TypeInv, TypeOK, storeVars

LEMMA TypeInvInit == Init => TypeInv
<1> SUFFICES ASSUME Init PROVE TypeInv
  OBVIOUS
<1>1. NotFound \in [found : BOOLEAN, events : Seq(Event)]
  BY DEF NotFound
<1>2. 0 \in 0 .. MaxCalls
  BY BoundsAssumption
<1> QED
  BY <1>1, <1>2 DEF Init, StoreInit, TypeInv, TypeOK, CallShapes, Shape, Idle

LEMMA TypeInvStep == TypeInv /\ [Next]_vars => TypeInv'
<1> SUFFICES ASSUME TypeInv, [Next]_vars PROVE TypeInv'
  OBVIOUS
<1> USE DEF TypeInv
<1>1. ASSUME NEW h \in Handlers, NEW c \in Commands, NEW pin \in Pins(c), Receive(h, c, pin)
      PROVE  TypeInv'
  <2> DEFINE refused == c.op = "Transfer" /\ c.stream = c.to
             r == [pc       |-> IF refused THEN "done" ELSE IF c.key = NoKey THEN "load" ELSE "lookup",
                   cmd      |-> c,
                   pin      |-> pin,
                   attempt  |-> 0,
                   from     |-> EmptyState(c.stream),
                   to       |-> EmptyState(c.to),
                   appended |-> <<>>,
                   result   |-> IF refused THEN Failed("ErrSameAccountTransfer") ELSE NoResult,
                   since    |-> Len(events)]
  <2>1. pin \in Int
    <3>1. versions[c.stream] + PinAhead \in Nat
      BY CommandParts, BoundsAssumption DEF TypeOK
    <3> QED
      BY <3>1 DEF Pins, NoVersionCheck
  <2>2. EmptyState(c.stream) \in AccountState \cup InventoryState
        /\ EmptyState(c.to) \in AccountState \cup InventoryState
    BY EmptyStateType, StateTypeIn
  <2>3. Len(events) \in Nat
    BY DEF TypeOK
  <2>4. (IF refused THEN Failed("ErrSameAccountTransfer") ELSE NoResult) \in Result
    BY ResultTypes
  <2>5. r \in Call
    BY <2>1, <2>2, <2>3, <2>4 DEF Call
  <2>6. Shape(r)
    BY DEF Shape
  <2>7. Becomes(h, r)
    BY <1>1 DEF Receive
  <2> HIDE DEF r
  <2>8. call' \in [Handlers -> {Idle} \cup Call] /\ CallShapes'
    BY <2>5, <2>6, <2>7, BecomesType
  <2>9. calls' \in 0 .. MaxCalls /\ published' \in Seq(Nat) /\ UNCHANGED storeVars
    BY <1>1, BoundsAssumption DEF Receive, TypeOK
  <2> QED
    BY <2>8, <2>9, LocalStepType
<1>2. ASSUME NEW h \in Handlers, Lookup(h)
      PROVE  TypeInv'
  <2> DEFINE prior == LookupDedupe(call[h].cmd.key)
  <2>1. call[h] \in Call /\ call[h].pc = "lookup"
    BY <1>2, ActiveCall DEF Lookup
  <2>2. call[h].cmd \in Commands
    BY <2>1 DEF Call
  <2>3. prior.events \in Seq(Event)
    BY <2>2, CommandParts DEF LookupDedupe, NotFound, TypeOK
  <2>4. CASE prior.found
    <3>1. Answers(h, duplicateResult(prior.events, call[h].cmd.stream))
      BY <1>2, <2>4 DEF Lookup
    <3>2. call' \in [Handlers -> {Idle} \cup Call] /\ CallShapes'
      BY <2>1, <2>3, <3>1, DuplicateResultType, AnswersType
    <3> QED
      BY <1>2, <3>2, LocalStepType DEF Lookup, TypeOK
  <2>5. CASE ~ prior.found
    <3> DEFINE r == [call[h] EXCEPT !.pc = "load"]
    <3>1. Becomes(h, r)
      BY <1>2, <2>5 DEF Lookup
    <3>2. r \in Call /\ r.cmd = call[h].cmd /\ r.pc = "load"
      BY <2>1 DEF Call
    <3> HIDE DEF r
    <3>3. Shape(r)
      BY <2>1, <3>2 DEF CallShapes, Shape
    <3>4. call' \in [Handlers -> {Idle} \cup Call] /\ CallShapes'
      BY <3>1, <3>2, <3>3, BecomesType
    <3> QED
      BY <1>2, <3>4, LocalStepType DEF Lookup, TypeOK
  <2> QED
    BY <2>4, <2>5
<1>3. ASSUME NEW h \in Handlers, LoadOne(h)
      PROVE  TypeInv'
  <2>1. call[h] \in Call /\ call[h].pc = "load"
    BY <1>3, ActiveCall DEF LoadOne
  <2>2. Load(call[h].cmd.stream) \in AccountState \cup InventoryState
    BY LoadType, StateTypeIn DEF TypeOK
  <2>3. call[h].to \in AccountState \cup InventoryState
    BY <2>1 DEF Call
  <2>4. call' \in [Handlers -> {Idle} \cup Call] /\ CallShapes'
    BY <1>3, <2>1, <2>2, <2>3, DecideOnType DEF LoadOne
  <2> QED
    BY <1>3, <2>4, LocalStepType DEF LoadOne, TypeOK
<1>4. ASSUME NEW h \in Handlers, LoadFrom(h)
      PROVE  TypeInv'
  <2> DEFINE r == [call[h] EXCEPT !.pc = "loadTo", !.from = Load(call[h].cmd.stream)]
  <2>1. call[h] \in Call /\ call[h].pc = "load"
    BY <1>4, ActiveCall DEF LoadFrom
  <2>2. Load(call[h].cmd.stream) \in AccountState \cup InventoryState
    BY LoadType, StateTypeIn DEF TypeOK
  <2>3. r \in Call /\ r.cmd = call[h].cmd /\ r.pc = "loadTo" /\ Becomes(h, r)
    BY <1>4, <2>1, <2>2 DEF Call, LoadFrom
  <2> HIDE DEF r
  <2>4. Shape(r)
    BY <2>1, <2>3 DEF CallShapes, Shape
  <2>5. call' \in [Handlers -> {Idle} \cup Call] /\ CallShapes'
    BY <2>3, <2>4, BecomesType
  <2> QED
    BY <1>4, <2>5, LocalStepType DEF LoadFrom, TypeOK
<1>5. ASSUME NEW h \in Handlers, LoadTo(h)
      PROVE  TypeInv'
  <2>1. call[h] \in Call /\ call[h].pc = "loadTo"
    BY <1>5, ActiveCall DEF LoadTo
  <2>2. Load(call[h].cmd.to) \in AccountState \cup InventoryState
    BY LoadType, StateTypeIn DEF TypeOK
  <2>3. call[h].from \in AccountState \cup InventoryState
    BY <2>1 DEF Call
  <2>4. call' \in [Handlers -> {Idle} \cup Call] /\ CallShapes'
    BY <1>5, <2>1, <2>2, <2>3, DecideOnType DEF LoadTo
  <2> QED
    BY <1>5, <2>4, LocalStepType DEF LoadTo, TypeOK
<1>6. ASSUME NEW h \in Handlers, AppendDuplicate(h)
      PROVE  TypeInv'
  <2>1. call[h] \in Call /\ call[h].pc = "append"
    BY <1>6, ActiveCall DEF AppendDuplicate
  <2>2. call[h].cmd.key \in Keys
    BY <1>6, <2>1, CommandParts DEF AppendDuplicate, AppendIsDuplicate, Call
  <2>3. dedupe[call[h].cmd.key].events \in Seq(Event)
    BY <2>2 DEF TypeOK
  <2>4. call' \in [Handlers -> {Idle} \cup Call] /\ CallShapes'
    BY <1>6, <2>1, <2>3, DuplicateResultType, AnswersType DEF AppendDuplicate
  <2> QED
    BY <1>6, <2>4, LocalStepType DEF AppendDuplicate, TypeOK
<1>7. ASSUME NEW h \in Handlers, AppendConflict(h)
      PROVE  TypeInv'
  <2> DEFINE again == call[h].attempt < MaxAttempts(call[h].cmd, call[h].pin) - 1
             r == [call[h] EXCEPT !.pc = "load", !.attempt = @ + 1]
  <2>1. call[h] \in Call /\ call[h].pc = "append"
    BY <1>7, ActiveCall DEF AppendConflict
  <2>2. CASE again
    <3>1. Becomes(h, r)
      BY <1>7, <2>2 DEF AppendConflict
    <3>2. call[h].attempt + 1 \in Nat
      BY <2>1 DEF Call
    <3>3. r \in Call /\ r.cmd = call[h].cmd /\ r.pc = "load"
      BY <2>1, <3>2 DEF Call
    <3> HIDE DEF r
    <3>4. Shape(r)
      BY <2>1, <3>3 DEF CallShapes, Shape
    <3>5. call' \in [Handlers -> {Idle} \cup Call] /\ CallShapes'
      BY <3>1, <3>3, <3>4, BecomesType
    <3> QED
      BY <1>7, <3>5, LocalStepType DEF AppendConflict, TypeOK
  <2>3. CASE ~ again
    <3>1. Answers(h, Failed("ErrVersionConflict"))
      BY <1>7, <2>3 DEF AppendConflict
    <3>2. call' \in [Handlers -> {Idle} \cup Call] /\ CallShapes'
      BY <2>1, <3>1, ResultTypes, AnswersType
    <3> QED
      BY <1>7, <3>2, LocalStepType DEF AppendConflict, TypeOK
  <2> QED
    BY <2>2, <2>3
<1>8. ASSUME NEW h \in Handlers, AppendCommit(h)
      PROVE  TypeInv'
  <2> DEFINE P == Produced(call[h].cmd.key, BatchOf(h))
             r == [call[h] EXCEPT !.pc = "publish", !.appended = P]
  <2>1. call[h] \in Call /\ call[h].pc = "append"
    BY <1>8, ActiveCall DEF AppendCommit
  <2>2. P \in Seq(Event) /\ P # <<>>
    <3>1. Shape(call[h])
      BY DEF CallShapes
    <3>2. P \in Seq(Event) /\ Len(P) \in {1, 2}
      BY <2>1, <3>1, ProducedType DEF Shape
    <3>3. Len(<< >>) = 0
      OBVIOUS
    <3> HIDE DEF P
    <3>4. P # << >>
      <4> SUFFICES ASSUME P = << >> PROVE FALSE
        OBVIOUS
      <4> QED
        BY <3>2, <3>3
    <3> QED
      BY <3>2, <3>4
  <2>3. Becomes(h, r)
    BY <1>8 DEF AppendCommit
  <2> HIDE DEF P
  <2>4. r \in Call /\ r.cmd = call[h].cmd /\ r.appended = P
    BY <2>1, <2>2 DEF Call
  <2> HIDE DEF r
  <2>5. Shape(r)
    BY <2>1, <2>2, <2>4 DEF CallShapes, Shape
  <2>6. call' \in [Handlers -> {Idle} \cup Call] /\ CallShapes'
    BY <2>3, <2>4, <2>5, BecomesType
  <2> QED
    BY <1>8, <2>1, <2>6, WriteType DEF AppendCommit, TypeOK
<1>9. ASSUME NEW h \in Handlers, Publish(h)
      PROVE  TypeInv'
  <2> DEFINE A == call[h].appended
             res == [NoResult EXCEPT !.applied = TRUE, !.newVersion = A[1].version]
             seqs == [i \in 1 .. Len(A) |-> A[i].seq]
  <2>1. call[h] \in Call /\ call[h].pc = "publish"
    BY <1>9, ActiveCall DEF Publish
  <2>2. A \in Seq(Event) /\ A # <<>>
    BY <2>1 DEF Call, CallShapes, Shape
  <2>3. A[1] \in Event /\ \A i \in 1 .. Len(A) : A[i] \in Event
    BY <2>2
  <2>4. A[1].version \in Nat /\ \A i \in 1 .. Len(A) : A[i].seq \in Nat
    BY <2>3 DEF Event
  <2>5. seqs \in Seq(Nat)
    BY <2>2, <2>4
  <2>6. res \in Result
    BY <2>4 DEF NoResult, Result
  <2>7. call' \in [Handlers -> {Idle} \cup Call] /\ CallShapes'
    BY <1>9, <2>1, <2>6, AnswersType DEF Publish
  <2>8. published' \in Seq(Nat)
    BY <1>9, <2>5 DEF Publish, TypeOK
  <2> QED
    BY <1>9, <2>7, <2>8, LocalStepType DEF Publish, TypeOK
<1>10. ASSUME NEW h \in Handlers, Respond(h)
       PROVE  TypeInv'
  <2>1. call' \in [Handlers -> {Idle} \cup Call] /\ CallShapes'
    BY <1>10, BecomesType DEF Respond, Shape, Idle
  <2> QED
    BY <1>10, <2>1, LocalStepType DEF Respond, TypeOK
<1>11. ASSUME NEW h \in Handlers, StoreFails(h)
       PROVE  TypeInv'
  <2>1. call[h] \in Call
    BY <1>11, ActiveCall DEF StoreFails
  <2>2. call' \in [Handlers -> {Idle} \cup Call] /\ CallShapes'
    BY <1>11, <2>1, ResultTypes, AnswersType DEF StoreFails
  <2> QED
    BY <1>11, <2>2, LocalStepType DEF StoreFails, TypeOK
<1>12. ASSUME NEW h \in Handlers, AppendAckLost(h)
       PROVE  TypeInv'
  <2>1. call[h] \in Call /\ call[h].pc = "append"
    BY <1>12, ActiveCall DEF AppendAckLost
  <2>2. call' \in [Handlers -> {Idle} \cup Call] /\ CallShapes'
    BY <1>12, <2>1, ResultTypes, AnswersType DEF AppendAckLost
  <2> QED
    BY <1>12, <2>1, <2>2, WriteType DEF AppendAckLost, TypeOK
<1>13. CASE Crash
  <2>1. call' \in [Handlers -> {Idle} \cup Call] /\ CallShapes'
    BY <1>13 DEF Crash, CallShapes, Shape, Idle
  <2> QED
    BY <1>13, <2>1, LocalStepType DEF Crash, TypeOK
<1>14. CASE UNCHANGED vars
  BY <1>14 DEF vars, storeVars, TypeOK, CallShapes
<1> QED
  BY <1>1, <1>2, <1>3, <1>4, <1>5, <1>6, <1>7, <1>8, <1>9, <1>10, <1>11, <1>12, <1>13, <1>14
  DEF Next, HandlerStep

\* The service never leaves its types, whatever clients pin and whatever fails:
\* in particular an account stream only ever receives account events.
THEOREM TypeCorrect == Spec => []TypeOK
<1>1. Init => TypeInv
  BY TypeInvInit
<1>2. TypeInv /\ [Next]_vars => TypeInv'
  BY TypeInvStep
<1>3. TypeInv => TypeOK
  BY DEF TypeInv
<1> QED
  BY <1>1, <1>2, <1>3, PTL DEF Spec

-----------------------------------------------------------------------------
(* An append that passes the version check was decided on the present.     *)

LEMMA VersionFacts == ASSUME NEW st \in AccountState \cup InventoryState PROVE st.version \in Nat
  BY DEF AccountState, InventoryState

LEMMA StateTypeVersion == ASSUME NEW s, NEW st \in StateType(s) PROVE st.version \in Nat
  BY VersionFacts, StateTypeIn

\* The heart of optimistic concurrency: if the primary stream passes the version
\* check, the state the handler decided on is the stream's current state.
LEMMA CheckedIsCurrent ==
  ASSUME SerialInv, NEW h \in Handlers, call[h].pc = "append",
         ExpectedVersion(call[h].cmd, call[h].pin, call[h].from)
            \in {NoVersionCheck, versions[call[h].cmd.stream]}
  PROVE  call[h].from = Load(call[h].cmd.stream)
<1> DEFINE c == call[h].cmd
           st == call[h].from
           x == ExpectedVersion(c, call[h].pin, st)
<1>1. call[h] \in Call
  BY ActiveCall DEF SerialInv
<1>2. c \in Commands /\ call[h].pin \in Int
  BY <1>1 DEF Call
<1>3. versions[c.stream] \in Nat
  BY <1>2, CommandParts DEF SerialInv, TypeOK
<1>4. HandlerConsistent(call[h])
  BY DEF SerialInv
<1>5. /\ Snapshot(c.stream, st)
      /\ call[h].pin <= st.version
      /\ call[h].pin = NoVersionCheck \/ call[h].pin \in 0 .. versions[c.stream]
  BY <1>4 DEF HandlerConsistent
<1>6. st.version \in Nat /\ st.version <= versions[c.stream]
  BY <1>5, StateTypeVersion DEF Snapshot
<1>7. st.version = versions[c.stream]
  <2>1. CASE c.op = "OpenAccount"
    <3>1. x = 0
      BY <2>1 DEF ExpectedVersion, StreamDoesNotExist
    <3> QED
      BY <1>3, <1>6, <3>1 DEF NoVersionCheck
  <2>2. CASE c.op # "OpenAccount" /\ call[h].pin # NoVersionCheck
    <3>1. x = call[h].pin
      BY <2>2 DEF ExpectedVersion
    <3> QED
      BY <1>2, <1>3, <1>5, <1>6, <2>2, <3>1 DEF NoVersionCheck
  <2>3. CASE c.op # "OpenAccount" /\ call[h].pin = NoVersionCheck
    <3>1. x = st.version
      BY <2>3 DEF ExpectedVersion
    <3> QED
      BY <1>6, <3>1 DEF NoVersionCheck
  <2> QED
    BY <2>1, <2>2, <2>3
<1> QED
  BY <1>5, <1>7 DEF Snapshot

\* What a committed single-event command does to the store.
LEMMA CommitSingle ==
  ASSUME SerialInv, NEW h \in Handlers, call[h].pc = "append", call[h].cmd.op # "Transfer",
         AppendWrites(call[h].cmd.key, BatchOf(h))
  PROVE  \E e \in Event :
            LET c == call[h].cmd IN
            /\ e = [seq |-> Len(events) + 1, stream |-> c.stream, version |-> Load(c.stream).version + 1,
                    type |-> EventTypeOf(c.op), amt |-> c.amt, key |-> c.key]
            /\ Produced(c.key, BatchOf(h)) = <<e>>
            /\ Decide(e.type, Load(c.stream), c.amt) = "nil"
            /\ events' = events \o <<e>>
            /\ globalSeq' = globalSeq + 1
            /\ versions' = [s \in Streams |-> versions[s] + IF s = c.stream THEN 1 ELSE 0]
<1> DEFINE c == call[h].cmd
           e == Stored(c.stream, EventTypeOf(c.op), c.amt, c.key, 1)
<1>1. call[h] \in Call /\ TypeOK
  BY ActiveCall DEF SerialInv
<1>2. /\ e \in Event
      /\ Len(BatchOf(h)) = 1
      /\ Produced(c.key, BatchOf(h)) = <<e>>
      /\ Validates(BatchOf(h)) =>
            ExpectedVersion(c, call[h].pin, call[h].from) \in {NoVersionCheck, versions[c.stream]}
      /\ \A s : Touches(BatchOf(h), Len(BatchOf(h)), s) = IF s = c.stream THEN 1 ELSE 0
  BY <1>1, ProducedSingle
<1>3. call[h].from = Load(c.stream)
  BY <1>2, CheckedIsCurrent DEF AppendWrites
<1>4. DecideCommand(c, call[h].from, call[h].to) = "nil"
  BY DEF SerialInv, HandlerConsistent
<1>5. Decide(EventTypeOf(c.op), Load(c.stream), c.amt) = "nil"
  BY <1>3, <1>4 DEF DecideCommand
<1>6. c.stream \in Streams
  BY <1>1, CommandParts DEF Call
<1>7. versions[c.stream] = Load(c.stream).version /\ globalSeq = Len(events)
  BY <1>6 DEF SerialInv, StoreConsistent
<1>8. e = [seq |-> Len(events) + 1, stream |-> c.stream, version |-> Load(c.stream).version + 1,
           type |-> EventTypeOf(c.op), amt |-> c.amt, key |-> c.key]
  BY <1>7 DEF Stored
<1>9. /\ events' = events \o <<e>>
      /\ globalSeq' = globalSeq + 1
      /\ versions' = [s \in Streams |-> versions[s] + IF s = c.stream THEN 1 ELSE 0]
  BY <1>2 DEF AppendWrites
<1>10. e.type = EventTypeOf(c.op)
  BY <1>8
<1> HIDE DEF e
<1> QED
  BY <1>2, <1>5, <1>8, <1>9, <1>10

\* What a committed transfer does to the store.
LEMMA CommitTransfer ==
  ASSUME SerialInv, NEW h \in Handlers, call[h].pc = "append", call[h].cmd.op = "Transfer",
         AppendWrites(call[h].cmd.key, BatchOf(h))
  PROVE  \E d, e \in Event :
            LET c == call[h].cmd IN
            /\ d = [seq |-> Len(events) + 1, stream |-> c.stream, version |-> Load(c.stream).version + 1,
                    type |-> "FundsWithdrawn", amt |-> c.amt, key |-> c.key]
            /\ e = [seq |-> Len(events) + 2, stream |-> c.to, version |-> Load(c.to).version + 1,
                    type |-> "FundsDeposited", amt |-> c.amt, key |-> c.key]
            /\ c.stream # c.to
            /\ Produced(c.key, BatchOf(h)) = <<d, e>>
            /\ DecideWithdraw(Load(c.stream), c.amt) = "nil"
            /\ DecideDeposit(Load(c.to), c.amt) = "nil"
            /\ events' = events \o <<d, e>>
            /\ globalSeq' = globalSeq + 2
            /\ versions' = [s \in Streams |-> versions[s] + IF s \in {c.stream, c.to} THEN 1 ELSE 0]
<1> DEFINE c == call[h].cmd
           d == Stored(c.stream, "FundsWithdrawn", c.amt, c.key, 1)
           e == Stored(c.to, "FundsDeposited", c.amt, c.key, 2)
<1>1. call[h] \in Call /\ TypeOK
  BY ActiveCall DEF SerialInv
<1>2. HandlerConsistent(call[h])
  BY DEF SerialInv
<1>3. c.stream # c.to
  BY <1>2 DEF HandlerConsistent
<1>4. /\ d \in Event /\ e \in Event
      /\ Len(BatchOf(h)) = 2
      /\ Produced(c.key, BatchOf(h)) = <<d, e>>
      /\ Validates(BatchOf(h)) =>
            /\ ExpectedVersion(c, call[h].pin, call[h].from) \in {NoVersionCheck, versions[c.stream]}
            /\ call[h].to.version \in {NoVersionCheck, versions[c.to]}
      /\ \A s : Touches(BatchOf(h), Len(BatchOf(h)), s) = IF s \in {c.stream, c.to} THEN 1 ELSE 0
  BY <1>1, <1>3, ProducedTransfer
<1>5. call[h].from = Load(c.stream)
  BY <1>4, CheckedIsCurrent DEF AppendWrites
<1>6. call[h].to = Load(c.to)
  <2>1. Snapshot(c.to, call[h].to)
    BY <1>2 DEF HandlerConsistent
  <2>2. call[h].to.version \in Nat
    BY <2>1, StateTypeVersion DEF Snapshot
  <2>3. call[h].to.version = versions[c.to]
    BY <1>4, <2>2 DEF AppendWrites, NoVersionCheck
  <2> QED
    BY <2>1, <2>3 DEF Snapshot
<1>7. DecideWithdraw(Load(c.stream), c.amt) = "nil" /\ DecideDeposit(Load(c.to), c.amt) = "nil"
  <2>1. DecideCommand(c, call[h].from, call[h].to) = "nil"
    BY <1>2 DEF HandlerConsistent
  <2>2. Decide(EventTypeOf(c.op), call[h].from, c.amt) = DecideWithdraw(call[h].from, c.amt)
    BY DEF EventTypeOf, Decide
  <2> QED
    BY <1>5, <1>6, <2>1, <2>2 DEF DecideCommand
<1>8. c.stream \in Streams /\ c.to \in Streams
  BY <1>1, CommandParts DEF Call
<1>9. /\ versions[c.stream] = Load(c.stream).version /\ versions[c.to] = Load(c.to).version
      /\ globalSeq = Len(events)
  BY <1>8 DEF SerialInv, StoreConsistent
<1>10. /\ d = [seq |-> Len(events) + 1, stream |-> c.stream, version |-> Load(c.stream).version + 1,
               type |-> "FundsWithdrawn", amt |-> c.amt, key |-> c.key]
       /\ e = [seq |-> Len(events) + 2, stream |-> c.to, version |-> Load(c.to).version + 1,
               type |-> "FundsDeposited", amt |-> c.amt, key |-> c.key]
  BY <1>9 DEF Stored
<1>11. /\ events' = events \o <<d, e>>
       /\ globalSeq' = globalSeq + 2
       /\ versions' = [s \in Streams |-> versions[s] + IF s \in {c.stream, c.to} THEN 1 ELSE 0]
  BY <1>4 DEF AppendWrites
<1> HIDE DEF d, e
<1> QED
  BY <1>3, <1>4, <1>7, <1>10, <1>11

-----------------------------------------------------------------------------
(* A committed append keeps the log serial and everybody's snapshot a past *)
(* state: a stream that moved has a larger version.                        *)

\* The state of stream s in the next state, with the primes on the variables.
LoadNext(s) == Fold(s, events')[Len(events')]

\* What the commit of a batch means for the log.
LogGrows ==
    /\ Len(events') \in Nat
    /\ globalSeq' = Len(events')
    /\ \A n \in 1 .. Len(events') : events'[n].seq = n
    /\ \A n \in 1 .. Len(events') : LegalAt(events', n)
    /\ \A s \in Streams : versions'[s] = LoadNext(s).version
    /\ \A s \in Streams : versions'[s] >= versions[s]
    /\ \A s \in Streams : versions'[s] = versions[s] => LoadNext(s) = Load(s)

\* Applying an event moves the folded version to the event's version.
LEMMA ApplyVersion ==
  ASSUME NEW e \in Event
  PROVE  \A st : Apply(e.stream, st, e).version = e.version
<1>1. Decodable(e)
  BY EventsDecodable
<1>2. CASE e.stream \in Accounts
  <2>1. e.type \in AccountEventTypes
    BY <1>1, <1>2 DEF Decodable
  <2> QED
    BY <1>2, <2>1 DEF Apply, ApplyAccount, AccountEventTypes
<1>3. CASE e.stream \notin Accounts
  <2>1. e.type \in ItemEventTypes
    BY <1>1, <1>3 DEF Decodable
  <2> QED
    BY <1>3, <2>1 DEF Apply, ApplyInventory, ItemEventTypes
<1> QED
  BY <1>2, <1>3

LEMMA SingleGrowsLog ==
  ASSUME SerialInv, NEW h \in Handlers, call[h].pc = "append", call[h].cmd.op # "Transfer",
         AppendWrites(call[h].cmd.key, BatchOf(h))
  PROVE  LogGrows
<1> DEFINE c == call[h].cmd
<1>1. PICK e \in Event :
         /\ e = [seq |-> Len(events) + 1, stream |-> c.stream, version |-> Load(c.stream).version + 1,
                 type |-> EventTypeOf(c.op), amt |-> c.amt, key |-> c.key]
         /\ Decide(e.type, Load(c.stream), c.amt) = "nil"
         /\ events' = events \o <<e>>
         /\ globalSeq' = globalSeq + 1
         /\ versions' = [s \in Streams |-> versions[s] + IF s = c.stream THEN 1 ELSE 0]
  BY CommitSingle
<1>2. /\ events \in Seq(Event) /\ Len(events) \in Nat /\ globalSeq = Len(events)
      /\ \A n \in 1 .. Len(events) : events[n].seq = n
      /\ \A n \in 1 .. Len(events) : LegalAt(events, n)
      /\ \A s \in Streams : versions[s] = Load(s).version /\ versions[s] \in Nat
  BY DEF SerialInv, StoreConsistent, LogIsSerial, TypeOK
<1>3. /\ e.seq = Len(events) + 1 /\ e.stream = c.stream
      /\ e.version = Load(c.stream).version + 1 /\ e.amt = c.amt
  BY <1>1
<1>4. /\ Len(events') = Len(events) + 1
      /\ events'[Len(events')] = e
      /\ \A n \in 1 .. Len(events) : events'[n] = events[n]
      /\ \A s : LoadNext(s) = IF e.stream = s THEN Apply(s, Load(s), e) ELSE Load(s)
      /\ \A n \in 1 .. Len(events) : LegalAt(events, n) => LegalAt(events', n)
      /\ LegalAt(events', Len(events')) <=>
            /\ Decide(e.type, Load(e.stream), e.amt) = "nil"
            /\ e.version = Load(e.stream).version + 1
  <2>1. events' = events \o <<e>>
    BY <1>1
  <2>2. events \in Seq(Event)
    BY <1>2
  <2> QED
    BY <2>1, <2>2, FoldAppend DEF LoadNext, Load
<1>5. \A n \in 1 .. Len(events') : n \in 1 .. Len(events) \/ n = Len(events')
  BY <1>2, <1>4
<1>6. \A n \in 1 .. Len(events') : events'[n].seq = n
  BY <1>2, <1>3, <1>4, <1>5
<1>7. \A n \in 1 .. Len(events') : LegalAt(events', n)
  BY <1>1, <1>2, <1>3, <1>4, <1>5
<1>8. ASSUME NEW s \in Streams
      PROVE  /\ versions'[s] = LoadNext(s).version
             /\ versions'[s] >= versions[s]
             /\ versions'[s] = versions[s] => LoadNext(s) = Load(s)
  <2>1. CASE s = c.stream
    <3>1. LoadNext(s).version = e.version
      BY <1>3, <1>4, <2>1, ApplyVersion
    <3>2. versions'[s] = versions[s] + 1
      BY <1>1, <2>1
    <3> QED
      BY <1>2, <1>3, <2>1, <3>1, <3>2
  <2>2. CASE s # c.stream
    <3>1. LoadNext(s) = Load(s)
      BY <1>3, <1>4, <2>2
    <3>2. versions'[s] = versions[s]
      BY <1>1, <1>2, <2>2
    <3> QED
      BY <1>2, <3>1, <3>2
  <2> QED
    BY <2>1, <2>2
<1>9. Len(events') \in Nat /\ globalSeq' = Len(events')
  <2>1. Len(events) \in Nat /\ globalSeq = Len(events)
    BY <1>2
  <2>2. globalSeq' = globalSeq + 1
    BY <1>1
  <2>3. Len(events') = Len(events) + 1
    BY <1>4
  <2> QED
    BY <2>1, <2>2, <2>3
<1> QED
  BY <1>6, <1>7, <1>8, <1>9 DEF LogGrows

\* Appending two events at once is appending them one after the other.
LEMMA AppendInTwo ==
  ASSUME NEW S, NEW log \in Seq(S), NEW x \in S, NEW y \in S
  PROVE  log \o <<x, y>> = (log \o <<x>>) \o <<y>>
<1> DEFINE both == log \o <<x, y>>
           one == log \o <<x>>
           two == one \o <<y>>
<1>1. one \in Seq(S) /\ Len(one) = Len(log) + 1 /\ Len(log) \in Nat
  OBVIOUS
<1>2. /\ one[Len(log) + 1] = x
      /\ \A n \in 1 .. Len(log) : one[n] = log[n]
  OBVIOUS
<1> HIDE DEF one
<1>3. /\ two \in Seq(S) /\ Len(two) = Len(log) + 2
      /\ two[Len(log) + 2] = y
      /\ \A n \in 1 .. Len(log) + 1 : two[n] = one[n]
  BY <1>1
<1>4. /\ both \in Seq(S) /\ Len(both) = Len(log) + 2
      /\ both[Len(log) + 1] = x /\ both[Len(log) + 2] = y
      /\ \A n \in 1 .. Len(log) : both[n] = log[n]
  OBVIOUS
<1> HIDE DEF two, both
<1>5. \A n \in 1 .. Len(both) : both[n] = two[n]
  BY <1>1, <1>2, <1>3, <1>4
<1>6. both = two
  BY <1>3, <1>4, <1>5, SeqEqual
<1> QED
  BY <1>6 DEF both, two, one

LEMMA TransferGrowsLog ==
  ASSUME SerialInv, NEW h \in Handlers, call[h].pc = "append", call[h].cmd.op = "Transfer",
         AppendWrites(call[h].cmd.key, BatchOf(h))
  PROVE  LogGrows
<1> DEFINE c == call[h].cmd
<1>1. PICK d \in Event, e \in Event :
         /\ d = [seq |-> Len(events) + 1, stream |-> c.stream, version |-> Load(c.stream).version + 1,
                 type |-> "FundsWithdrawn", amt |-> c.amt, key |-> c.key]
         /\ e = [seq |-> Len(events) + 2, stream |-> c.to, version |-> Load(c.to).version + 1,
                 type |-> "FundsDeposited", amt |-> c.amt, key |-> c.key]
         /\ c.stream # c.to
         /\ DecideWithdraw(Load(c.stream), c.amt) = "nil"
         /\ DecideDeposit(Load(c.to), c.amt) = "nil"
         /\ events' = events \o <<d, e>>
         /\ globalSeq' = globalSeq + 2
         /\ versions' = [s \in Streams |-> versions[s] + IF s \in {c.stream, c.to} THEN 1 ELSE 0]
  BY CommitTransfer
<1>2. /\ events \in Seq(Event) /\ Len(events) \in Nat /\ globalSeq = Len(events)
      /\ \A n \in 1 .. Len(events) : events[n].seq = n
      /\ \A n \in 1 .. Len(events) : LegalAt(events, n)
      /\ \A s \in Streams : versions[s] = Load(s).version /\ versions[s] \in Nat
  BY DEF SerialInv, StoreConsistent, LogIsSerial, TypeOK
<1>3. /\ d.seq = Len(events) + 1 /\ d.stream = c.stream /\ d.type = "FundsWithdrawn"
      /\ d.version = Load(c.stream).version + 1 /\ d.amt = c.amt
      /\ e.seq = Len(events) + 2 /\ e.stream = c.to /\ e.type = "FundsDeposited"
      /\ e.version = Load(c.to).version + 1 /\ e.amt = c.amt
  BY <1>1
<1> DEFINE mid == events \o <<d>>
           LoadMid(s) == Fold(s, mid)[Len(mid)]
<1>4. events' = mid \o <<e>>
  <2>1. events' = events \o <<d, e>>
    BY <1>1
  <2>2. events \in Seq(Event)
    BY <1>2
  <2> QED
    BY <2>1, <2>2, AppendInTwo
<1>5. /\ mid \in Seq(Event)
      /\ Len(mid) = Len(events) + 1
      /\ mid[Len(mid)] = d
      /\ \A n \in 1 .. Len(events) : mid[n] = events[n]
      /\ \A s : LoadMid(s) = IF d.stream = s THEN Apply(s, Load(s), d) ELSE Load(s)
      /\ \A n \in 1 .. Len(events) : LegalAt(events, n) => LegalAt(mid, n)
      /\ LegalAt(mid, Len(mid)) <=>
            /\ Decide(d.type, Load(d.stream), d.amt) = "nil"
            /\ d.version = Load(d.stream).version + 1
  BY <1>2, FoldAppend DEF Load
<1> HIDE DEF mid
<1>6. /\ Len(events') = Len(mid) + 1
      /\ events'[Len(events')] = e
      /\ \A n \in 1 .. Len(mid) : events'[n] = mid[n]
      /\ \A s : LoadNext(s) = IF e.stream = s THEN Apply(s, LoadMid(s), e) ELSE LoadMid(s)
      /\ \A n \in 1 .. Len(mid) : LegalAt(mid, n) => LegalAt(events', n)
      /\ LegalAt(events', Len(events')) <=>
            /\ Decide(e.type, LoadMid(e.stream), e.amt) = "nil"
            /\ e.version = LoadMid(e.stream).version + 1
  BY <1>4, <1>5, FoldAppend DEF LoadNext
<1> HIDE DEF LoadMid
<1>7. LoadMid(c.to) = Load(c.to)
  BY <1>1, <1>3, <1>5
<1>8. /\ \A n \in 1 .. Len(events') : n \in 1 .. Len(mid) \/ n = Len(events')
      /\ \A n \in 1 .. Len(mid) : n \in 1 .. Len(events) \/ n = Len(mid)
  BY <1>2, <1>5, <1>6
<1>9. \A n \in 1 .. Len(events') : events'[n].seq = n
  <2>1. \A n \in 1 .. Len(mid) : mid[n].seq = n
    BY <1>2, <1>3, <1>5, <1>8
  <2>2. Len(events') = Len(events) + 2
    BY <1>2, <1>5, <1>6
  <2> QED
    BY <1>3, <1>6, <1>8, <2>1, <2>2
<1>10. \A n \in 1 .. Len(events') : LegalAt(events', n)
  <2>1. Decide(d.type, Load(d.stream), d.amt) = "nil"
    BY <1>1, <1>3 DEF Decide
  <2>2. \A n \in 1 .. Len(mid) : LegalAt(mid, n)
    BY <1>2, <1>3, <1>5, <1>8, <2>1
  <2>3. Decide(e.type, LoadMid(e.stream), e.amt) = "nil"
    BY <1>1, <1>3, <1>7 DEF Decide
  <2>4. LegalAt(events', Len(events'))
    BY <1>3, <1>6, <1>7, <2>3
  <2> QED
    BY <1>6, <1>8, <2>2, <2>4
<1>11. ASSUME NEW s \in Streams
       PROVE  /\ versions'[s] = LoadNext(s).version
              /\ versions'[s] >= versions[s]
              /\ versions'[s] = versions[s] => LoadNext(s) = Load(s)
  <2>1. CASE s = c.stream
    <3>1. LoadNext(s) = LoadMid(s)
      BY <1>1, <1>3, <1>6, <2>1
    <3>2. LoadMid(s).version = d.version
      BY <1>3, <1>5, <2>1, ApplyVersion, SMTT(30)
    <3>3. versions'[s] = versions[s] + 1
      BY <1>1, <2>1
    <3> QED
      BY <1>2, <1>3, <2>1, <3>1, <3>2, <3>3
  <2>2. CASE s = c.to
    <3>1. LoadNext(s).version = e.version
      BY <1>3, <1>6, <2>2, ApplyVersion
    <3>2. versions'[s] = versions[s] + 1
      BY <1>1, <2>2
    <3> QED
      BY <1>2, <1>3, <2>2, <3>1, <3>2
  <2>3. CASE s \notin {c.stream, c.to}
    <3>1. LoadNext(s) = Load(s)
      BY <1>3, <1>5, <1>6, <2>3
    <3>2. versions'[s] = versions[s]
      <4>1. versions'[s] = versions[s] + 0
        BY <1>1, <2>3
      <4>2. versions[s] \in Nat
        BY <1>2
      <4> QED
        BY <4>1, <4>2
    <3> QED
      BY <1>2, <3>1, <3>2
  <2> QED
    BY <2>1, <2>2, <2>3
<1>12. Len(events') \in Nat /\ globalSeq' = Len(events')
  <2>1. Len(events) \in Nat /\ globalSeq = Len(events)
    BY <1>2
  <2>2. globalSeq' = globalSeq + 2
    BY <1>1
  <2>3. Len(mid) = Len(events) + 1
    BY <1>5
  <2>4. Len(events') = Len(mid) + 1
    BY <1>6
  <2> QED
    BY <2>1, <2>2, <2>3, <2>4
<1> QED
  BY <1>9, <1>10, <1>11, <1>12 DEF LogGrows

LEMMA WriteGrowsLog ==
  ASSUME SerialInv, NEW h \in Handlers, call[h].pc = "append",
         AppendWrites(call[h].cmd.key, BatchOf(h))
  PROVE  LogGrows
  BY SingleGrowsLog, TransferGrowsLog

-----------------------------------------------------------------------------
(* SerialInv is inductive when clients only pin versions that exist.       *)

\* A step that leaves the store alone and moves one handler.
LEMMA LocalStepSerial ==
  ASSUME SerialInv, TypeOK', UNCHANGED storeVars, NEW h \in Handlers, NEW r, Becomes(h, r),
         r.pc # "idle" => HandlerConsistent(r)
  PROVE  SerialInv'
<1>1. StoreConsistent' /\ LogIsSerial'
  BY DEF SerialInv, StoreConsistent, LogIsSerial, storeVars, Load
<1>2. ASSUME NEW g \in Handlers, call'[g].pc # "idle"
      PROVE  HandlerConsistent(call[g])'
  <2>1. call'[g] = IF g = h THEN r ELSE call[g]
    BY DEF Becomes, SerialInv, TypeOK
  <2>2. HandlerConsistent(call'[g])
    BY <1>2, <2>1 DEF SerialInv
  <2> QED
    BY <2>2 DEF HandlerConsistent, Snapshot, Load, storeVars
<1> QED
  BY <1>1, <1>2 DEF SerialInv

\* An answer ends the handler's interest in the store.
LEMMA AnswerSerial ==
  ASSUME SerialInv, TypeOK', UNCHANGED storeVars, NEW h \in Handlers, call[h].pc # "idle",
         NEW res, Answers(h, res)
  PROVE  SerialInv'
<1> DEFINE r == [call[h] EXCEPT !.pc = "done", !.result = res]
<1>1. call[h] \in Call /\ HandlerConsistent(call[h])
  BY ActiveCall DEF SerialInv
<1>2. r.pc = "done" /\ r.cmd = call[h].cmd /\ r.pin = call[h].pin
  BY <1>1 DEF Call
<1>3. Becomes(h, r)
  BY DEF Answers
<1> HIDE DEF r
<1>4. HandlerConsistent(r)
  BY <1>1, <1>2 DEF HandlerConsistent
<1> QED
  BY <1>3, <1>4, LocalStepSerial

\* A step that commits an append and moves the handler to r.
LEMMA WriteSerial ==
  ASSUME SerialInv, TypeOK', NEW h \in Handlers, call[h].pc = "append",
         AppendWrites(call[h].cmd.key, BatchOf(h)), NEW r, Becomes(h, r),
         r.pc \in {"publish", "done"}, r.cmd = call[h].cmd, r.pin = call[h].pin
  PROVE  SerialInv'
<1>1. LogGrows
  BY WriteGrowsLog
<1>2. StoreConsistent' /\ LogIsSerial'
  BY <1>1 DEF LogGrows, LoadNext, StoreConsistent, LogIsSerial, Load
<1>3. ASSUME NEW g \in Handlers, call'[g].pc # "idle"
      PROVE  HandlerConsistent(call[g])'
  <2>1. call'[g] = IF g = h THEN r ELSE call[g]
    BY DEF Becomes, SerialInv, TypeOK
  <2>2. call[g].pc # "idle" /\ call'[g].cmd = call[g].cmd /\ call'[g].pin = call[g].pin
    BY <1>3, <2>1
  <2>3. call[g] \in Call /\ HandlerConsistent(call[g])
    BY <2>2, ActiveCall DEF SerialInv
  <2>4. call[g].cmd.stream \in Streams /\ call[g].cmd.to \in Streams
    BY <2>3, CommandParts DEF Call
  <2>5. \A s \in Streams : versions[s] \in Nat /\ versions'[s] \in Nat
    BY DEF SerialInv, TypeOK
  <2>6. call'[g].pin = NoVersionCheck
        \/ (TakesVersion(call'[g].cmd.op) /\ call'[g].pin \in 0 .. versions'[call'[g].cmd.stream])
    <3>1. call[g].pin = NoVersionCheck
          \/ (TakesVersion(call[g].cmd.op) /\ call[g].pin \in 0 .. versions[call[g].cmd.stream])
      BY <2>3 DEF HandlerConsistent
    <3>2. versions'[call[g].cmd.stream] >= versions[call[g].cmd.stream]
      BY <1>1, <2>4 DEF LogGrows
    <3> QED
      BY <2>2, <2>4, <2>5, <3>1, <3>2
  <2>7. CASE g = h
    <3>1. call'[g].pc \notin {"loadTo", "append"}
      BY <2>1, <2>7
    <3>2. call'[g].cmd.op = "Transfer" => call'[g].cmd.stream # call'[g].cmd.to
      BY <2>2, <2>3, <2>7 DEF HandlerConsistent
    <3> QED
      BY <2>6, <3>1, <3>2 DEF HandlerConsistent
  <2>8. CASE g # h
    <3>1. call'[g] = call[g]
      BY <2>1, <2>8
    <3>2. ASSUME NEW s \in Streams, NEW st, Snapshot(s, st)
          PROVE  /\ st \in StateType(s)
                 /\ st.version <= versions'[s]
                 /\ st.version = versions'[s] => st = LoadNext(s)
      <4>1. st.version \in Nat /\ st.version <= versions[s] /\ st \in StateType(s)
        BY <3>2, StateTypeVersion DEF Snapshot
      <4>2. versions'[s] >= versions[s] /\ (versions'[s] = versions[s] => LoadNext(s) = Load(s))
        BY <1>1 DEF LogGrows
      <4>3. st.version <= versions'[s]
        BY <2>5, <4>1, <4>2
      <4>4. st.version = versions'[s] => versions'[s] = versions[s]
        BY <2>5, <4>1, <4>2
      <4> QED
        BY <3>2, <4>1, <4>2, <4>3, <4>4 DEF Snapshot
    <3>3. call[g].pc \in {"loadTo", "append"} => Snapshot(call[g].cmd.stream, call[g].from)
      BY <2>3 DEF HandlerConsistent
    <3>4. call[g].pc = "append" /\ call[g].cmd.op = "Transfer" => Snapshot(call[g].cmd.to, call[g].to)
      BY <2>3 DEF HandlerConsistent
    <3>5. call[g].pc \in {"loadTo", "append"} =>
             /\ call[g].from \in StateType(call[g].cmd.stream)
             /\ call[g].from.version <= versions'[call[g].cmd.stream]
             /\ call[g].from.version = versions'[call[g].cmd.stream] =>
                   call[g].from = LoadNext(call[g].cmd.stream)
      BY <2>4, <3>2, <3>3
    <3>6. call[g].pc = "append" /\ call[g].cmd.op = "Transfer" =>
             /\ call[g].to \in StateType(call[g].cmd.to)
             /\ call[g].to.version <= versions'[call[g].cmd.to]
             /\ call[g].to.version = versions'[call[g].cmd.to] =>
                   call[g].to = LoadNext(call[g].cmd.to)
      BY <2>4, <3>2, <3>4
    <3> QED
      BY <2>3, <2>6, <3>1, <3>5, <3>6 DEF HandlerConsistent, Snapshot, Load, LoadNext
  <2> QED
    BY <2>7, <2>8
<1> QED
  BY <1>2, <1>3 DEF SerialInv

LEMMA LoadSnapshot ==
  ASSUME SerialInv, NEW s \in Streams
  PROVE  /\ Snapshot(s, Load(s))
         /\ Load(s).version = versions[s]
         /\ versions[s] \in Nat
<1>1. Load(s) \in StateType(s)
  BY LoadType DEF SerialInv, TypeOK
<1>2. Load(s).version = versions[s] /\ versions[s] \in Nat
  BY DEF SerialInv, StoreConsistent, TypeOK
<1> QED
  BY <1>1, <1>2 DEF Snapshot

LEMMA SerialInvInit == Init => SerialInv
<1> SUFFICES ASSUME Init PROVE SerialInv
  OBVIOUS
<1>1. TypeOK
  BY TypeInvInit DEF TypeInv
<1>2. events = << >> /\ Len(events) = 0 /\ 1 .. Len(events) = {}
  BY DEF Init, StoreInit
<1>3. \A s : Load(s) = EmptyState(s)
  BY <1>2, FoldStep DEF Load
<1>4. \A s : EmptyState(s).version = 0
  BY DEF EmptyState
<1>5. StoreConsistent /\ LogIsSerial
  BY <1>2, <1>3, <1>4 DEF StoreConsistent, LogIsSerial, Init, StoreInit
<1> QED
  BY <1>1, <1>5 DEF SerialInv, Init, Idle

LEMMA SerialInvStep ==
  ASSUME PinAhead = 0
  PROVE  TypeInv /\ SerialInv /\ [Next]_vars => SerialInv'
<1> SUFFICES ASSUME TypeInv, SerialInv, [Next]_vars PROVE SerialInv'
  OBVIOUS
<1>0. TypeOK'
  BY TypeInvStep DEF TypeInv
<1>1. ASSUME NEW h \in Handlers, NEW c \in Commands, NEW pin \in Pins(c), Receive(h, c, pin)
      PROVE  SerialInv'
  <2> DEFINE refused == c.op = "Transfer" /\ c.stream = c.to
             r == [pc       |-> IF refused THEN "done" ELSE IF c.key = NoKey THEN "load" ELSE "lookup",
                   cmd      |-> c,
                   pin      |-> pin,
                   attempt  |-> 0,
                   from     |-> EmptyState(c.stream),
                   to       |-> EmptyState(c.to),
                   appended |-> <<>>,
                   result   |-> IF refused THEN Failed("ErrSameAccountTransfer") ELSE NoResult,
                   since    |-> Len(events)]
  <2>1. Becomes(h, r) /\ UNCHANGED storeVars
    BY <1>1 DEF Receive
  <2>2. versions[c.stream] \in Nat
    BY CommandParts DEF SerialInv, TypeOK
  <2>3. pin = NoVersionCheck \/ (TakesVersion(c.op) /\ pin \in 0 .. versions[c.stream])
    BY <2>2 DEF Pins
  <2>4. /\ r.pc \in {"done", "load", "lookup"} /\ r.cmd = c /\ r.pin = pin
        /\ r.pc # "done" => (c.op = "Transfer" => c.stream # c.to)
    OBVIOUS
  <2> HIDE DEF r
  <2>5. HandlerConsistent(r)
    BY <2>3, <2>4 DEF HandlerConsistent
  <2> QED
    BY <1>0, <2>1, <2>5, LocalStepSerial
<1>2. ASSUME NEW h \in Handlers, Lookup(h)
      PROVE  SerialInv'
  <2> DEFINE prior == LookupDedupe(call[h].cmd.key)
             r == [call[h] EXCEPT !.pc = "load"]
  <2>1. call[h] \in Call /\ call[h].pc = "lookup" /\ HandlerConsistent(call[h])
    BY <1>2, ActiveCall DEF Lookup, SerialInv
  <2>2. CASE prior.found
    BY <1>0, <1>2, <2>1, <2>2, AnswerSerial DEF Lookup
  <2>3. CASE ~ prior.found
    <3>1. Becomes(h, r) /\ UNCHANGED storeVars
      BY <1>2, <2>3 DEF Lookup
    <3>2. r.pc = "load" /\ r.cmd = call[h].cmd /\ r.pin = call[h].pin
      BY <2>1 DEF Call
    <3> HIDE DEF r
    <3>3. HandlerConsistent(r)
      BY <2>1, <3>2 DEF HandlerConsistent
    <3> QED
      BY <1>0, <3>1, <3>3, LocalStepSerial
  <2> QED
    BY <2>2, <2>3
<1>3. ASSUME NEW h \in Handlers, LoadOne(h)
      PROVE  SerialInv'
  <2> DEFINE c == call[h].cmd
             from == Load(c.stream)
             err == DecideCommand(c, from, call[h].to)
             r == [call[h] EXCEPT !.pc = "append", !.from = from, !.to = call[h].to]
  <2>1. call[h] \in Call /\ call[h].pc = "load" /\ HandlerConsistent(call[h]) /\ c.op # "Transfer"
    BY <1>3, ActiveCall DEF LoadOne, SerialInv
  <2>2. c.stream \in Streams /\ call[h].pin \in Int
    BY <2>1, CommandParts DEF Call
  <2>3. CASE err # "nil"
    BY <1>0, <1>3, <2>1, <2>3, AnswerSerial DEF LoadOne, DecideOn
  <2>4. CASE err = "nil"
    <3>1. Becomes(h, r) /\ UNCHANGED storeVars
      BY <1>3, <2>4 DEF LoadOne, DecideOn
    <3>2. /\ r.pc = "append" /\ r.cmd = c /\ r.pin = call[h].pin
          /\ r.from = from /\ r.to = call[h].to
      BY <2>1 DEF Call
    <3> HIDE DEF r
    <3>3. Snapshot(c.stream, from) /\ from.version = versions[c.stream] /\ versions[c.stream] \in Nat
      BY <2>2, LoadSnapshot
    <3>4. call[h].pin <= from.version
      BY <2>1, <2>2, <3>3 DEF HandlerConsistent, NoVersionCheck
    <3> HIDE DEF from
    <3>5. HandlerConsistent(r)
      BY <2>1, <2>4, <3>2, <3>3, <3>4 DEF HandlerConsistent
    <3> QED
      BY <1>0, <3>1, <3>5, LocalStepSerial
  <2> QED
    BY <2>3, <2>4
<1>4. ASSUME NEW h \in Handlers, LoadFrom(h)
      PROVE  SerialInv'
  <2> DEFINE c == call[h].cmd
             r == [call[h] EXCEPT !.pc = "loadTo", !.from = Load(c.stream)]
  <2>1. call[h] \in Call /\ call[h].pc = "load" /\ HandlerConsistent(call[h]) /\ c.op = "Transfer"
    BY <1>4, ActiveCall DEF LoadFrom, SerialInv
  <2>2. Snapshot(c.stream, Load(c.stream))
    BY <2>1, CommandParts, LoadSnapshot DEF Call
  <2>3. Becomes(h, r) /\ UNCHANGED storeVars
    BY <1>4 DEF LoadFrom
  <2>4. r.pc = "loadTo" /\ r.cmd = c /\ r.pin = call[h].pin /\ r.from = Load(c.stream)
    BY <2>1 DEF Call
  <2> HIDE DEF r
  <2>5. HandlerConsistent(r)
    BY <2>1, <2>2, <2>4 DEF HandlerConsistent
  <2> QED
    BY <1>0, <2>3, <2>5, LocalStepSerial
<1>5. ASSUME NEW h \in Handlers, LoadTo(h)
      PROVE  SerialInv'
  <2> DEFINE c == call[h].cmd
             to == Load(c.to)
             err == DecideCommand(c, call[h].from, to)
             r == [call[h] EXCEPT !.pc = "append", !.from = call[h].from, !.to = to]
  <2>1. call[h] \in Call /\ call[h].pc = "loadTo" /\ HandlerConsistent(call[h]) /\ c.op = "Transfer"
    BY <1>5, ActiveCall DEF LoadTo, SerialInv, HandlerConsistent
  <2>2. CASE err # "nil"
    BY <1>0, <1>5, <2>1, <2>2, AnswerSerial DEF LoadTo, DecideOn
  <2>3. CASE err = "nil"
    <3>1. Becomes(h, r) /\ UNCHANGED storeVars
      BY <1>5, <2>3 DEF LoadTo, DecideOn
    <3>2. /\ r.pc = "append" /\ r.cmd = c /\ r.pin = call[h].pin
          /\ r.from = call[h].from /\ r.to = to
      BY <2>1 DEF Call
    <3> HIDE DEF r
    <3>3. Snapshot(c.to, to)
      BY <2>1, CommandParts, LoadSnapshot DEF Call
    <3>4. Snapshot(c.stream, call[h].from) /\ call[h].pin = NoVersionCheck
      BY <2>1 DEF HandlerConsistent, TakesVersion
    <3>5. call[h].pin <= call[h].from.version
      BY <3>4, StateTypeVersion DEF Snapshot, NoVersionCheck
    <3> HIDE DEF to
    <3>6. HandlerConsistent(r)
      BY <2>1, <2>3, <3>2, <3>3, <3>4, <3>5 DEF HandlerConsistent
    <3> QED
      BY <1>0, <3>1, <3>6, LocalStepSerial
  <2> QED
    BY <2>2, <2>3
<1>6. ASSUME NEW h \in Handlers, AppendDuplicate(h)
      PROVE  SerialInv'
  BY <1>0, <1>6, AnswerSerial DEF AppendDuplicate
<1>7. ASSUME NEW h \in Handlers, AppendConflict(h)
      PROVE  SerialInv'
  <2> DEFINE again == call[h].attempt < MaxAttempts(call[h].cmd, call[h].pin) - 1
             r == [call[h] EXCEPT !.pc = "load", !.attempt = @ + 1]
  <2>1. call[h] \in Call /\ call[h].pc = "append" /\ HandlerConsistent(call[h])
    BY <1>7, ActiveCall DEF AppendConflict, SerialInv
  <2>2. CASE again
    <3>1. Becomes(h, r) /\ UNCHANGED storeVars
      BY <1>7, <2>2 DEF AppendConflict
    <3>2. r.pc = "load" /\ r.cmd = call[h].cmd /\ r.pin = call[h].pin
      BY <2>1 DEF Call
    <3> HIDE DEF r
    <3>3. HandlerConsistent(r)
      BY <2>1, <3>2 DEF HandlerConsistent
    <3> QED
      BY <1>0, <3>1, <3>3, LocalStepSerial
  <2>3. CASE ~ again
    BY <1>0, <1>7, <2>1, <2>3, AnswerSerial DEF AppendConflict
  <2> QED
    BY <2>2, <2>3
<1>8. ASSUME NEW h \in Handlers, AppendCommit(h)
      PROVE  SerialInv'
  <2> DEFINE r == [call[h] EXCEPT !.pc = "publish",
                                  !.appended = Produced(call[h].cmd.key, BatchOf(h))]
  <2>1. call[h] \in Call /\ call[h].pc = "append"
    BY <1>8, ActiveCall DEF AppendCommit, SerialInv
  <2>2. Becomes(h, r) /\ AppendWrites(call[h].cmd.key, BatchOf(h))
    BY <1>8 DEF AppendCommit
  <2>3. r.pc = "publish" /\ r.cmd = call[h].cmd /\ r.pin = call[h].pin
    BY <2>1 DEF Call
  <2> HIDE DEF r
  <2> QED
    BY <1>0, <2>1, <2>2, <2>3, WriteSerial
<1>9. ASSUME NEW h \in Handlers, Publish(h)
      PROVE  SerialInv'
  BY <1>0, <1>9, AnswerSerial DEF Publish
<1>10. ASSUME NEW h \in Handlers, Respond(h)
       PROVE  SerialInv'
  BY <1>0, <1>10, LocalStepSerial DEF Respond, Idle
<1>11. ASSUME NEW h \in Handlers, StoreFails(h)
       PROVE  SerialInv'
  BY <1>0, <1>11, AnswerSerial DEF StoreFails
<1>12. ASSUME NEW h \in Handlers, AppendAckLost(h)
       PROVE  SerialInv'
  <2> DEFINE r == [call[h] EXCEPT !.pc = "done", !.result = Failed("Internal")]
  <2>1. call[h] \in Call /\ call[h].pc = "append"
    BY <1>12, ActiveCall DEF AppendAckLost, SerialInv
  <2>2. Becomes(h, r) /\ AppendWrites(call[h].cmd.key, BatchOf(h))
    BY <1>12 DEF AppendAckLost, Answers
  <2>3. r.pc = "done" /\ r.cmd = call[h].cmd /\ r.pin = call[h].pin
    BY <2>1 DEF Call
  <2> HIDE DEF r
  <2> QED
    BY <1>0, <2>1, <2>2, <2>3, WriteSerial
<1>13. CASE Crash
  BY <1>0, <1>13 DEF Crash, SerialInv, StoreConsistent, LogIsSerial, Load, storeVars, Idle
<1>14. CASE UNCHANGED vars
  <2>1. UNCHANGED storeVars /\ UNCHANGED call
    BY <1>14 DEF vars
  <2> QED
    BY <1>0, <2>1 DEF storeVars, SerialInv, StoreConsistent, LogIsSerial, Load, HandlerConsistent, Snapshot
<1> QED
  BY <1>1, <1>2, <1>3, <1>4, <1>5, <1>6, <1>7, <1>8, <1>9, <1>10, <1>11, <1>12, <1>13, <1>14
  DEF Next, HandlerStep

\* Optimistic concurrency is sound: as long as clients only pin versions that exist,
\* the log is a serial history of decisions each taken on the state it changed, for
\* any number of handlers, with crashes and lost answers.
THEOREM SerialLog ==
  ASSUME PinAhead = 0
  PROVE  Spec => []LogIsSerial
<1>1. Init => TypeInv /\ SerialInv
  BY TypeInvInit, SerialInvInit
<1>2. TypeInv /\ SerialInv /\ [Next]_vars => TypeInv' /\ SerialInv'
  BY TypeInvStep, SerialInvStep
<1>3. SerialInv => LogIsSerial
  BY DEF SerialInv
<1> QED
  BY <1>1, <1>2, <1>3, PTL DEF Spec

\* No balance and no stock level is ever negative unless a credit overflowed.
THEOREM Solvency ==
  ASSUME PinAhead = 0
  PROVE  Spec => []Solvent
<1>1. Init => TypeInv /\ SerialInv
  BY TypeInvInit, SerialInvInit
<1>2. TypeInv /\ SerialInv /\ [Next]_vars => TypeInv' /\ SerialInv'
  BY TypeInvStep, SerialInvStep
<1>3. SerialInv => Solvent
  <2> SUFFICES ASSUME SerialInv, NoOverflow, NEW s \in Streams
               PROVE  NonNegative(s, Load(s))
    BY DEF Solvent
  <2>1. events \in Seq(Event)
    BY DEF SerialInv, TypeOK
  <2>2. Len(events) \in Nat /\ Len(events) \in 0 .. Len(events)
        /\ \A n \in 1 .. Len(events) : Decodable(events[n])
    BY <2>1, EventsDecodable
  <2>3. \A n \in 1 .. Len(events) : LegalAt(events, n) /\ ~ OverflowsAt(events, n)
    BY DEF SerialInv, LogIsSerial, NoOverflow
  <2> QED
    BY <2>2, <2>3, SerialLogIsSolvent DEF Load
<1> QED
  BY <1>1, <1>2, <1>3, PTL DEF Spec

-----------------------------------------------------------------------------
(* The instance's copies of the rules are the rules.                       *)

LEMMA AtomicFold == \A s, log : Atomic!Fold(s, log) = Fold(s, log)
  BY DEF Atomic!Fold, Atomic!EmptyState, Atomic!Apply, Atomic!ApplyAccount, Atomic!ApplyInventory,
     Atomic!Wrap, Fold, EmptyState, Apply, ApplyAccount, ApplyInventory, Wrap

LEMMA AtomicStateOf == \A s : Atomic!StateOf(s) = Load(s)
  BY AtomicFold DEF Atomic!StateOf, Load

LEMMA AtomicDecide ==
  /\ \A type, st, amt : Atomic!Decide(type, st, amt) = Decide(type, st, amt)
  /\ \A st, amt : Atomic!DecideWithdraw(st, amt) = DecideWithdraw(st, amt)
  /\ \A st, amt : Atomic!DecideDeposit(st, amt) = DecideDeposit(st, amt)
  BY DEF Atomic!Decide, Atomic!DecideOpenAccount, Atomic!DecideDeposit, Atomic!DecideWithdraw,
     Atomic!DecideAdjustInventory, Atomic!DecideReserveStock, Atomic!DecideReleaseStock, Atomic!Wrap,
     Decide, DecideOpenAccount, DecideDeposit, DecideWithdraw, DecideAdjustInventory,
     DecideReserveStock, DecideReleaseStock, Wrap

-----------------------------------------------------------------------------
(* Committing an append is one step of the atomic ledger.                  *)

\* The refinement mapping of AtomicLedger's variable used.
Used == {k \in Keys : dedupe[k].found}

LEMMA WriteMarksKey ==
  ASSUME TypeOK, NEW c \in Commands, NEW batch, AppendWrites(c.key, batch)
  PROVE  /\ c.key \notin Used
         /\ Used' = IF c.key = NoKey THEN Used ELSE Used \cup {c.key}
<1>1. c.key \in Keys \cup {NoKey}
  BY CommandParts
<1>2. c.key \notin Used
  BY <1>1, NoKeyAssumption DEF AppendWrites, AppendIsDuplicate, Used
<1>3. CASE c.key = NoKey
  BY <1>2, <1>3 DEF AppendWrites, Used
<1>4. CASE c.key \in Keys
  <2>1. \A k \in Keys : dedupe'[k].found <=> (k = c.key \/ dedupe[k].found)
    BY <1>4, NoKeyAssumption DEF AppendWrites, TypeOK
  <2>2. c.key # NoKey
    BY <1>4, NoKeyAssumption
  <2> QED
    BY <1>2, <1>4, <2>1, <2>2 DEF Used
<1> QED
  BY <1>1, <1>3, <1>4

LEMMA WriteIsExecute ==
  ASSUME SerialInv, NEW h \in Handlers, call[h].pc = "append",
         AppendWrites(call[h].cmd.key, BatchOf(h))
  PROVE  Atomic!Next
<1>0. PICK c \in Commands : c = call[h].cmd
  BY ActiveCall DEF SerialInv, Call
<1>1. c.op \in AccountOps \cup ItemOps
  BY CommandParts
<1>2. c.key \notin Used /\ Used' = IF c.key = NoKey THEN Used ELSE Used \cup {c.key}
  BY <1>0, WriteMarksKey DEF SerialInv
<1>3. CASE c.op # "Transfer"
  <2>1. PICK e \in Event :
          /\ e = [seq |-> Len(events) + 1, stream |-> c.stream, version |-> Load(c.stream).version + 1,
                  type |-> EventTypeOf(c.op), amt |-> c.amt, key |-> c.key]
          /\ Decide(e.type, Load(c.stream), c.amt) = "nil"
          /\ events' = events \o <<e>>
    BY <1>0, <1>3, CommitSingle
  <2>2. e = Atomic!NewEvent(c.stream, EventTypeOf(c.op), c.amt, c.key, 1)
    BY <2>1, AtomicStateOf DEF Atomic!NewEvent
  <2>3. Atomic!Single(c, EventTypeOf(c.op))
    BY <2>1, <2>2, AtomicStateOf, AtomicDecide DEF Atomic!Single
  <2>4. Atomic!Execute(c)
    BY <1>1, <1>2, <1>3, <2>3 DEF Atomic!Execute, Used, EventTypeOf, AccountOps, ItemOps
  <2> QED
    BY <2>4 DEF Atomic!Next
<1>4. CASE c.op = "Transfer"
  <2>1. PICK d \in Event, e \in Event :
          /\ d = [seq |-> Len(events) + 1, stream |-> c.stream, version |-> Load(c.stream).version + 1,
                  type |-> "FundsWithdrawn", amt |-> c.amt, key |-> c.key]
          /\ e = [seq |-> Len(events) + 2, stream |-> c.to, version |-> Load(c.to).version + 1,
                  type |-> "FundsDeposited", amt |-> c.amt, key |-> c.key]
          /\ c.stream # c.to
          /\ DecideWithdraw(Load(c.stream), c.amt) = "nil"
          /\ DecideDeposit(Load(c.to), c.amt) = "nil"
          /\ events' = events \o <<d, e>>
    BY <1>0, <1>4, CommitTransfer
  <2>2. /\ d = Atomic!NewEvent(c.stream, "FundsWithdrawn", c.amt, c.key, 1)
        /\ e = Atomic!NewEvent(c.to, "FundsDeposited", c.amt, c.key, 2)
    BY <2>1, AtomicStateOf DEF Atomic!NewEvent
  <2>3. Atomic!Transfer(c)
    BY <2>1, <2>2, AtomicStateOf, AtomicDecide DEF Atomic!Transfer
  <2>4. Atomic!Execute(c)
    BY <1>2, <1>4, <2>3 DEF Atomic!Execute, Used
  <2> QED
    BY <2>4 DEF Atomic!Next
<1> QED
  BY <1>3, <1>4

\* Every other step leaves the atomic ledger where it is.
LEMMA StepIsExecuteOrStutter ==
  ASSUME SerialInv, [Next]_vars
  PROVE  Atomic!Next \/ UNCHANGED <<events, Used>>
<1>1. ASSUME UNCHANGED storeVars PROVE UNCHANGED <<events, Used>>
  BY <1>1 DEF storeVars, Used
<1>2. CASE \E h \in Handlers : \E c \in Commands : \E pin \in Pins(c) : Receive(h, c, pin)
  BY <1>1, <1>2 DEF Receive
<1>3. ASSUME NEW h \in Handlers, HandlerStep(h)
      PROVE  Atomic!Next \/ UNCHANGED <<events, Used>>
  <2>1. CASE AppendCommit(h)
    BY <2>1, WriteIsExecute DEF AppendCommit
  <2>2. CASE ~ AppendCommit(h)
    <3>1. UNCHANGED storeVars
      BY <1>3, <2>2 DEF HandlerStep, Lookup, LoadOne, LoadFrom, LoadTo, AppendDuplicate,
         AppendConflict, Publish, Respond
    <3> QED
      BY <1>1, <3>1
  <2> QED
    BY <2>1, <2>2
<1>4. ASSUME NEW h \in Handlers, StoreFails(h)
      PROVE  UNCHANGED <<events, Used>>
  BY <1>1, <1>4 DEF StoreFails
<1>5. ASSUME NEW h \in Handlers, AppendAckLost(h)
      PROVE  Atomic!Next
  BY <1>5, WriteIsExecute DEF AppendAckLost
<1>6. CASE Crash
  BY <1>1, <1>6 DEF Crash
<1>7. CASE UNCHANGED vars
  BY <1>1, <1>7 DEF vars
<1> QED
  BY <1>2, <1>3, <1>4, <1>5, <1>6, <1>7 DEF Next

\* The command layer is linearizable: whatever its handlers, retries, crashes and lost
\* answers do, the log and the used keys move like an atomic ledger's, with the store's
\* Append as the linearization point and both legs of a transfer in one step.
THEOREM Linearizable ==
  ASSUME PinAhead = 0
  PROVE  Spec => ImplementsAtomicLedger
<1>1. Init => TypeInv /\ SerialInv
  BY TypeInvInit, SerialInvInit
<1>2. TypeInv /\ SerialInv /\ [Next]_vars => TypeInv' /\ SerialInv'
  BY TypeInvStep, SerialInvStep
<1>3. Init => Atomic!Init
  BY DEF Init, StoreInit, NotFound, Atomic!Init
<1>4. SerialInv /\ [Next]_vars => [Atomic!Next]_<<events, Used>>
  BY StepIsExecuteOrStutter
<1> QED
  BY <1>1, <1>2, <1>3, <1>4, PTL DEF Spec, ImplementsAtomicLedger, Atomic!Spec, Used

-----------------------------------------------------------------------------
(* Idempotency.                                                            *)

LEMMA WriteKeepsOneEffect ==
  ASSUME TypeInv, OneEffectPerKey, NEW h \in Handlers, call[h].pc = "append",
         AppendWrites(call[h].cmd.key, BatchOf(h))
  PROVE  OneEffectPerKey'
<1> DEFINE key == call[h].cmd.key
           P == Produced(key, BatchOf(h))
<1>1. call[h] \in Call /\ TypeOK
  BY ActiveCall DEF TypeInv
<1>2. P \in Seq(Event) /\ Len(P) = Len(BatchOf(h))
  BY <1>1, ProducedType DEF TypeInv, CallShapes, Shape
<1>3. \A i \in 1 .. Len(P) : P[i].key = key
  BY <1>2 DEF Produced
<1>4. key \in Keys \cup {NoKey}
  BY <1>1, CommandParts DEF Call
<1>5. /\ events' = events \o P
      /\ dedupe' = IF key = NoKey THEN dedupe
                   ELSE [dedupe EXCEPT ![key] = [found |-> TRUE, events |-> P]]
      /\ ~ (key # NoKey /\ dedupe[key].found)
  BY DEF AppendWrites, AppendIsDuplicate
<1> HIDE DEF P, key
<1>6. events \in Seq(Event)
  BY <1>1 DEF TypeOK
<1>7. ASSUME NEW k \in Keys, NEW n \in 1 .. Len(events'), events'[n].key = k
      PROVE  /\ dedupe'[k].found
             /\ \E m \in 1 .. Len(dedupe'[k].events) : dedupe'[k].events[m] = events'[n]
  <2>1. CASE n \in 1 .. Len(events)
    <3>1. events'[n] = events[n]
      BY <1>2, <1>5, <1>6, <2>1
    <3>2. /\ dedupe[k].found
          /\ \E m \in 1 .. Len(dedupe[k].events) : dedupe[k].events[m] = events[n]
      BY <1>7, <2>1, <3>1 DEF OneEffectPerKey
    <3>3. dedupe'[k] = dedupe[k]
      BY <1>1, <1>5, <3>2, NoKeyAssumption DEF TypeOK
    <3> QED
      BY <3>1, <3>2, <3>3
  <2>2. CASE n \notin 1 .. Len(events)
    <3>1. n - Len(events) \in 1 .. Len(P) /\ events'[n] = P[n - Len(events)]
      BY <1>2, <1>5, <1>6, <2>2
    <3>2. k = key /\ key # NoKey
      BY <1>3, <1>7, <3>1, NoKeyAssumption
    <3>3. dedupe'[k] = [found |-> TRUE, events |-> P]
      BY <1>1, <1>5, <3>2 DEF TypeOK
    <3> QED
      BY <3>1, <3>3
  <2> QED
    BY <2>1, <2>2
<1> QED
  BY <1>7 DEF OneEffectPerKey

\* However often a keyed command is sent, raced by its copies, cut off by a crash or
\* answered with an error after it committed, all events with its key stem from the
\* one append the dedupe entry remembers. This needs no assumption about pins.
THEOREM Idempotent == Spec => []OneEffectPerKey
<1>1. Init => TypeInv /\ OneEffectPerKey
  <2> SUFFICES ASSUME Init PROVE OneEffectPerKey
    BY TypeInvInit
  <2>1. 1 .. Len(events) = {}
    BY DEF Init, StoreInit
  <2> QED
    BY <2>1 DEF OneEffectPerKey
<1>2. TypeInv /\ OneEffectPerKey /\ [Next]_vars => TypeInv' /\ OneEffectPerKey'
  <2> SUFFICES ASSUME TypeInv, OneEffectPerKey, [Next]_vars PROVE OneEffectPerKey'
    BY TypeInvStep
  <2>1. ASSUME UNCHANGED storeVars PROVE OneEffectPerKey'
    BY <2>1 DEF storeVars, OneEffectPerKey
  <2>2. CASE \E h \in Handlers : \E c \in Commands : \E pin \in Pins(c) : Receive(h, c, pin)
    BY <2>1, <2>2 DEF Receive
  <2>3. ASSUME NEW h \in Handlers, HandlerStep(h)
        PROVE  OneEffectPerKey'
    <3>1. CASE AppendCommit(h)
      BY <3>1, WriteKeepsOneEffect DEF AppendCommit
    <3>2. CASE ~ AppendCommit(h)
      <4>1. UNCHANGED storeVars
        BY <2>3, <3>2 DEF HandlerStep, Lookup, LoadOne, LoadFrom, LoadTo, AppendDuplicate,
           AppendConflict, Publish, Respond
      <4> QED
        BY <2>1, <4>1
    <3> QED
      BY <3>1, <3>2
  <2>4. ASSUME NEW h \in Handlers, StoreFails(h) \/ AppendAckLost(h)
        PROVE  OneEffectPerKey'
    BY <2>1, <2>4, WriteKeepsOneEffect DEF StoreFails, AppendAckLost
  <2>5. CASE Crash \/ UNCHANGED vars
    BY <2>1, <2>5 DEF Crash, vars
  <2> QED
    BY <2>2, <2>3, <2>4, <2>5 DEF Next
<1> QED
  BY <1>1, <1>2, PTL DEF Spec
=============================================================================
