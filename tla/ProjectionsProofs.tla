------------------------- MODULE ProjectionsProofs -------------------------
(***************************************************************************)
(* The projectors over the in-memory read model, for any number of         *)
(* writers, commands, redeliveries and faults: an event is applied at most *)
(* once, in log order, and as long as deliveries cannot overtake each      *)
(* other every view is the ledger's own fold up to the checkpoint.         *)
(***************************************************************************)
EXTENDS Projections, LedgerRulesProofs, SequenceTheorems

-----------------------------------------------------------------------------
(* The log grows by events of the right shape.                             *)

\* The instance's copies of the rules are the rules.
LEMMA LogFold == \A s, log : Log!Fold(s, log) = Fold(s, log)
  BY DEF Log!Fold, Log!EmptyState, Log!Apply, Log!ApplyAccount, Log!ApplyInventory,
     Log!Wrap, Fold, EmptyState, Apply, ApplyAccount, ApplyInventory, Wrap

\* The state a command decides on.
LEMMA LogStateType ==
  ASSUME LogInv, NEW s
  PROVE  Log!StateOf(s) \in StateType(s) /\ Log!StateOf(s).version \in Nat
<1>1. Len(events) \in Nat /\ Len(events) \in 0 .. Len(events)
  BY DEF LogInv
<1>2. Fold(s, events)[Len(events)] \in StateType(s)
  BY <1>1, FoldType DEF LogInv
<1>3. Log!StateOf(s) = Fold(s, events)[Len(events)]
  BY LogFold DEF Log!StateOf
<1> QED
  BY <1>2, <1>3 DEF StateType, AccountState, InventoryState

\* Whether an event type fits the kind of a stream.
Fits(type, s) == type \in (IF s \in Accounts THEN AccountEventTypes ELSE ItemEventTypes)

LEMMA NewEventLogged ==
  ASSUME LogInv, NEW c \in Commands, NEW s \in Streams, NEW type, Fits(type, s), NEW i \in Nat
  PROVE  LET e == Log!NewEvent(s, type, c.amt, c.key, i) IN
         /\ e \in LoggedEvent
         /\ e.seq = Len(events) + i
         /\ Decodable(e)
<1> DEFINE e == Log!NewEvent(s, type, c.amt, c.key, i)
           v == Log!StateOf(s).version + 1
<1>1. v \in Nat
  BY LogStateType
<1>2. c.amt \in Int64 /\ c.key \in {d.key : d \in Commands}
  BY CommandsAssumption DEF WellFormed
<1>3. Len(events) + i \in Nat
  BY DEF LogInv
<1>4. type \in AccountEventTypes \cup ItemEventTypes
  BY DEF Fits
<1>5. e = [seq |-> Len(events) + i, stream |-> s, version |-> v, type |-> type, amt |-> c.amt, key |-> c.key]
  BY DEF Log!NewEvent
<1> HIDE DEF e, v
<1>6. e \in LoggedEvent
  BY <1>1, <1>2, <1>3, <1>4, <1>5 DEF LoggedEvent
<1>7. Decodable(e)
  BY <1>1, <1>2, <1>5 DEF Decodable, Fits
<1> QED
  BY <1>5, <1>6, <1>7 DEF e

\* A command adds one or two new events at the end of the log.
LEMMA ExecuteAppends ==
  ASSUME LogInv, NEW c \in Commands, Log!Execute(c)
  PROVE  \E new \in Seq(LoggedEvent) :
            /\ events' = events \o new
            /\ Len(new) > 0
            /\ \A i \in 1 .. Len(new) : new[i].seq = Len(events) + i /\ Decodable(new[i])
<1>0. WellFormed(c) /\ Accounts \cap Items = {} /\ Streams = Accounts \cup Items
  BY CommandsAssumption, KindsAssumption, StreamsAssumption
<1>1. ASSUME NEW type, Log!Single(c, type), c.stream \in Streams, Fits(type, c.stream)
      PROVE  \E new \in Seq(LoggedEvent) :
                /\ events' = events \o new
                /\ Len(new) > 0
                /\ \A i \in 1 .. Len(new) : new[i].seq = Len(events) + i /\ Decodable(new[i])
  <2>1. PICK e \in LoggedEvent : /\ e = Log!NewEvent(c.stream, type, c.amt, c.key, 1)
                                 /\ e.seq = Len(events) + 1 /\ Decodable(e)
    BY <1>1, NewEventLogged
  <2>2. events' = events \o <<e>>
    BY <1>1, <2>1 DEF Log!Single
  <2> DEFINE new == <<e>>
  <2>3. new \in Seq(LoggedEvent) /\ Len(new) = 1 /\ new[1] = e
    OBVIOUS
  <2> HIDE DEF new
  <2>4. \A i \in 1 .. Len(new) : new[i].seq = Len(events) + i /\ Decodable(new[i])
    BY <2>1, <2>3
  <2>5. events' = events \o new /\ Len(new) > 0
    BY <2>2, <2>3 DEF new
  <2> QED
    BY <2>3, <2>4, <2>5
<1>2. CASE Log!Transfer(c) /\ c.op = "Transfer"
  <2>0. /\ c.stream \in Streams /\ c.to \in Streams
        /\ Fits("FundsWithdrawn", c.stream) /\ Fits("FundsDeposited", c.to)
    <3>1. c.stream \in Accounts /\ c.to \in Accounts
      BY <1>0, <1>2 DEF WellFormed, ItemOps
    <3> QED
      BY <1>0, <3>1 DEF Fits, AccountEventTypes
  <2>1. PICK d \in LoggedEvent : /\ d = Log!NewEvent(c.stream, "FundsWithdrawn", c.amt, c.key, 1)
                                 /\ d.seq = Len(events) + 1 /\ Decodable(d)
    BY <2>0, NewEventLogged
  <2>2. PICK e \in LoggedEvent : /\ e = Log!NewEvent(c.to, "FundsDeposited", c.amt, c.key, 2)
                                 /\ e.seq = Len(events) + 2 /\ Decodable(e)
    BY <2>0, NewEventLogged
  <2>3. events' = events \o <<d, e>>
    BY <1>2, <2>1, <2>2 DEF Log!Transfer
  <2> DEFINE new == <<d, e>>
  <2>4. new \in Seq(LoggedEvent) /\ Len(new) = 2 /\ new[1] = d /\ new[2] = e
    OBVIOUS
  <2> HIDE DEF new
  <2>5. \A i \in 1 .. Len(new) : new[i].seq = Len(events) + i /\ Decodable(new[i])
    BY <2>1, <2>2, <2>4
  <2>6. events' = events \o new /\ Len(new) > 0
    BY <2>3, <2>4 DEF new
  <2> QED
    BY <2>4, <2>5, <2>6
<1>3. CASE c.op \in AccountOps \ {"Transfer"}
  <2>1. c.stream \in Accounts
    BY <1>0, <1>3 DEF WellFormed, ItemOps, AccountOps
  <2>2. \E type \in AccountEventTypes : Log!Single(c, type)
    BY <1>3 DEF Log!Execute, AccountOps, AccountEventTypes
  <2> QED
    BY <1>0, <1>1, <2>1, <2>2 DEF Fits
<1>4. CASE c.op \in ItemOps
  <2>1. c.stream \in Items /\ c.stream \notin Accounts
    BY <1>0, <1>4 DEF WellFormed, ItemOps, AccountOps
  <2>2. \E type \in ItemEventTypes : Log!Single(c, type)
    BY <1>4 DEF Log!Execute, ItemOps, ItemEventTypes
  <2> QED
    BY <1>0, <1>1, <2>1, <2>2 DEF Fits
<1>5. c.op = "Transfer" => Log!Transfer(c)
  BY DEF Log!Execute
<1> QED
  BY <1>0, <1>2, <1>3, <1>4, <1>5 DEF WellFormed, AccountOps

\* What a command leaves of the log, and what it adds.
LEMMA LogGrows ==
  ASSUME LogInv, NEW c \in Commands, Log!Execute(c)
  PROVE  /\ LogInv'
         /\ Len(events) \in Nat /\ Len(events') \in Nat /\ Len(events') > Len(events)
         /\ \A n \in 1 .. Len(events) : events'[n] = events[n]
<1>1. PICK new \in Seq(LoggedEvent) :
            /\ events' = events \o new
            /\ Len(new) > 0
            /\ \A i \in 1 .. Len(new) : new[i].seq = Len(events) + i /\ Decodable(new[i])
  BY ExecuteAppends
<1>2. events \in Seq(LoggedEvent) /\ Len(events) \in Nat /\ Len(new) \in Nat
  BY DEF LogInv
<1>3. /\ events' \in Seq(LoggedEvent)
      /\ Len(events') = Len(events) + Len(new)
      /\ \A n \in 1 .. Len(events) : events'[n] = events[n]
      /\ \A n \in (Len(events) + 1) .. Len(events') : events'[n] = new[n - Len(events)]
  BY <1>1, <1>2
<1>4. ASSUME NEW n \in 1 .. Len(events') PROVE events'[n].seq = n /\ Decodable(events'[n])
  <2>1. CASE n \in 1 .. Len(events)
    BY <1>3, <2>1 DEF LogInv
  <2>2. CASE n \in (Len(events) + 1) .. Len(events')
    <3>1. n - Len(events) \in 1 .. Len(new)
      BY <1>2, <1>3, <2>2
    <3>2. new[n - Len(events)].seq = Len(events) + (n - Len(events)) /\ Decodable(new[n - Len(events)])
      BY <1>1, <3>1
    <3> QED
      BY <1>2, <1>3, <2>2, <3>2
  <2> QED
    BY <1>2, <1>3, <2>1, <2>2
<1>5. LogInv'
  BY <1>3, <1>4 DEF LogInv
<1> QED
  BY <1>1, <1>2, <1>3, <1>5

-----------------------------------------------------------------------------
(* Applying one event of the log.                                          *)

\* The log only grows.
Grows ==
    /\ Len(events) \in Nat /\ Len(events') \in Nat /\ Len(events) <= Len(events')
    /\ \A n \in 1 .. Len(events) : events'[n] = events[n]

LEMMA InLogStays ==
  ASSUME Grows, NEW e, InLog(e)
  PROVE  InLog(e)'
<1>1. e.seq \in 1 .. Len(events) /\ e = events[e.seq]
  BY DEF InLog
<1>2. e.seq \in 1 .. Len(events')
  BY <1>1 DEF Grows
<1> QED
  BY <1>1, <1>2 DEF InLog, Grows

LEMMA LogKept ==
  ASSUME LogInv, UNCHANGED events
  PROVE  LogInv' /\ Grows
<1>1. Len(events) \in Nat
  BY DEF LogInv
<1> QED
  BY <1>1 DEF LogInv, Grows

\* One more, larger number at the end of an increasing sequence.
LEMMA IncreasingAppend ==
  ASSUME NEW q \in Seq(Nat), NEW top \in Nat, NEW n \in Nat, n > top,
         \A i, j \in 1 .. Len(q) : i < j => q[i] < q[j],
         \A i \in 1 .. Len(q) : q[i] <= top
  PROVE  /\ Append(q, n) \in Seq(Nat)
         /\ \A i, j \in 1 .. Len(Append(q, n)) : i < j => Append(q, n)[i] < Append(q, n)[j]
         /\ \A i \in 1 .. Len(Append(q, n)) : Append(q, n)[i] <= n
<1> DEFINE r == Append(q, n)
<1>1. /\ r \in Seq(Nat) /\ Len(q) \in Nat /\ Len(r) = Len(q) + 1 /\ r[Len(q) + 1] = n
      /\ \A i \in 1 .. Len(q) : r[i] = q[i] /\ q[i] \in Nat
  BY AppendProperties
<1> HIDE DEF r
<1>2. \A i \in 1 .. Len(q) : r[i] < n
  <2> TAKE i \in 1 .. Len(q)
  <2>1. r[i] = q[i] /\ q[i] \in Nat /\ q[i] <= top
    BY <1>1
  <2> QED
    BY <2>1
<1>3. ASSUME NEW i \in 1 .. Len(r), NEW j \in 1 .. Len(r), i < j PROVE r[i] < r[j]
  <2>1. i \in 1 .. Len(q)
    BY <1>1, <1>3
  <2>2. CASE j \in 1 .. Len(q)
    BY <1>1, <1>3, <2>1, <2>2
  <2>3. CASE j = Len(q) + 1
    BY <1>1, <1>2, <2>1, <2>3
  <2> QED
    BY <1>1, <2>2, <2>3
<1>4. \A i \in 1 .. Len(r) : r[i] <= n
  <2> TAKE i \in 1 .. Len(r)
  <2>1. i \in 1 .. Len(q) \/ i = Len(q) + 1
    BY <1>1
  <2> QED
    BY <1>1, <1>2, <2>1
<1> QED
  BY <1>1, <1>3, <1>4 DEF r

\* ApplyEvent leaves no trace of an event at or below the checkpoint, and otherwise moves
\* the checkpoint to it and folds it into the one view it belongs to.
LEMMA ApplyEventEffect ==
  ASSUME ViewsInv, NEW p \in Projectors, NEW e \in LoggedEvent, ApplyEvent(p, e)
  PROVE  /\ checkpoint' \in [Projectors -> Nat]
         /\ checkpoint'[p] = IF e.seq <= checkpoint[p] THEN checkpoint[p] ELSE e.seq
         /\ checkpoint'[p] >= checkpoint[p] /\ checkpoint'[p] >= e.seq
         /\ \A q \in Projectors : q # p => checkpoint'[q] = checkpoint[q]
         /\ views' = [s \in Streams |-> views'[s]]
         /\ \A s \in Streams :
               views'[s] = IF e.seq > checkpoint[p] /\ Relevant(p, e) /\ e.stream = s
                           THEN ApplyView(p, views[s], e) ELSE views[s]
<1>1. e.seq \in Nat /\ e.stream \in Streams
  BY DEF LoggedEvent
<1>2. checkpoint \in [Projectors -> Nat] /\ views \in [Streams -> AccountView \cup InventoryView]
  BY DEF ViewsInv
<1>3. checkpoint[p] \in Nat
  BY <1>2
<1>4. CASE e.seq <= checkpoint[p]
  <2>1. checkpoint' = checkpoint /\ views' = views
    BY <1>4 DEF ApplyEvent, readVars
  <2> QED
    BY <1>1, <1>2, <1>3, <1>4, <2>1
<1>5. CASE ~ (e.seq <= checkpoint[p])
  <2>1. Advance(p, e, e.seq) /\ e.seq > checkpoint[p]
    BY <1>1, <1>3, <1>5 DEF ApplyEvent
  <2>2. checkpoint' = [checkpoint EXCEPT ![p] = e.seq]
    BY <2>1 DEF Advance, SetCheckpoint
  <2>3. views' = IF Relevant(p, e) THEN [views EXCEPT ![e.stream] = ApplyView(p, views[e.stream], e)] ELSE views
    BY <2>1 DEF Advance
  <2>4. /\ checkpoint' \in [Projectors -> Nat] /\ checkpoint'[p] = e.seq
        /\ \A q \in Projectors : q # p => checkpoint'[q] = checkpoint[q]
    BY <1>1, <1>2, <2>2
  <2>5. \A s \in Streams :
            views'[s] = IF Relevant(p, e) /\ e.stream = s THEN ApplyView(p, views[s], e) ELSE views[s]
    BY <1>1, <1>2, <2>3
  <2>6. views' = [s \in Streams |-> views'[s]]
    BY <1>2, <2>3
  <2> QED
    BY <1>1, <1>3, <1>5, <2>1, <2>4, <2>5, <2>6
<1> QED
  BY <1>4, <1>5

LEMMA ApplyEventKeeps ==
  ASSUME LogInv, ViewsInv, NEW p \in Projectors, NEW e \in LoggedEvent, InLog(e),
         ApplyEvent(p, e), UNCHANGED events
  PROVE  ViewsInv'
<1>1. /\ checkpoint' \in [Projectors -> Nat]
      /\ checkpoint'[p] = IF e.seq <= checkpoint[p] THEN checkpoint[p] ELSE e.seq
      /\ \A q \in Projectors : q # p => checkpoint'[q] = checkpoint[q]
      /\ views' = [s \in Streams |-> views'[s]]
      /\ \A s \in Streams :
            views'[s] = IF e.seq > checkpoint[p] /\ Relevant(p, e) /\ e.stream = s
                        THEN ApplyView(p, views[s], e) ELSE views[s]
  BY ApplyEventEffect
<1>2. /\ e.seq \in Nat /\ e.seq <= Len(events) /\ e.stream \in Streams /\ Decodable(e)
      /\ checkpoint[p] \in Nat /\ Len(events) \in Nat
  BY DEF InLog, LogInv, LoggedEvent, ViewsInv
<1>3. \A s \in Streams : views'[s] \in ViewType(s)
  <2> TAKE s \in Streams
  <2>0. views[s] \in ViewType(s)
    BY DEF ViewsInv
  <2>1. CASE Relevant(p, e) /\ e.stream = s
    <3>1. p = ProjectorOf(e.stream)
      BY <2>1 DEF Relevant
    <3>2. ApplyView(p, views[s], e) \in ViewType(s)
      BY <1>2, <2>0, <2>1, <3>1, ApplyViewType
    <3> QED
      BY <1>1, <2>0, <3>2
  <2>2. CASE ~ (Relevant(p, e) /\ e.stream = s)
    BY <1>1, <2>0, <2>2
  <2> QED
    BY <2>1, <2>2
<1>4. views' \in [Streams -> AccountView \cup InventoryView]
  <2>1. \A s \in Streams : views'[s] \in AccountView \cup InventoryView
    BY <1>3 DEF ViewType
  <2> QED
    BY <1>1, <2>1
<1>5. \A q \in Projectors : checkpoint'[q] <= Len(events')
  BY <1>1, <1>2 DEF ViewsInv
<1>6. applied' \in [Projectors -> Seq(Nat)] /\ NeverAppliedTwice'
  <2>0. /\ applied \in [Projectors -> Seq(Nat)] /\ applied[p] \in Seq(Nat)
        /\ \A q \in Projectors :
             /\ \A i, j \in 1 .. Len(applied[q]) : i < j => applied[q][i] < applied[q][j]
             /\ \A i \in 1 .. Len(applied[q]) : applied[q][i] <= checkpoint[q]
    BY DEF ViewsInv, NeverAppliedTwice
  <2>1. CASE e.seq <= checkpoint[p]
    <3>1. applied' = applied /\ checkpoint' = checkpoint
      BY <2>1 DEF ApplyEvent, readVars
    <3> QED
      BY <3>1 DEF ViewsInv, NeverAppliedTwice
  <2>2. CASE ~ (e.seq <= checkpoint[p])
    <3>0. checkpoint'[p] = e.seq /\ e.seq > checkpoint[p]
      BY <1>1, <1>2, <2>2
    <3>1. CASE ~ Relevant(p, e)
      <4>1. applied' = applied
        BY <2>2, <3>1 DEF ApplyEvent, Advance
      <4>2. \A i \in 1 .. Len(applied[p]) : applied[p][i] \in Nat
        BY <2>0
      <4>3. \A i \in 1 .. Len(applied[p]) : applied[p][i] <= e.seq
        BY <1>2, <2>0, <3>0, <4>2
      <4> QED
        BY <1>1, <2>0, <3>0, <4>1, <4>3 DEF NeverAppliedTwice
    <3>2. CASE Relevant(p, e)
      <4>1. applied' = [applied EXCEPT ![p] = Append(applied[p], e.seq)]
        BY <2>2, <3>2 DEF ApplyEvent, Advance
      <4>2. PICK r : r = Append(applied[p], e.seq)
        OBVIOUS
      <4>3. /\ r \in Seq(Nat)
            /\ \A i, j \in 1 .. Len(r) : i < j => r[i] < r[j]
            /\ \A i \in 1 .. Len(r) : r[i] <= e.seq
        BY <1>2, <2>0, <3>0, <4>2, IncreasingAppend
      <4>4. /\ applied' \in [Projectors -> Seq(Nat)]
            /\ applied'[p] = r
            /\ \A q \in Projectors : q # p => applied'[q] = applied[q]
        BY <2>0, <4>1, <4>2, <4>3
      <4>5. ASSUME NEW q \in Projectors
            PROVE  /\ \A i, j \in 1 .. Len(applied'[q]) : i < j => applied'[q][i] < applied'[q][j]
                   /\ \A i \in 1 .. Len(applied'[q]) : applied'[q][i] <= checkpoint'[q]
        <5>1. CASE q = p
          BY <3>0, <4>3, <4>4, <5>1
        <5>2. CASE q # p
          BY <1>1, <2>0, <4>4, <5>2
        <5> QED
          BY <5>1, <5>2
      <4> QED
        BY <4>4, <4>5 DEF NeverAppliedTwice
    <3> QED
      BY <3>1, <3>2
  <2> QED
    BY <2>1, <2>2
<1> QED
  BY <1>1, <1>3, <1>4, <1>5, <1>6 DEF ViewsInv

\* Nothing of the read model changes while the log may grow.
LEMMA ViewsKept ==
  ASSUME ViewsInv, UNCHANGED readVars, Grows
  PROVE  ViewsInv'
<1>1. \A p \in Projectors : checkpoint[p] \in Nat /\ checkpoint[p] <= Len(events')
  BY DEF ViewsInv, Grows
<1> QED
  BY <1>1 DEF ViewsInv, readVars, NeverAppliedTwice

-----------------------------------------------------------------------------
(* Publishes and polls in progress.                                        *)

LEMMA PublishInvStays ==
  ASSUME Grows, NEW r, PublishInv(r)
  PROVE  PublishInv(r)'
  BY InLogStays DEF PublishInv

LEMMA PollInvStays ==
  ASSUME Grows, NEW p, NEW r, r.since \in Nat, PollInv(p, r),
         checkpoint[p] \in Nat, checkpoint'[p] \in Nat, checkpoint'[p] >= checkpoint[p]
  PROVE  PollInv(p, r)'
<1>1. r.since <= checkpoint'[p]
  BY DEF PollInv
<1> QED
  BY <1>1, InLogStays DEF PollInv

\* One writer moves on.
LEMMA PublishMoves ==
  ASSUME ReadInv, Grows, NEW w \in Writers, NEW r \in Publishing, PublishInv(r)',
         pub' = [pub EXCEPT ![w] = r]
  PROVE  pub' \in [Writers -> Publishing] /\ \A v \in Writers : PublishInv(pub[v])'
<1>1. pub \in [Writers -> Publishing]
  BY DEF ReadInv
<1>2. pub' \in [Writers -> Publishing] /\ pub'[w] = r /\ \A v \in Writers : v # w => pub'[v] = pub[v]
  BY <1>1
<1>3. ASSUME NEW v \in Writers PROVE PublishInv(pub[v])'
  <2>1. CASE v = w
    BY <1>2, <2>1
  <2>2. CASE v # w
    <3>1. PICK q : q = pub[v] /\ PublishInv(q)
      BY DEF ReadInv
    <3>2. PublishInv(q)'
      BY <3>1, PublishInvStays
    <3> QED
      BY <1>2, <2>2, <3>1, <3>2
  <2> QED
    BY <2>1, <2>2
<1> QED
  BY <1>2, <1>3

LEMMA PublishKept ==
  ASSUME ReadInv, Grows, UNCHANGED pub
  PROVE  pub' \in [Writers -> Publishing] /\ \A v \in Writers : PublishInv(pub[v])'
<1>1. ASSUME NEW v \in Writers PROVE PublishInv(pub[v])'
  <2>1. PICK q : q = pub[v] /\ PublishInv(q)
    BY DEF ReadInv
  <2>2. PublishInv(q)'
    BY <2>1, PublishInvStays
  <2> QED
    BY <2>1, <2>2
<1> QED
  BY <1>1 DEF ReadInv

\* One projector's poll moves on.
LEMMA PollMoves ==
  ASSUME ReadInv, Grows, NEW p \in Projectors, NEW r \in Polling, PollInv(p, r)',
         poll' = [poll EXCEPT ![p] = r],
         checkpoint' \in [Projectors -> Nat],
         \A q \in Projectors : checkpoint'[q] >= checkpoint[q]
  PROVE  poll' \in [Projectors -> Polling] /\ \A q \in Projectors : PollInv(q, poll[q])'
<1>1. poll \in [Projectors -> Polling] /\ checkpoint \in [Projectors -> Nat]
  BY DEF ReadInv, ViewsInv
<1>2. poll' \in [Projectors -> Polling] /\ poll'[p] = r /\ \A q \in Projectors : q # p => poll'[q] = poll[q]
  BY <1>1
<1>3. ASSUME NEW q \in Projectors PROVE PollInv(q, poll[q])'
  <2>1. CASE q = p
    BY <1>2, <2>1
  <2>2. CASE q # p
    <3>1. PICK b \in Polling : b = poll[q] /\ PollInv(q, b)
      BY DEF ReadInv
    <3>2. b.since \in Nat /\ checkpoint[q] \in Nat /\ checkpoint'[q] \in Nat
      BY <1>1 DEF Polling
    <3>3. PollInv(q, b)'
      BY <3>1, <3>2, PollInvStays
    <3> QED
      BY <1>2, <2>2, <3>1, <3>3
  <2> QED
    BY <2>1, <2>2
<1> QED
  BY <1>2, <1>3

LEMMA PollKept ==
  ASSUME ReadInv, Grows, UNCHANGED poll,
         checkpoint' \in [Projectors -> Nat],
         \A q \in Projectors : checkpoint'[q] >= checkpoint[q]
  PROVE  poll' \in [Projectors -> Polling] /\ \A q \in Projectors : PollInv(q, poll[q])'
<1>1. checkpoint \in [Projectors -> Nat]
  BY DEF ReadInv, ViewsInv
<1>2. ASSUME NEW q \in Projectors PROVE PollInv(q, poll[q])'
  <2>1. PICK b \in Polling : b = poll[q] /\ PollInv(q, b)
    BY DEF ReadInv
  <2>2. b.since \in Nat /\ checkpoint[q] \in Nat /\ checkpoint'[q] \in Nat
    BY <1>1 DEF Polling
  <2>3. PollInv(q, b)'
    BY <2>1, <2>2, PollInvStays
  <2> QED
    BY <2>1, <2>3
<1> QED
  BY <1>2 DEF ReadInv

LEMMA CheckpointsKept ==
  ASSUME ViewsInv, UNCHANGED readVars
  PROVE  checkpoint' \in [Projectors -> Nat] /\ \A q \in Projectors : checkpoint'[q] >= checkpoint[q]
<1>1. checkpoint' = checkpoint /\ checkpoint \in [Projectors -> Nat]
  BY DEF ViewsInv, readVars
<1> QED
  BY <1>1

LEMMA CheckpointsRise ==
  ASSUME ViewsInv, NEW p \in Projectors, NEW e \in LoggedEvent, ApplyEvent(p, e)
  PROVE  checkpoint' \in [Projectors -> Nat] /\ \A q \in Projectors : checkpoint'[q] >= checkpoint[q]
<1>1. checkpoint \in [Projectors -> Nat]
  BY DEF ViewsInv
<1>2. /\ checkpoint' \in [Projectors -> Nat] /\ checkpoint'[p] >= checkpoint[p]
      /\ \A q \in Projectors : q # p => checkpoint'[q] = checkpoint[q]
  BY ApplyEventEffect
<1> QED
  BY <1>1, <1>2

\* A finite function from an initial segment is a sequence.
LEMMA FunctionIsSeq ==
  ASSUME NEW S, NEW n \in Nat, NEW f \in [1 .. n -> S]
  PROVE  f \in Seq(S) /\ Len(f) = n
<1>1. f \in Seq(S)
  BY SeqDef, Zenon
<1> QED
  BY <1>1

\* What a publish hands over: every event of the batch, twice, in log order.
LEMMA DeliveriesType ==
  ASSUME NEW batch \in Seq(LoggedEvent), NEW order \in HandlerOrders
  PROVE  /\ Deliveries(batch, order) \in Seq(Delivery)
         /\ Len(Deliveries(batch, order)) = 2 * Len(batch)
         /\ \A i \in 1 .. 2 * Len(batch) :
               /\ (i + 1) \div 2 \in 1 .. Len(batch)
               /\ Deliveries(batch, order)[i].event = batch[(i + 1) \div 2]
               /\ Deliveries(batch, order)[i].to = order[IF i % 2 = 1 THEN 1 ELSE 2]
<1> DEFINE d == Deliveries(batch, order)
           n == 2 * Len(batch)
<1>0. Len(batch) \in Nat /\ n \in Nat
  OBVIOUS
<1>1. order[1] \in Projectors /\ order[2] \in Projectors
  BY DEF HandlerOrders, Projectors
<1>2. \A i \in 1 .. n : (i + 1) \div 2 \in 1 .. Len(batch)
  BY <1>0
<1>3. d = [i \in 1 .. n |-> [event |-> batch[(i + 1) \div 2], to |-> order[IF i % 2 = 1 THEN 1 ELSE 2]]]
  BY DEF Deliveries
<1> HIDE DEF d, n
<1>4. \A i \in 1 .. n : /\ d[i] \in Delivery
                        /\ d[i].event = batch[(i + 1) \div 2]
                        /\ d[i].to = order[IF i % 2 = 1 THEN 1 ELSE 2]
  <2> TAKE i \in 1 .. n
  <2>1. d[i] = [event |-> batch[(i + 1) \div 2], to |-> order[IF i % 2 = 1 THEN 1 ELSE 2]]
    BY <1>3
  <2>2. batch[(i + 1) \div 2] \in LoggedEvent
    BY <1>2
  <2>3. order[IF i % 2 = 1 THEN 1 ELSE 2] \in Projectors
    BY <1>1
  <2> QED
    BY <2>1, <2>2, <2>3 DEF Delivery
<1>5. d \in [1 .. n -> Delivery]
  BY <1>3, <1>4
<1>6. d \in Seq(Delivery) /\ Len(d) = n
  BY <1>0, <1>5, FunctionIsSeq
<1> QED
  BY <1>2, <1>4, <1>6 DEF d, n

-----------------------------------------------------------------------------
(* Every step keeps ReadInv.                                               *)

LEMMA IdleTypes ==
  /\ NotPublishing \in Publishing /\ NotPublishing.batch = <<>> /\ NotPublishing.left = <<>>
  /\ Waiting \in Polling /\ Waiting.batch = <<>> /\ Waiting.since = 0 /\ Waiting.pc = "waiting"
  BY DEF NotPublishing, Publishing, Waiting, Polling

LEMMA NotPublishingInv == PublishInv(NotPublishing)'
  BY DeliveryAssumption DEF PublishInv, NotPublishing

LEMMA WaitingInv ==
  ASSUME NEW p, checkpoint'[p] \in Nat
  PROVE  PollInv(p, Waiting)'
  BY DEF PollInv, Waiting

\* The batch of a command: the events it added to the log.
LEMMA CommandBatch ==
  ASSUME LogInv, NEW c \in Commands, Log!Execute(c)
  PROVE  LET batch == SubSeq(events', Len(events) + 1, Len(events')) IN
         /\ batch \in Seq(LoggedEvent)
         /\ Len(batch) = Len(events') - Len(events)
         /\ \A i \in 1 .. Len(batch) :
               /\ Len(events) + i \in 1 .. Len(events')
               /\ batch[i] = events'[Len(events) + i] /\ batch[i].seq = Len(events) + i
<1> DEFINE m == Len(events) + 1
           n == Len(events')
           batch == SubSeq(events', m, n)
<1>1. /\ LogInv' /\ Len(events) \in Nat /\ n \in Nat /\ n > Len(events)
  BY LogGrows
<1>2. /\ events' \in Seq(LoggedEvent)
      /\ \A k \in 1 .. n : events'[k].seq = k /\ events'[k] \in LoggedEvent
  BY <1>1 DEF LogInv
<1> HIDE DEF n
<1>3. \A k \in m .. n : events'[k] \in LoggedEvent
  BY <1>1, <1>2
<1>4. /\ batch \in Seq(LoggedEvent)
      /\ Len(batch) = n - Len(events)
      /\ \A i \in 1 .. n - m + 1 : batch[i] = events'[m + i - 1]
  BY <1>1, <1>3, SubSeqProperties
<1> HIDE DEF batch
<1>5. ASSUME NEW i \in 1 .. Len(batch)
      PROVE  /\ Len(events) + i \in 1 .. n
             /\ batch[i] = events'[Len(events) + i] /\ batch[i].seq = Len(events) + i
  <2>1. i \in 1 .. n - m + 1 /\ m + i - 1 = Len(events) + i /\ Len(events) + i \in 1 .. n
    BY <1>1, <1>4
  <2> QED
    BY <1>2, <1>4, <2>1
<1> QED
  BY <1>4, <1>5 DEF batch, n

LEMMA CommandStep ==
  ASSUME ReadInv, NEW w \in Writers, NEW c \in Commands, Command(w, c)
  PROVE  ReadInv'
<1>0. LogInv /\ ViewsInv
  BY DEF ReadInv
<1>1. Log!Execute(c) /\ UNCHANGED readVars /\ UNCHANGED poll
  BY DEF Command
<1>2. LogInv' /\ Grows
  BY <1>0, <1>1, LogGrows DEF Grows
<1>3. PICK r : /\ r = [batch  |-> SubSeq(events', Len(events) + 1, Len(events')),
                       rounds |-> IF BusOn THEN 1 + ExtraDeliveries ELSE 0,
                       left   |-> <<>>]
               /\ pub' = [pub EXCEPT ![w] = r]
  BY DEF Command
<1>4. /\ r.batch \in Seq(LoggedEvent)
      /\ \A i \in 1 .. Len(r.batch) : InLog(r.batch[i])'
  <2>1. r.batch = SubSeq(events', Len(events) + 1, Len(events'))
    BY <1>3
  <2>2. /\ r.batch \in Seq(LoggedEvent)
        /\ \A i \in 1 .. Len(r.batch) : /\ Len(events) + i \in 1 .. Len(events')
                                        /\ r.batch[i] = events'[Len(events) + i]
                                        /\ r.batch[i].seq = Len(events) + i
    BY <1>0, <1>1, <2>1, CommandBatch
  <2> QED
    BY <2>2 DEF InLog
<1>5. r.rounds \in Nat /\ r.rounds <= 1 + ExtraDeliveries /\ r.left = <<>>
  BY <1>3, DeliveryAssumption
<1>6. r \in Publishing
  BY <1>3, <1>4, <1>5 DEF Publishing
<1>7. PublishInv(r)'
  BY <1>4, <1>5 DEF PublishInv
<1>8. pub' \in [Writers -> Publishing] /\ \A v \in Writers : PublishInv(pub[v])'
  BY <1>2, <1>3, <1>6, <1>7, PublishMoves
<1>9. poll' \in [Projectors -> Polling] /\ \A q \in Projectors : PollInv(q, poll[q])'
  BY <1>0, <1>1, <1>2, PollKept, CheckpointsKept
<1>10. ViewsInv'
  BY <1>0, <1>1, <1>2, ViewsKept
<1> QED
  BY <1>2, <1>8, <1>9, <1>10 DEF ReadInv

\* A writer's step that only changes its own publish.
LEMMA WriterMoves ==
  ASSUME ReadInv, NEW w \in Writers, NEW r \in Publishing, PublishInv(r),
         pub' = [pub EXCEPT ![w] = r], UNCHANGED <<logVars, readVars, poll>>
  PROVE  ReadInv'
<1>0. LogInv /\ ViewsInv /\ UNCHANGED events /\ UNCHANGED readVars /\ UNCHANGED poll
  BY DEF ReadInv, logVars
<1>1. LogInv' /\ Grows
  BY <1>0, LogKept
<1>2. PublishInv(r)'
  BY <1>1, PublishInvStays
<1>3. pub' \in [Writers -> Publishing] /\ \A v \in Writers : PublishInv(pub[v])'
  BY <1>1, <1>2, PublishMoves
<1>4. poll' \in [Projectors -> Polling] /\ \A q \in Projectors : PollInv(q, poll[q])'
  BY <1>0, <1>1, PollKept, CheckpointsKept
<1>5. ViewsInv'
  BY <1>0, <1>1, ViewsKept
<1> QED
  BY <1>1, <1>3, <1>4, <1>5 DEF ReadInv

LEMMA BeginPublishStep ==
  ASSUME ReadInv, NEW w \in Writers, BeginPublish(w)
  PROVE  ReadInv'
<1>1. PICK order \in HandlerOrders :
         pub' = [pub EXCEPT ![w].left = Deliveries(pub[w].batch, order), ![w].rounds = @ - 1]
  BY DEF BeginPublish
<1>2. PICK q \in Publishing : q = pub[w] /\ PublishInv(q) /\ q.rounds > 0
  BY DEF ReadInv, BeginPublish
<1>3. PICK d : d = Deliveries(q.batch, order)
  OBVIOUS
<1>4. /\ q.batch \in Seq(LoggedEvent) /\ q.rounds \in Nat /\ q.left \in Seq(Delivery)
      /\ q.rounds <= 1 + ExtraDeliveries
      /\ \A i \in 1 .. Len(q.batch) : InLog(q.batch[i])
  BY <1>2 DEF Publishing, PublishInv
<1>5. /\ d \in Seq(Delivery)
      /\ \A i \in 1 .. Len(d) : (i + 1) \div 2 \in 1 .. Len(q.batch) /\ d[i].event = q.batch[(i + 1) \div 2]
  BY <1>3, <1>4, DeliveriesType
<1>6. \A i \in 1 .. Len(d) : InLog(d[i].event)
  BY <1>4, <1>5
<1>7. PICK r : r = [q EXCEPT !.left = d, !.rounds = q.rounds - 1]
  OBVIOUS
<1>8. q.rounds - 1 \in Nat /\ q.rounds - 1 <= 1 + ExtraDeliveries
  BY <1>2, <1>4, DeliveryAssumption
<1>9. r \in Publishing /\ r.batch = q.batch /\ r.left = d /\ r.rounds = q.rounds - 1
  BY <1>2, <1>5, <1>7, <1>8 DEF Publishing
<1>10. PublishInv(r)
  BY <1>4, <1>6, <1>8, <1>9 DEF PublishInv
<1>11. pub' = [pub EXCEPT ![w] = r]
  BY <1>1, <1>2, <1>3, <1>7 DEF ReadInv
<1> QED
  BY <1>9, <1>10, <1>11, WriterMoves DEF BeginPublish

LEMMA EndPublishStep ==
  ASSUME ReadInv, NEW w \in Writers, EndPublish(w)
  PROVE  ReadInv'
<1>1. PublishInv(NotPublishing)
  BY DeliveryAssumption DEF PublishInv, NotPublishing
<1> QED
  BY <1>1, IdleTypes, WriterMoves DEF EndPublish

LEMMA DeliverFailsStep ==
  ASSUME ReadInv, NEW w \in Writers, DeliverFails(w)
  PROVE  ReadInv'
<1>1. PICK q \in Publishing : q = pub[w] /\ PublishInv(q)
  BY DEF ReadInv
<1>2. PICK r : r = [q EXCEPT !.left = <<>>, !.rounds = 0]
  OBVIOUS
<1>3. r \in Publishing /\ r.batch = q.batch /\ r.left = <<>> /\ r.rounds = 0
  <2>1. <<>> \in Seq(Delivery)
    OBVIOUS
  <2>2. PICK none \in Seq(Delivery) : none = <<>>
    BY <2>1
  <2>3. r = [q EXCEPT !.left = none, !.rounds = 0]
    BY <1>2, <2>2
  <2> QED
    BY <1>1, <2>2, <2>3 DEF Publishing
<1>4. PublishInv(r)
  BY <1>1, <1>3, DeliveryAssumption DEF PublishInv
<1>5. pub' = [pub EXCEPT ![w] = r]
  BY <1>1, <1>2 DEF ReadInv, DeliverFails
<1> QED
  BY <1>3, <1>4, <1>5, WriterMoves DEF DeliverFails

LEMMA DeliverStep ==
  ASSUME ReadInv, NEW w \in Writers, Deliver(w)
  PROVE  ReadInv'
<1>0. LogInv /\ ViewsInv /\ UNCHANGED events /\ UNCHANGED poll
  BY DEF ReadInv, Deliver, logVars
<1>1. PICK q \in Publishing : q = pub[w] /\ PublishInv(q) /\ q.left # <<>>
  BY DEF ReadInv, Deliver
<1>2. q.left \in Seq(Delivery) /\ q.rounds <= 1 + ExtraDeliveries
  BY <1>1 DEF Publishing, PublishInv
<1>3. PICK d \in Delivery : d = Head(q.left)
  BY <1>1, <1>2, HeadTailProperties
<1>4. d.to \in Projectors /\ d.event \in LoggedEvent
  BY DEF Delivery
<1>5. /\ Tail(q.left) \in Seq(Delivery) /\ Len(Tail(q.left)) = Len(q.left) - 1 /\ Len(q.left) \in Nat
      /\ \A i \in 1 .. Len(Tail(q.left)) : Tail(q.left)[i] = q.left[i+1]
      /\ Len(q.left) > 0 /\ Head(q.left) = q.left[1]
  BY <1>1, <1>2, HeadTailProperties
<1>6. InLog(d.event) /\ \A i \in 1 .. Len(Tail(q.left)) : InLog(Tail(q.left)[i].event)
  <2>1. \A i \in 1 .. Len(q.left) : InLog(q.left[i].event)
    BY <1>1 DEF PublishInv
  <2>2. \A i \in 1 .. Len(Tail(q.left)) : i + 1 \in 1 .. Len(q.left)
    BY <1>5
  <2>3. 1 \in 1 .. Len(q.left)
    BY <1>5
  <2> QED
    BY <1>3, <1>5, <2>1, <2>2, <2>3
<1>7. PICK r : r = [q EXCEPT !.left = Tail(q.left)]
  OBVIOUS
<1>8. r \in Publishing /\ r.batch = q.batch /\ r.left = Tail(q.left) /\ r.rounds = q.rounds
  BY <1>1, <1>5, <1>7 DEF Publishing
<1>9. PublishInv(r)
  BY <1>1, <1>6, <1>8 DEF PublishInv
<1>10. pub' = [pub EXCEPT ![w] = r]
  BY <1>1, <1>7 DEF ReadInv, Deliver
<1>11. ApplyEvent(d.to, d.event)
  BY <1>1, <1>3 DEF Deliver
<1>12. LogInv' /\ Grows
  BY <1>0, LogKept
<1>13. ViewsInv'
  BY <1>0, <1>4, <1>6, <1>11, ApplyEventKeeps
<1>14. PublishInv(r)'
  BY <1>9, <1>12, PublishInvStays
<1>15. pub' \in [Writers -> Publishing] /\ \A v \in Writers : PublishInv(pub[v])'
  BY <1>8, <1>10, <1>12, <1>14, PublishMoves
<1>16. checkpoint' \in [Projectors -> Nat] /\ \A p \in Projectors : checkpoint'[p] >= checkpoint[p]
  BY <1>0, <1>4, <1>11, CheckpointsRise
<1>17. poll' \in [Projectors -> Polling] /\ \A p \in Projectors : PollInv(p, poll[p])'
  BY <1>0, <1>12, <1>16, PollKept
<1> QED
  BY <1>12, <1>13, <1>15, <1>17 DEF ReadInv

\* A poller's step that only changes its own poll.
LEMMA PollerMoves ==
  ASSUME ReadInv, NEW p \in Projectors, NEW r \in Polling, PollInv(p, r),
         poll' = [poll EXCEPT ![p] = r], UNCHANGED <<logVars, readVars, pub>>
  PROVE  ReadInv'
<1>0. LogInv /\ ViewsInv /\ UNCHANGED events /\ UNCHANGED readVars /\ UNCHANGED pub
  BY DEF ReadInv, logVars
<1>1. LogInv' /\ Grows
  BY <1>0, LogKept
<1>2. checkpoint' \in [Projectors -> Nat] /\ \A q \in Projectors : checkpoint'[q] >= checkpoint[q]
  BY <1>0, CheckpointsKept
<1>3. r.since \in Nat /\ checkpoint[p] \in Nat /\ checkpoint'[p] \in Nat
  BY <1>0, <1>2 DEF Polling, ViewsInv
<1>4. PollInv(p, r)'
  BY <1>1, <1>2, <1>3, PollInvStays
<1>5. poll' \in [Projectors -> Polling] /\ \A q \in Projectors : PollInv(q, poll[q])'
  BY <1>1, <1>2, <1>4, PollMoves
<1>6. pub' \in [Writers -> Publishing] /\ \A v \in Writers : PublishInv(pub[v])'
  BY <1>0, <1>1, PublishKept
<1>7. ViewsInv'
  BY <1>0, <1>1, ViewsKept
<1> QED
  BY <1>1, <1>5, <1>6, <1>7 DEF ReadInv

LEMMA WaitingNow ==
  ASSUME ReadInv, NEW p \in Projectors
  PROVE  Waiting \in Polling /\ PollInv(p, Waiting)
<1>1. checkpoint[p] \in Nat
  BY DEF ReadInv, ViewsInv
<1> QED
  BY <1>1, IdleTypes DEF PollInv, Waiting

LEMMA GetCheckpointStep ==
  ASSUME ReadInv, NEW p \in Projectors, GetCheckpoint(p)
  PROVE  ReadInv'
<1>1. PICK r : /\ r = [pc |-> "load", since |-> checkpoint[p], batch |-> <<>>]
               /\ poll' = [poll EXCEPT ![p] = r]
  BY DEF GetCheckpoint
<1>2. checkpoint[p] \in Nat
  BY DEF ReadInv, ViewsInv
<1>3. r \in Polling
  BY <1>1, <1>2 DEF Polling
<1>4. PollInv(p, r)
  BY <1>1, <1>2 DEF PollInv
<1> QED
  BY <1>1, <1>3, <1>4, PollerMoves DEF GetCheckpoint

\* A page that LoadBatch reads: consecutive events of the log after the checkpoint read.
LEMMA PageOfLog ==
  ASSUME LogInv, NEW since \in Nat
  PROVE  LET page == LoadSince(events, since, BatchSize) IN
         /\ page \in Seq(LoggedEvent)
         /\ \A i \in 1 .. Len(page) : InLog(page[i]) /\ page[i].seq = since + i
<1> DEFINE page == LoadSince(events, since, BatchSize)
<1>1. events \in Seq(LoggedEvent) /\ \A n \in 1 .. Len(events) : events[n].seq = n
  BY DEF LogInv
<1>2. /\ page \in Seq(LoggedEvent)
      /\ \A i \in 1 .. Len(page) : since + i <= Len(events) /\ page[i] = events[since + i]
  BY <1>1, DeliveryAssumption, LoadSinceIsNext
<1> HIDE DEF page
<1>3. ASSUME NEW i \in 1 .. Len(page) PROVE InLog(page[i]) /\ page[i].seq = since + i
  <2>1. since + i \in 1 .. Len(events) /\ page[i] = events[since + i]
    BY <1>1, <1>2
  <2>2. page[i].seq = since + i
    BY <1>1, <2>1
  <2> QED
    BY <2>1, <2>2 DEF InLog
<1> QED
  BY <1>2, <1>3 DEF page

LEMMA LoadBatchStep ==
  ASSUME ReadInv, NEW p \in Projectors, LoadBatch(p)
  PROVE  ReadInv'
<1>1. PICK q \in Polling : q = poll[p] /\ PollInv(p, q)
  BY DEF ReadInv
<1>2. PICK page : page = LoadSince(events, q.since, BatchSize)
  OBVIOUS
<1>3. poll' = [poll EXCEPT ![p] = IF page = <<>> THEN Waiting
                                  ELSE [pc |-> "apply", since |-> q.since, batch |-> page]]
  BY <1>1, <1>2 DEF LoadBatch
<1>4. q.since \in Nat /\ q.since <= checkpoint[p]
  BY <1>1 DEF Polling, PollInv
<1>5. page \in Seq(LoggedEvent) /\ \A i \in 1 .. Len(page) : InLog(page[i])
  BY <1>2, <1>4, PageOfLog DEF ReadInv
<1>6. CASE page = <<>>
  BY <1>3, <1>6, WaitingNow, PollerMoves DEF LoadBatch
<1>7. CASE page # <<>>
  <2>1. PICK r : r = [pc |-> "apply", since |-> q.since, batch |-> page]
    OBVIOUS
  <2>2. r \in Polling
    BY <1>4, <1>5, <2>1 DEF Polling
  <2>3. PollInv(p, r)
    BY <1>4, <1>5, <1>7, <2>1 DEF PollInv
  <2> QED
    BY <1>3, <1>7, <2>1, <2>2, <2>3, PollerMoves DEF LoadBatch
<1> QED
  BY <1>6, <1>7

\* The event CatchUp hands to ApplyEvent, and what is left of its page.
LEMMA CatchUpParts ==
  ASSUME ReadInv, NEW p \in Projectors, poll[p].pc = "apply"
  PROVE  LET b == poll[p].batch IN
         /\ b \in Seq(LoggedEvent) /\ Len(b) \in Nat /\ Len(b) > 0
         /\ Head(b) \in LoggedEvent /\ Head(b) = b[1] /\ InLog(Head(b))
         /\ Tail(b) \in Seq(LoggedEvent) /\ Len(Tail(b)) = Len(b) - 1
         /\ \A i \in 1 .. Len(Tail(b)) : Tail(b)[i] = b[i+1] /\ InLog(Tail(b)[i])
<1>1. PICK q \in Polling : q = poll[p] /\ PollInv(p, q) /\ q.pc = "apply"
  BY DEF ReadInv
<1>2. PICK b \in Seq(LoggedEvent) : b = q.batch /\ b # <<>> /\ \A i \in 1 .. Len(b) : InLog(b[i])
  BY <1>1 DEF Polling, PollInv
<1>3. /\ Head(b) \in LoggedEvent /\ Tail(b) \in Seq(LoggedEvent) /\ Len(Tail(b)) = Len(b) - 1
      /\ \A i \in 1 .. Len(Tail(b)) : Tail(b)[i] = b[i+1]
  BY <1>2, HeadTailProperties
<1>4. Len(b) \in Nat /\ Len(b) > 0 /\ Head(b) = b[1]
  BY <1>2
<1>5. \A i \in 1 .. Len(Tail(b)) : i + 1 \in 1 .. Len(b)
  BY <1>3, <1>4
<1>6. InLog(b[1]) /\ \A i \in 1 .. Len(Tail(b)) : InLog(Tail(b)[i])
  <2>1. 1 \in 1 .. Len(b)
    BY <1>4
  <2> QED
    BY <1>2, <1>3, <1>5, <2>1
<1> QED
  BY <1>1, <1>2, <1>3, <1>4, <1>6

LEMMA CatchUpApplyStep ==
  ASSUME ReadInv, NEW p \in Projectors, CatchUpApply(p)
  PROVE  ReadInv'
<1>0. LogInv /\ ViewsInv /\ UNCHANGED events /\ UNCHANGED pub /\ poll[p].pc = "apply"
  BY DEF ReadInv, CatchUpApply, logVars
<1>1. PICK q \in Polling : q = poll[p] /\ PollInv(p, q) /\ q.pc = "apply"
  BY <1>0 DEF ReadInv
<1>2. PICK b : b = q.batch
  OBVIOUS
<1>3. PICK e \in LoggedEvent : e = Head(b) /\ InLog(e)
  BY <1>0, <1>1, <1>2, CatchUpParts
<1>4. PICK rest \in Seq(LoggedEvent) :
         /\ rest = Tail(b) /\ Len(rest) = Len(b) - 1 /\ Len(b) \in Nat /\ Len(b) > 0
         /\ \A i \in 1 .. Len(rest) : InLog(rest[i])
  BY <1>0, <1>1, <1>2, CatchUpParts
<1>5. ApplyEvent(p, e)
  BY <1>1, <1>2, <1>3 DEF CatchUpApply
<1>6. LogInv' /\ Grows
  BY <1>0, LogKept
<1>7. ViewsInv'
  BY <1>0, <1>3, <1>5, ApplyEventKeeps
<1>8. checkpoint' \in [Projectors -> Nat] /\ \A u \in Projectors : checkpoint'[u] >= checkpoint[u]
  BY <1>0, <1>5, CheckpointsRise
<1>9. pub' \in [Writers -> Publishing] /\ \A v \in Writers : PublishInv(pub[v])'
  BY <1>0, <1>6, PublishKept
<1>10. PICK r : /\ r = IF Len(b) = 1 THEN Waiting ELSE [pc |-> "apply", since |-> q.since, batch |-> rest]
                /\ poll' = [poll EXCEPT ![p] = r]
  BY <1>1, <1>2, <1>4 DEF CatchUpApply
<1>11. r \in Polling /\ PollInv(p, r)'
  <2>1. CASE Len(b) = 1
    BY <1>8, <1>10, <2>1, IdleTypes, WaitingInv
  <2>2. CASE Len(b) # 1
    <3>1. r \in Polling /\ r.since = q.since /\ r.batch = rest
      <4>1. q.since \in Nat
        BY <1>1 DEF Polling
      <4> QED
        BY <1>4, <1>10, <2>2, <4>1 DEF Polling
    <3>2. rest # <<>>
      <4>1. Len(rest) # 0
        BY <1>4, <2>2
      <4> QED
        BY <4>1
    <3>3. PollInv(p, r)
      BY <1>1, <1>4, <3>1, <3>2 DEF PollInv
    <3>4. r.since \in Nat /\ checkpoint[p] \in Nat /\ checkpoint'[p] \in Nat
      BY <1>0, <1>8, <3>1 DEF Polling, ViewsInv
    <3> QED
      BY <1>6, <1>8, <3>1, <3>3, <3>4, PollInvStays
  <2> QED
    BY <2>1, <2>2
<1>12. poll' \in [Projectors -> Polling] /\ \A u \in Projectors : PollInv(u, poll[u])'
  BY <1>6, <1>8, <1>10, <1>11, PollMoves
<1> QED
  BY <1>6, <1>7, <1>9, <1>12 DEF ReadInv

LEMMA CatchUpFailsStep ==
  ASSUME ReadInv, NEW p \in Projectors, CatchUpFails(p)
  PROVE  ReadInv'
  BY WaitingNow, PollerMoves DEF CatchUpFails

LEMMA ReadInvInit == Init => ReadInv
<1> SUFFICES ASSUME Init PROVE ReadInv
  OBVIOUS
<1>1. events = <<>>
  BY DEF Init, Log!Init
<1>2. LogInv
  BY <1>1 DEF LogInv
<1>3. \A s \in Streams : ZeroView(s) \in ViewType(s) /\ ZeroView(s) \in AccountView \cup InventoryView
  BY ZeroViewType DEF ViewType
<1>4. ViewsInv
  BY <1>1, <1>3 DEF ViewsInv, Init, NeverAppliedTwice
<1>5. pub \in [Writers -> Publishing] /\ \A w \in Writers : PublishInv(pub[w])
  BY IdleTypes, DeliveryAssumption DEF Init, PublishInv, NotPublishing
<1>6. poll \in [Projectors -> Polling] /\ \A p \in Projectors : PollInv(p, poll[p])
  BY IdleTypes DEF Init, PollInv, Waiting
<1> QED
  BY <1>2, <1>4, <1>5, <1>6 DEF ReadInv

\* A step of which the read side only counts the fault, if that.
LEMMA ReadInvQuiet ==
  ASSUME ReadInv, UNCHANGED events, UNCHANGED readVars, UNCHANGED pub, UNCHANGED poll
  PROVE  ReadInv'
<1>0. LogInv /\ ViewsInv /\ UNCHANGED events /\ UNCHANGED readVars /\ UNCHANGED pub /\ UNCHANGED poll
  BY DEF ReadInv
<1>1. LogInv' /\ Grows
  BY <1>0, LogKept
<1>2. ViewsInv'
  BY <1>0, <1>1, ViewsKept
<1>3. pub' \in [Writers -> Publishing] /\ \A v \in Writers : PublishInv(pub[v])'
  BY <1>0, <1>1, PublishKept
<1>4. poll' \in [Projectors -> Polling] /\ \A q \in Projectors : PollInv(q, poll[q])'
  BY <1>0, <1>1, PollKept, CheckpointsKept
<1> QED
  BY <1>1, <1>2, <1>3, <1>4 DEF ReadInv

LEMMA ReadInvStep == ReadInv /\ [Next]_vars => ReadInv'
<1> SUFFICES ASSUME ReadInv, [Next]_vars PROVE ReadInv'
  OBVIOUS
<1>1. CASE \E w \in Writers : \E c \in Commands : Command(w, c)
  BY <1>1, CommandStep
<1>2. CASE \E w \in Writers : WriterStep(w) \/ DeliverFails(w)
  BY <1>2, BeginPublishStep, DeliverStep, EndPublishStep, DeliverFailsStep DEF WriterStep
<1>3. CASE \E p \in Projectors : PollStep(p) \/ CatchUpFails(p)
  BY <1>3, GetCheckpointStep, LoadBatchStep, CatchUpApplyStep, CatchUpFailsStep DEF PollStep
<1>5. CASE UNCHANGED vars
  BY <1>5, ReadInvQuiet DEF vars, readVars
<1> QED
  BY <1>1, <1>2, <1>3, <1>5 DEF Next

LEMMA ReadInvariant == Spec => []ReadInv
  BY ReadInvInit, ReadInvStep, PTL DEF Spec

LEMMA ReadInvTypes == ReadInv => TypeOK
<1> SUFFICES ASSUME ReadInv PROVE TypeOK
  OBVIOUS
<1>1. Len(events) \in Nat
  BY DEF ReadInv, LogInv
<1>2. \A p \in Projectors : checkpoint[p] \in 0 .. Len(events)
  BY <1>1 DEF ReadInv, ViewsInv
<1>3. \A p \in Projectors : poll[p].since \in 0 .. checkpoint[p]
  BY <1>2 DEF ReadInv, PollInv, Polling
<1>4. \A w \in Writers : pub[w].rounds \in 0 .. (1 + ExtraDeliveries)
  BY DeliveryAssumption DEF ReadInv, PublishInv, Publishing
<1> QED
  BY <1>2, <1>3, <1>4 DEF TypeOK, ReadInv, ViewsInv

-----------------------------------------------------------------------------
(* What holds however deliveries are duplicated, reordered and lost.       *)

\* Views keep the shape of their kind and checkpoints stay within the log, for any
\* number of writers, redeliveries, failed deliveries and failed polls.
THEOREM ReadTypes == Spec => []TypeOK
  BY ReadInvariant, ReadInvTypes, PTL

\* Effectively once (ApplyEvent's checkpoint test): no projector ever applies an event
\* twice or out of order, and its checkpoint covers all it applied.
THEOREM EffectivelyOnce == Spec => []NeverAppliedTwice
<1>1. ReadInv => NeverAppliedTwice
  BY DEF ReadInv, ViewsInv
<1> QED
  BY <1>1, ReadInvariant, PTL

\* A step of the read side: a view changes only under a moving checkpoint.
Advancing ==
    \A p \in Projectors :
          /\ checkpoint'[p] >= checkpoint[p]
          /\ checkpoint'[p] = checkpoint[p] =>
                \A s \in Streams : ProjectorOf(s) = p => views'[s] = views[s]

LEMMA ApplyEventAdvances ==
  ASSUME ViewsInv, NEW p \in Projectors, NEW e \in LoggedEvent, ApplyEvent(p, e)
  PROVE  Advancing
<1>1. /\ checkpoint'[p] = IF e.seq <= checkpoint[p] THEN checkpoint[p] ELSE e.seq
      /\ \A s \in Streams :
            views'[s] = IF e.seq > checkpoint[p] /\ Relevant(p, e) /\ e.stream = s
                        THEN ApplyView(p, views[s], e) ELSE views[s]
  BY ApplyEventEffect
<1>2. e.seq \in Nat /\ checkpoint[p] \in Nat
  BY DEF ViewsInv, LoggedEvent
<1>3. ASSUME NEW q \in Projectors, checkpoint'[q] = checkpoint[q],
             NEW s \in Streams, ProjectorOf(s) = q
      PROVE  views'[s] = views[s]
  <2>1. CASE q = p
    <3>1. ~ (e.seq > checkpoint[p])
      BY <1>1, <1>2, <1>3, <2>1
    <3> QED
      BY <1>1, <3>1
  <2>2. CASE q # p
    <3>1. ~ (Relevant(p, e) /\ e.stream = s)
      BY <1>3, <2>2 DEF Relevant
    <3> QED
      BY <1>1, <3>1
  <2> QED
    BY <2>1, <2>2
<1>4. \A q \in Projectors : checkpoint'[q] >= checkpoint[q]
  BY CheckpointsRise
<1> QED
  BY <1>3, <1>4 DEF Advancing

LEMMA QuietAdvances ==
  ASSUME ViewsInv, UNCHANGED readVars
  PROVE  Advancing
<1>1. \A p \in Projectors : checkpoint'[p] >= checkpoint[p]
  BY CheckpointsKept
<1> QED
  BY <1>1 DEF Advancing, readVars

\* The delivery at the head of a writer's queue.
LEMMA HeadDelivery ==
  ASSUME ReadInv, NEW w \in Writers, pub[w].left # <<>>
  PROVE  LET left == pub[w].left IN
         /\ left \in Seq(Delivery) /\ Len(left) \in Nat /\ Len(left) > 0
         /\ Head(left) = left[1] /\ Head(left) \in Delivery
         /\ Head(left).to \in Projectors /\ Head(left).event \in LoggedEvent /\ InLog(Head(left).event)
         /\ Tail(left) \in Seq(Delivery) /\ Len(Tail(left)) = Len(left) - 1
         /\ \A i \in 1 .. Len(Tail(left)) : Tail(left)[i] = left[i+1]
<1>1. PICK q \in Publishing : q = pub[w] /\ PublishInv(q)
  BY DEF ReadInv
<1>2. PICK left \in Seq(Delivery) : left = q.left /\ left # <<>> /\ \A i \in 1 .. Len(left) : InLog(left[i].event)
  BY <1>1 DEF Publishing, PublishInv
<1>3. /\ Head(left) \in Delivery /\ Tail(left) \in Seq(Delivery) /\ Len(Tail(left)) = Len(left) - 1
      /\ \A i \in 1 .. Len(Tail(left)) : Tail(left)[i] = left[i+1]
  BY <1>2, HeadTailProperties
<1>4. Len(left) \in Nat /\ Len(left) > 0 /\ Head(left) = left[1] /\ 1 \in 1 .. Len(left)
  BY <1>2
<1>5. Head(left).to \in Projectors /\ Head(left).event \in LoggedEvent
  BY <1>3 DEF Delivery
<1>6. InLog(Head(left).event)
  BY <1>2, <1>4
<1> QED
  BY <1>1, <1>2, <1>3, <1>4, <1>5, <1>6

LEMMA StepAdvances ==
  ASSUME ReadInv, [Next]_vars
  PROVE  Advancing
<1>0. ViewsInv
  BY DEF ReadInv
<1>1. ASSUME UNCHANGED readVars PROVE Advancing
  BY <1>0, <1>1, QuietAdvances
<1>2. ASSUME NEW w \in Writers, Deliver(w) PROVE Advancing
  <2>1. PICK d : d = Head(pub[w].left)
    OBVIOUS
  <2>2. d.to \in Projectors /\ d.event \in LoggedEvent
    BY <1>2, <2>1, HeadDelivery DEF Deliver
  <2>3. ApplyEvent(d.to, d.event)
    BY <1>2, <2>1 DEF Deliver
  <2> QED
    BY <1>0, <2>2, <2>3, ApplyEventAdvances
<1>3. ASSUME NEW p \in Projectors, CatchUpApply(p) PROVE Advancing
  <2>1. PICK e \in LoggedEvent : e = Head(poll[p].batch)
    BY <1>3, CatchUpParts DEF CatchUpApply
  <2>2. ApplyEvent(p, e)
    BY <1>3, <2>1 DEF CatchUpApply
  <2> QED
    BY <1>0, <2>2, ApplyEventAdvances
<1>4. CASE \E w \in Writers : \E c \in Commands : Command(w, c)
  BY <1>1, <1>4 DEF Command
<1>5. CASE \E w \in Writers : WriterStep(w) \/ DeliverFails(w)
  BY <1>1, <1>2, <1>5 DEF WriterStep, BeginPublish, EndPublish, DeliverFails
<1>6. CASE \E p \in Projectors : PollStep(p) \/ CatchUpFails(p)
  BY <1>1, <1>3, <1>6 DEF PollStep, GetCheckpoint, LoadBatch, CatchUpFails
<1>8. CASE UNCHANGED vars
  BY <1>1, <1>8 DEF vars, readVars
<1> QED
  BY <1>4, <1>5, <1>6, <1>8 DEF Next

\* Checkpoints never move backwards, and a duplicate leaves no trace: a view changes
\* only together with its projector's checkpoint (WithTx around ApplyEvent).
THEOREM ViewAndCheckpointTogether == Spec => CheckpointsOnlyAdvance
<1>1. ReadInv /\ [Next]_vars => Advancing
  BY StepAdvances
<1> QED
  BY <1>1, ReadInvariant, PTL DEF Spec, CheckpointsOnlyAdvance, Advancing

-----------------------------------------------------------------------------
(* Views and the fold, when nothing is overtaken.                          *)

\* The log's growth does not change what was folded before.
LEMMA FoldStays ==
  ASSUME ReadInv, ViewIsFoldAtCheckpoint, Grows, UNCHANGED readVars
  PROVE  ViewIsFoldAtCheckpoint'
<1> SUFFICES ASSUME NEW s \in Streams
             PROVE  views'[s] = ViewOf(s, Fold(s, events')[checkpoint'[ProjectorOf(s)]])
  BY DEF ViewIsFoldAtCheckpoint
<1>1. ProjectorOf(s) \in Projectors
  BY DEF ProjectorOf, Projectors
<1>2. PICK n \in 0 .. Len(events) : n = checkpoint[ProjectorOf(s)]
  BY <1>1 DEF ReadInv, ViewsInv, LogInv
<1>3. Fold(s, events')[n] = Fold(s, events)[n]
  BY FoldPrefix DEF Grows
<1>4. views[s] = ViewOf(s, Fold(s, events)[n])
  BY <1>2 DEF ViewIsFoldAtCheckpoint
<1> QED
  BY <1>2, <1>3, <1>4 DEF readVars

\* The heart of it: applying the next event keeps the views equal to the fold.
LEMMA ApplyNextKeepsFold ==
  ASSUME ReadInv, ViewIsFoldAtCheckpoint, NEW p \in Projectors, NEW e \in LoggedEvent, InLog(e),
         e.seq <= checkpoint[p] + 1, ApplyEvent(p, e), UNCHANGED events
  PROVE  ViewIsFoldAtCheckpoint'
<1>0. ViewsInv /\ LogInv
  BY DEF ReadInv
<1>1. /\ checkpoint'[p] = IF e.seq <= checkpoint[p] THEN checkpoint[p] ELSE e.seq
      /\ \A q \in Projectors : q # p => checkpoint'[q] = checkpoint[q]
      /\ \A s \in Streams :
            views'[s] = IF e.seq > checkpoint[p] /\ Relevant(p, e) /\ e.stream = s
                        THEN ApplyView(p, views[s], e) ELSE views[s]
  BY <1>0, ApplyEventEffect
<1>2. /\ e.seq \in 1 .. Len(events) /\ e = events[e.seq] /\ Decodable(e)
      /\ checkpoint[p] \in Nat /\ Len(events) \in Nat
  BY <1>0 DEF InLog, LogInv, ViewsInv
<1>3. ASSUME NEW s \in Streams
      PROVE  views'[s] = ViewOf(s, Fold(s, events)[checkpoint'[ProjectorOf(s)]])
  <2>0. ProjectorOf(s) \in Projectors /\ views[s] = ViewOf(s, Fold(s, events)[checkpoint[ProjectorOf(s)]])
    BY DEF ProjectorOf, Projectors, ViewIsFoldAtCheckpoint
  <2>1. CASE e.seq <= checkpoint[p]
    <3>1. checkpoint'[ProjectorOf(s)] = checkpoint[ProjectorOf(s)]
      BY <1>1, <2>0, <2>1
    <3>2. ~ (e.seq > checkpoint[p])
      BY <1>2, <2>1
    <3> QED
      BY <1>1, <2>0, <3>1, <3>2
  <2>2. CASE ProjectorOf(s) # p
    <3>1. ~ (Relevant(p, e) /\ e.stream = s)
      BY <2>2 DEF Relevant
    <3> QED
      BY <1>1, <2>0, <2>2, <3>1
  <2>3. CASE ProjectorOf(s) = p /\ ~ (e.seq <= checkpoint[p])
    <3>1. e.seq > checkpoint[p] /\ e.seq - 1 = checkpoint[p] /\ checkpoint'[p] = e.seq
      BY <1>1, <1>2, <2>3
    <3>2. PICK n \in 1 .. Len(events) : n = e.seq /\ events[n] = e /\ n - 1 = checkpoint[p]
      BY <1>2, <3>1
    <3>3. PICK st : st = Fold(s, events)[n-1]
      OBVIOUS
    <3>4. n - 1 \in 0 .. Len(events)
      BY <1>2
    <3>5. st \in StateType(s)
      BY <1>0, <1>2, <3>3, <3>4, FoldType DEF LogInv
    <3>6. Fold(s, events)[n] = IF e.stream = s THEN Apply(s, st, e) ELSE st
      BY <1>2, <3>2, <3>3, FoldStep
    <3>7. views[s] = ViewOf(s, st)
      BY <2>0, <2>3, <3>2, <3>3
    <3>8. CASE e.stream = s
      <4>1. Relevant(p, e)
        BY <2>3, <3>8 DEF Relevant
      <4>2. views'[s] = ApplyView(p, ViewOf(s, st), e)
        BY <1>1, <3>1, <3>7, <3>8, <4>1
      <4>3. ApplyView(p, ViewOf(s, st), e) = ViewOf(s, Apply(s, st, e))
        BY <1>2, <2>3, <3>5, <3>8, ApplyViewIsApply
      <4> QED
        BY <2>3, <3>1, <3>2, <3>6, <3>8, <4>2, <4>3
    <3>9. CASE e.stream # s
      BY <1>1, <2>3, <3>1, <3>2, <3>6, <3>7, <3>9
    <3> QED
      BY <3>8, <3>9
  <2> QED
    BY <2>1, <2>2, <2>3
<1> QED
  BY <1>3 DEF ViewIsFoldAtCheckpoint

LEMMA EventParts ==
  ASSUME NEW batch \in Seq(LoggedEvent), NEW i \in 1 .. Len(batch)
  PROVE  batch[i] \in LoggedEvent /\ batch[i].seq \in Nat
<1>1. batch[i] \in LoggedEvent
  OBVIOUS
<1> QED
  BY <1>1 DEF LoggedEvent

LEMMA DeliveryParts ==
  ASSUME NEW left \in Seq(Delivery), NEW i \in 1 .. Len(left)
  PROVE  left[i].to \in Projectors /\ left[i].event \in LoggedEvent /\ left[i].event.seq \in Nat
<1>1. left[i] \in Delivery
  OBVIOUS
<1>2. left[i].to \in Projectors /\ left[i].event \in LoggedEvent
  BY <1>1 DEF Delivery
<1> QED
  BY <1>2 DEF LoggedEvent

\* What is in order stays in order while checkpoints rise.
LEMMA PageOrderStays ==
  ASSUME NEW p \in Projectors, NEW batch \in Seq(LoggedEvent), PageInOrder(p, batch),
         checkpoint[p] \in Nat, checkpoint'[p] \in Nat, checkpoint'[p] >= checkpoint[p]
  PROVE  PageInOrder(p, batch)'
<1> SUFFICES ASSUME NEW i \in 1 .. Len(batch), ~ (batch[i].seq <= checkpoint'[p] + 1)
             PROVE  i > 1 /\ batch[i-1].seq + 1 = batch[i].seq
  BY DEF PageInOrder
<1>1. batch[i].seq \in Nat
  BY EventParts
<1>2. ~ (batch[i].seq <= checkpoint[p] + 1)
  BY <1>1
<1> QED
  BY <1>2 DEF PageInOrder

LEMMA QueueOrderStays ==
  ASSUME NEW left \in Seq(Delivery), QueueInOrder(left),
         checkpoint \in [Projectors -> Nat], checkpoint' \in [Projectors -> Nat],
         \A p \in Projectors : checkpoint'[p] >= checkpoint[p]
  PROVE  QueueInOrder(left)'
<1> SUFFICES ASSUME NEW i \in 1 .. Len(left), ~ (left[i].event.seq <= checkpoint'[left[i].to] + 1)
             PROVE  \E j \in 1 .. (i - 1) : left[j].to = left[i].to /\ left[j].event.seq + 1 = left[i].event.seq
  BY DEF QueueInOrder
<1>1. left[i].to \in Projectors /\ left[i].event.seq \in Nat
  BY DeliveryParts
<1>2. ~ (left[i].event.seq <= checkpoint[left[i].to] + 1)
  BY <1>1
<1> QED
  BY <1>2 DEF QueueInOrder

\* The head of a page is the next event or an old one; once it is applied, the rest of
\* the page is in order again.
LEMMA PageOrderTail ==
  ASSUME NEW p \in Projectors, NEW batch \in Seq(LoggedEvent), PageInOrder(p, batch), Len(batch) > 0,
         checkpoint[p] \in Nat, checkpoint'[p] \in Nat, checkpoint'[p] >= checkpoint[p],
         checkpoint'[p] >= batch[1].seq,
         NEW rest \in Seq(LoggedEvent), Len(rest) = Len(batch) - 1,
         \A i \in 1 .. Len(rest) : rest[i] = batch[i+1]
  PROVE  batch[1].seq <= checkpoint[p] + 1 /\ PageInOrder(p, rest)'
<1>1. \A i \in 1 .. Len(batch) : batch[i].seq \in Nat
  BY EventParts
<1>2. 1 \in 1 .. Len(batch) /\ Len(batch) \in Nat
  OBVIOUS
<1>3. batch[1].seq <= checkpoint[p] + 1
  BY <1>2 DEF PageInOrder
<1>4. ASSUME NEW i \in 1 .. Len(rest), ~ (rest[i].seq <= checkpoint'[p] + 1)
      PROVE  i > 1 /\ rest[i-1].seq + 1 = rest[i].seq
  <2>1. i + 1 \in 1 .. Len(batch) /\ rest[i] = batch[i+1] /\ i \in 1 .. Len(batch)
    BY <1>2
  <2>2. ~ (batch[i+1].seq <= checkpoint[p] + 1)
    BY <1>1, <1>4, <2>1
  <2>3. batch[i].seq + 1 = batch[i+1].seq
    <3>1. PICK n \in 1 .. Len(batch) : n = i + 1 /\ n - 1 = i
      BY <2>1
    <3>2. batch[n-1].seq + 1 = batch[n].seq
      BY <2>2, <3>1 DEF PageInOrder
    <3> QED
      BY <3>1, <3>2
  <2>4. i # 1
    <3> SUFFICES ASSUME i = 1 PROVE FALSE
      OBVIOUS
    <3>1. batch[1].seq + 1 = batch[2].seq /\ rest[1] = batch[2]
      BY <2>1, <2>3
    <3>2. batch[1].seq \in Nat
      BY <1>1, <1>2
    <3> QED
      BY <1>4, <3>1, <3>2
  <2>5. i - 1 \in 1 .. Len(rest) /\ rest[i-1] = batch[i]
    BY <1>2, <2>4
  <2> QED
    BY <2>1, <2>3, <2>4, <2>5
<1>5. PageInOrder(p, rest)'
  BY <1>4 DEF PageInOrder
<1> QED
  BY <1>3, <1>5

LEMMA QueueOrderTail ==
  ASSUME NEW left \in Seq(Delivery), QueueInOrder(left), Len(left) > 0,
         checkpoint \in [Projectors -> Nat], checkpoint' \in [Projectors -> Nat],
         \A p \in Projectors : checkpoint'[p] >= checkpoint[p],
         checkpoint'[left[1].to] >= left[1].event.seq,
         NEW rest \in Seq(Delivery), Len(rest) = Len(left) - 1,
         \A i \in 1 .. Len(rest) : rest[i] = left[i+1]
  PROVE  left[1].event.seq <= checkpoint[left[1].to] + 1 /\ QueueInOrder(rest)'
<1>1. \A i \in 1 .. Len(left) : left[i].to \in Projectors /\ left[i].event.seq \in Nat
  BY DeliveryParts
<1>2. 1 \in 1 .. Len(left) /\ Len(left) \in Nat
  OBVIOUS
<1>3. left[1].event.seq <= checkpoint[left[1].to] + 1
  <2>1. ~ \E j \in 1 .. (1 - 1) : left[j].to = left[1].to /\ left[j].event.seq + 1 = left[1].event.seq
    OBVIOUS
  <2> QED
    BY <1>2, <2>1 DEF QueueInOrder
<1>4. ASSUME NEW i \in 1 .. Len(rest), ~ (rest[i].event.seq <= checkpoint'[rest[i].to] + 1)
      PROVE  \E j \in 1 .. (i - 1) : rest[j].to = rest[i].to /\ rest[j].event.seq + 1 = rest[i].event.seq
  <2>1. i + 1 \in 1 .. Len(left) /\ rest[i] = left[i+1]
    BY <1>2
  <2>2. ~ (left[i+1].event.seq <= checkpoint[left[i+1].to] + 1)
    BY <1>1, <1>4, <2>1
  <2>3. PICK k \in 1 .. i : left[k].to = left[i+1].to /\ left[k].event.seq + 1 = left[i+1].event.seq
    <3>1. PICK n \in 1 .. Len(left) : n = i + 1 /\ n - 1 = i
      BY <2>1
    <3>2. \E j \in 1 .. (n - 1) : left[j].to = left[n].to /\ left[j].event.seq + 1 = left[n].event.seq
      BY <2>2, <3>1 DEF QueueInOrder
    <3> QED
      BY <3>1, <3>2
  <2>4. k # 1
    <3> SUFFICES ASSUME k = 1 PROVE FALSE
      OBVIOUS
    <3>1. left[1].to = rest[i].to /\ left[1].event.seq + 1 = rest[i].event.seq
      BY <2>1, <2>3
    <3>2. left[1].event.seq \in Nat /\ checkpoint'[left[1].to] \in Nat
      BY <1>1, <1>2
    <3> QED
      BY <1>4, <3>1, <3>2
  <2>5. k - 1 \in 1 .. (i - 1) /\ k - 1 \in 1 .. Len(rest) /\ k - 1 + 1 = k
    BY <1>2, <2>4
  <2>6. rest[k-1] = left[k]
    BY <2>5
  <2> QED
    BY <2>1, <2>3, <2>5, <2>6
<1>5. QueueInOrder(rest)'
  BY <1>4 DEF QueueInOrder
<1> QED
  BY <1>3, <1>5

Rises ==
    /\ checkpoint \in [Projectors -> Nat] /\ checkpoint' \in [Projectors -> Nat]
    /\ \A p \in Projectors : checkpoint'[p] >= checkpoint[p]

\* The part of ViewInv about one writer.
WriterInv(r) == QueueInOrder(r.left) /\ IF BusOn THEN BatchIsNext(r) ELSE NoBus(r)

LEMMA BatchStays ==
  ASSUME LogInv, NEW r \in Publishing, BatchIsNext(r), UNCHANGED events, ViewsInv', Rises
  PROVE  BatchIsNext(r)'
<1>1. Len(events) \in Nat /\ Len(r.batch) \in Nat
  <2>1. r.batch \in Seq(LoggedEvent)
    BY DEF Publishing
  <2> QED
    BY <2>1 DEF LogInv
<1>2. \A p \in Projectors : checkpoint'[p] >= Len(events) - Len(r.batch)
  BY <1>1 DEF BatchIsNext, Rises
<1>3. \A p \in Projectors : checkpoint[p] = Len(events) => checkpoint'[p] = Len(events)
  BY <1>1 DEF Rises, ViewsInv
<1> QED
  BY <1>2, <1>3 DEF BatchIsNext

LEMMA WriterInvStays ==
  ASSUME LogInv, NEW r \in Publishing, WriterInv(r), UNCHANGED events, ViewsInv', Rises
  PROVE  WriterInv(r)'
<1>1. r.left \in Seq(Delivery)
  BY DEF Publishing
<1>2. QueueInOrder(r.left)'
  BY <1>1, QueueOrderStays DEF Rises, WriterInv
<1>3. CASE BusOn
  <2>1. BatchIsNext(r)'
    BY <1>3, BatchStays DEF WriterInv
  <2> QED
    BY <1>2, <1>3, <2>1 DEF WriterInv
<1>4. CASE ~ BusOn
  BY <1>2, <1>4 DEF WriterInv, NoBus
<1> QED
  BY <1>3, <1>4

LEMMA WritersKept ==
  ASSUME ReadInv, ViewInv, ViewsInv', UNCHANGED events, UNCHANGED pub, Rises
  PROVE  \A w \in Writers : WriterInv(pub[w])'
<1> SUFFICES ASSUME NEW w \in Writers PROVE WriterInv(pub[w])'
  OBVIOUS
<1>1. PICK r \in Publishing : r = pub[w] /\ WriterInv(r)
  BY DEF ReadInv, ViewInv, WriterInv
<1>2. WriterInv(r)'
  BY <1>1, WriterInvStays DEF ReadInv
<1> QED
  BY <1>1, <1>2

LEMMA WriterChanges ==
  ASSUME ReadInv, ViewInv, ViewsInv', UNCHANGED events, Rises,
         NEW w \in Writers, NEW r \in Publishing, pub' = [pub EXCEPT ![w] = r], WriterInv(r)'
  PROVE  \A v \in Writers : WriterInv(pub[v])'
<1> SUFFICES ASSUME NEW v \in Writers PROVE WriterInv(pub[v])'
  OBVIOUS
<1>1. PICK q \in Publishing : q = pub[v] /\ WriterInv(q)
  BY DEF ReadInv, ViewInv, WriterInv
<1>2. WriterInv(q)'
  BY <1>1, WriterInvStays DEF ReadInv
<1>3. pub'[v] = IF v = w THEN r ELSE q
  BY <1>1 DEF ReadInv
<1> QED
  BY <1>2, <1>3

LEMMA PageStays ==
  ASSUME ReadInv, ViewInv, Rises, NEW p \in Projectors, NEW b, b = poll[p].batch
  PROVE  PageInOrder(p, b)'
<1>1. b \in Seq(LoggedEvent) /\ PageInOrder(p, b)
  <2>1. poll[p] \in Polling
    BY DEF ReadInv
  <2>2. b \in Seq(LoggedEvent)
    BY <2>1 DEF Polling
  <2> QED
    BY <2>2 DEF ViewInv
<1> QED
  BY <1>1, PageOrderStays DEF Rises

LEMMA PollersKept ==
  ASSUME ReadInv, ViewInv, UNCHANGED poll, Rises
  PROVE  \A p \in Projectors : PageInOrder(p, poll[p].batch)'
<1> SUFFICES ASSUME NEW p \in Projectors PROVE PageInOrder(p, poll[p].batch)'
  OBVIOUS
<1>1. PICK b : b = poll[p].batch
  OBVIOUS
<1>2. PageInOrder(p, b)'
  BY <1>1, PageStays
<1> QED
  BY <1>1, <1>2

LEMMA PollerChanges ==
  ASSUME ReadInv, ViewInv, Rises, NEW p \in Projectors, NEW r,
         poll' = [poll EXCEPT ![p] = r], PageInOrder(p, r.batch)'
  PROVE  \A q \in Projectors : PageInOrder(q, poll[q].batch)'
<1> SUFFICES ASSUME NEW q \in Projectors PROVE PageInOrder(q, poll[q].batch)'
  OBVIOUS
<1>1. PICK b : b = poll[q].batch
  OBVIOUS
<1>2. PageInOrder(q, b)'
  BY <1>1, PageStays
<1>3. poll'[q] = IF q = p THEN r ELSE poll[q]
  BY DEF ReadInv
<1> QED
  BY <1>1, <1>2, <1>3

LEMMA QuietRises ==
  ASSUME ReadInv, UNCHANGED readVars
  PROVE  Rises
  BY CheckpointsKept DEF ReadInv, ViewsInv, Rises

LEMMA ApplyRises ==
  ASSUME ReadInv, NEW p \in Projectors, NEW e \in LoggedEvent, ApplyEvent(p, e)
  PROVE  Rises
<1>1. ViewsInv /\ checkpoint \in [Projectors -> Nat]
  BY DEF ReadInv, ViewsInv
<1> QED
  BY <1>1, CheckpointsRise DEF Rises

\* Whatever the read side does, the log grows and checkpoints rise.
LEMMA NextGrows ==
  ASSUME ReadInv, [Next]_vars
  PROVE  Grows /\ Rises
<1>1. LogInv /\ ViewsInv
  BY DEF ReadInv
<1>2. ASSUME UNCHANGED events PROVE Grows
  BY <1>1, <1>2, LogKept
<1>3. ASSUME NEW c \in Commands, Log!Execute(c) PROVE Grows
  BY <1>1, <1>3, LogGrows DEF Grows
<1>4. Grows
  <2>1. CASE \E w \in Writers : \E c \in Commands : Command(w, c)
    BY <1>3, <2>1 DEF Command
  <2>2. CASE \E w \in Writers : WriterStep(w) \/ DeliverFails(w)
    BY <1>2, <2>2 DEF WriterStep, BeginPublish, Deliver, EndPublish, DeliverFails, logVars
  <2>3. CASE \E p \in Projectors : PollStep(p) \/ CatchUpFails(p)
    BY <1>2, <2>3 DEF PollStep, GetCheckpoint, LoadBatch, CatchUpApply, CatchUpFails, logVars
  <2>5. CASE UNCHANGED vars
    BY <1>2, <2>5 DEF vars
  <2> QED
    BY <2>1, <2>2, <2>3, <2>5 DEF Next
<1>5. \A p \in Projectors : checkpoint'[p] >= checkpoint[p]
  BY StepAdvances DEF Advancing
<1>6. checkpoint \in [Projectors -> Nat] /\ checkpoint' \in [Projectors -> Nat]
  BY <1>1, ReadInvStep DEF ReadInv, ViewsInv
<1> QED
  BY <1>4, <1>5, <1>6 DEF Rises

LEMMA ViewParts ==
  ASSUME (faults \in Nat)', ViewIsFoldAtCheckpoint',
         \A p \in Projectors : PageInOrder(p, poll[p].batch)',
         \A w \in Writers : WriterInv(pub[w])'
  PROVE  ViewInv'
  BY DEF ViewInv, WriterInv

LEMMA CommandKeepsView ==
  ASSUME ReadInv, ViewInv, InOrder, ReadInv', NEW w \in Writers, NEW c \in Commands, Command(w, c)
  PROVE  ViewInv'
<1>0. LogInv /\ ViewsInv /\ Log!Execute(c) /\ UNCHANGED readVars /\ UNCHANGED poll /\ faults' = faults
  BY DEF ReadInv, Command
<1>1. Grows /\ Rises /\ Len(events) \in Nat /\ Len(events') \in Nat
  BY <1>0, LogGrows, QuietRises DEF Grows
<1>2. ViewIsFoldAtCheckpoint'
  BY <1>0, <1>1, FoldStays DEF ViewInv
<1>3. \A p \in Projectors : PageInOrder(p, poll[p].batch)'
  BY <1>0, <1>1, PollersKept
<1>4. PICK r : /\ r = [batch  |-> SubSeq(events', Len(events) + 1, Len(events')),
                       rounds |-> IF BusOn THEN 1 + ExtraDeliveries ELSE 0,
                       left   |-> <<>>]
               /\ pub' = [pub EXCEPT ![w] = r]
  BY DEF Command
<1>5. r.left = <<>> /\ r.rounds = (IF BusOn THEN 1 + ExtraDeliveries ELSE 0)
  BY <1>4
<1>6. /\ Len(r.batch) = Len(events') - Len(events)
      /\ \A i \in 1 .. Len(r.batch) : r.batch[i].seq = Len(events) + i
  <2>1. r.batch = SubSeq(events', Len(events) + 1, Len(events'))
    BY <1>4
  <2> QED
    BY <1>0, <2>1, CommandBatch
<1>7. \A v \in Writers : pub'[v] = IF v = w THEN r ELSE pub[v]
  BY <1>4 DEF ReadInv
<1>8. CASE BusOn
  <2>1. \A v \in Writers : v = w
    BY <1>8 DEF InOrder
  <2>2. pub[w] = NotPublishing /\ BatchIsNext(pub[w])
    BY <1>8 DEF Command, ViewInv
  <2>3. \A p \in Projectors : checkpoint[p] >= Len(events)
    BY <1>1, <2>2 DEF BatchIsNext, NotPublishing
  <2>4. \A p \in Projectors : checkpoint'[p] >= Len(events') - Len(r.batch)
    BY <1>1, <1>0, <1>6, <2>3 DEF readVars
  <2>5. \A i \in 1 .. Len(r.batch) : r.batch[i].seq = Len(events') - Len(r.batch) + i
    BY <1>1, <1>6
  <2>6. ~ (r.rounds <= ExtraDeliveries)
    BY <1>5, <1>8, DeliveryAssumption
  <2>7. BatchIsNext(r)'
    BY <1>5, <2>4, <2>5, <2>6 DEF BatchIsNext
  <2>8. QueueInOrder(r.left)'
    BY <1>5 DEF QueueInOrder
  <2>9. WriterInv(r)'
    BY <1>8, <2>7, <2>8 DEF WriterInv
  <2>10. \A v \in Writers : WriterInv(pub[v])'
    BY <1>7, <2>1, <2>9
  <2> QED
    BY <1>0, <1>2, <1>3, <2>10, ViewParts DEF ViewInv
<1>9. CASE ~ BusOn
  <2>1. \A v \in Writers : pub'[v].left = <<>> /\ pub'[v].rounds = 0
    BY <1>5, <1>7, <1>9 DEF ViewInv, NoBus
  <2>2. \A v \in Writers : WriterInv(pub[v])'
    BY <1>9, <2>1 DEF WriterInv, NoBus, QueueInOrder
  <2> QED
    BY <1>0, <1>2, <1>3, <2>2, ViewParts DEF ViewInv
<1> QED
  BY <1>8, <1>9

\* A step that leaves the log and the views alone, and only moves polls or publishes.
LEMMA QuietKeepsView ==
  ASSUME ReadInv, ViewInv, ReadInv', UNCHANGED <<logVars, readVars>>, faults' \in Nat,
         \A p \in Projectors : PageInOrder(p, poll[p].batch)',
         \A w \in Writers : WriterInv(pub[w])'
  PROVE  ViewInv'
<1>1. Grows
  BY LogKept DEF ReadInv, logVars
<1>2. ViewIsFoldAtCheckpoint'
  BY <1>1, FoldStays DEF ViewInv
<1> QED
  BY <1>2, ViewParts

LEMMA PollerKeepsView ==
  ASSUME ReadInv, ViewInv, ReadInv', UNCHANGED <<logVars, readVars, pub>>, faults' \in Nat,
         NEW p \in Projectors, NEW r, poll' = [poll EXCEPT ![p] = r], PageInOrder(p, r.batch)'
  PROVE  ViewInv'
<1>1. Rises /\ ViewsInv' /\ UNCHANGED events
  BY QuietRises DEF ReadInv, logVars
<1>2. \A q \in Projectors : PageInOrder(q, poll[q].batch)'
  BY <1>1, PollerChanges
<1>3. \A w \in Writers : WriterInv(pub[w])'
  BY <1>1, WritersKept
<1> QED
  BY <1>2, <1>3, QuietKeepsView

LEMMA WriterKeepsView ==
  ASSUME ReadInv, ViewInv, ReadInv', UNCHANGED <<logVars, readVars, poll>>, faults' \in Nat,
         NEW w \in Writers, NEW r \in Publishing, pub' = [pub EXCEPT ![w] = r], WriterInv(r)'
  PROVE  ViewInv'
<1>1. Rises /\ ViewsInv' /\ UNCHANGED events
  BY QuietRises DEF ReadInv, logVars
<1>2. \A q \in Projectors : PageInOrder(q, poll[q].batch)'
  BY <1>1, PollersKept
<1>3. \A v \in Writers : WriterInv(pub[v])'
  BY <1>1, WriterChanges
<1> QED
  BY <1>2, <1>3, QuietKeepsView

\* Without a bus there is nothing to deliver.
LEMMA BusDelivers ==
  ASSUME ViewInv, NEW w \in Writers, pub[w].left # <<>> \/ pub[w].rounds # 0
  PROVE  BusOn
  BY DEF ViewInv, NoBus

LEMMA FaultNeedsNoBus ==
  ASSUME ViewInv, InOrder, Fault
  PROVE  ~ BusOn /\ faults' \in Nat
<1>1. faults \in Nat
  BY DEF ViewInv
<1> QED
  BY <1>1 DEF InOrder, Fault

\* Every delivery carries the event after first, or the one after an earlier delivery to
\* the same projector.
InTurn(d, first) ==
    \A i \in 1 .. Len(d) :
        \/ d[i].event.seq = first + 1
        \/ \E j \in 1 .. (i - 1) : d[j].to = d[i].to /\ d[j].event.seq + 1 = d[i].event.seq

\* Every projector gets the event with this number.
ReachesAll(d, seq) == \A p \in Projectors : \E i \in 1 .. Len(d) : d[i].to = p /\ d[i].event.seq = seq

\* Deliveries hand every projector the batch in log order, last event included.
LEMMA DeliveriesInOrder ==
  ASSUME NEW batch \in Seq(LoggedEvent), NEW order \in HandlerOrders, NEW first \in Nat,
         \A i \in 1 .. Len(batch) : batch[i].seq = first + i,
         NEW d, d = Deliveries(batch, order)
  PROVE  /\ InTurn(d, first)
         /\ batch # <<>> => ReachesAll(d, first + Len(batch))
<1>1. /\ d \in Seq(Delivery) /\ Len(d) = 2 * Len(batch)
      /\ \A i \in 1 .. Len(d) : /\ (i + 1) \div 2 \in 1 .. Len(batch)
                                /\ d[i].event = batch[(i + 1) \div 2]
                                /\ d[i].to = order[IF i % 2 = 1 THEN 1 ELSE 2]
  BY DeliveriesType
<1>2. Len(batch) \in Nat /\ Len(d) \in Nat
  BY <1>1
<1>3. \A i \in 1 .. Len(d) : d[i].event.seq = first + (i + 1) \div 2
  BY <1>1
<1>4. ASSUME NEW i \in 1 .. Len(d), ~ (d[i].event.seq = first + 1)
      PROVE  \E j \in 1 .. (i - 1) : d[j].to = d[i].to /\ d[j].event.seq + 1 = d[i].event.seq
  <2>1. (i + 1) \div 2 # 1
    BY <1>3, <1>4
  <2>2. i > 2
    BY <1>2, <2>1
  <2>3. PICK j \in 1 .. (i - 1) : j = i - 2 /\ j \in 1 .. Len(d)
    BY <1>2, <2>2
  <2>4. (j + 1) \div 2 + 1 = (i + 1) \div 2 /\ j % 2 = i % 2
    BY <1>2, <2>2, <2>3
  <2>5. d[j].to = d[i].to
    BY <1>1, <2>3, <2>4
  <2>6. d[j].event.seq + 1 = d[i].event.seq
    <3>1. d[j].event.seq = first + (j + 1) \div 2 /\ d[i].event.seq = first + (i + 1) \div 2
      BY <1>3, <2>3
    <3>2. (j + 1) \div 2 \in Nat
      BY <2>3
    <3> QED
      BY <2>4, <3>1, <3>2
  <2> QED
    BY <2>5, <2>6
<1>5. ASSUME batch # <<>>, NEW p \in Projectors
      PROVE  \E i \in 1 .. Len(d) : d[i].to = p /\ d[i].event.seq = first + Len(batch)
  <2>1. Len(batch) > 0
    BY <1>5
  <2>2. PICK n \in Nat : n = Len(batch) /\ n > 0 /\ Len(d) = 2 * n
    BY <1>1, <1>2, <2>1
  <2>3. PICK i, j \in 1 .. Len(d) :
          /\ i = 2 * n - 1 /\ i % 2 = 1 /\ (i + 1) \div 2 = n
          /\ j = 2 * n /\ j % 2 # 1 /\ (j + 1) \div 2 = n
    <3>1. 2 * n - 1 \in 1 .. Len(d) /\ (2 * n - 1) % 2 = 1 /\ (2 * n - 1 + 1) \div 2 = n
      BY <2>2
    <3>2. 2 * n \in 1 .. Len(d) /\ (2 * n) % 2 # 1 /\ (2 * n + 1) \div 2 = n
      <4>1. 2 * n \in 1 .. Len(d)
        BY <2>2
      <4>2. (2 * n) % 2 # 1
        BY <2>2
      <4>3. (2 * n + 1) \div 2 = n
        BY <2>2
      <4> QED
        BY <4>1, <4>2, <4>3
    <3> QED
      BY <3>1, <3>2
  <2>4. d[i].to = order[1] /\ d[j].to = order[2]
    BY <1>1, <2>3
  <2>5. order[1] = p \/ order[2] = p
    BY DEF HandlerOrders, Projectors
  <2>6. d[i].event.seq = first + n /\ d[j].event.seq = first + n
    BY <1>3, <2>3
  <2> QED
    BY <2>2, <2>4, <2>5, <2>6
<1> QED
  BY <1>4, <1>5 DEF InTurn, ReachesAll

LEMMA BeginPublishKeepsView ==
  ASSUME ReadInv, ViewInv, ReadInv', NEW w \in Writers, BeginPublish(w)
  PROVE  ViewInv'
<1>0. LogInv /\ ViewsInv /\ UNCHANGED events /\ UNCHANGED readVars /\ faults' \in Nat
  BY DEF ReadInv, ViewInv, BeginPublish, logVars
<1>1. PICK order \in HandlerOrders :
         pub' = [pub EXCEPT ![w].left = Deliveries(pub[w].batch, order), ![w].rounds = @ - 1]
  BY DEF BeginPublish
<1>2. PICK q \in Publishing : q = pub[w] /\ PublishInv(q) /\ q.rounds > 0 /\ q.left = <<>>
  BY DEF ReadInv, BeginPublish
<1>3. BusOn
  <2>1. q.rounds # 0
    BY <1>2 DEF Publishing
  <2> QED
    BY <1>2, <2>1, BusDelivers
<1>4. BatchIsNext(q)
  BY <1>2, <1>3 DEF ViewInv
<1>5. PICK b \in Seq(LoggedEvent) : b = q.batch
  BY DEF Publishing
<1>6. PICK d \in Seq(Delivery) : d = Deliveries(b, order) /\ Len(d) = 2 * Len(b)
  BY DeliveriesType
<1>7. PICK r : r = [q EXCEPT !.left = d, !.rounds = q.rounds - 1]
  OBVIOUS
<1>8. r \in Publishing /\ r.batch = b /\ r.left = d /\ r.rounds = q.rounds - 1
  <2>1. q.rounds \in Nat
    BY DEF Publishing
  <2>2. q.rounds - 1 \in Nat
    BY <1>2, <2>1
  <2> QED
    BY <1>5, <1>7, <2>2 DEF Publishing
<1>9. pub' = [pub EXCEPT ![w] = r]
  BY <1>1, <1>2, <1>5, <1>6, <1>7 DEF ReadInv
<1>10. PICK first : first = Len(events) - Len(b)
  OBVIOUS
<1>11. /\ first \in Nat /\ first + Len(b) = Len(events)
       /\ \A i \in 1 .. Len(b) : b[i].seq = first + i
       /\ \A p \in Projectors : checkpoint[p] \in Nat /\ checkpoint[p] >= first
       /\ Len(events) \in Nat
  <2>1. Len(events) \in Nat /\ Len(b) \in Nat
    BY <1>0 DEF LogInv
  <2>2. \A i \in 1 .. Len(b) : InLog(b[i])
    BY <1>2, <1>5 DEF PublishInv
  <2>3. \A i \in 1 .. Len(b) : b[i].seq = first + i
    BY <1>4, <1>5, <1>10 DEF BatchIsNext
  <2>4. first \in Nat
    <3>1. CASE Len(b) = 0
      BY <1>10, <2>1, <3>1
    <3>2. CASE Len(b) # 0
      <4>1. 1 \in 1 .. Len(b)
        BY <2>1, <3>2
      <4>2. first + 1 \in 1 .. Len(events)
        BY <2>2, <2>3, <4>1 DEF InLog
      <4> QED
        BY <1>10, <2>1, <4>2
    <3> QED
      BY <3>1, <3>2
  <2>5. \A p \in Projectors : checkpoint[p] \in Nat /\ checkpoint[p] >= first
    BY <1>0, <1>4, <1>5, <1>10 DEF BatchIsNext, ViewsInv
  <2> QED
    BY <1>10, <2>1, <2>3, <2>4, <2>5
<1>12. /\ InTurn(d, first)
       /\ b # <<>> => ReachesAll(d, Len(events))
  <2>1. first \in Nat /\ \A i \in 1 .. Len(b) : b[i].seq = first + i
    BY <1>11
  <2>2. d = Deliveries(b, order)
    BY <1>6
  <2>3. InTurn(d, first)
    BY <2>1, <2>2, DeliveriesInOrder
  <2>4. b # <<>> => ReachesAll(d, first + Len(b))
    BY <2>1, <2>2, DeliveriesInOrder
  <2> QED
    BY <1>11, <2>3, <2>4
<1>13. checkpoint' = checkpoint
  BY <1>0 DEF readVars
<1>14. QueueInOrder(d)'
  <2> SUFFICES ASSUME NEW i \in 1 .. Len(d), ~ (d[i].event.seq <= checkpoint[d[i].to] + 1)
               PROVE  \E j \in 1 .. (i - 1) : d[j].to = d[i].to /\ d[j].event.seq + 1 = d[i].event.seq
    BY <1>13 DEF QueueInOrder
  <2>1. d[i].to \in Projectors
    BY DeliveryParts
  <2>2. checkpoint[d[i].to] \in Nat /\ checkpoint[d[i].to] >= first
    BY <1>11, <2>1
  <2>3. d[i].event.seq # first + 1
    BY <1>11, <2>2
  <2> QED
    BY <1>12, <2>3 DEF InTurn
<1>15. BatchIsNext(r)'
  <2>1. CASE b = <<>>
    <3>1. d = <<>> /\ Len(b) = 0
      BY <1>6, <2>1
    <3>2. \A p \in Projectors : checkpoint[p] = Len(events)
      <4>1. \A p \in Projectors : checkpoint[p] <= Len(events)
        BY <1>0 DEF ViewsInv
      <4> QED
        BY <1>11, <3>1, <4>1
    <3> QED
      BY <1>0, <1>8, <1>10, <1>11, <1>13, <2>1, <3>1, <3>2 DEF BatchIsNext
  <2>2. CASE b # <<>>
    BY <1>0, <1>8, <1>10, <1>11, <1>12, <1>13, <2>2 DEF BatchIsNext, ReachesAll
  <2> QED
    BY <2>1, <2>2
<1>16. WriterInv(r)'
  BY <1>3, <1>8, <1>14, <1>15 DEF WriterInv
<1> QED
  BY <1>0, <1>8, <1>9, <1>16, WriterKeepsView DEF BeginPublish

\* One delivery less: nobody loses the batch's last event by it.
LEMMA BatchTail ==
  ASSUME LogInv, events' = events, ViewsInv', Rises,
         NEW q \in Publishing, BatchIsNext(q), Len(q.left) > 0,
         checkpoint'[q.left[1].to] >= q.left[1].event.seq,
         NEW r \in Publishing, r.batch = q.batch, r.rounds = q.rounds, Len(r.left) = Len(q.left) - 1,
         \A i \in 1 .. Len(r.left) : r.left[i] = q.left[i+1]
  PROVE  BatchIsNext(r)'
<1>0. PICK left \in Seq(Delivery), rest \in Seq(Delivery) : left = q.left /\ rest = r.left
  BY DEF Publishing
<1>1. BatchIsNext(q)'
  BY BatchStays
<1>2. Len(events) \in Nat /\ Len(left) \in Nat /\ Len(rest) = Len(left) - 1
  BY <1>0 DEF LogInv
<1>3. left # <<>>
  BY <1>0
<1>4. r.batch # <<>>
  BY <1>0, <1>3 DEF BatchIsNext
<1>5. ASSUME r.rounds <= ExtraDeliveries, NEW p \in Projectors, checkpoint'[p] # Len(events)
      PROVE  \E i \in 1 .. Len(rest) : rest[i].to = p /\ rest[i].event.seq = Len(events)
  <2>1. PICK i \in 1 .. Len(left) : left[i].to = p /\ left[i].event.seq = Len(events)
    BY <1>0, <1>1, <1>2, <1>5 DEF BatchIsNext
  <2>2. checkpoint'[p] \in Nat /\ checkpoint'[p] <= Len(events)
    BY <1>2 DEF ViewsInv
  <2>3. i # 1
    BY <1>0, <1>2, <1>5, <2>1, <2>2
  <2>4. i - 1 \in 1 .. Len(rest) /\ i - 1 + 1 = i
    BY <1>2, <2>3
  <2>5. rest[i-1] = left[i]
    BY <1>0, <2>4
  <2> QED
    BY <2>1, <2>4, <2>5
<1>6. /\ \A i \in 1 .. Len(r.batch) : r.batch[i].seq = Len(events') - Len(r.batch) + i
      /\ \A p \in Projectors : checkpoint'[p] >= Len(events') - Len(r.batch)
  BY <1>1 DEF BatchIsNext
<1> QED
  BY <1>0, <1>4, <1>5, <1>6 DEF BatchIsNext

LEMMA DeliverKeepsView ==
  ASSUME ReadInv, ViewInv, ReadInv', NEW w \in Writers, Deliver(w)
  PROVE  ViewInv'
<1>0. LogInv /\ ViewsInv /\ ViewsInv' /\ UNCHANGED events /\ UNCHANGED poll /\ faults' \in Nat
  BY DEF ReadInv, ViewInv, Deliver, logVars
<1>1. PICK q \in Publishing : q = pub[w] /\ q.left # <<>>
  BY DEF ReadInv, Deliver
<1>2. BusOn
  BY <1>1, BusDelivers
<1>3. BatchIsNext(q) /\ QueueInOrder(q.left)
  BY <1>1, <1>2 DEF ViewInv
<1>4. PICK left \in Seq(Delivery) :
         /\ left = q.left /\ Len(left) \in Nat /\ Len(left) > 0 /\ Head(left) = left[1]
         /\ left[1].to \in Projectors /\ left[1].event \in LoggedEvent /\ InLog(left[1].event)
  BY <1>1, HeadDelivery
<1>5. PICK rest \in Seq(Delivery) :
         /\ rest = Tail(left) /\ Len(rest) = Len(left) - 1
         /\ \A i \in 1 .. Len(rest) : rest[i] = left[i+1]
  BY <1>1, <1>4, HeadDelivery
<1>6. PICK p \in Projectors, e \in LoggedEvent :
         p = left[1].to /\ e = left[1].event /\ InLog(e) /\ ApplyEvent(p, e)
  BY <1>1, <1>4 DEF Deliver
<1>7. Rises /\ checkpoint'[p] >= e.seq
  BY <1>0, <1>6, ApplyRises, ApplyEventEffect
<1>8. e.seq <= checkpoint[p] + 1 /\ QueueInOrder(rest)'
  BY <1>3, <1>4, <1>5, <1>6, <1>7, QueueOrderTail DEF Rises
<1>9. ViewIsFoldAtCheckpoint'
  BY <1>0, <1>6, <1>8, ApplyNextKeepsFold DEF ViewInv
<1>10. PICK r : r = [q EXCEPT !.left = rest]
  OBVIOUS
<1>11. r \in Publishing /\ r.batch = q.batch /\ r.rounds = q.rounds /\ r.left = rest
  BY <1>10 DEF Publishing
<1>12. pub' = [pub EXCEPT ![w] = r]
  BY <1>1, <1>4, <1>5, <1>10 DEF ReadInv, Deliver
<1>13. BatchIsNext(r)'
  <2>1. checkpoint'[left[1].to] >= left[1].event.seq
    BY <1>6, <1>7
  <2>2. /\ Len(r.left) = Len(q.left) - 1 /\ Len(q.left) > 0
        /\ \A i \in 1 .. Len(r.left) : r.left[i] = q.left[i+1]
    BY <1>4, <1>5, <1>11
  <2>3. LogInv /\ events' = events /\ ViewsInv' /\ Rises
    BY <1>0, <1>7
  <2> QED
    BY <1>3, <1>4, <1>11, <2>1, <2>2, <2>3, BatchTail
<1>14. WriterInv(r)'
  BY <1>2, <1>8, <1>11, <1>13 DEF WriterInv
<1>15. \A v \in Writers : WriterInv(pub[v])'
  BY <1>0, <1>7, <1>11, <1>12, <1>14, WriterChanges
<1>16. \A u \in Projectors : PageInOrder(u, poll[u].batch)'
  BY <1>0, <1>7, PollersKept
<1> QED
  BY <1>0, <1>9, <1>15, <1>16, ViewParts

\* Once everything is delivered, nobody is behind the log.
LEMMA EndPublishKeepsView ==
  ASSUME ReadInv, ViewInv, ReadInv', NEW w \in Writers, EndPublish(w)
  PROVE  ViewInv'
<1>0. LogInv /\ ViewsInv' /\ UNCHANGED events /\ UNCHANGED readVars /\ faults' \in Nat /\ Rises
  BY QuietRises DEF ReadInv, ViewInv, EndPublish, logVars
<1>1. PICK q \in Publishing : q = pub[w] /\ q.left = <<>> /\ q.rounds = 0
  BY DEF ReadInv, EndPublish
<1>2. PICK r \in Publishing : r = NotPublishing /\ r.batch = <<>> /\ r.left = <<>> /\ r.rounds = 0
  BY IdleTypes DEF NotPublishing
<1>3. pub' = [pub EXCEPT ![w] = r]
  BY <1>2 DEF EndPublish
<1>4. QueueInOrder(r.left)'
  BY <1>2 DEF QueueInOrder
<1>5. CASE BusOn
  <2>1. BatchIsNext(q)'
    BY <1>0, <1>1, <1>5, BatchStays DEF ViewInv
  <2>2. 0 <= ExtraDeliveries /\ Len(events) \in Nat /\ events' = events
    BY <1>0, DeliveryAssumption DEF LogInv
  <2>3. \A p \in Projectors : checkpoint'[p] = Len(events')
    BY <1>1, <2>1, <2>2 DEF BatchIsNext
  <2>4. BatchIsNext(r)'
    BY <1>2, <2>2, <2>3 DEF BatchIsNext
  <2>5. WriterInv(r)'
    BY <1>4, <1>5, <2>4 DEF WriterInv
  <2> QED
    BY <1>0, <1>3, <2>5, WriterKeepsView DEF EndPublish
<1>6. CASE ~ BusOn
  <2>1. WriterInv(r)'
    BY <1>2, <1>4, <1>6 DEF WriterInv, NoBus
  <2> QED
    BY <1>0, <1>3, <2>1, WriterKeepsView DEF EndPublish
<1> QED
  BY <1>5, <1>6

LEMMA DeliverFailsNever ==
  ASSUME ViewInv, InOrder, NEW w \in Writers, DeliverFails(w)
  PROVE  FALSE
  BY BusDelivers, FaultNeedsNoBus DEF DeliverFails

LEMMA EmptyPage ==
  ASSUME NEW p, NEW r, r.batch = <<>>
  PROVE  PageInOrder(p, r.batch)'
  BY DEF PageInOrder

LEMMA GetCheckpointKeepsView ==
  ASSUME ReadInv, ViewInv, ReadInv', NEW p \in Projectors, GetCheckpoint(p)
  PROVE  ViewInv'
<1>1. PICK r : r.batch = <<>> /\ poll' = [poll EXCEPT ![p] = r]
  BY DEF GetCheckpoint
<1>2. PageInOrder(p, r.batch)'
  BY <1>1, EmptyPage
<1>3. faults' \in Nat
  BY DEF ViewInv, GetCheckpoint
<1> QED
  BY <1>1, <1>2, <1>3, PollerKeepsView DEF GetCheckpoint

LEMMA LoadBatchKeepsView ==
  ASSUME ReadInv, ViewInv, ReadInv', NEW p \in Projectors, LoadBatch(p)
  PROVE  ViewInv'
<1>0. LogInv /\ UNCHANGED readVars /\ faults' \in Nat
  BY DEF ReadInv, ViewInv, LoadBatch
<1>1. PICK q \in Polling : q = poll[p] /\ PollInv(p, q)
  BY DEF ReadInv
<1>2. PICK page : page = LoadSince(events, q.since, BatchSize)
  OBVIOUS
<1>3. PICK r : /\ r = IF page = <<>> THEN Waiting ELSE [pc |-> "apply", since |-> q.since, batch |-> page]
               /\ poll' = [poll EXCEPT ![p] = r]
  BY <1>1, <1>2 DEF LoadBatch
<1>4. q.since \in Nat /\ q.since <= checkpoint[p] /\ checkpoint[p] \in Nat
  BY <1>1 DEF Polling, PollInv, ReadInv, ViewsInv
<1>5. page \in Seq(LoggedEvent) /\ \A i \in 1 .. Len(page) : page[i].seq = q.since + i
  BY <1>0, <1>2, <1>4, PageOfLog
<1>6. r.batch = page
  BY <1>3, IdleTypes
<1>7. ASSUME NEW i \in 1 .. Len(page), ~ (page[i].seq <= checkpoint'[p] + 1)
      PROVE  i > 1 /\ page[i-1].seq + 1 = page[i].seq
  <2>1. page[i].seq = q.since + i /\ checkpoint'[p] = checkpoint[p]
    BY <1>0, <1>5 DEF readVars
  <2>2. i > 1 /\ i - 1 \in 1 .. Len(page)
    BY <1>4, <1>5, <1>7, <2>1
  <2>3. page[i-1].seq = q.since + (i - 1)
    BY <1>5, <2>2
  <2>4. q.since + (i - 1) + 1 = q.since + i
    BY <1>4
  <2> QED
    BY <2>1, <2>2, <2>3, <2>4
<1>8. PageInOrder(p, r.batch)'
  BY <1>6, <1>7 DEF PageInOrder
<1> QED
  BY <1>0, <1>3, <1>8, PollerKeepsView DEF LoadBatch

LEMMA CatchUpApplyKeepsView ==
  ASSUME ReadInv, ViewInv, ReadInv', NEW p \in Projectors, CatchUpApply(p)
  PROVE  ViewInv'
<1>0. ViewsInv /\ ViewsInv' /\ UNCHANGED events /\ UNCHANGED pub /\ poll[p].pc = "apply" /\ faults' \in Nat
  BY DEF ReadInv, ViewInv, CatchUpApply, logVars
<1>1. PICK b \in Seq(LoggedEvent) :
         /\ b = poll[p].batch /\ Len(b) \in Nat /\ Len(b) > 0
         /\ Head(b) \in LoggedEvent /\ Head(b) = b[1] /\ InLog(Head(b))
  BY <1>0, CatchUpParts
<1>2. PICK rest \in Seq(LoggedEvent) :
         rest = Tail(b) /\ Len(rest) = Len(b) - 1 /\ \A i \in 1 .. Len(rest) : rest[i] = b[i+1]
  BY <1>0, <1>1, CatchUpParts
<1>3. PICK e \in LoggedEvent : e = b[1] /\ InLog(e) /\ ApplyEvent(p, e)
  BY <1>1 DEF CatchUpApply
<1>4. Rises /\ checkpoint'[p] >= e.seq
  BY <1>0, <1>3, ApplyRises, ApplyEventEffect
<1>5. PageInOrder(p, b)
  BY <1>1 DEF ViewInv
<1>6. e.seq <= checkpoint[p] + 1 /\ PageInOrder(p, rest)'
  BY <1>1, <1>2, <1>3, <1>4, <1>5, PageOrderTail DEF Rises
<1>7. ViewIsFoldAtCheckpoint'
  BY <1>0, <1>3, <1>6, ApplyNextKeepsFold DEF ViewInv
<1>8. PICK r : /\ r = IF Len(b) = 1 THEN Waiting ELSE [pc |-> "apply", since |-> poll[p].since, batch |-> rest]
               /\ poll' = [poll EXCEPT ![p] = r]
  BY <1>1, <1>2 DEF CatchUpApply
<1>9. PageInOrder(p, r.batch)'
  <2>1. CASE Len(b) = 1
    BY <1>8, <2>1, IdleTypes, EmptyPage
  <2>2. CASE Len(b) # 1
    BY <1>6, <1>8, <2>2
  <2> QED
    BY <2>1, <2>2
<1>10. \A u \in Projectors : PageInOrder(u, poll[u].batch)'
  BY <1>4, <1>8, <1>9, PollerChanges
<1>11. \A w \in Writers : WriterInv(pub[w])'
  BY <1>0, <1>4, WritersKept
<1> QED
  BY <1>0, <1>7, <1>10, <1>11, ViewParts

LEMMA CatchUpFailsKeepsView ==
  ASSUME ReadInv, ViewInv, InOrder, ReadInv', NEW p \in Projectors, CatchUpFails(p)
  PROVE  ViewInv'
<1>1. PICK r : r.batch = <<>> /\ poll' = [poll EXCEPT ![p] = r]
  BY IdleTypes DEF CatchUpFails
<1>2. PageInOrder(p, r.batch)'
  BY <1>1, EmptyPage
<1>3. faults' \in Nat
  BY FaultNeedsNoBus DEF CatchUpFails
<1> QED
  BY <1>1, <1>2, <1>3, PollerKeepsView DEF CatchUpFails

LEMMA ViewInvInit == Init => ViewInv
<1> SUFFICES ASSUME Init PROVE ViewInv
  OBVIOUS
<1>0. events = <<>> /\ Len(events) = 0
  BY DEF Init, Log!Init
<1>1. ViewIsFoldAtCheckpoint
  <2> SUFFICES ASSUME NEW s \in Streams
               PROVE  views[s] = ViewOf(s, Fold(s, events)[checkpoint[ProjectorOf(s)]])
    BY DEF ViewIsFoldAtCheckpoint
  <2>1. checkpoint[ProjectorOf(s)] = 0 /\ views[s] = ZeroView(s)
    BY DEF Init, ProjectorOf, Projectors
  <2>2. Fold(s, events)[0] = EmptyState(s)
    BY <1>0, FoldStep
  <2> QED
    BY <2>1, <2>2, ZeroViewType
<1>2. \A p \in Projectors : PageInOrder(p, poll[p].batch)
  BY DEF Init, Waiting, PageInOrder
<1>3. \A w \in Writers : pub[w].left = <<>> /\ pub[w].rounds = 0 /\ pub[w].batch = <<>>
  BY DEF Init, NotPublishing
<1>4. \A p \in Projectors : checkpoint[p] = 0
  BY DEF Init
<1>5. \A w \in Writers : QueueInOrder(pub[w].left) /\ NoBus(pub[w])
  BY <1>3 DEF QueueInOrder, NoBus
<1>6. \A w \in Writers : BatchIsNext(pub[w])
  BY <1>0, <1>3, <1>4 DEF BatchIsNext
<1>7. faults \in Nat
  BY DEF Init
<1> QED
  BY <1>1, <1>2, <1>5, <1>6, <1>7 DEF ViewInv

LEMMA ViewInvStutter ==
  ASSUME ReadInv, ViewInv, ReadInv', UNCHANGED vars
  PROVE  ViewInv'
<1>1. /\ UNCHANGED logVars /\ UNCHANGED readVars /\ UNCHANGED events /\ UNCHANGED pub /\ UNCHANGED poll
      /\ faults' \in Nat
  BY DEF vars, logVars, readVars, ViewInv
<1>2. Rises /\ ViewsInv'
  BY <1>1, QuietRises DEF ReadInv
<1>3. \A p \in Projectors : PageInOrder(p, poll[p].batch)'
  BY <1>1, <1>2, PollersKept
<1>4. \A w \in Writers : WriterInv(pub[w])'
  BY <1>1, <1>2, WritersKept
<1> QED
  BY <1>1, <1>3, <1>4, QuietKeepsView

LEMMA ViewInvStep ==
  ASSUME InOrder
  PROVE  ReadInv /\ ViewInv /\ ReadInv' /\ [Next]_vars => ViewInv'
<1> SUFFICES ASSUME ReadInv, ViewInv, ReadInv', [Next]_vars PROVE ViewInv'
  OBVIOUS
<1>1. CASE \E w \in Writers : \E c \in Commands : Command(w, c)
  BY <1>1, CommandKeepsView
<1>2. CASE \E w \in Writers : WriterStep(w) \/ DeliverFails(w)
  BY <1>2, BeginPublishKeepsView, DeliverKeepsView, EndPublishKeepsView, DeliverFailsNever DEF WriterStep
<1>3. CASE \E p \in Projectors : PollStep(p) \/ CatchUpFails(p)
  BY <1>3, GetCheckpointKeepsView, LoadBatchKeepsView, CatchUpApplyKeepsView, CatchUpFailsKeepsView DEF PollStep
<1>5. CASE UNCHANGED vars
  BY <1>5, ViewInvStutter
<1> QED
  BY <1>1, <1>2, <1>3, <1>5 DEF Next

LEMMA ViewInvariant ==
  ASSUME InOrder
  PROVE  Spec => []ViewInv
<1>1. ReadInv /\ ViewInv /\ ReadInv' /\ [Next]_vars => ViewInv'
  BY ViewInvStep
<1> QED
  BY <1>1, ReadInvariant, ViewInvInit, PTL DEF Spec

\* The checkpoint is the truth: with no bus (any number of writers and failed polls), or with the bus, one writer and no failures, every view is at every moment
\* the command side's own fold of the log up to its projector's checkpoint, however
\* often deliveries and polls repeat each other (projector.go, ApplyEvent and CatchUp).
THEOREM ViewsFollowTheLog ==
  ASSUME InOrder
  PROVE  Spec => []ViewIsFoldAtCheckpoint
<1>1. ViewInv => ViewIsFoldAtCheckpoint
  BY DEF ViewInv
<1> QED
  BY <1>1, ViewInvariant, PTL
=============================================================================
