---------------------- MODULE PostgresReadModelsProofs ----------------------
(***************************************************************************)
(* The projectors over the PostgreSQL read model, for any number of        *)
(* goroutines, deliveries and faults: what a transaction has written it    *)
(* holds locked until it ends, so that a checkpoint never moves back; and  *)
(* for a projector that one goroutine works for the transaction is one     *)
(* indivisible step, and the view the ledger's own fold up to the          *)
(* checkpoint unless a page went past an append that had not committed.    *)
(***************************************************************************)
EXTENDS PostgresReadModels, LedgerRulesProofs, SequenceTheorems

-----------------------------------------------------------------------------
(* The log grows by events of the right shape.                             *)

\* The instance's copies of the rules are the rules.
LEMMA LogFold == \A s, log : Log!Fold(s, log) = Fold(s, log)
  BY DEF Log!Fold, Log!EmptyState, Log!Apply, Log!ApplyAccount, Log!ApplyInventory,
     Log!Wrap, Fold, EmptyState, Apply, ApplyAccount, ApplyInventory, Wrap

\* The state a command decides on.
LEMMA LogStateType ==
  ASSUME LogInv, NEW s
  PROVE  Log!StateOf(s) \in StateType(s) /\ Log!StateOf(s).version \in Nat
<1>1. Len(events) \in Nat /\ Len(events) \in 0 .. Len(events)
  BY DEF LogInv
<1>2. Fold(s, events)[Len(events)] \in StateType(s)
  BY <1>1, FoldType DEF LogInv
<1>3. Log!StateOf(s) = Fold(s, events)[Len(events)]
  BY LogFold DEF Log!StateOf
<1> QED
  BY <1>2, <1>3 DEF StateType, AccountState, InventoryState

\* Whether an event type fits the kind of a stream.
Fits(type, s) == type \in (IF s \in Accounts THEN AccountEventTypes ELSE ItemEventTypes)

LEMMA NewEventLogged ==
  ASSUME LogInv, NEW c \in Commands, NEW s \in Streams, NEW type, Fits(type, s), NEW i \in Nat
  PROVE  LET e == Log!NewEvent(s, type, c.amt, c.key, i) IN
         /\ e \in LoggedEvent
         /\ e.seq = Len(events) + i
         /\ Decodable(e)
<1> DEFINE e == Log!NewEvent(s, type, c.amt, c.key, i)
           v == Log!StateOf(s).version + 1
<1>1. v \in Nat
  BY LogStateType
<1>2. c.amt \in Int64 /\ c.key \in {d.key : d \in Commands}
  BY CommandsAssumption DEF WellFormed
<1>3. Len(events) + i \in Nat
  BY DEF LogInv
<1>4. type \in AccountEventTypes \cup ItemEventTypes
  BY DEF Fits
<1>5. e = [seq |-> Len(events) + i, stream |-> s, version |-> v, type |-> type, amt |-> c.amt, key |-> c.key]
  BY DEF Log!NewEvent
<1> HIDE DEF e, v
<1>6. e \in LoggedEvent
  BY <1>1, <1>2, <1>3, <1>4, <1>5 DEF LoggedEvent
<1>7. Decodable(e)
  BY <1>1, <1>2, <1>5 DEF Decodable, Fits
<1> QED
  BY <1>5, <1>6, <1>7 DEF e

\* A command adds one or two new events at the end of the log.
LEMMA ExecuteAppends ==
  ASSUME LogInv, NEW c \in Commands, Log!Execute(c)
  PROVE  \E new \in Seq(LoggedEvent) :
            /\ events' = events \o new
            /\ Len(new) > 0
            /\ \A i \in 1 .. Len(new) : new[i].seq = Len(events) + i /\ Decodable(new[i])
<1>0. WellFormed(c) /\ Accounts \cap Items = {} /\ Streams = Accounts \cup Items
  BY CommandsAssumption, KindsAssumption, StreamsAssumption
<1>1. ASSUME NEW type, Log!Single(c, type), c.stream \in Streams, Fits(type, c.stream)
      PROVE  \E new \in Seq(LoggedEvent) :
                /\ events' = events \o new
                /\ Len(new) > 0
                /\ \A i \in 1 .. Len(new) : new[i].seq = Len(events) + i /\ Decodable(new[i])
  <2>1. PICK e \in LoggedEvent : /\ e = Log!NewEvent(c.stream, type, c.amt, c.key, 1)
                                 /\ e.seq = Len(events) + 1 /\ Decodable(e)
    BY <1>1, NewEventLogged
  <2>2. events' = events \o <<e>>
    BY <1>1, <2>1 DEF Log!Single
  <2> DEFINE new == <<e>>
  <2>3. new \in Seq(LoggedEvent) /\ Len(new) = 1 /\ new[1] = e
    OBVIOUS
  <2> HIDE DEF new
  <2>4. \A i \in 1 .. Len(new) : new[i].seq = Len(events) + i /\ Decodable(new[i])
    BY <2>1, <2>3
  <2>5. events' = events \o new /\ Len(new) > 0
    BY <2>2, <2>3 DEF new
  <2> QED
    BY <2>3, <2>4, <2>5
<1>2. CASE Log!Transfer(c) /\ c.op = "Transfer"
  <2>0. /\ c.stream \in Streams /\ c.to \in Streams
        /\ Fits("FundsWithdrawn", c.stream) /\ Fits("FundsDeposited", c.to)
    <3>1. c.stream \in Accounts /\ c.to \in Accounts
      BY <1>0, <1>2 DEF WellFormed, ItemOps
    <3> QED
      BY <1>0, <3>1 DEF Fits, AccountEventTypes
  <2>1. PICK d \in LoggedEvent : /\ d = Log!NewEvent(c.stream, "FundsWithdrawn", c.amt, c.key, 1)
                                 /\ d.seq = Len(events) + 1 /\ Decodable(d)
    BY <2>0, NewEventLogged
  <2>2. PICK e \in LoggedEvent : /\ e = Log!NewEvent(c.to, "FundsDeposited", c.amt, c.key, 2)
                                 /\ e.seq = Len(events) + 2 /\ Decodable(e)
    BY <2>0, NewEventLogged
  <2>3. events' = events \o <<d, e>>
    BY <1>2, <2>1, <2>2 DEF Log!Transfer
  <2> DEFINE new == <<d, e>>
  <2>4. new \in Seq(LoggedEvent) /\ Len(new) = 2 /\ new[1] = d /\ new[2] = e
    OBVIOUS
  <2> HIDE DEF new
  <2>5. \A i \in 1 .. Len(new) : new[i].seq = Len(events) + i /\ Decodable(new[i])
    BY <2>1, <2>2, <2>4
  <2>6. events' = events \o new /\ Len(new) > 0
    BY <2>3, <2>4 DEF new
  <2> QED
    BY <2>4, <2>5, <2>6
<1>3. CASE c.op \in AccountOps \ {"Transfer"}
  <2>1. c.stream \in Accounts
    BY <1>0, <1>3 DEF WellFormed, ItemOps, AccountOps
  <2>2. \E type \in AccountEventTypes : Log!Single(c, type)
    BY <1>3 DEF Log!Execute, AccountOps, AccountEventTypes
  <2> QED
    BY <1>0, <1>1, <2>1, <2>2 DEF Fits
<1>4. CASE c.op \in ItemOps
  <2>1. c.stream \in Items /\ c.stream \notin Accounts
    BY <1>0, <1>4 DEF WellFormed, ItemOps, AccountOps
  <2>2. \E type \in ItemEventTypes : Log!Single(c, type)
    BY <1>4 DEF Log!Execute, ItemOps, ItemEventTypes
  <2> QED
    BY <1>0, <1>1, <2>1, <2>2 DEF Fits
<1>5. c.op = "Transfer" => Log!Transfer(c)
  BY DEF Log!Execute
<1> QED
  BY <1>0, <1>2, <1>3, <1>4, <1>5 DEF WellFormed, AccountOps

\* What a command leaves of the log, and what it adds.
LEMMA LogGrows ==
  ASSUME LogInv, NEW c \in Commands, Command(c)
  PROVE  /\ LogInv'
         /\ Len(events) \in Nat /\ Len(events') \in Nat /\ Len(events') > Len(events)
         /\ \A n \in 1 .. Len(events) : events'[n] = events[n]
<1>1. PICK new \in Seq(LoggedEvent) :
            /\ events' = events \o new
            /\ Len(new) > 0
            /\ \A i \in 1 .. Len(new) : new[i].seq = Len(events) + i /\ Decodable(new[i])
  BY ExecuteAppends DEF Command
<1>2. events \in Seq(LoggedEvent) /\ Len(events) \in Nat /\ Len(new) \in Nat
  BY DEF LogInv
<1>3. /\ events' \in Seq(LoggedEvent)
      /\ Len(events') = Len(events) + Len(new)
      /\ \A n \in 1 .. Len(events) : events'[n] = events[n]
      /\ \A n \in (Len(events) + 1) .. Len(events') : events'[n] = new[n - Len(events)]
  BY <1>1, <1>2
<1>4. ASSUME NEW n \in 1 .. Len(events') PROVE events'[n].seq = n /\ Decodable(events'[n])
  <2>1. CASE n \in 1 .. Len(events)
    BY <1>3, <2>1 DEF LogInv
  <2>2. CASE n \in (Len(events) + 1) .. Len(events')
    <3>1. n - Len(events) \in 1 .. Len(new)
      BY <1>2, <1>3, <2>2
    <3>2. new[n - Len(events)].seq = Len(events) + (n - Len(events)) /\ Decodable(new[n - Len(events)])
      BY <1>1, <3>1
    <3> QED
      BY <1>2, <1>3, <2>2, <3>2
  <2> QED
    BY <1>2, <1>3, <2>1, <2>2
<1>5. ASSUME NEW b \in open' PROVE b \subseteq 1 .. Len(events')
  <2>1. open' = open \cup {(Len(events) + 1) .. Len(events')}
    BY Zenon DEF Command
  <2>2. CASE b \in open
    BY <1>2, <1>3, <2>2 DEF LogInv
  <2>3. CASE b = (Len(events) + 1) .. Len(events')
    BY <1>2, <1>3, <2>3
  <2> QED
    BY <2>1, <2>2, <2>3
<1>6. LogInv'
  BY <1>3, <1>4, <1>5 DEF LogInv
<1> QED
  BY <1>1, <1>2, <1>3, <1>6

-----------------------------------------------------------------------------
(* What the other workers do leaves a transaction intact.                  *)

\* The log only grows.
Grows ==
    /\ Len(events) \in Nat /\ Len(events') \in Nat /\ Len(events) <= Len(events')
    /\ \A n \in 1 .. Len(events) : events'[n] = events[n]

LEMMA InLogStays ==
  ASSUME Grows, NEW e, InLog(e)
  PROVE  InLog(e)'
<1>1. e.seq \in 1 .. Len(events) /\ e = events[e.seq]
  BY DEF InLog
<1>2. e.seq \in 1 .. Len(events')
  BY <1>1 DEF Grows
<1> QED
  BY <1>1, <1>2 DEF InLog, Grows

LEMMA SameLog ==
  ASSUME LogInv, UNCHANGED events
  PROVE  Grows
<1>1. Len(events) \in Nat
  BY DEF LogInv
<1> QED
  BY <1>1 DEF Grows

LEMMA LogKept ==
  ASSUME LogInv, UNCHANGED events, open' \subseteq open
  PROVE  LogInv' /\ Grows
  BY SameLog DEF LogInv

LEMMA WorkerOf ==
  ASSUME NEW w \in Workers
  PROVE  Serves[w] \in Projectors /\ Serves[w] \notin Streams
  BY WorkersAssumption, RowsAssumption

LEMMA JobInvStays ==
  ASSUME Grows, NEW p \in Projectors, NEW j \in Job, JobInv(p, j),
         p \in j.locks => checkpoint'[p] = checkpoint[p]
  PROVE  JobInv(p, j)'
<1>1. \A i \in 1 .. Len(j.todo) : InLog(j.todo[i])'
  BY InLogStays DEF JobInv
<1>2. ASSUME p \in j.locks, j.seq \in checkpoint[p] .. Len(events)
      PROVE  j.seq \in checkpoint'[p] .. Len(events')
  BY <1>2 DEF Grows
<1> QED
  BY <1>1, <1>2 DEF JobInv

\* One worker moves; the log may have grown and the tables may have changed, but not in
\* a checkpoint that another worker has locked.
LEMMA WorkerMoves ==
  ASSUME TxInv, LogInv', TablesInv', Grows, NEW w \in Workers, NEW r \in Job,
         job' = [job EXCEPT ![w] = r],
         JobInv(Serves[w], r)',
         \A o \in Workers \ {w} : r.locks \cap job[o].locks = {},
         \A o \in Workers \ {w} : Serves[o] \in job[o].locks => checkpoint'[Serves[o]] = checkpoint[Serves[o]]
  PROVE  TxInv'
<1>1. job \in [Workers -> Job] /\ job' \in [Workers -> Job] /\ job'[w] = r
  BY DEF TxInv
<1>2. \A o \in Workers \ {w} : job'[o] = job[o]
  BY <1>1
<1>3. ASSUME NEW o \in Workers PROVE JobInv(Serves[o], job[o])'
  <2>1. CASE o = w
    BY <1>1, <2>1
  <2>2. CASE o # w
    <3>1. PICK j \in Job : j = job[o] /\ j = job'[o]
      BY <1>1, <1>2, <2>2
    <3>2. JobInv(Serves[o], j)
      BY <3>1 DEF TxInv
    <3>3. JobInv(Serves[o], j)'
      BY <2>2, <3>1, <3>2, WorkerOf, JobInvStays
    <3> QED
      BY <3>1, <3>3
  <2> QED
    BY <2>1, <2>2
<1>4. ASSUME NEW u \in Workers, NEW v \in Workers, u # v PROVE job'[u].locks \cap job'[v].locks = {}
  <2>1. CASE u = w
    BY <1>1, <1>2, <1>4, <2>1
  <2>2. CASE v = w
    BY <1>1, <1>2, <1>4, <2>2
  <2>3. CASE u # w /\ v # w
    BY <1>2, <1>4, <2>3 DEF TxInv
  <2> QED
    BY <2>1, <2>2, <2>3
<1> QED
  BY <1>1, <1>3, <1>4 DEF TxInv

LEMMA TablesKept ==
  ASSUME TablesInv, Grows, UNCHANGED tables
  PROVE  TablesInv'
<1>1. views' = views /\ checkpoint' = checkpoint
  BY DEF tables
<1>2. \A p \in Projectors : checkpoint[p] <= Len(events')
  BY DEF TablesInv, Grows
<1> QED
  BY <1>1, <1>2 DEF TablesInv

\* Most steps change only the worker's own place.
LEMMA QuietMoves ==
  ASSUME TxInv, UNCHANGED logVars, UNCHANGED tables, NEW w \in Workers, NEW r \in Job,
         job' = [job EXCEPT ![w] = r],
         JobInv(Serves[w], r),
         \A o \in Workers \ {w} : r.locks \cap job[o].locks = {}
  PROVE  TxInv'
<1>1. events' = events /\ open' = open /\ checkpoint' = checkpoint /\ LogInv
  BY DEF logVars, tables, TxInv
<1>2. LogInv' /\ Grows
  BY <1>1, LogKept
<1>3. TablesInv'
  BY <1>2, TablesKept DEF TxInv
<1>4. JobInv(Serves[w], r)'
  BY <1>1, <1>2, WorkerOf, JobInvStays
<1> QED
  BY <1>1, <1>2, <1>3, <1>4, WorkerMoves

\* A worker that holds no locks is in nobody's way.
LEMMA NoLocks ==
  ASSUME NEW L, L = {}
  PROVE  \A o \in Workers : L \cap job[o].locks = {}
  OBVIOUS

\* An open transaction has a first event, which is in the log.
LEMMA FirstEvent ==
  ASSUME TxInv, NEW w \in Workers, job[w].pc \notin {"idle", "load"}
  PROVE  \E j \in Job, e \in LoggedEvent :
            /\ j = job[w] /\ e = Head(j.todo) /\ e = Event(w) /\ e = j.todo[1]
            /\ JobInv(Serves[w], j) /\ InLog(e) /\ Decodable(e)
            /\ Len(j.todo) \in Nat /\ Len(j.todo) > 0 /\ j.todo \in Seq(LoggedEvent)
            /\ e.seq \in Nat /\ e.stream \in Streams
<1>1. PICK j \in Job : j = job[w]
  BY DEF TxInv
<1>2. JobInv(Serves[w], j)
  BY <1>1 DEF TxInv
<1>3. j.todo \in Seq(LoggedEvent) /\ j.todo # <<>>
  BY <1>1, <1>2 DEF Job, JobInv
<1>4. Len(j.todo) \in Nat /\ Len(j.todo) > 0 /\ Head(j.todo) \in LoggedEvent /\ Head(j.todo) = j.todo[1]
  BY <1>3
<1>5. PICK e \in LoggedEvent : e = Head(j.todo)
  BY <1>4
<1>6. InLog(e)
  BY <1>2, <1>4, <1>5 DEF JobInv
<1>7. Decodable(e)
  BY <1>6 DEF InLog, TxInv, LogInv
<1>8. e.seq \in Nat /\ e.stream \in Streams
  BY DEF LoggedEvent
<1> QED
  BY <1>1, <1>2, <1>3, <1>4, <1>5, <1>6, <1>7, <1>8 DEF Event

\* A job that is about to begin, or nothing to do.
LEMMA BeginJob ==
  ASSUME NEW w \in Workers, NEW evs \in Seq(LoggedEvent), \A i \in 1 .. Len(evs) : InLog(evs[i])
  PROVE  /\ Begin(w, evs) \in Job /\ JobInv(Serves[w], Begin(w, evs))
         /\ Begin(w, evs).locks = {} /\ Begin(w, evs).todo = evs
         /\ Begin(w, evs).pc \in {"idle", "getCheckpoint"}
<1>1. CASE evs = <<>>
  BY <1>1 DEF Begin, Idle, Job, JobInv, ViewPending
<1>2. CASE evs # <<>>
  <2>1. Begin(w, evs) = [pc |-> "getCheckpoint", since |-> 0, todo |-> evs, row |-> <<>>, seq |-> 0, locks |-> {}]
    BY <1>2 DEF Begin, Idle
  <2> QED
    BY <1>2, <2>1 DEF Job, JobInv, ViewPending
<1> QED
  BY <1>1, <1>2
-----------------------------------------------------------------------------
(* TxInv, step by step.                                                    *)

LEMMA CatchUpStep ==
  ASSUME TxInv, NEW w \in Workers, CatchUp(w)
  PROVE  TxInv'
<1>1. checkpoint[Serves[w]] \in Nat
  BY WorkerOf DEF TxInv, TablesInv
<1>2. PICK r : /\ r = [Idle(w) EXCEPT !.pc = "load", !.since = checkpoint[Serves[w]]]
               /\ job' = [job EXCEPT ![w] = r]
  BY Zenon DEF CatchUp, Becomes
<1>3. r = [pc |-> "load", since |-> checkpoint[Serves[w]], todo |-> <<>>, row |-> <<>>, seq |-> 0, locks |-> {}]
  BY <1>2 DEF Idle
<1>4. r \in Job /\ JobInv(Serves[w], r) /\ r.locks = {}
  BY <1>1, <1>3 DEF Job, JobInv, ViewPending
<1> QED
  BY <1>2, <1>4, NoLocks, QuietMoves DEF CatchUp

\* What a SELECT sees of the log: the events that are not in flight, in their places.
LEMMA VisibleRows ==
  ASSUME LogInv
  PROVE  /\ Len(events) \in Nat /\ Len(Visible) = Len(events)
         /\ \A k \in InFlight : k \in 1 .. Len(events)
         /\ \A n \in 1 .. Len(events) :
               /\ events[n] \in LoggedEvent /\ events[n].seq = n
               /\ n \in InFlight => Visible[n].seq = 0
               /\ n \notin InFlight => Visible[n] = events[n]
<1>1. /\ Len(events) \in Nat
      /\ \A n \in 1 .. Len(events) : events[n] \in LoggedEvent /\ events[n].seq = n
  BY DEF LogInv
<1>2. \A k \in InFlight : k \in 1 .. Len(events)
  BY DEF LogInv, InFlight
<1>3. ASSUME NEW e \in LoggedEvent PROVE [e EXCEPT !.seq = 0].seq = 0 /\ [e EXCEPT !.seq = 0] \in LoggedEvent
  BY DEF LoggedEvent
<1>4. Visible = [n \in 1 .. Len(events) |-> IF n \in InFlight THEN [events[n] EXCEPT !.seq = 0] ELSE events[n]]
  BY DEF Visible
<1>5. ASSUME NEW n \in 1 .. Len(events)
      PROVE  /\ Visible[n] \in LoggedEvent
             /\ n \in InFlight => Visible[n].seq = 0
             /\ n \notin InFlight => Visible[n] = events[n]
  BY <1>1, <1>3, <1>4
<1>6. Visible \in [1 .. Len(events) -> LoggedEvent]
  BY <1>4, <1>5
<1>7. Len(Visible) = Len(events)
  BY <1>1, <1>6
<1> QED
  BY <1>1, <1>2, <1>5, <1>7

\* A page is made of committed events; if it goes past no number in flight, they are the
\* ones that follow "since".
LEMMA PageOfLog ==
  ASSUME LogInv, NEW since \in Nat
  PROVE  LET page == LoadSince(Visible, since, BatchSize) IN
         /\ page \in Seq(LoggedEvent)
         /\ \A i \in 1 .. Len(page) : InLog(page[i])
         /\ ~ GoesPast(since, page) => \A i \in 1 .. Len(page) : page[i].seq = since + i
<1> DEFINE F == InFlight
           N == Len(events)
<1>0. /\ N \in Nat /\ Len(Visible) = N /\ \A k \in F : k \in 1 .. N
      /\ \A n \in 1 .. N : /\ events[n] \in LoggedEvent /\ events[n].seq = n
                           /\ n \in F => Visible[n].seq = 0
                           /\ n \notin F => Visible[n] = events[n]
  BY VisibleRows
<1>1. PICK page :
           /\ LoadSince(Visible, since, BatchSize) = page[N]
           /\ page[0] = <<>>
           /\ \A n \in 1 .. N :
                page[n] = IF Visible[n].seq > since /\ (BatchSize > 0 => Len(page[n-1]) < BatchSize)
                          THEN Append(page[n-1], Visible[n]) ELSE page[n-1]
  <2>1. PICK log : log = Visible /\ Len(log) = N /\ Len(log) \in Nat
    BY <1>0
  <2>2. PICK got : /\ LoadSince(log, since, BatchSize) = got[Len(log)]
                   /\ got[0] = <<>>
                   /\ \A n \in 1 .. Len(log) :
                        got[n] = IF log[n].seq > since /\ (BatchSize > 0 => Len(got[n-1]) < BatchSize)
                                 THEN Append(got[n-1], log[n]) ELSE got[n-1]
    BY <2>1, LoadSinceEquation
  <2> HIDE DEF N
  <2> QED
    BY <2>1, <2>2, Zenon
<1> DEFINE Part(n) == /\ page[n] \in Seq(LoggedEvent)
                      /\ \A i \in 1 .. Len(page[n]) :
                            page[n][i].seq \in 1 .. n /\ page[n][i] = events[page[n][i].seq]
           Run(n) == /\ \A i \in 1 .. Len(page[n]) : page[n][i].seq = since + i
                     /\ \/ ~ (Len(page[n]) < BatchSize)
                        \/ since + Len(page[n]) >= n
                        \/ \E k \in F : since < k /\ k <= n /\ k > since + Len(page[n])
           Past(n) == \E k \in F : since < k /\ \E i \in 1 .. Len(page[n]) : k < page[n][i].seq
           Good(n) == Part(n) /\ (Run(n) \/ Past(n))
           T == {n \in Nat : n <= N /\ ~ Good(n)}
<1> HIDE DEF F, N
<1>2. Good(0)
  BY <1>1
<1>3. ASSUME NEW m \in 1 .. N, Good(m - 1) PROVE Good(m)
  <2>1. PICK prev \in Seq(LoggedEvent) : prev = page[m-1]
    BY <1>3
  <2>2. /\ Len(prev) \in Nat /\ m \in Nat /\ m - 1 \in Nat /\ BatchSize \in Nat /\ BatchSize > 0
        /\ \A i \in 1 .. Len(prev) : prev[i].seq \in 1 .. (m - 1) /\ prev[i] = events[prev[i].seq]
    BY <1>0, <1>3, <2>1, BoundsAssumption
  <2>3. CASE m \in F \/ ~ (m > since) \/ ~ (Len(prev) < BatchSize)
    <3>1. page[m] = prev
      BY <1>0, <1>1, <2>1, <2>2, <2>3
    <3>2. Part(m)
      BY <2>2, <3>1
    <3>3. Past(m - 1) => Past(m)
      BY <2>1, <3>1
    <3>4. Run(m - 1) => Run(m)
      BY <2>1, <2>2, <2>3, <3>1
    <3> QED
      BY <1>3, <3>2, <3>3, <3>4
  <2>4. CASE m \notin F /\ m > since /\ Len(prev) < BatchSize
    <3>1. PICK e \in LoggedEvent : e = events[m] /\ e.seq = m /\ e = Visible[m]
      BY <1>0, <2>4
    <3>2. page[m] = Append(prev, e)
      BY <1>1, <2>1, <2>4, <3>1
    <3>3. /\ page[m] \in Seq(LoggedEvent) /\ Len(page[m]) = Len(prev) + 1 /\ page[m][Len(prev) + 1] = e
          /\ \A i \in 1 .. Len(prev) : page[m][i] = prev[i]
      BY <2>2, <3>2
    <3>4. \A i \in 1 .. Len(page[m]) : i \in 1 .. Len(prev) \/ i = Len(prev) + 1
      BY <2>2, <3>3
    <3>5. Part(m)
      <4>1. ASSUME NEW i \in 1 .. Len(page[m])
            PROVE  page[m][i].seq \in 1 .. m /\ page[m][i] = events[page[m][i].seq]
        <5>1. CASE i \in 1 .. Len(prev)
          <6>1. PICK x : x = page[m][i] /\ x.seq \in 1 .. (m - 1) /\ x = events[x.seq]
            BY <2>2, <3>3, <5>1
          <6>2. \A q \in 1 .. (m - 1) : q \in 1 .. m
            BY <2>2
          <6> QED
            BY <6>1, <6>2, Zenon
        <5>2. CASE i = Len(prev) + 1
          <6>1. page[m][i] = e /\ m \in 1 .. m
            BY <2>2, <3>3, <5>2
          <6> QED
            BY <3>1, <6>1, Zenon
        <5> QED
          BY <3>4, <5>1, <5>2
      <4> QED
        BY <3>3, <4>1
    <3>6. Past(m - 1) => Past(m)
      <4> SUFFICES ASSUME NEW k \in F, since < k, NEW i \in 1 .. Len(prev), k < prev[i].seq PROVE Past(m)
        BY <2>1
      <4>1. i \in 1 .. Len(page[m]) /\ page[m][i] = prev[i]
        BY <2>2, <3>3
      <4> QED
        BY <4>1
    <3>7. ASSUME Run(m - 1) PROVE Run(m) \/ Past(m)
      <4>1. since + Len(prev) <= m - 1
        <5>1. CASE Len(prev) = 0
          BY <2>2, <2>4, <5>1
        <5>2. CASE Len(prev) > 0
          <6>1. Len(prev) \in 1 .. Len(prev) /\ prev[Len(prev)].seq = since + Len(prev)
            BY <2>1, <2>2, <3>7, <5>2
          <6> QED
            BY <2>2, <6>1
        <5> QED
          BY <2>2, <5>1, <5>2
      <4>2. CASE since + Len(prev) >= m - 1
        <5>1. e.seq = since + (Len(prev) + 1)
          BY <2>2, <3>1, <4>1, <4>2
        <5>2. \A i \in 1 .. Len(page[m]) : page[m][i].seq = since + i
          BY <2>1, <3>3, <3>4, <3>7, <5>1
        <5>3. since + Len(page[m]) >= m
          BY <2>2, <3>1, <3>3, <5>1
        <5> QED
          BY <5>2, <5>3
      <4>3. CASE \E k \in F : since < k /\ k <= m - 1
        <5>1. PICK k \in F : since < k /\ k < m
          BY <1>0, <2>2, <4>3
        <5>2. Len(prev) + 1 \in 1 .. Len(page[m]) /\ k < page[m][Len(prev) + 1].seq
          BY <2>2, <3>1, <3>3, <5>1
        <5> QED
          BY <5>1, <5>2
      <4> QED
        BY <2>1, <2>4, <3>7, <4>2, <4>3
    <3> QED
      BY <1>3, <3>5, <3>6, <3>7
  <2> QED
    BY <2>3, <2>4
<1>4. Good(N)
  <2> HIDE DEF Good
  <2>1. T = {}
    <3> SUFFICES ASSUME T # {} PROVE FALSE
      OBVIOUS
    <3>1. PICK m \in T : \A k \in T : m <= k
      BY LeastNat
    <3>2. m \in Nat /\ m <= N /\ ~ Good(m) /\ m # 0
      BY <1>2, <3>1
    <3>3. m \in 1 .. N /\ m - 1 \in Nat /\ m - 1 <= N
      BY <1>0, <3>2
    <3>4. ~ (m - 1 \in T)
      <4>1. \A k \in T : m <= k
        BY <3>1
      <4> HIDE DEF T
      <4> QED
        BY <3>2, <4>1
    <3>5. Good(m - 1)
      BY <3>3, <3>4
    <3> QED
      BY <1>3, <3>2, <3>3, <3>5
  <2> QED
    BY <1>0, <2>1
<1>5. PICK got : got = page[N]
  OBVIOUS
<1>6. got \in Seq(LoggedEvent) /\ \A i \in 1 .. Len(got) : InLog(got[i])
  BY <1>4, <1>5 DEF InLog, N
<1>7. ~ GoesPast(since, got) => \A i \in 1 .. Len(got) : got[i].seq = since + i
  BY <1>4, <1>5 DEF GoesPast, F
<1> QED
  BY <1>1, <1>5, <1>6, <1>7

LEMMA LoadPageStep ==
  ASSUME TxInv, NEW w \in Workers, LoadPage(w)
  PROVE  TxInv'
<1>1. LogInv /\ job[w].since \in Nat
  BY DEF TxInv, Job
<1>2. PICK page \in Seq(LoggedEvent) :
         page = LoadSince(Visible, job[w].since, BatchSize) /\ \A i \in 1 .. Len(page) : InLog(page[i])
  BY <1>1, PageOfLog
<1>3. PICK r \in Job : r = Begin(w, page) /\ JobInv(Serves[w], r) /\ r.locks = {}
  BY <1>2, BeginJob
<1>4. job' = [job EXCEPT ![w] = r]
  BY <1>2, <1>3 DEF LoadPage, Becomes
<1> QED
  BY <1>3, <1>4, NoLocks, QuietMoves DEF LoadPage

LEMMA ReceiveStep ==
  ASSUME TxInv, NEW w \in Subscribers, NEW n \in 1 .. Len(events) \ InFlight, Receive(w, events[n])
  PROVE  TxInv'
<1>1. PICK e \in LoggedEvent : e = events[n] /\ InLog(e)
  BY DEF TxInv, LogInv, InLog
<1>2. PICK evs \in Seq(LoggedEvent) : evs = <<e>> /\ \A i \in 1 .. Len(evs) : InLog(evs[i])
  <2>1. <<e>> \in Seq(LoggedEvent) /\ \A i \in 1 .. Len(<<e>>) : <<e>>[i] = e
    OBVIOUS
  <2> QED
    BY <1>1, <2>1
<1>3. w \in Workers
  BY DEF Workers
<1>4. PICK r \in Job : r = Begin(w, evs) /\ JobInv(Serves[w], r) /\ r.locks = {}
  BY <1>2, <1>3, BeginJob
<1>5. job' = [job EXCEPT ![w] = r]
  BY <1>1, <1>2, <1>4 DEF Receive, Becomes
<1> QED
  BY <1>3, <1>4, <1>5, NoLocks, QuietMoves DEF Receive

LEMMA GetCheckpointStep ==
  ASSUME TxInv, NEW w \in Workers, GetCheckpoint(w)
  PROVE  TxInv'
<1>0. job[w].pc = "getCheckpoint"
  BY DEF GetCheckpoint
<1>1. PICK j \in Job, e \in LoggedEvent :
         j = job[w] /\ e = Head(j.todo) /\ e = Event(w) /\ JobInv(Serves[w], j)
  BY <1>0, FirstEvent
<1>2. PICK next \in {"commit", "getView", "setCheckpoint"} :
         /\ next = IF e.seq <= checkpoint[Serves[w]] THEN "commit"
                   ELSE IF Relevant(Serves[w], e) THEN "getView" ELSE "setCheckpoint"
  OBVIOUS
<1>3. PICK r : r = [j EXCEPT !.pc = next] /\ job' = [job EXCEPT ![w] = r]
  BY <1>1, <1>2 DEF GetCheckpoint, Becomes
<1>4. j.locks = {} /\ j.todo # <<>>
  BY <1>0, <1>1 DEF JobInv
<1>5. r \in Job /\ r.locks = {} /\ r.pc = next /\ r.todo = j.todo
  BY <1>2, <1>3, <1>4 DEF Job
<1>6. next = "setCheckpoint" => ViewRow(Serves[w], e) = {}
  BY <1>2 DEF ViewRow
<1>7. next = "getView" => Relevant(Serves[w], e)
  BY <1>2
<1>8. JobInv(Serves[w], r)
  BY <1>1, <1>2, <1>4, <1>5, <1>6, <1>7 DEF JobInv, ViewPending
<1> QED
  BY <1>3, <1>5, <1>8, NoLocks, QuietMoves DEF GetCheckpoint

LEMMA GetViewStep ==
  ASSUME TxInv, NEW w \in Workers, GetView(w)
  PROVE  TxInv'
<1>0. job[w].pc = "getView"
  BY DEF GetView
<1>1. PICK j \in Job, e \in LoggedEvent :
         /\ j = job[w] /\ e = Head(j.todo) /\ e = Event(w) /\ JobInv(Serves[w], j)
         /\ Decodable(e) /\ e.stream \in Streams
  BY <1>0, FirstEvent
<1>2. j.locks = {} /\ j.todo # <<>> /\ Relevant(Serves[w], e)
  BY <1>0, <1>1 DEF JobInv
<1>3. PICK row : row = ApplyView(Serves[w], views[e.stream], e) /\ row \in ViewType(e.stream)
  <2>1. views[e.stream] \in ViewType(e.stream) /\ ProjectorOf(e.stream) = Serves[w]
    BY <1>1, <1>2 DEF TxInv, TablesInv, Relevant
  <2> QED
    BY <1>1, <2>1, ApplyViewType
<1>4. PICK r : r = [j EXCEPT !.pc = "upsertView", !.row = row] /\ job' = [job EXCEPT ![w] = r]
  BY <1>1, <1>3 DEF GetView, Becomes
<1>5. row \in AccountView \cup InventoryView
  BY <1>3 DEF ViewType
<1>6. r \in Job /\ r.locks = {} /\ r.pc = "upsertView" /\ r.todo = j.todo /\ r.row = row
  BY <1>2, <1>4, <1>5 DEF Job
<1>7. JobInv(Serves[w], r)
  BY <1>1, <1>2, <1>3, <1>6 DEF JobInv
<1> QED
  BY <1>4, <1>6, <1>7, NoLocks, QuietMoves DEF GetView

\* A row that no other transaction has written.
LEMMA FreeRow ==
  ASSUME NEW w \in Workers, NEW x, x \notin LockedByOthers(w)
  PROVE  \A o \in Workers \ {w} : x \notin job[o].locks
  BY DEF LockedByOthers

LEMMA UpsertViewStep ==
  ASSUME TxInv, NEW w \in Workers, UpsertView(w)
  PROVE  TxInv'
<1>0. job[w].pc = "upsertView"
  BY DEF UpsertView
<1>1. PICK j \in Job, e \in LoggedEvent :
         j = job[w] /\ e = Head(j.todo) /\ e = Event(w) /\ JobInv(Serves[w], j) /\ e.stream \in Streams
  BY <1>0, FirstEvent
<1>2. j.locks = {} /\ j.todo # <<>> /\ Relevant(Serves[w], e) /\ j.row \in ViewType(e.stream)
  BY <1>0, <1>1 DEF JobInv, ViewPending
<1>3. PICK r : r = [j EXCEPT !.pc = "setCheckpoint", !.locks = j.locks \cup {e.stream}] /\ job' = [job EXCEPT ![w] = r]
  BY <1>1 DEF UpsertView, Becomes
<1>4. r \in Job /\ r.locks = {e.stream} /\ r.pc = "setCheckpoint" /\ r.todo = j.todo /\ r.row = j.row
  BY <1>1, <1>2, <1>3 DEF Job
<1>5. ViewRow(Serves[w], e) = {e.stream}
  BY <1>2 DEF ViewRow
<1>6. JobInv(Serves[w], r)
  BY <1>1, <1>2, <1>4, <1>5 DEF JobInv, ViewPending
<1>7. \A o \in Workers \ {w} : r.locks \cap job[o].locks = {}
  BY <1>1, <1>4, FreeRow DEF UpsertView
<1> QED
  BY <1>3, <1>4, <1>6, <1>7, QuietMoves DEF UpsertView

LEMMA SetCheckpointStep ==
  ASSUME TxInv, NEW w \in Workers, SetCheckpoint(w)
  PROVE  TxInv'
<1>0. job[w].pc = "setCheckpoint"
  BY DEF SetCheckpoint
<1>1. PICK j \in Job, e \in LoggedEvent :
         /\ j = job[w] /\ e = Head(j.todo) /\ e = Event(w) /\ JobInv(Serves[w], j)
         /\ e.stream \in Streams /\ e.seq \in Nat /\ InLog(e)
  BY <1>0, FirstEvent
<1>2. j.locks = ViewRow(Serves[w], e) /\ j.todo # <<>> /\ (ViewPending(j) => j.row \in ViewType(e.stream))
  BY <1>0, <1>1 DEF JobInv
<1>3. /\ Serves[w] \in Projectors /\ Serves[w] \notin Streams
      /\ checkpoint[Serves[w]] \in Nat /\ checkpoint[Serves[w]] <= Len(events) /\ e.seq <= Len(events) /\ Len(events) \in Nat
  BY <1>1, WorkerOf DEF TxInv, TablesInv, LogInv, InLog
<1>4. PICK seq \in Nat : /\ seq = IF e.seq > checkpoint[Serves[w]] THEN e.seq ELSE checkpoint[Serves[w]]
                         /\ seq \in checkpoint[Serves[w]] .. Len(events)
  BY <1>1, <1>3
<1>5. PICK r : /\ r = [j EXCEPT !.pc = "commit", !.locks = j.locks \cup {Serves[w]}, !.seq = seq]
               /\ job' = [job EXCEPT ![w] = r]
  BY <1>1, <1>4 DEF SetCheckpoint, Becomes
<1>6. /\ r \in Job /\ r.locks = j.locks \cup {Serves[w]} /\ r.pc = "commit" /\ r.todo = j.todo
      /\ r.row = j.row /\ r.seq = seq
  BY <1>3, <1>4, <1>5 DEF Job
<1>7. ViewPending(r) => ViewPending(j)
  BY <1>0, <1>1, <1>3, <1>6 DEF ViewPending
<1>8. JobInv(Serves[w], r)
  BY <1>1, <1>2, <1>4, <1>6, <1>7 DEF JobInv
<1>9. \A o \in Workers \ {w} : r.locks \cap job[o].locks = {}
  <2>1. \A o \in Workers \ {w} : Serves[w] \notin job[o].locks
    BY FreeRow DEF SetCheckpoint
  <2>2. \A o \in Workers \ {w} : j.locks \cap job[o].locks = {}
    BY <1>1 DEF TxInv
  <2> QED
    BY <1>6, <2>1, <2>2
<1> QED
  BY <1>5, <1>6, <1>8, <1>9, QuietMoves DEF SetCheckpoint
\* What a commit does to the tables: only rows it has locked change, a view keeps its
\* shape and a checkpoint does not move back.
LEMMA CommitEffect ==
  ASSUME TxInv, NEW w \in Workers, job[w].pc = "commit", Writes(w), UNCHANGED events
  PROVE  /\ TablesInv'
         /\ \A p \in Projectors :
               /\ checkpoint'[p] >= checkpoint[p]
               /\ checkpoint'[p] = IF p \in job[w].locks THEN job[w].seq ELSE checkpoint[p]
         /\ \A s \in Streams : views'[s] = IF s \in job[w].locks THEN job[w].row ELSE views[s]
<1>1. PICK j \in Job, e \in LoggedEvent :
         j = job[w] /\ e = Head(j.todo) /\ e = Event(w) /\ JobInv(Serves[w], j) /\ e.stream \in Streams
  BY FirstEvent
<1>2. /\ TablesInv /\ Serves[w] \in Projectors /\ Serves[w] \notin Streams /\ Streams \cap Projectors = {}
      /\ Len(events) \in Nat
  BY WorkerOf, RowsAssumption DEF TxInv, LogInv
<1>3. views' = [s \in Streams |-> IF s \in j.locks THEN j.row ELSE views[s]]
  BY <1>1 DEF Writes
<1>4. checkpoint' = [p \in Projectors |-> IF p \in j.locks THEN j.seq ELSE checkpoint[p]]
  BY <1>1 DEF Writes
<1>5. /\ j.locks = {} \/ (j.locks = ViewRow(Serves[w], e) \cup {Serves[w]} /\ j.seq \in checkpoint[Serves[w]] .. Len(events))
      /\ ViewPending(j) => j.row \in ViewType(e.stream)
  BY <1>1 DEF JobInv
<1>6. ASSUME NEW s \in Streams, s \in j.locks PROVE j.row \in ViewType(s)
  <2>1. s = e.stream
    BY <1>2, <1>5, <1>6 DEF ViewRow
  <2>2. ViewPending(j)
    BY <1>1, <1>6, <2>1 DEF ViewPending
  <2> QED
    BY <1>5, <2>1, <2>2
<1>7. \A p \in Projectors \cap j.locks : p = Serves[w] /\ j.seq \in checkpoint[p] .. Len(events)
  <2>1. \A p \in Projectors : p # e.stream
    BY <1>1, <1>2
  <2> QED
    BY <1>2, <1>5, <2>1 DEF ViewRow
<1>8. ASSUME NEW s \in Streams
      PROVE  views'[s] \in ViewType(s) /\ views'[s] = IF s \in j.locks THEN j.row ELSE views[s]
  BY <1>2, <1>3, <1>6 DEF TablesInv
<1>9. ASSUME NEW p \in Projectors
      PROVE  /\ checkpoint'[p] \in Nat /\ checkpoint'[p] >= checkpoint[p] /\ checkpoint'[p] <= Len(events)
             /\ checkpoint'[p] = IF p \in j.locks THEN j.seq ELSE checkpoint[p]
  <2>1. checkpoint[p] \in Nat /\ checkpoint[p] <= Len(events)
    BY <1>2 DEF TablesInv
  <2>2. checkpoint'[p] = IF p \in j.locks THEN j.seq ELSE checkpoint[p]
    BY <1>4
  <2>3. CASE p \in j.locks
    BY <1>2, <1>7, <2>1, <2>2, <2>3
  <2>4. CASE p \notin j.locks
    BY <2>1, <2>2, <2>4
  <2> QED
    BY <2>3, <2>4
<1>10. views' \in [Streams -> AccountView \cup InventoryView]
  <2>1. \A s \in Streams : views'[s] \in AccountView \cup InventoryView
    BY <1>8 DEF ViewType
  <2> QED
    BY <1>3, <2>1
<1>11. checkpoint' \in [Projectors -> Nat]
  BY <1>4, <1>9
<1>12. TablesInv'
  BY <1>8, <1>9, <1>10, <1>11 DEF TablesInv
<1> QED
  BY <1>1, <1>8, <1>9, <1>12

\* After a commit the worker holds no locks and what it has left is in the log.
LEMMA AfterCommit ==
  ASSUME TxInv, NEW w \in Workers, job[w].pc = "commit", Writes(w), UNCHANGED events, UNCHANGED open,
         NEW evs \in Seq(LoggedEvent), \A i \in 1 .. Len(evs) : InLog(evs[i]),
         job' = [job EXCEPT ![w] = Begin(w, evs)]
  PROVE  TxInv'
<1>1. LogInv' /\ Grows
  BY LogKept DEF TxInv
<1>2. TablesInv' /\ \A p \in Projectors : p \notin job[w].locks => checkpoint'[p] = checkpoint[p]
  BY CommitEffect
<1>3. PICK r \in Job : r = Begin(w, evs) /\ JobInv(Serves[w], r) /\ r.locks = {}
  BY BeginJob
<1>4. JobInv(Serves[w], r)'
  BY <1>1, <1>3, WorkerOf, JobInvStays
<1>5. ASSUME NEW o \in Workers \ {w}, Serves[o] \in job[o].locks PROVE checkpoint'[Serves[o]] = checkpoint[Serves[o]]
  <2>1. Serves[o] \notin job[w].locks
    BY <1>5 DEF TxInv
  <2> QED
    BY <1>2, <2>1, WorkerOf
<1> QED
  BY <1>1, <1>2, <1>3, <1>4, <1>5, NoLocks, WorkerMoves

\* The rest of a page.
LEMMA RestOfPage ==
  ASSUME TxInv, NEW w \in Workers, job[w].pc = "commit"
  PROVE  LET rest == Tail(job[w].todo) IN
         /\ rest \in Seq(LoggedEvent) /\ Len(rest) = Len(job[w].todo) - 1
         /\ \A i \in 1 .. Len(rest) : rest[i] = job[w].todo[i+1] /\ i + 1 \in 1 .. Len(job[w].todo) /\ InLog(rest[i])
<1>1. PICK j \in Job, e \in LoggedEvent :
         j = job[w] /\ JobInv(Serves[w], j) /\ Len(j.todo) \in Nat /\ Len(j.todo) > 0 /\ j.todo \in Seq(LoggedEvent)
  BY FirstEvent
<1>2. PICK b \in Seq(LoggedEvent) : b = j.todo /\ b # <<>> /\ Len(b) \in Nat /\ \A i \in 1 .. Len(b) : InLog(b[i])
  BY <1>1 DEF JobInv
<1>3. /\ Tail(b) \in Seq(LoggedEvent) /\ Len(Tail(b)) = Len(b) - 1
      /\ \A i \in 1 .. Len(Tail(b)) : Tail(b)[i] = b[i+1]
  BY <1>2, HeadTailProperties
<1>4. \A i \in 1 .. Len(Tail(b)) : i + 1 \in 1 .. Len(b)
  BY <1>2, <1>3
<1>5. \A i \in 1 .. Len(Tail(b)) : InLog(Tail(b)[i])
  BY <1>2, <1>3, <1>4
<1> QED
  BY <1>1, <1>2, <1>3, <1>4, <1>5

LEMMA CommitStep ==
  ASSUME TxInv, NEW w \in Workers, Commit(w)
  PROVE  TxInv'
<1>1. job[w].pc = "commit" /\ Writes(w) /\ UNCHANGED events /\ UNCHANGED open
  BY DEF Commit, logVars
<1>2. PICK rest \in Seq(LoggedEvent) : rest = Tail(job[w].todo) /\ \A i \in 1 .. Len(rest) : InLog(rest[i])
  BY <1>1, RestOfPage
<1>3. job' = [job EXCEPT ![w] = Begin(w, rest)]
  BY <1>2 DEF Commit, Becomes
<1> QED
  BY <1>1, <1>2, <1>3, AfterCommit

LEMMA NothingToDo ==
  ASSUME NEW w \in Workers
  PROVE  Idle(w) = Begin(w, <<>>) /\ <<>> \in Seq(LoggedEvent) /\ \A i \in 1 .. Len(<<>>) : InLog(<<>>[i])
  BY DEF Begin

LEMMA CommitAnswerLostStep ==
  ASSUME TxInv, NEW w \in Workers, CommitAnswerLost(w)
  PROVE  TxInv'
<1>1. job[w].pc = "commit" /\ Writes(w) /\ UNCHANGED events /\ UNCHANGED open
  BY DEF CommitAnswerLost, logVars
<1>2. PICK rest \in Seq(LoggedEvent) : /\ rest = <<>> /\ Idle(w) = Begin(w, rest)
                                       /\ \A i \in 1 .. Len(rest) : InLog(rest[i])
  BY NothingToDo
<1>3. job' = [job EXCEPT ![w] = Begin(w, rest)]
  BY <1>2 DEF CommitAnswerLost, Becomes
<1> QED
  BY <1>1, <1>2, <1>3, AfterCommit

LEMMA FailsStep ==
  ASSUME TxInv, NEW w \in Workers, Fails(w)
  PROVE  TxInv'
<1>1. PICK r \in Job : r = Idle(w) /\ JobInv(Serves[w], r) /\ r.locks = {}
  BY NothingToDo, BeginJob
<1>2. job' = [job EXCEPT ![w] = r]
  BY <1>1 DEF Fails, Becomes
<1> QED
  BY <1>1, <1>2, NoLocks, QuietMoves DEF Fails

\* The log grows under the workers' feet.
LEMMA LogMoves ==
  ASSUME TxInv, LogInv', Grows, UNCHANGED tables, UNCHANGED job
  PROVE  TxInv'
<1>1. TablesInv' /\ checkpoint' = checkpoint
  BY TablesKept DEF TxInv, tables
<1>2. ASSUME NEW o \in Workers PROVE JobInv(Serves[o], job[o])'
  <2>1. PICK j \in Job : j = job[o] /\ j = job'[o] /\ JobInv(Serves[o], j)
    BY DEF TxInv
  <2>2. JobInv(Serves[o], j)'
    BY <1>1, <2>1, WorkerOf, JobInvStays
  <2> QED
    BY <2>1, <2>2
<1> QED
  BY <1>1, <1>2 DEF TxInv

LEMMA CommandStep ==
  ASSUME TxInv, NEW c \in Commands, Command(c)
  PROVE  TxInv' /\ Grows
<1>1. LogInv
  BY DEF TxInv
<1>2. LogInv' /\ Grows
  BY <1>1, LogGrows DEF Grows
<1> QED
  BY <1>2, LogMoves DEF Command

LEMMA CommitAppendStep ==
  ASSUME TxInv, NEW b, CommitAppend(b)
  PROVE  TxInv' /\ Grows
<1>1. UNCHANGED events /\ open' \subseteq open /\ LogInv /\ UNCHANGED tables /\ UNCHANGED job
  BY DEF CommitAppend, TxInv
<1>2. LogInv' /\ Grows
  BY <1>1, LogKept
<1> QED
  BY <1>1, <1>2, LogMoves

LEMMA TxInvInit == Init => TxInv
<1> SUFFICES ASSUME Init PROVE TxInv
  OBVIOUS
<1>1. events = <<>> /\ Len(events) = 0 /\ LogInv
  BY DEF Init, Log!Init, LogInv
<1>2. TablesInv
  <2>1. \A s \in Streams : views[s] = ZeroView(s) /\ ZeroView(s) \in ViewType(s)
    BY ZeroViewType DEF Init
  <2>2. \A s \in Streams : views[s] \in AccountView \cup InventoryView
    BY <2>1 DEF ViewType
  <2>3. views \in [Streams -> AccountView \cup InventoryView]
    BY <2>2 DEF Init
  <2>4. checkpoint \in [Projectors -> Nat] /\ \A p \in Projectors : checkpoint[p] <= Len(events)
    BY <1>1 DEF Init
  <2> QED
    BY <2>1, <2>3, <2>4 DEF TablesInv
<1>3. \A w \in Workers : job[w] = Idle(w) /\ Idle(w) \in Job /\ JobInv(Serves[w], Idle(w)) /\ Idle(w).locks = {}
  BY NothingToDo, BeginJob DEF Init
<1>4. job \in [Workers -> Job]
  BY <1>3 DEF Init
<1> QED
  BY <1>1, <1>2, <1>3, <1>4 DEF TxInv

LEMMA TxInvStep == TxInv /\ [Next]_vars => TxInv' /\ Grows
<1> SUFFICES ASSUME TxInv, [Next]_vars PROVE TxInv' /\ Grows
  OBVIOUS
<1>0. UNCHANGED events => Grows
  BY SameLog DEF TxInv
<1>1. CASE (\E c \in Commands : Command(c)) \/ (\E b \in open : CommitAppend(b))
  BY <1>1, CommandStep, CommitAppendStep
<1>2. CASE \E w \in Subscribers : \E n \in 1 .. Len(events) \ InFlight : Receive(w, events[n])
  <2>1. TxInv'
    BY <1>2, ReceiveStep
  <2> QED
    BY <1>0, <1>2, <2>1 DEF Receive, logVars
<1>3. CASE \E w \in Workers : WorkerStep(w)
  <2>1. TxInv'
    BY <1>3, CatchUpStep, LoadPageStep, GetCheckpointStep, GetViewStep, UpsertViewStep, SetCheckpointStep, CommitStep
       DEF WorkerStep, TxStep
  <2>2. UNCHANGED events
    BY <1>3 DEF WorkerStep, TxStep, CatchUp, LoadPage, GetCheckpoint, GetView, UpsertView, SetCheckpoint, Commit, logVars
  <2> QED
    BY <1>0, <2>1, <2>2
<1>4. CASE \E w \in Workers : Fails(w) \/ CommitAnswerLost(w)
  <2>1. TxInv'
    BY <1>4, FailsStep, CommitAnswerLostStep
  <2> QED
    BY <1>0, <1>4, <2>1 DEF Fails, CommitAnswerLost, logVars
<1>5. CASE UNCHANGED vars
  <2>1. UNCHANGED events /\ open' \subseteq open /\ UNCHANGED tables /\ UNCHANGED job /\ LogInv
    BY <1>5 DEF vars, tables, TxInv
  <2> QED
    BY <1>0, <2>1, LogKept, LogMoves
<1> QED
  BY <1>1, <1>2, <1>3, <1>4, <1>5 DEF Next

LEMMA TxInvariant == Spec => []TxInv
<1>1. TxInv /\ [Next]_vars => TxInv'
  BY TxInvStep
<1> QED
  BY <1>1, TxInvInit, PTL DEF Spec
LEMMA TxInvTypes == TxInv => TypeOK
<1> SUFFICES ASSUME TxInv PROVE TypeOK
  OBVIOUS
<1>1. TablesInv /\ Len(events) \in Nat
  BY DEF TxInv, LogInv
<1>2. ASSUME NEW w \in Workers, InTx(w) PROVE Event(w) \in {events[n] : n \in 1 .. Len(events)}
  <2>1. InLog(Event(w))
    BY <1>2, FirstEvent DEF InTx
  <2> QED
    BY <2>1 DEF InLog
<1>3. ASSUME NEW w \in Workers
      PROVE  job[w].locks \subseteq {s \in Streams : ProjectorOf(s) = Serves[w]} \cup {Serves[w]}
  <2>1. CASE job[w].locks = {}
    BY <2>1
  <2>2. CASE job[w].locks # {}
    <3>1. job[w].pc \notin {"idle", "load"} /\ job[w].pc \in {"setCheckpoint", "commit"}
      BY <2>2 DEF TxInv, JobInv
    <3>2. PICK j \in Job, e \in LoggedEvent : j = job[w] /\ e = Head(j.todo) /\ JobInv(Serves[w], j) /\ e.stream \in Streams
      BY <3>1, FirstEvent
    <3>3. j.locks \subseteq ViewRow(Serves[w], e) \cup {Serves[w]}
      BY <2>2, <3>1, <3>2 DEF JobInv
    <3> QED
      BY <3>2, <3>3 DEF ViewRow, Relevant
  <2> QED
    BY <2>1, <2>2
<1>4. ASSUME NEW w \in Workers, job[w].pc \in {"upsertView", "setCheckpoint"}, Relevant(Serves[w], Event(w))
      PROVE  job[w].row \in ViewType(Event(w).stream)
  <2>1. PICK j \in Job, e \in LoggedEvent : j = job[w] /\ e = Head(j.todo) /\ e = Event(w) /\ JobInv(Serves[w], j)
    BY <1>4, FirstEvent
  <2>2. ViewPending(j)
    BY <1>4, <2>1 DEF JobInv, ViewPending, ViewRow
  <2> QED
    BY <2>1, <2>2 DEF JobInv
<1>5. \A p \in Projectors : checkpoint[p] \in 0 .. Len(events)
  BY <1>1 DEF TablesInv
<1>6. \A s \in Streams : views[s] \in ViewType(s)
  BY <1>1 DEF TablesInv
<1>7. \A b \in open : b \subseteq 1 .. Len(events)
  BY DEF TxInv, LogInv
<1> QED
  BY <1>2, <1>3, <1>4, <1>5, <1>6, <1>7 DEF TypeOK

\* Rows and pending rows keep the shape of their table, and a transaction writes only
\* rows of its own projector, for an event of the log (postgres/store.go, withTx and the
\* upserts).
THEOREM TableTypes == Spec => []TypeOK
  BY TxInvariant, TxInvTypes, PTL

-----------------------------------------------------------------------------
(* Checkpoints only advance.                                               *)

LEMMA StepAdvances ==
  TxInv /\ [Next]_vars => \A p \in Projectors : checkpoint'[p] >= checkpoint[p]
<1> SUFFICES ASSUME TxInv, [Next]_vars, NEW p \in Projectors PROVE checkpoint'[p] >= checkpoint[p]
  OBVIOUS
<1>1. CASE UNCHANGED checkpoint
  BY <1>1 DEF TxInv, TablesInv
<1>2. CASE \E w \in Workers : Commit(w) \/ CommitAnswerLost(w)
  <2>1. PICK w \in Workers : job[w].pc = "commit" /\ Writes(w) /\ UNCHANGED events
    BY <1>2 DEF Commit, CommitAnswerLost, logVars
  <2> QED
    BY <2>1, CommitEffect
<1>3. UNCHANGED checkpoint \/ \E w \in Workers : Commit(w) \/ CommitAnswerLost(w)
  BY DEF Next, vars, Command, CommitAppend, Receive, WorkerStep, TxStep, CatchUp, LoadPage, GetCheckpoint, GetView, UpsertView,
         SetCheckpoint, Fails, tables
<1> QED
  BY <1>1, <1>2, <1>3

\* However many goroutines apply however old events, a committed checkpoint never moves
\* back: the upsert takes GREATEST of the row as it is when the lock is granted, and the
\* lock keeps it so until the commit (postgres/store.go, SetCheckpoint).
THEOREM CheckpointsRise == Spec => CheckpointsOnlyAdvance
<1>1. TxInv /\ [Next]_vars => [\A p \in Projectors : checkpoint'[p] >= checkpoint[p]]_vars
  BY StepAdvances
<1> QED
  BY <1>1, TxInvariant, PTL DEF Spec, CheckpointsOnlyAdvance
-----------------------------------------------------------------------------
(* The only worker of a projector: what it read stays true.                *)

LEMMA SoleWorker ==
  ASSUME NEW v \in Workers, NEW w \in Workers, Serves[v] = Serves[w], Serves[w] \in Solo
  PROVE  v = w
<1>1. PICK u \in Workers : {x \in Workers : Serves[x] = Serves[w]} = {u}
  BY DEF Solo
<1> QED
  BY <1>1

\* The rows of projector p are as they were.
RowsKept(p) ==
    /\ checkpoint'[p] = checkpoint[p]
    /\ \A s \in Streams : ProjectorOf(s) = p => views'[s] = views[s]

\* A pending row belongs to the projector the transaction is for.
LEMMA PendingIsRelevant ==
  ASSUME NEW p \in Projectors, NEW j \in Job, JobInv(p, j), ViewPending(j), Head(j.todo).stream \in Streams
  PROVE  ProjectorOf(Head(j.todo).stream) = p
<1>1. p \notin Streams
  BY RowsAssumption
<1>2. Relevant(p, Head(j.todo))
  BY <1>1 DEF JobInv, ViewPending, ViewRow
<1> QED
  BY <1>2 DEF Relevant

LEMMA SoloJobStays ==
  ASSUME TxInv, SoloInv, NEW w \in Workers, Serves[w] \in Solo, RowsKept(Serves[w])
  PROVE  \A j : j = job[w] => SoloJob(Serves[w], j)'
<1>1. PICK j \in Job : j = job[w] /\ JobInv(Serves[w], j) /\ SoloJob(Serves[w], j) /\ j.todo \in Seq(LoggedEvent)
  BY DEF TxInv, Job, SoloInv
<1>2. Serves[w] \in Projectors
  BY WorkerOf
<1>3. PICK p \in Projectors : p = Serves[w]
  BY <1>2
<1>4. ASSUME ViewPending(j) PROVE views'[Head(j.todo).stream] = views[Head(j.todo).stream]
  <2>1. j.pc \notin {"idle", "load"}
    BY <1>1, <1>4 DEF JobInv, ViewPending
  <2>2. Head(j.todo).stream \in Streams
    BY <1>1, <2>1, FirstEvent
  <2>3. ProjectorOf(Head(j.todo).stream) = Serves[w]
    BY <1>1, <1>2, <1>4, <2>2, PendingIsRelevant
  <2> QED
    BY <2>2, <2>3 DEF RowsKept
<1>5. checkpoint'[p] = checkpoint[p]
  BY <1>3 DEF RowsKept
<1>6. SoloJob(p, j)'
  BY <1>1, <1>3, <1>4, <1>5 DEF SoloJob
<1> QED
  BY <1>1, <1>3, <1>6

\* One worker moves and changes no rows but its own projector's.
LEMMA SoloMoves ==
  ASSUME TxInv, SoloInv, NEW w \in Workers, NEW r, job' = [job EXCEPT ![w] = r],
         Serves[w] \in Solo => SoloJob(Serves[w], r)',
         \A p \in Projectors : p # Serves[w] => RowsKept(p)
  PROVE  SoloInv'
<1>1. job \in [Workers -> Job] /\ job'[w] = r /\ \A o \in Workers \ {w} : job'[o] = job[o]
  BY DEF TxInv
<1>2. ASSUME NEW o \in Workers, Serves[o] \in Solo PROVE SoloJob(Serves[o], job[o])'
  <2>1. CASE o = w
    BY <1>1, <1>2, <2>1
  <2>2. CASE o # w
    <3>1. RowsKept(Serves[o])
      BY <1>2, <2>2, SoleWorker, WorkerOf
    <3>2. PICK j : j = job[o] /\ j = job'[o]
      BY <1>1, <2>2
    <3>3. SoloJob(Serves[o], j)'
      BY <1>2, <3>1, <3>2, SoloJobStays
    <3> QED
      BY <3>2, <3>3
  <2> QED
    BY <2>1, <2>2
<1> QED
  BY <1>2 DEF SoloInv

LEMMA QuietRows ==
  ASSUME UNCHANGED tables
  PROVE  \A p : RowsKept(p)
  BY DEF tables, RowsKept

\* A commit leaves the rows of the other projectors alone.
LEMMA CommitRows ==
  ASSUME TxInv, NEW w \in Workers, job[w].pc = "commit", Writes(w), UNCHANGED events
  PROVE  \A p \in Projectors : p # Serves[w] => RowsKept(p)
<1> TAKE p \in Projectors
<1> HAVE p # Serves[w]
<1>1. job[w].locks \subseteq {s \in Streams : ProjectorOf(s) = Serves[w]} \cup {Serves[w]}
  BY TxInvTypes DEF TypeOK
<1>2. p \notin job[w].locks
  BY <1>1, RowsAssumption
<1>3. \A s \in Streams : ProjectorOf(s) = p => s \notin job[w].locks
  BY <1>1, WorkerOf
<1> QED
  BY <1>2, <1>3, CommitEffect DEF RowsKept

\* A worker without an open transaction, or at its start, has read nothing yet.
LEMMA NothingRead ==
  ASSUME NEW p, NEW r, r.pc \in {"idle", "load", "getCheckpoint"}, r.locks = {}
  PROVE  SoloJob(p, r)'
  BY DEF SoloJob, ViewPending

LEMMA GetCheckpointSolo ==
  ASSUME TxInv, SoloInv, NEW w \in Workers, GetCheckpoint(w)
  PROVE  SoloInv'
<1>0. job[w].pc = "getCheckpoint" /\ checkpoint' = checkpoint /\ UNCHANGED tables
  BY DEF GetCheckpoint, tables
<1>1. PICK j \in Job, e \in LoggedEvent :
         j = job[w] /\ e = Head(j.todo) /\ e = Event(w) /\ JobInv(Serves[w], j) /\ e.seq \in Nat
  BY <1>0, FirstEvent
<1>2. PICK next \in {"commit", "getView", "setCheckpoint"} :
         /\ next = IF e.seq <= checkpoint[Serves[w]] THEN "commit"
                   ELSE IF Relevant(Serves[w], e) THEN "getView" ELSE "setCheckpoint"
  OBVIOUS
<1>3. PICK r : r = [j EXCEPT !.pc = next] /\ job' = [job EXCEPT ![w] = r]
  BY <1>1, <1>2 DEF GetCheckpoint, Becomes
<1>4. j.locks = {}
  BY <1>0, <1>1 DEF JobInv
<1>5. r.locks = {} /\ r.pc = next /\ r.todo = j.todo
  BY <1>2, <1>3, <1>4 DEF Job
<1>6. checkpoint[Serves[w]] \in Nat
  BY WorkerOf DEF TxInv, TablesInv
<1>7. next \in {"getView", "setCheckpoint"} => e.seq > checkpoint[Serves[w]]
  BY <1>1, <1>2, <1>6
<1>8. SoloJob(Serves[w], r)'
  BY <1>0, <1>1, <1>2, <1>5, <1>7 DEF SoloJob, ViewPending
<1> QED
  BY <1>0, <1>3, <1>8, QuietRows, SoloMoves

LEMMA GetViewSolo ==
  ASSUME TxInv, SoloInv, NEW w \in Workers, GetView(w)
  PROVE  SoloInv'
<1>0. job[w].pc = "getView" /\ checkpoint' = checkpoint /\ views' = views /\ UNCHANGED tables
  BY DEF GetView, tables
<1>1. PICK j \in Job, e \in LoggedEvent : j = job[w] /\ e = Head(j.todo) /\ e = Event(w) /\ JobInv(Serves[w], j)
  BY <1>0, FirstEvent
<1>2. PICK row : row = ApplyView(Serves[w], views[e.stream], e)
  OBVIOUS
<1>3. PICK r : r = [j EXCEPT !.pc = "upsertView", !.row = row] /\ job' = [job EXCEPT ![w] = r]
  BY <1>1, <1>2 DEF GetView, Becomes
<1>4. j.locks = {}
  BY <1>0, <1>1 DEF JobInv
<1>5. r.locks = {} /\ r.pc = "upsertView" /\ r.todo = j.todo /\ r.row = row
  BY <1>3, <1>4 DEF Job
<1>6. Serves[w] \in Solo => e.seq > checkpoint[Serves[w]]
  BY <1>0, <1>1 DEF SoloInv, SoloJob
<1>7. Serves[w] \in Solo => SoloJob(Serves[w], r)'
  BY <1>0, <1>1, <1>2, <1>5, <1>6 DEF SoloJob
<1> QED
  BY <1>0, <1>3, <1>7, QuietRows, SoloMoves

LEMMA UpsertViewSolo ==
  ASSUME TxInv, SoloInv, NEW w \in Workers, UpsertView(w)
  PROVE  SoloInv'
<1>0. job[w].pc = "upsertView" /\ checkpoint' = checkpoint /\ views' = views /\ UNCHANGED tables
  BY DEF UpsertView, tables
<1>1. PICK j \in Job, e \in LoggedEvent :
         j = job[w] /\ e = Head(j.todo) /\ e = Event(w) /\ JobInv(Serves[w], j) /\ e.stream \in Streams
  BY <1>0, FirstEvent
<1>2. j.locks = {}
  BY <1>0, <1>1 DEF JobInv
<1>3. PICK r : r = [j EXCEPT !.pc = "setCheckpoint", !.locks = j.locks \cup {e.stream}] /\ job' = [job EXCEPT ![w] = r]
  BY <1>1 DEF UpsertView, Becomes
<1>4. r.locks = {e.stream} /\ r.pc = "setCheckpoint" /\ r.todo = j.todo /\ r.row = j.row
  BY <1>2, <1>3 DEF Job
<1>5. Serves[w] \in Solo => e.seq > checkpoint[Serves[w]] /\ j.row = ApplyView(Serves[w], views[e.stream], e)
  BY <1>0, <1>1 DEF SoloInv, SoloJob, ViewPending
<1>6. Serves[w] # e.stream
  BY <1>1, WorkerOf
<1>7. Serves[w] \in Solo => SoloJob(Serves[w], r)'
  BY <1>0, <1>1, <1>4, <1>5, <1>6 DEF SoloJob
<1> QED
  BY <1>0, <1>3, <1>7, QuietRows, SoloMoves

LEMMA SetCheckpointSolo ==
  ASSUME TxInv, SoloInv, NEW w \in Workers, SetCheckpoint(w)
  PROVE  SoloInv'
<1>0. job[w].pc = "setCheckpoint" /\ checkpoint' = checkpoint /\ views' = views /\ UNCHANGED tables
  BY DEF SetCheckpoint, tables
<1>1. PICK j \in Job, e \in LoggedEvent :
         j = job[w] /\ e = Head(j.todo) /\ e = Event(w) /\ JobInv(Serves[w], j) /\ e.stream \in Streams
  BY <1>0, FirstEvent
<1>2. PICK seq : seq = IF e.seq > checkpoint[Serves[w]] THEN e.seq ELSE checkpoint[Serves[w]]
  OBVIOUS
<1>3. PICK r : /\ r = [j EXCEPT !.pc = "commit", !.locks = j.locks \cup {Serves[w]}, !.seq = seq]
               /\ job' = [job EXCEPT ![w] = r]
  BY <1>1, <1>2 DEF SetCheckpoint, Becomes
<1>4. r.locks = j.locks \cup {Serves[w]} /\ r.pc = "commit" /\ r.todo = j.todo /\ r.row = j.row /\ r.seq = seq
  BY <1>3 DEF Job
<1>5. e.stream # Serves[w]
  BY <1>1, WorkerOf
<1>6. ViewPending(r) => ViewPending(j)
  BY <1>1, <1>4, <1>5 DEF ViewPending
<1>7. Serves[w] \in Solo => e.seq > checkpoint[Serves[w]] /\ (ViewPending(j) => j.row = ApplyView(Serves[w], views[e.stream], e))
  BY <1>0, <1>1 DEF SoloInv, SoloJob
<1>8. ASSUME Serves[w] \in Solo PROVE SoloJob(Serves[w], r)'
  <2>1. ViewPending(r)' => ViewPending(r)
    BY DEF ViewPending
  <2> QED
    BY <1>0, <1>1, <1>2, <1>4, <1>6, <1>7, <1>8, <2>1 DEF SoloJob
<1> QED
  BY <1>0, <1>3, <1>8, QuietRows, SoloMoves
\* Beginning, ending and abandoning a page.
LEMMA FreshSolo ==
  ASSUME TxInv, SoloInv, NEW w \in Workers, NEW r, job' = [job EXCEPT ![w] = r],
         r.pc \in {"idle", "load", "getCheckpoint"}, r.locks = {},
         \A p \in Projectors : p # Serves[w] => RowsKept(p)
  PROVE  SoloInv'
<1>1. SoloJob(Serves[w], r)'
  BY NothingRead
<1> QED
  BY <1>1, SoloMoves

LEMMA FreshJobs ==
  ASSUME NEW w, NEW evs, NEW since
  PROVE  /\ Begin(w, evs).pc \in {"idle", "getCheckpoint"} /\ Begin(w, evs).locks = {} /\ Begin(w, evs).todo = evs
         /\ Idle(w).pc = "idle" /\ Idle(w).locks = {} /\ Idle(w).todo = <<>>
         /\ [Idle(w) EXCEPT !.pc = "load", !.since = since].pc = "load"
         /\ [Idle(w) EXCEPT !.pc = "load", !.since = since].since = since
         /\ [Idle(w) EXCEPT !.pc = "load", !.since = since].locks = {}
         /\ [Idle(w) EXCEPT !.pc = "load", !.since = since].todo = <<>>
  BY DEF Begin, Idle

LEMMA PageSolo ==
  ASSUME TxInv, SoloInv, NEW w \in Workers,
         CatchUp(w) \/ LoadPage(w) \/ Fails(w) \/ Commit(w) \/ CommitAnswerLost(w)
  PROVE  SoloInv'
<1>1. CASE CatchUp(w)
  <2>1. PICK r : r = [Idle(w) EXCEPT !.pc = "load", !.since = checkpoint[Serves[w]]] /\ job' = [job EXCEPT ![w] = r]
    BY <1>1, Zenon DEF CatchUp, Becomes
  <2>2. r.pc = "load" /\ r.locks = {}
    BY <2>1, FreshJobs
  <2> QED
    BY <1>1, <2>1, <2>2, FreshSolo, QuietRows DEF CatchUp
<1>2. CASE LoadPage(w)
  <2>1. PICK r : r = Begin(w, LoadSince(Visible, job[w].since, BatchSize)) /\ job' = [job EXCEPT ![w] = r]
    BY <1>2, Zenon DEF LoadPage, Becomes
  <2>2. r.pc \in {"idle", "getCheckpoint"} /\ r.locks = {}
    BY <2>1, FreshJobs
  <2> QED
    BY <1>2, <2>1, <2>2, FreshSolo, QuietRows DEF LoadPage
<1>3. CASE Fails(w)
  <2>1. PICK r : r = Idle(w) /\ job' = [job EXCEPT ![w] = r]
    BY <1>3, Zenon DEF Fails, Becomes
  <2>2. r.pc = "idle" /\ r.locks = {}
    BY <2>1, FreshJobs
  <2> QED
    BY <1>3, <2>1, <2>2, FreshSolo, QuietRows DEF Fails
<1>4. CASE Commit(w)
  <2>1. PICK r : r = Begin(w, Tail(job[w].todo)) /\ job' = [job EXCEPT ![w] = r]
    BY <1>4, Zenon DEF Commit, Becomes
  <2>2. \A p \in Projectors : p # Serves[w] => RowsKept(p)
    BY <1>4, CommitRows DEF Commit, logVars
  <2>3. r.pc \in {"idle", "getCheckpoint"} /\ r.locks = {}
    BY <2>1, FreshJobs
  <2> QED
    BY <2>1, <2>2, <2>3, FreshSolo
<1>5. CASE CommitAnswerLost(w)
  <2>1. PICK r : r = Idle(w) /\ job' = [job EXCEPT ![w] = r]
    BY <1>5, Zenon DEF CommitAnswerLost, Becomes
  <2>2. \A p \in Projectors : p # Serves[w] => RowsKept(p)
    BY <1>5, CommitRows DEF CommitAnswerLost, logVars
  <2>3. r.pc = "idle" /\ r.locks = {}
    BY <2>1, FreshJobs
  <2> QED
    BY <2>1, <2>2, <2>3, FreshSolo
<1> QED
  BY <1>1, <1>2, <1>3, <1>4, <1>5

LEMMA ReceiveSolo ==
  ASSUME TxInv, SoloInv, NEW w \in Subscribers, NEW e, Receive(w, e)
  PROVE  SoloInv'
<1>1. w \in Workers
  BY DEF Workers
<1>2. PICK r : r = Begin(w, <<e>>) /\ job' = [job EXCEPT ![w] = r]
  BY Zenon DEF Receive, Becomes
<1>3. r.pc \in {"idle", "getCheckpoint"} /\ r.locks = {}
  BY <1>2, FreshJobs
<1> QED
  BY <1>1, <1>2, <1>3, FreshSolo, QuietRows DEF Receive

\* Nobody moves.
LEMMA IdleSolo ==
  ASSUME TxInv, SoloInv, UNCHANGED tables, UNCHANGED job
  PROVE  SoloInv'
<1>1. ASSUME NEW w \in Workers, Serves[w] \in Solo PROVE SoloJob(Serves[w], job[w])'
  <2>1. PICK j : j = job[w] /\ j = job'[w]
    OBVIOUS
  <2>2. SoloJob(Serves[w], j)'
    BY <1>1, <2>1, QuietRows, SoloJobStays
  <2> QED
    BY <2>1, <2>2
<1> QED
  BY <1>1 DEF SoloInv

LEMMA SoloInvStep == TxInv /\ SoloInv /\ [Next]_vars => SoloInv'
<1> SUFFICES ASSUME TxInv, SoloInv, [Next]_vars PROVE SoloInv'
  OBVIOUS
<1>1. CASE (\E c \in Commands : Command(c)) \/ (\E b \in open : CommitAppend(b))
  BY <1>1, IdleSolo DEF Command, CommitAppend
<1>2. CASE \E w \in Subscribers : \E n \in 1 .. Len(events) \ InFlight : Receive(w, events[n])
  BY <1>2, ReceiveSolo
<1>3. CASE \E w \in Workers : WorkerStep(w)
  BY <1>3, PageSolo, GetCheckpointSolo, GetViewSolo, UpsertViewSolo, SetCheckpointSolo DEF WorkerStep, TxStep
<1>4. CASE \E w \in Workers : Fails(w) \/ CommitAnswerLost(w)
  BY <1>4, PageSolo
<1>5. CASE UNCHANGED vars
  BY <1>5, IdleSolo DEF vars, tables
<1> QED
  BY <1>1, <1>2, <1>3, <1>4, <1>5 DEF Next

LEMMA SoloInvInit == Init => SoloInv
<1> SUFFICES ASSUME Init, NEW w \in Workers PROVE SoloJob(Serves[w], job[w])
  BY DEF SoloInv
<1>1. job[w].pc = "idle" /\ job[w].locks = {}
  BY DEF Init, Idle
<1> QED
  BY <1>1 DEF SoloJob, ViewPending

LEMMA SoloInvariant == Spec => [](TxInv /\ SoloInv)
  BY TxInvariant, SoloInvInit, SoloInvStep, PTL DEF Spec

-----------------------------------------------------------------------------
(* The commit of a projector's only worker is ApplyEvent, all of it.       *)

LEMMA SoloCommit ==
  ASSUME TxInv, SoloInv, NEW w \in Workers, Serves[w] \in Solo, Serves[w] \in job[w].locks,
         job[w].pc = "commit", Writes(w), UNCHANGED events
  PROVE  \E e \in LoggedEvent :
            /\ e = job[w].todo[1] /\ InLog(e) /\ Decodable(e) /\ e.stream \in Streams
            /\ e.seq > checkpoint[Serves[w]]
            /\ \A p \in Projectors : checkpoint'[p] = IF p = Serves[w] THEN e.seq ELSE checkpoint[p]
            /\ \A s \in Streams :
                  views'[s] = IF Relevant(Serves[w], e) /\ e.stream = s THEN ApplyView(Serves[w], views[s], e) ELSE views[s]
<1>1. PICK j \in Job, e \in LoggedEvent :
         /\ j = job[w] /\ e = Head(j.todo) /\ e = j.todo[1] /\ JobInv(Serves[w], j)
         /\ InLog(e) /\ Decodable(e) /\ e.stream \in Streams
  BY FirstEvent
<1>2. /\ e.seq > checkpoint[Serves[w]] /\ j.seq = e.seq
      /\ ViewPending(j) => j.row = ApplyView(Serves[w], views[e.stream], e)
  BY <1>1 DEF SoloInv, SoloJob
<1>3. j.locks = ViewRow(Serves[w], e) \cup {Serves[w]}
  BY <1>1 DEF JobInv
<1>4. /\ \A p \in Projectors : checkpoint'[p] = IF p \in j.locks THEN j.seq ELSE checkpoint[p]
      /\ \A s \in Streams : views'[s] = IF s \in j.locks THEN j.row ELSE views[s]
  BY <1>1, CommitEffect
<1>5. \A p \in Projectors : p \in j.locks <=> p = Serves[w]
  BY <1>1, <1>3, RowsAssumption DEF ViewRow
<1>6. \A s \in Streams : s \in j.locks <=> Relevant(Serves[w], e) /\ e.stream = s
  BY <1>3, WorkerOf DEF ViewRow
<1>7. Relevant(Serves[w], e) => ViewPending(j)
  BY <1>1, <1>3 DEF ViewPending, ViewRow
<1>8. ASSUME NEW s \in Streams
      PROVE  views'[s] = IF Relevant(Serves[w], e) /\ e.stream = s THEN ApplyView(Serves[w], views[s], e) ELSE views[s]
  <2>1. CASE Relevant(Serves[w], e) /\ e.stream = s
    BY <1>2, <1>4, <1>6, <1>7, <2>1
  <2>2. CASE ~ (Relevant(Serves[w], e) /\ e.stream = s)
    BY <1>4, <1>6, <2>2
  <2> QED
    BY <2>1, <2>2
<1>9. \A p \in Projectors : checkpoint'[p] = IF p = Serves[w] THEN e.seq ELSE checkpoint[p]
  BY <1>2, <1>4, <1>5
<1> QED
  BY <1>1, <1>2, <1>8, <1>9

\* A commit that has not written its checkpoint has written nothing.
LEMMA SkippedCommit ==
  ASSUME TxInv, NEW w \in Workers, Serves[w] \notin job[w].locks,
         job[w].pc = "commit", Writes(w), UNCHANGED events
  PROVE  (\A p \in Projectors : checkpoint'[p] = checkpoint[p]) /\ \A s \in Streams : views'[s] = views[s]
<1>1. job[w].locks = {}
  BY DEF TxInv, JobInv
<1> QED
  BY <1>1, CommitEffect

\* The instance's copies of the appliers are the appliers.
LEMMA AtomicRules ==
  /\ \A p, e : Atomic!Relevant(p, e) <=> Relevant(p, e)
  /\ \A p, view, e : Atomic!ApplyView(p, view, e) = ApplyView(p, view, e)
  /\ \A s : Atomic!ZeroView(s) = ZeroView(s)
  BY DEF Atomic!Relevant, Atomic!ProjectorOf, Relevant, ProjectorOf, Atomic!ApplyView, ApplyView,
     Atomic!ApplyAccountView, ApplyAccountView, Atomic!ApplyInventoryView, ApplyInventoryView,
     Atomic!Wrap, Wrap, Atomic!ZeroView, ZeroView

SoloViews == [s \in SoloStreams |-> views[s]]
SoloCheckpoints == [p \in Solo |-> checkpoint[p]]

LEMMA SoloRows ==
  /\ Solo \subseteq Projectors /\ SoloStreams \subseteq Streams
  /\ \A s \in Streams : s \in SoloStreams <=> ProjectorOf(s) \in Solo
  BY DEF Solo, SoloStreams

LEMMA CommitRefines ==
  ASSUME TxInv, SoloInv, NEW w \in Workers, job[w].pc = "commit", Writes(w), UNCHANGED events
  PROVE  Atomic!Next \/ UNCHANGED <<SoloViews, SoloCheckpoints>>
<1>1. CASE Serves[w] \notin Solo
  <2>1. \A p \in Solo : RowsKept(p)
    BY <1>1, CommitRows, SoloRows
  <2>2. \A s \in SoloStreams : views'[s] = views[s]
    BY <2>1, SoloRows DEF RowsKept
  <2>3. \A p \in Solo : checkpoint'[p] = checkpoint[p]
    BY <2>1 DEF RowsKept
  <2> QED
    BY <2>2, <2>3 DEF SoloViews, SoloCheckpoints
<1>2. CASE Serves[w] \notin job[w].locks
  <2>1. (\A p \in Solo : checkpoint'[p] = checkpoint[p]) /\ \A s \in SoloStreams : views'[s] = views[s]
    BY <1>2, SkippedCommit, SoloRows
  <2> QED
    BY <2>1 DEF SoloViews, SoloCheckpoints
<1>3. CASE Serves[w] \in Solo /\ Serves[w] \in job[w].locks
  <2>1. PICK e \in LoggedEvent :
            /\ InLog(e) /\ e.stream \in Streams
            /\ e.seq > checkpoint[Serves[w]]
            /\ \A p \in Projectors : checkpoint'[p] = IF p = Serves[w] THEN e.seq ELSE checkpoint[p]
            /\ \A s \in Streams :
                  views'[s] = IF Relevant(Serves[w], e) /\ e.stream = s THEN ApplyView(Serves[w], views[s], e) ELSE views[s]
    BY <1>3, SoloCommit
  <2>2. PICK p \in Solo : p = Serves[w]
    BY <1>3
  <2>3. SoloCheckpoints[p] = checkpoint[p] /\ SoloCheckpoints' = [SoloCheckpoints EXCEPT ![p] = e.seq]
    <3>1. \A q \in Solo : checkpoint'[q] = IF q = p THEN e.seq ELSE checkpoint[q]
      BY <2>1, <2>2, SoloRows
    <3> QED
      BY <3>1 DEF SoloCheckpoints
  <2>4. SoloViews' = IF Relevant(p, e) THEN [SoloViews EXCEPT ![e.stream] = ApplyView(p, SoloViews[e.stream], e)] ELSE SoloViews
    <3>1. \A s \in SoloStreams : views'[s] = IF Relevant(p, e) /\ e.stream = s THEN ApplyView(p, views[s], e) ELSE views[s]
      BY <2>1, <2>2, SoloRows
    <3>2. CASE ~ Relevant(p, e)
      BY <3>1, <3>2 DEF SoloViews
    <3>3. CASE Relevant(p, e)
      <4>1. e.stream \in SoloStreams
        BY <2>1, <2>2, <3>3, SoloRows DEF Relevant
      <4>2. SoloViews[e.stream] = views[e.stream]
        BY <4>1 DEF SoloViews
      <4> QED
        BY <3>1, <3>3, <4>1, <4>2 DEF SoloViews
    <3> QED
      BY <3>2, <3>3
  <2>5. PICK n \in 1 .. Len(events) : e = events[n]
    BY <2>1 DEF InLog
  <2>6. Atomic!ApplyEvent(p, events[n])
    BY <2>1, <2>2, <2>3, <2>4, <2>5, AtomicRules DEF Atomic!ApplyEvent, SoloViews, SoloCheckpoints
  <2> QED
    BY <2>6, Zenon DEF Atomic!Next
<1> QED
  BY <1>1, <1>2, <1>3

\* For a projector that one goroutine works for, what ApplyEvent does in up to five
\* statements is the one indivisible step WithTx promises, wherever it fails and whatever
\* became of the answer to its COMMIT (postgres/store.go, WithTx: "a crash or error partway
\* through leaves neither the view nor the checkpoint changed").
THEOREM ApplyIsAtomic == Spec => ImplementsReadModel
<1>1. Init => Atomic!Init
  <2> SUFFICES ASSUME Init PROVE Atomic!Init
    OBVIOUS
  <2>1. \A s \in SoloStreams : views[s] = Atomic!ZeroView(s)
    BY SoloRows, AtomicRules DEF Init
  <2>2. \A p \in Solo : checkpoint[p] = 0
    BY SoloRows DEF Init
  <2> QED
    BY <2>1, <2>2 DEF Atomic!Init
<1>2. TxInv /\ SoloInv /\ [Next]_vars => Atomic!Next \/ UNCHANGED <<SoloViews, SoloCheckpoints>>
  <2> SUFFICES ASSUME TxInv, SoloInv, [Next]_vars PROVE Atomic!Next \/ UNCHANGED <<SoloViews, SoloCheckpoints>>
    OBVIOUS
  <2>1. UNCHANGED tables \/ \E w \in Workers : Commit(w) \/ CommitAnswerLost(w)
    BY DEF Next, vars, Command, CommitAppend, Receive, WorkerStep, TxStep, CatchUp, LoadPage, GetCheckpoint, GetView, UpsertView,
           SetCheckpoint, Fails, tables
  <2>2. CASE UNCHANGED tables
    BY <2>2 DEF tables, SoloViews, SoloCheckpoints
  <2>3. CASE \E w \in Workers : Commit(w) \/ CommitAnswerLost(w)
    BY <2>3, CommitRefines DEF Commit, CommitAnswerLost, logVars
  <2> QED
    BY <2>1, <2>2, <2>3
<1>3. TxInv /\ SoloInv /\ [Next]_vars =>
         [Atomic!Next]_<<[s \in SoloStreams |-> views[s]], [p \in Solo |-> checkpoint[p]]>>
  BY <1>2 DEF SoloViews, SoloCheckpoints
<1> QED
  BY <1>1, <1>3, SoloInvariant, PTL DEF Spec, ImplementsReadModel, Atomic!Spec
-----------------------------------------------------------------------------
(* A projector fed by CatchUp alone.                                       *)

LEMMA FoldStays ==
  ASSUME TxInv, ViewIsFoldAtCheckpoint, Grows, UNCHANGED tables, skipped \subseteq skipped'
  PROVE  ViewIsFoldAtCheckpoint'
<1> SUFFICES ASSUME NEW s \in SoloStreams, ProjectorOf(s) \notin skipped
             PROVE  views'[s] = ViewOf(s, Fold(s, events')[checkpoint'[ProjectorOf(s)]])
  BY DEF ViewIsFoldAtCheckpoint
<1>1. PICK n : n = checkpoint[ProjectorOf(s)] /\ n = checkpoint'[ProjectorOf(s)]
  BY DEF tables
<1>2. n \in 0 .. Len(events)
  <2>1. ProjectorOf(s) \in Projectors
    BY DEF ProjectorOf, Projectors
  <2>2. /\ checkpoint[ProjectorOf(s)] \in Nat
        /\ checkpoint[ProjectorOf(s)] <= Len(events)
    BY <2>1 DEF TxInv, TablesInv
  <2> QED
    BY <1>1, <2>2 DEF Grows
<1>3. Fold(s, events')[n] = Fold(s, events)[n]
  BY <1>2, FoldPrefix DEF Grows
<1> QED
  BY <1>1, <1>3 DEF ViewIsFoldAtCheckpoint, tables

\* The next event of the log is folded into its view when it becomes the checkpoint.
LEMMA ApplyNextKeepsFold ==
  ASSUME TxInv, ViewIsFoldAtCheckpoint, UNCHANGED <<events, skipped>>,
         NEW p \in Projectors, NEW e \in LoggedEvent, InLog(e), Decodable(e), e.seq = checkpoint[p] + 1,
         \A q \in Projectors : checkpoint'[q] = IF q = p THEN e.seq ELSE checkpoint[q],
         \A s \in Streams :
            views'[s] = IF Relevant(p, e) /\ e.stream = s THEN ApplyView(p, views[s], e) ELSE views[s]
  PROVE  ViewIsFoldAtCheckpoint'
<1>0. /\ LogInv /\ Len(events) \in Nat /\ checkpoint[p] \in Nat
      /\ e.seq \in 1 .. Len(events) /\ e = events[e.seq]
  BY DEF TxInv, LogInv, TablesInv, InLog
<1> SUFFICES ASSUME NEW s \in SoloStreams, ProjectorOf(s) \notin skipped
             PROVE  views'[s] = ViewOf(s, Fold(s, events)[checkpoint'[ProjectorOf(s)]])
  BY DEF ViewIsFoldAtCheckpoint
<1>1. s \in Streams /\ ProjectorOf(s) \in Projectors
  BY SoloRows DEF ProjectorOf, Projectors
<1>2. views[s] = ViewOf(s, Fold(s, events)[checkpoint[ProjectorOf(s)]])
  BY DEF ViewIsFoldAtCheckpoint
<1>3. CASE ProjectorOf(s) # p
  <2>1. ~ (Relevant(p, e) /\ e.stream = s)
    BY <1>3 DEF Relevant
  <2> QED
    BY <1>1, <1>2, <1>3, <2>1
<1>4. CASE ProjectorOf(s) = p
  <2>1. PICK n \in 1 .. Len(events) : n = e.seq /\ events[n] = e /\ n - 1 = checkpoint[p]
    BY <1>0
  <2>2. PICK st : st = Fold(s, events)[n-1]
    OBVIOUS
  <2>3. n - 1 \in 0 .. Len(events)
    BY <1>0
  <2>4. st \in StateType(s)
    BY <1>0, <2>2, <2>3, FoldType DEF LogInv
  <2>5. Fold(s, events)[n] = IF e.stream = s THEN Apply(s, st, e) ELSE st
    BY <1>0, <2>1, <2>2, FoldStep
  <2>6. views[s] = ViewOf(s, st) /\ checkpoint'[ProjectorOf(s)] = n
    BY <1>1, <1>2, <1>4, <2>1, <2>2
  <2>7. CASE e.stream = s
    <3>1. Relevant(p, e)
      BY <1>4, <2>7 DEF Relevant
    <3>2. views'[s] = ApplyView(p, ViewOf(s, st), e)
      BY <1>1, <2>6, <2>7, <3>1
    <3>3. ApplyView(p, ViewOf(s, st), e) = ViewOf(s, Apply(s, st, e))
      BY <1>4, <2>4, <2>7, ApplyViewIsApply
    <3> QED
      BY <2>5, <2>6, <2>7, <3>2, <3>3
  <2>8. CASE e.stream # s
    BY <1>1, <2>5, <2>6, <2>8
  <2> QED
    BY <2>7, <2>8
<1> QED
  BY <1>3, <1>4

\* One worker moves and changes no rows but its own projector's.
LEMMA NextMoves ==
  ASSUME TxInv, FoldInv, NEW w \in Workers, NEW r, job' = [job EXCEPT ![w] = r],
         ViewIsFoldAtCheckpoint', skipped \subseteq skipped',
         Serves[w] \in Solo \ skipped' => NextJob(Serves[w], r)',
         \A p \in Projectors : p # Serves[w] => RowsKept(p)
  PROVE  FoldInv'
<1>1. job \in [Workers -> Job] /\ job'[w] = r /\ \A o \in Workers \ {w} : job'[o] = job[o]
  BY DEF TxInv
<1>2. ASSUME NEW o \in Workers, Serves[o] \in Solo \ skipped' PROVE NextJob(Serves[o], job[o])'
  <2>1. CASE o = w
    BY <1>1, <1>2, <2>1
  <2>2. CASE o # w
    <3>1. checkpoint'[Serves[o]] = checkpoint[Serves[o]]
      BY <1>2, <2>2, SoleWorker, WorkerOf DEF RowsKept
    <3>2. PICK j : j = job[o] /\ j = job'[o] /\ NextJob(Serves[o], j)
      BY <1>1, <1>2, <2>2 DEF FoldInv
    <3> QED
      BY <3>1, <3>2 DEF NextJob
  <2> QED
    BY <2>1, <2>2
<1> QED
  BY <1>2 DEF FoldInv

LEMMA QuietNext ==
  ASSUME TxInv, FoldInv, NEW w \in Workers, NEW r, job' = [job EXCEPT ![w] = r],
         UNCHANGED logVars, UNCHANGED tables, skipped \subseteq skipped',
         Serves[w] \in Solo \ skipped' => NextJob(Serves[w], r)
  PROVE  FoldInv'
<1>1. Grows
  BY SameLog DEF TxInv, logVars
<1>2. ViewIsFoldAtCheckpoint'
  BY <1>1, FoldStays DEF FoldInv
<1>3. checkpoint' = checkpoint
  BY DEF tables
<1>4. Serves[w] \in Solo \ skipped' => NextJob(Serves[w], r)'
  BY <1>3 DEF NextJob
<1> QED
  BY <1>2, <1>4, NextMoves, QuietRows

\* A worker with nothing to do.
LEMMA NoNext ==
  ASSUME NEW p, NEW r, r.pc = "idle", r.todo = <<>>
  PROVE  NextJob(p, r)
  BY DEF NextJob

LEMMA PageNext ==
  ASSUME TxInv, FoldInv, NEW w \in Workers, CatchUp(w) \/ LoadPage(w) \/ Fails(w)
  PROVE  FoldInv'
<1>1. CASE CatchUp(w)
  <2>1. PICK r : r = [Idle(w) EXCEPT !.pc = "load", !.since = checkpoint[Serves[w]]] /\ job' = [job EXCEPT ![w] = r]
    BY <1>1, Zenon DEF CatchUp, Becomes
  <2>2. r.pc = "load" /\ r.since = checkpoint[Serves[w]] /\ r.todo = <<>>
    BY <2>1, FreshJobs
  <2>3. NextJob(Serves[w], r)
    BY <2>2 DEF NextJob
  <2> QED
    BY <1>1, <2>1, <2>3, QuietNext DEF CatchUp, counters
<1>2. CASE LoadPage(w)
  <2>1. LogInv /\ job[w].since \in Nat /\ job[w].pc = "load"
    BY <1>2 DEF TxInv, Job, LoadPage
  <2>2. PICK page \in Seq(LoggedEvent) :
           /\ page = LoadSince(Visible, job[w].since, BatchSize)
           /\ ~ GoesPast(job[w].since, page) => \A i \in 1 .. Len(page) : page[i].seq = job[w].since + i
    BY <2>1, PageOfLog
  <2>3. PICK r : r = Begin(w, page) /\ job' = [job EXCEPT ![w] = r]
    BY <1>2, <2>2 DEF LoadPage, Becomes
  <2>4. r.pc \in {"idle", "getCheckpoint"} /\ r.todo = page
    BY <2>3, FreshJobs
  <2>5. skipped' = IF GoesPast(job[w].since, page) THEN skipped \cup {Serves[w]} ELSE skipped
    BY <1>2, <2>2 DEF LoadPage
  <2>6. ASSUME Serves[w] \in Solo \ skipped' PROVE NextJob(Serves[w], r)
    <3>1. ~ GoesPast(job[w].since, page) /\ Serves[w] \in Solo \ skipped
      BY <2>5, <2>6
    <3>2. job[w].since = checkpoint[Serves[w]]
      BY <2>1, <3>1 DEF FoldInv, NextJob
    <3> QED
      BY <2>2, <2>4, <3>1, <3>2 DEF NextJob
  <2>7. skipped \subseteq skipped'
    BY <2>5
  <2> QED
    BY <1>2, <2>3, <2>6, <2>7, QuietNext DEF LoadPage
<1>3. CASE Fails(w)
  <2>1. PICK r : r = Idle(w) /\ job' = [job EXCEPT ![w] = r]
    BY <1>3, Zenon DEF Fails, Becomes
  <2>2. r.pc = "idle" /\ r.todo = <<>>
    BY <2>1, FreshJobs
  <2>3. NextJob(Serves[w], r)
    BY <2>2, NoNext
  <2> QED
    BY <1>3, <2>1, <2>3, QuietNext DEF Fails
<1> QED
  BY <1>1, <1>2, <1>3

LEMMA ReceiveNext ==
  ASSUME TxInv, FoldInv, Polled, NEW w \in Subscribers, NEW e, Receive(w, e)
  PROVE  FoldInv'
<1>1. w \in Workers /\ Serves[w] \notin Solo
  BY DEF Workers, Polled
<1>2. PICK r : r = Begin(w, <<e>>) /\ job' = [job EXCEPT ![w] = r]
  BY Zenon DEF Receive, Becomes
<1> QED
  BY <1>1, <1>2, QuietNext DEF Receive

\* The statements keep the page; a poller's event is never an old one.
LEMMA StatementNext ==
  ASSUME TxInv, FoldInv, NEW w \in Workers,
         GetCheckpoint(w) \/ GetView(w) \/ UpsertView(w) \/ SetCheckpoint(w)
  PROVE  FoldInv'
<1>0. job[w].pc \in {"getCheckpoint", "getView", "upsertView", "setCheckpoint"}
  BY DEF GetCheckpoint, GetView, UpsertView, SetCheckpoint
<1>1. PICK j \in Job, e \in LoggedEvent :
         /\ j = job[w] /\ e = Event(w) /\ e = j.todo[1] /\ e.seq \in Nat /\ Len(j.todo) \in Nat /\ Len(j.todo) > 0
  BY <1>0, FirstEvent
<1>2. checkpoint[Serves[w]] \in Nat
  BY WorkerOf DEF TxInv, TablesInv
<1>3. Serves[w] \in Solo \ skipped => /\ ~ (e.seq <= checkpoint[Serves[w]])
                            /\ \A i \in 1 .. Len(j.todo) : j.todo[i].seq = checkpoint[Serves[w]] + i
  BY <1>1, <1>2 DEF FoldInv, NextJob
<1>4. UNCHANGED logVars /\ UNCHANGED tables /\ UNCHANGED skipped
  BY DEF GetCheckpoint, GetView, UpsertView, SetCheckpoint, counters
<1>5. \E r : /\ job' = [job EXCEPT ![w] = r] /\ r.todo = j.todo /\ r.pc # "load"
             /\ Serves[w] \in Solo \ skipped /\ r.pc = "commit" => Serves[w] \in r.locks
  <2>1. CASE GetCheckpoint(w)
    <3>1. PICK next : next = IF e.seq <= checkpoint[Serves[w]] THEN "commit"
                             ELSE IF Relevant(Serves[w], e) THEN "getView" ELSE "setCheckpoint"
      OBVIOUS
    <3>2. PICK r : r = [j EXCEPT !.pc = next] /\ job' = [job EXCEPT ![w] = r]
      BY <1>1, <2>1, <3>1 DEF GetCheckpoint, Becomes
    <3>3. r.todo = j.todo /\ r.pc = next
      BY <3>2 DEF Job
    <3>4. next # "load" /\ (Serves[w] \in Solo \ skipped => next # "commit")
      BY <1>3, <3>1
    <3> QED
      BY <3>2, <3>3, <3>4
  <2>2. CASE GetView(w)
    <3>1. PICK r : /\ r = [j EXCEPT !.pc = "upsertView", !.row = ApplyView(Serves[w], views[e.stream], e)]
                   /\ job' = [job EXCEPT ![w] = r]
      BY <1>1, <2>2 DEF GetView, Becomes
    <3>2. r.todo = j.todo /\ r.pc = "upsertView"
      BY <3>1 DEF Job
    <3> QED
      BY <3>1, <3>2
  <2>3. CASE UpsertView(w)
    <3>1. PICK r : r = [j EXCEPT !.pc = "setCheckpoint", !.locks = j.locks \cup {e.stream}] /\ job' = [job EXCEPT ![w] = r]
      BY <1>1, <2>3 DEF UpsertView, Becomes
    <3>2. r.todo = j.todo /\ r.pc = "setCheckpoint"
      BY <3>1 DEF Job
    <3> QED
      BY <3>1, <3>2
  <2>4. CASE SetCheckpoint(w)
    <3>1. PICK seq : seq = IF e.seq > checkpoint[Serves[w]] THEN e.seq ELSE checkpoint[Serves[w]]
      OBVIOUS
    <3>2. PICK r : /\ r = [j EXCEPT !.pc = "commit", !.locks = j.locks \cup {Serves[w]}, !.seq = seq]
                   /\ job' = [job EXCEPT ![w] = r]
      BY <1>1, <2>4, <3>1 DEF SetCheckpoint, Becomes
    <3>3. r.todo = j.todo /\ r.pc = "commit" /\ Serves[w] \in r.locks
      BY <3>2 DEF Job
    <3> QED
      BY <3>2, <3>3
  <2> QED
    BY <2>1, <2>2, <2>3, <2>4
<1>6. PICK r : /\ job' = [job EXCEPT ![w] = r] /\ r.todo = j.todo /\ r.pc # "load"
               /\ Serves[w] \in Solo \ skipped /\ r.pc = "commit" => Serves[w] \in r.locks
  BY <1>5
<1>7. Serves[w] \in Solo \ skipped => NextJob(Serves[w], r)
  BY <1>3, <1>6 DEF NextJob
<1> QED
  BY <1>4, <1>6, <1>7, QuietNext

\* After a commit the rest of the page follows the new checkpoint.
LEMMA CommitNext ==
  ASSUME TxInv, SoloInv, FoldInv, NEW w \in Workers, job[w].pc = "commit", Writes(w),
         UNCHANGED <<events, skipped>>,
         NEW r, job' = [job EXCEPT ![w] = r], r.pc \in {"idle", "getCheckpoint"},
         r.todo = Tail(job[w].todo) \/ r.todo = <<>>
  PROVE  FoldInv'
<1>1. \A p \in Projectors : p # Serves[w] => RowsKept(p)
  BY CommitRows
<1>2. CASE Serves[w] \notin Solo \ skipped
  <2>1. ViewIsFoldAtCheckpoint'
    <3> SUFFICES ASSUME NEW s \in SoloStreams, ProjectorOf(s) \notin skipped
                 PROVE  views'[s] = ViewOf(s, Fold(s, events)[checkpoint'[ProjectorOf(s)]])
      BY DEF ViewIsFoldAtCheckpoint
    <3>1. s \in Streams /\ ProjectorOf(s) \in Projectors /\ ProjectorOf(s) # Serves[w]
      BY <1>2, SoloRows DEF SoloStreams
    <3>2. views'[s] = views[s] /\ checkpoint'[ProjectorOf(s)] = checkpoint[ProjectorOf(s)]
      BY <1>1, <3>1 DEF RowsKept
    <3> QED
      BY <3>2 DEF FoldInv, ViewIsFoldAtCheckpoint
  <2> QED
    BY <1>1, <1>2, <2>1, NextMoves
<1>3. CASE Serves[w] \in Solo \ skipped
  <2>1. /\ Serves[w] \in job[w].locks
        /\ \A i \in 1 .. Len(job[w].todo) : job[w].todo[i].seq = checkpoint[Serves[w]] + i
    BY <1>3 DEF FoldInv, NextJob
  <2>2. PICK e \in LoggedEvent :
            /\ e = job[w].todo[1] /\ InLog(e) /\ Decodable(e)
            /\ \A p \in Projectors : checkpoint'[p] = IF p = Serves[w] THEN e.seq ELSE checkpoint[p]
            /\ \A s \in Streams :
                  views'[s] = IF Relevant(Serves[w], e) /\ e.stream = s THEN ApplyView(Serves[w], views[s], e) ELSE views[s]
    BY <1>3, <2>1, SoloCommit
  <2>3. Serves[w] \in Projectors /\ checkpoint[Serves[w]] \in Nat /\ 1 \in 1 .. Len(job[w].todo)
    BY WorkerOf, FirstEvent DEF TxInv, TablesInv
  <2>4. e.seq = checkpoint[Serves[w]] + 1 /\ checkpoint'[Serves[w]] = checkpoint[Serves[w]] + 1
    BY <2>1, <2>2, <2>3
  <2>5. ViewIsFoldAtCheckpoint'
    BY <2>2, <2>3, <2>4, ApplyNextKeepsFold DEF FoldInv
  <2>6. ASSUME r.todo = Tail(job[w].todo), NEW i \in 1 .. Len(r.todo)
        PROVE  r.todo[i].seq = checkpoint'[Serves[w]] + i
    <3>1. r.todo[i] = job[w].todo[i+1] /\ i + 1 \in 1 .. Len(job[w].todo)
      BY <2>6, RestOfPage
    <3>2. r.todo[i].seq = checkpoint[Serves[w]] + (i + 1)
      BY <2>1, <3>1
    <3>3. i \in Nat
      BY <2>6, RestOfPage
    <3> QED
      BY <2>3, <2>4, <3>2, <3>3
  <2>7. NextJob(Serves[w], r)'
    BY <2>6 DEF NextJob
  <2> QED
    BY <1>1, <2>5, <2>7, NextMoves
<1> QED
  BY <1>2, <1>3

LEMMA IdleNext ==
  ASSUME TxInv, FoldInv, Grows, UNCHANGED tables, UNCHANGED job, UNCHANGED skipped
  PROVE  FoldInv'
<1>1. ViewIsFoldAtCheckpoint'
  BY FoldStays DEF FoldInv
<1>2. checkpoint' = checkpoint
  BY DEF tables
<1> QED
  BY <1>1, <1>2 DEF FoldInv, NextJob

LEMMA FoldInvStep ==
  ASSUME Polled
  PROVE  TxInv /\ SoloInv /\ FoldInv /\ [Next]_vars => FoldInv'
<1> SUFFICES ASSUME TxInv, SoloInv, FoldInv, [Next]_vars PROVE FoldInv'
  OBVIOUS
<1>0. Grows
  BY TxInvStep
<1>1. CASE (\E c \in Commands : Command(c)) \/ (\E b \in open : CommitAppend(b))
  BY <1>0, <1>1, IdleNext DEF Command, CommitAppend, counters
<1>2. CASE \E w \in Subscribers : \E n \in 1 .. Len(events) \ InFlight : Receive(w, events[n])
  BY <1>2, ReceiveNext
<1>3. CASE \E w \in Workers : Commit(w)
  <2>1. PICK w \in Workers : Commit(w)
    BY <1>3
  <2>2. PICK r : r = Begin(w, Tail(job[w].todo)) /\ job' = [job EXCEPT ![w] = r]
    BY <2>1, Zenon DEF Commit, Becomes
  <2>3. r.pc \in {"idle", "getCheckpoint"} /\ r.todo = Tail(job[w].todo)
    BY <2>2, FreshJobs
  <2> QED
    BY <2>1, <2>2, <2>3, CommitNext DEF Commit, logVars, counters
<1>4. CASE \E w \in Workers : CommitAnswerLost(w)
  <2>1. PICK w \in Workers : CommitAnswerLost(w)
    BY <1>4
  <2>2. PICK r : r = Idle(w) /\ job' = [job EXCEPT ![w] = r]
    BY <2>1, Zenon DEF CommitAnswerLost, Becomes
  <2>3. r.pc = "idle" /\ r.todo = <<>>
    BY <2>2, FreshJobs
  <2> QED
    BY <2>1, <2>2, <2>3, CommitNext DEF CommitAnswerLost, logVars
<1>5. CASE \E w \in Workers : CatchUp(w) \/ LoadPage(w) \/ Fails(w)
  BY <1>5, PageNext
<1>6. CASE \E w \in Workers : GetCheckpoint(w) \/ GetView(w) \/ UpsertView(w) \/ SetCheckpoint(w)
  BY <1>6, StatementNext
<1>7. CASE UNCHANGED vars
  BY <1>0, <1>7, IdleNext DEF vars, tables
<1> QED
  BY <1>1, <1>2, <1>3, <1>4, <1>5, <1>6, <1>7 DEF Next, WorkerStep, TxStep

LEMMA FoldInvInit == Init => FoldInv
<1> SUFFICES ASSUME Init PROVE FoldInv
  OBVIOUS
<1>0. events = <<>> /\ Len(events) = 0
  BY DEF Init, Log!Init
<1>1. ViewIsFoldAtCheckpoint
  <2> SUFFICES ASSUME NEW s \in SoloStreams
               PROVE  views[s] = ViewOf(s, Fold(s, events)[checkpoint[ProjectorOf(s)]])
    BY DEF ViewIsFoldAtCheckpoint
  <2>1. checkpoint[ProjectorOf(s)] = 0 /\ views[s] = ZeroView(s)
    BY SoloRows DEF Init, ProjectorOf, Projectors
  <2>2. Fold(s, events)[0] = EmptyState(s)
    BY <1>0, FoldStep
  <2> QED
    BY <2>1, <2>2, ZeroViewType
<1>2. \A w \in Workers : job[w].pc = "idle" /\ job[w].todo = <<>>
  BY DEF Init, Idle
<1> QED
  BY <1>1, <1>2, NoNext DEF FoldInv

\* A late commit is the only way polling can go wrong: a projector with one CatchUp
\* goroutine and no subscription, none of whose pages went past a number that an open
\* Append had drawn, serves the command side's own fold of the log up to its checkpoint,
\* wherever its transactions fail and whatever became of the answers to their COMMITs
\* (projector.go, CatchUp, over postgres/store.go of the read model and of the event store).
THEOREM PolledViewsFollowTheLog ==
  ASSUME Polled
  PROVE  Spec => []ViewIsFoldAtCheckpoint
<1>1. TxInv /\ SoloInv /\ FoldInv /\ [Next]_vars => FoldInv'
  BY FoldInvStep
<1>2. FoldInv => ViewIsFoldAtCheckpoint
  BY DEF FoldInv
<1> QED
  BY <1>1, <1>2, FoldInvInit, SoloInvariant, PTL DEF Spec
=============================================================================
