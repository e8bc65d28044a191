--------------------------- MODULE QueriesProofs ---------------------------
(***************************************************************************)
(* A reported lag bounds the staleness of the view read after it, while    *)
(* commands, deliveries and polls go on between the reads.                 *)
(***************************************************************************)
EXTENDS Queries, ProjectionsProofs

-----------------------------------------------------------------------------
(* Queries only read: under them the read side behaves as by itself.       *)

LEMMA QueryStepIsQuiet ==
  ASSUME [QueryNext]_queryVars
  PROVE  [Next]_vars
<1>1. ASSUME NEW c \in Clients, QueryStep(c) PROVE UNCHANGED vars
  BY <1>1 DEF QueryStep, GetProjectionLag, ReadCheckpoint, ReadView, Answered
<1> QED
  BY <1>1 DEF QueryNext, queryVars

LEMMA QueriesOnlyRead == QuerySpec => Spec
<1>1. [QueryNext]_queryVars => [Next]_vars
  BY QueryStepIsQuiet
<1>2. QueryInit => Init
  BY DEF QueryInit
<1> QED
  BY <1>1, <1>2, PTL DEF QuerySpec, Spec

-----------------------------------------------------------------------------
(* What a query knows stays true.                                          *)

LEMMA KnownProjectors == \A pc : Known(pc) \subseteq Projectors
  BY DEF Known, Projectors

LEMMA AskingStays ==
  ASSUME NEW q \in Asking, AskingInv(q), Grows, Rises
  PROVE  AskingInv(q)'
<1>1. q.since \in Nat /\ q.lags \in [Projectors -> Nat]
  BY DEF Asking
<1>2. Len(events) \in Nat /\ Len(events') \in Nat /\ Len(events) <= Len(events')
  BY DEF Grows
<1>3. q.since <= Len(events')
  BY <1>1, <1>2 DEF AskingInv
<1>4. ASSUME NEW p \in Known(q.pc) PROVE q.since - q.lags[p] <= checkpoint'[p]
  <2>1. p \in Projectors
    BY KnownProjectors
  <2>2. q.lags[p] \in Nat /\ checkpoint[p] \in Nat /\ checkpoint'[p] \in Nat /\ checkpoint'[p] >= checkpoint[p]
    BY <1>1, <2>1 DEF Rises
  <2>3. q.since - q.lags[p] <= checkpoint[p]
    BY DEF AskingInv
  <2> QED
    BY <1>1, <2>2, <2>3
<1> QED
  BY <1>3, <1>4 DEF AskingInv

LEMMA AnswerStays ==
  ASSUME NEW q, AnswerInv(q), Grows
  PROVE  AnswerInv(q)'
<1>1. PICK n \in 0 .. Len(events) : q.since - q.lag <= n /\ q.view = ViewOf(q.of, Fold(q.of, events)[n])
  BY DEF AnswerInv
<1>2. n \in 0 .. Len(events')
  BY DEF Grows
<1>3. Fold(q.of, events')[n] = Fold(q.of, events)[n]
  BY FoldPrefix DEF Grows
<1> QED
  BY <1>1, <1>2, <1>3 DEF AnswerInv

LEMMA QueryStays ==
  ASSUME NEW q, QueryInv(q), Grows, Rises
  PROVE  QueryInv(q)'
<1>1. CASE q = NoQuery
  BY <1>1 DEF QueryInv
<1>2. CASE q \in Asking /\ AskingInv(q)
  <2>1. AskingInv(q)'
    BY <1>2, AskingStays
  <2> QED
    BY <1>2, <2>1 DEF QueryInv
<1>3. CASE q \in Answer /\ AnswerInv(q)
  <2>1. AnswerInv(q)'
    BY <1>3, AnswerStays
  <2> QED
    BY <1>3, <2>1 DEF QueryInv
<1> QED
  BY <1>1, <1>2, <1>3 DEF QueryInv

\* A client's step changes its own query only.
LEMMA QueryChanges ==
  ASSUME QueriesInv, Grows, Rises, NEW c \in Clients, NEW q, QueryInv(q)', Asks(c, q)
  PROVE  QueriesInv'
<1>1. query' = [d \in Clients |-> IF d = c THEN q ELSE query[d]]
  BY DEF QueriesInv, Asks
<1>2. ASSUME NEW d \in Clients PROVE QueryInv(query[d])'
  <2>1. PICK r : r = query[d] /\ QueryInv(r)
    BY DEF QueriesInv
  <2>2. QueryInv(r)'
    BY <2>1, QueryStays
  <2>3. query'[d] = IF d = c THEN q ELSE r
    BY <1>1, <2>1
  <2> QED
    BY <2>2, <2>3
<1>3. query' = [d \in Clients |-> query'[d]]
  BY <1>1
<1> QED
  BY <1>2, <1>3 DEF QueriesInv

LEMMA QueriesKept ==
  ASSUME QueriesInv, Grows, Rises, UNCHANGED query
  PROVE  QueriesInv'
<1>1. ASSUME NEW d \in Clients PROVE QueryInv(query[d])'
  <2>1. PICK r : r = query[d] /\ QueryInv(r)
    BY DEF QueriesInv
  <2>2. QueryInv(r)'
    BY <2>1, QueryStays
  <2> QED
    BY <2>1, <2>2
<1> QED
  BY <1>1 DEF QueriesInv

\* What the program counter says about a query.
LEMMA QueryByPc ==
  ASSUME NEW q, QueryInv(q)
  PROVE  /\ q.pc \in {"balances", "inventory", "read"} => q \in Asking /\ AskingInv(q)
         /\ q.pc = "answered" => q \in Answer /\ AnswerInv(q)
<1>1. NoQuery.pc = "idle"
  BY DEF NoQuery
<1>2. ASSUME q \in Asking PROVE q.pc \in {"balances", "inventory", "read"}
  BY <1>2 DEF Asking
<1>3. ASSUME q \in Answer PROVE q.pc = "answered"
  BY <1>3 DEF Answer
<1> QED
  BY <1>1, <1>2, <1>3 DEF QueryInv

-----------------------------------------------------------------------------
(* The steps of a query.                                                   *)

LEMMA GetProjectionLagStep ==
  ASSUME ReadInv, QueriesInv, NEW c \in Clients, GetProjectionLag(c), Grows, Rises
  PROVE  QueriesInv'
<1>1. PICK q : /\ q = [pc |-> "balances", since |-> Len(events), latest |-> LatestGlobalSeq,
                       lags |-> [p \in Projectors |-> 0]]
               /\ Asks(c, q) /\ events' = events
  BY DEF GetProjectionLag, vars
<1>2. Len(events) \in Nat
  BY DEF ReadInv, LogInv
<1>3. q \in Asking
  BY <1>1, <1>2 DEF Asking, LatestGlobalSeq
<1>4. q.latest = Len(events) /\ q.since = Len(events) /\ q.pc = "balances"
  BY <1>1 DEF LatestGlobalSeq
<1>5. AskingInv(q)'
  BY <1>1, <1>2, <1>4 DEF AskingInv, Known
<1>6. QueryInv(q)'
  BY <1>3, <1>5 DEF QueryInv
<1> QED
  BY <1>1, <1>6, QueryChanges

LEMMA ReadCheckpointStep ==
  ASSUME ReadInv, QueriesInv, NEW c \in Clients, NEW p \in Projectors, ReadCheckpoint(c, p), Grows, Rises
  PROVE  QueriesInv'
<1>1. PICK q : q = query[c] /\ q.pc = p /\ QueryInv(q)
  BY DEF ReadCheckpoint, QueriesInv
<1>2. q \in Asking /\ AskingInv(q)
  BY <1>1, QueryByPc DEF Projectors
<1>3. q.since \in Nat /\ q.latest \in Nat /\ q.lags \in [Projectors -> Nat]
  BY <1>2 DEF Asking
<1>4. PICK l : l = Lag(q.latest, checkpoint[p])
  OBVIOUS
<1>5. checkpoint[p] \in Nat /\ events' = events /\ checkpoint' = checkpoint
  BY DEF ReadInv, ViewsInv, ReadCheckpoint, vars
<1>6. l \in Nat /\ q.latest - l <= checkpoint[p]
  BY <1>3, <1>4, <1>5 DEF Lag
<1>7. PICK r : r = [q EXCEPT !.pc = After(p), !.lags[p] = l] /\ Asks(c, r)
  BY <1>1, <1>4 DEF ReadCheckpoint
<1>8. After(p) \in {"inventory", "read"}
  BY DEF After
<1>9. PICK lags \in [Projectors -> Nat] : lags = [q.lags EXCEPT ![p] = l]
  BY <1>3, <1>6
<1>10. /\ r \in Asking
       /\ r.since = q.since /\ r.latest = q.latest /\ r.pc = After(p) /\ r.lags = lags
  <2>1. r = [q EXCEPT !.pc = After(p), !.lags = lags]
    BY <1>2, <1>7, <1>9 DEF Asking
  <2> QED
    BY <1>2, <1>8, <1>9, <2>1 DEF Asking
<1>11. ASSUME NEW u \in Known(After(p)) PROVE r.since - lags[u] <= checkpoint[u]
  <2>0. u \in Projectors
    BY KnownProjectors
  <2>1. CASE u = p
    BY <1>2, <1>3, <1>6, <1>9, <1>10, <2>1 DEF AskingInv
  <2>2. CASE u # p
    <3>1. u \in Known(p)
      BY <2>0, <2>2 DEF Known, After, Projectors
    <3>2. lags[u] = q.lags[u]
      BY <1>3, <1>9, <2>0, <2>2
    <3> QED
      BY <1>1, <1>2, <1>10, <3>1, <3>2 DEF AskingInv
  <2> QED
    BY <2>1, <2>2
<1>12. AskingInv(r)'
  BY <1>2, <1>5, <1>10, <1>11 DEF AskingInv
<1>13. QueryInv(r)'
  BY <1>10, <1>12 DEF QueryInv
<1> QED
  BY <1>7, <1>13, QueryChanges

LEMMA ReadViewStep ==
  ASSUME ReadInv, ViewIsFoldAtCheckpoint, QueriesInv,
         NEW c \in Clients, NEW s \in Streams, ReadView(c, s), Grows, Rises
  PROVE  QueriesInv'
<1>1. PICK q : q = query[c] /\ q.pc = "read" /\ QueryInv(q)
  BY DEF ReadView, QueriesInv
<1>2. q \in Asking /\ AskingInv(q)
  BY <1>1, QueryByPc
<1>3. PICK p \in Projectors : p = ProjectorOf(s)
  BY DEF ProjectorOf, Projectors
<1>4. q.since \in Nat /\ q.lags \in [Projectors -> Nat]
  BY <1>2 DEF Asking
<1>5. q.lags[p] \in Nat
  BY <1>4
<1>6. PICK v : v = views[s]
  OBVIOUS
<1>7. v \in AccountView \cup InventoryView
  BY <1>6 DEF ReadInv, ViewsInv
<1>8. PICK r : r = [pc |-> "answered", since |-> q.since, lag |-> q.lags[p], of |-> s, view |-> v] /\ Asks(c, r)
  BY <1>1, <1>3, <1>6 DEF ReadView
<1>9. r \in Answer /\ r.since = q.since /\ r.lag = q.lags[p] /\ r.of = s /\ r.view = v
  BY <1>4, <1>5, <1>7, <1>8 DEF Answer
<1>10. PICK n \in 0 .. Len(events) : n = checkpoint[p]
  BY DEF ReadInv, ViewsInv, LogInv
<1>11. q.since - q.lags[p] <= n
  BY <1>1, <1>2, <1>10 DEF AskingInv, Known
<1>12. v = ViewOf(s, Fold(s, events)[n])
  BY <1>3, <1>6, <1>10 DEF ViewIsFoldAtCheckpoint
<1>13. AnswerInv(r)
  BY <1>9, <1>11, <1>12 DEF AnswerInv
<1>14. AnswerInv(r)'
  BY <1>13, AnswerStays
<1>15. QueryInv(r)'
  BY <1>9, <1>14 DEF QueryInv
<1> QED
  BY <1>8, <1>15, QueryChanges

LEMMA AnsweredStep ==
  ASSUME QueriesInv, NEW c \in Clients, Answered(c), Grows, Rises
  PROVE  QueriesInv'
<1>1. PICK q : q = NoQuery /\ Asks(c, q)
  BY DEF Answered
<1>2. QueryInv(q)'
  BY <1>1 DEF QueryInv
<1> QED
  BY <1>1, <1>2, QueryChanges

LEMMA QueriesStep ==
  ReadInv /\ ViewInv /\ QueriesInv /\ [QueryNext]_queryVars => QueriesInv'
<1> SUFFICES ASSUME ReadInv, ViewInv, QueriesInv, [QueryNext]_queryVars PROVE QueriesInv'
  OBVIOUS
<1>0. Grows /\ Rises /\ ViewIsFoldAtCheckpoint
  BY QueryStepIsQuiet, NextGrows DEF ViewInv
<1>1. CASE Next /\ UNCHANGED query
  BY <1>0, <1>1, QueriesKept
<1>2. CASE \E c \in Clients : QueryStep(c)
  BY <1>0, <1>2, GetProjectionLagStep, ReadCheckpointStep, ReadViewStep, AnsweredStep DEF QueryStep
<1>3. CASE UNCHANGED queryVars
  BY <1>0, <1>3, QueriesKept DEF queryVars
<1> QED
  BY <1>1, <1>2, <1>3 DEF QueryNext

LEMMA QueriesInit == QueryInit => QueriesInv
  BY DEF QueryInit, QueriesInv, QueryInv

LEMMA QueriesBounds == ReadInv /\ QueriesInv => LagBoundsStaleness
<1> SUFFICES ASSUME ReadInv, QueriesInv, NEW c \in Clients, query[c].pc = "answered"
             PROVE  LET s == query[c].of
                    IN  \E n \in (query[c].since - query[c].lag) .. Len(events) :
                            query[c].view = ViewOf(s, Fold(s, events)[n])
  BY DEF LagBoundsStaleness
<1>1. PICK q : q = query[c] /\ q \in Answer /\ AnswerInv(q)
  BY QueryByPc DEF QueriesInv
<1>2. PICK n \in 0 .. Len(events) : q.since - q.lag <= n /\ q.view = ViewOf(q.of, Fold(q.of, events)[n])
  BY <1>1 DEF AnswerInv
<1>3. q.since \in Nat /\ q.lag \in Nat /\ Len(events) \in Nat
  BY <1>1 DEF Answer, ReadInv, LogInv
<1>4. n \in (q.since - q.lag) .. Len(events)
  BY <1>2, <1>3
<1> QED
  BY <1>1, <1>2, <1>4

\* A lag reported by GetProjectionLag bounds how stale the next GetBalance or
\* GetInventory is, although the handler reads the log and the checkpoints one by one
\* while writers and pollers go on (server.go, GetProjectionLag).
THEOREM LagIsABound ==
  ASSUME InOrder
  PROVE  QuerySpec => []LagBoundsStaleness
<1>1. QuerySpec => []ReadInv
  BY QueriesOnlyRead, ReadInvariant, PTL
<1>2. QuerySpec => []ViewInv
  BY QueriesOnlyRead, ViewInvariant, PTL
<1>3. QuerySpec => []QueriesInv
  BY <1>1, <1>2, QueriesInit, QueriesStep, PTL DEF QuerySpec
<1> QED
  BY <1>1, <1>3, QueriesBounds, PTL

\* The views clients read are the command side's own fold, queries or not.
THEOREM QueriedViewsFollowTheLog ==
  ASSUME InOrder
  PROVE  QuerySpec => []ViewIsFoldAtCheckpoint
  BY QueriesOnlyRead, ViewsFollowTheLog, PTL
=============================================================================
