------------------------ MODULE PostgresStoreProofs ------------------------
(***************************************************************************)
(* PostgresStore for every set of streams, keys, batches and concurrent    *)
(* transactions, and any number of appends, faults and deadlock victims.   *)
(***************************************************************************)
EXTENDS PostgresStore, TLAPS, FiniteSetTheorems, SequenceTheorems, WellFoundedInduction

-----------------------------------------------------------------------------
(* Counting the writes of a transaction.                                   *)

OnStream(w, s) == {i \in 1 .. Len(w) : w[i].stream = s}

LEMMA CountType ==
  ASSUME NEW w \in Seq(Event), NEW s
  PROVE  IsFiniteSet(OnStream(w, s)) /\ Cardinality(OnStream(w, s)) \in Nat
<1>1. IsFiniteSet(1 .. Len(w))
  BY FS_Interval
<1>2. OnStream(w, s) \subseteq 1 .. Len(w)
  BY DEF OnStream
<1>3. IsFiniteSet(OnStream(w, s))
  BY <1>1, <1>2, FS_Subset
<1> QED
  BY <1>3, FS_CardinalityType

\* No write on s, no count.
LEMMA CountNone ==
  ASSUME NEW w, NEW s, \A i \in 1 .. Len(w) : w[i].stream # s
  PROVE  Cardinality(OnStream(w, s)) = 0
<1>1. OnStream(w, s) = {}
  BY DEF OnStream
<1> QED
  BY <1>1, FS_EmptySet

\* One more write counts on its own stream only.
LEMMA CountAppend ==
  ASSUME NEW w \in Seq(Event), NEW e \in Event, NEW s
  PROVE  Cardinality(OnStream(Append(w, e), s)) =
            Cardinality(OnStream(w, s)) + (IF e.stream = s THEN 1 ELSE 0)
<1> DEFINE W == Append(w, e)
           n == Len(w) + 1
<1>1. /\ Len(W) = n /\ W[n] = e /\ Len(w) \in Nat
      /\ \A i \in 1 .. Len(w) : W[i] = w[i]
  BY AppendProperties
<1>2. 1 .. Len(W) = (1 .. Len(w)) \cup {n} /\ n \notin 1 .. Len(w)
  BY <1>1
<1>3. n \notin OnStream(w, s)
  BY <1>2 DEF OnStream
<1>4. CASE e.stream = s
  <2>1. OnStream(W, s) = OnStream(w, s) \cup {n}
    BY <1>1, <1>2, <1>4 DEF OnStream
  <2>2. IsFiniteSet(OnStream(w, s)) /\ Cardinality(OnStream(w, s)) \in Nat
    BY CountType
  <2>3. Cardinality(OnStream(w, s) \cup {n}) = Cardinality(OnStream(w, s)) + 1
    BY <1>3, <2>2, FS_AddElement
  <2> QED
    BY <1>4, <2>1, <2>3
<1>5. CASE e.stream # s
  <2>1. OnStream(W, s) = OnStream(w, s)
    BY <1>1, <1>2, <1>5 DEF OnStream
  <2>2. Cardinality(OnStream(w, s)) \in Nat
    BY CountType
  <2> QED
    BY <1>5, <2>1, <2>2
<1> QED
  BY <1>4, <1>5

\* What a transaction sees is the committed version plus its count.
LEMMA SeenIsCount ==
  ASSUME NEW t, NEW s
  PROVE  SeenVersion(t, s) = rows[s] + Cardinality(OnStream(tx[t].writes, s))
  BY DEF SeenVersion, OnStream

-----------------------------------------------------------------------------
(* Types.                                                                  *)

LEMMA TxParts ==
  ASSUME TypeOK, NEW t \in Txs
  PROVE  /\ tx[t] \in Transaction
         /\ tx[t].key \in Keys \cup {NoKey}
         /\ tx[t].batch \in Seq(Streams)
         /\ tx[t].expect \in Seq(Int)
         /\ tx[t].writes \in Seq(Event)
         /\ Len(tx[t].writes) \in Nat
         /\ Written(t) \subseteq Event
<1>1. tx[t] \in Transaction
  BY DEF TypeOK
<1>2. /\ tx[t].key \in Keys \cup {NoKey}
      /\ tx[t].batch \in Seq(Streams)
      /\ tx[t].expect \in Seq(Int)
      /\ tx[t].writes \in Seq(Event)
  BY <1>1 DEF Transaction
<1>3. \A i \in 1 .. Len(tx[t].writes) : tx[t].writes[i] \in Event
  BY <1>2
<1> QED
  BY <1>1, <1>2, <1>3 DEF Written

LEMMA EventParts ==
  ASSUME NEW e \in Event
  PROVE  /\ e.seq \in Nat /\ e.seq # 0
         /\ e.version \in Nat /\ e.version # 0
         /\ e.stream \in Streams
         /\ e.key \in Keys \cup {NoKey}
  BY DEF Event

LEMMA SeenType ==
  ASSUME TypeOK, NEW t \in Txs, NEW s \in Streams
  PROVE  SeenVersion(t, s) \in Nat /\ rows[s] \in Nat /\ rows[s] <= SeenVersion(t, s)
<1>1. rows[s] \in Nat
  BY DEF TypeOK
<1>2. Cardinality(OnStream(tx[t].writes, s)) \in Nat
  BY TxParts, CountType
<1> QED
  BY <1>1, <1>2, SeenIsCount

\* A transaction that does not hold the row of s sees the committed version.
LEMMA SeenUnlocked ==
  ASSUME TypeOK, NEW t \in Txs, NEW s \in Streams, \A e \in Written(t) : e.stream # s
  PROVE  SeenVersion(t, s) = rows[s]
<1>1. \A i \in 1 .. Len(tx[t].writes) : tx[t].writes[i].stream # s
  BY DEF Written
<1>2. Cardinality(OnStream(tx[t].writes, s)) = 0
  BY <1>1, CountNone
<1> QED
  BY <1>2, SeenIsCount, SeenType

\* The same in the next state.
LEMMA SeenUnlockedNext ==
  ASSUME TypeOK', NEW t \in Txs, NEW s \in Streams, \A e \in Written(t)' : e.stream # s
  PROVE  SeenVersion(t, s)' = rows'[s]
<1>1. \A i \in 1 .. Len(tx'[t].writes) : tx'[t].writes[i].stream # s
  BY DEF Written
<1>2. Cardinality(OnStream(tx'[t].writes, s)) = 0
  BY <1>1, CountNone
<1>3. SeenVersion(t, s)' = rows'[s] + Cardinality(OnStream(tx'[t].writes, s))
  BY DEF SeenVersion, OnStream
<1>4. rows'[s] \in Nat
  BY DEF TypeOK
<1> QED
  BY <1>2, <1>3, <1>4

-----------------------------------------------------------------------------
(* Steps of one transaction that leave it without writes: the beginning,   *)
(* the dedupe statements, every rollback and the return.                   *)

LEMMA BecomesParts ==
  ASSUME TypeOK, NEW t \in Txs, NEW r \in Transaction, Becomes(t, r)
  PROVE  /\ tx' \in [Txs -> Transaction]
         /\ tx'[t] = r
         /\ \A u \in Txs : u # t => tx'[u] = tx[u]
  BY DEF TypeOK, Becomes

\* The other transactions keep what they have written and see.
LEMMA OthersKeep ==
  ASSUME TypeOK, NEW t \in Txs, NEW r \in Transaction, Becomes(t, r), NEW u \in Txs, u # t
  PROVE  /\ Written(u)' = Written(u)
         /\ \A k : HoldsKey(u, k)' <=> HoldsKey(u, k)
         /\ rows' = rows => \A s : SeenVersion(u, s)' = SeenVersion(u, s)
         /\ rows' = rows => (TxConsistent(u)' <=> TxConsistent(u))
<1>1. tx'[u] = tx[u]
  BY BecomesParts
<1>2. Written(u)' = Written(u)
  BY <1>1 DEF Written
<1>3. \A k : HoldsKey(u, k)' <=> HoldsKey(u, k)
  BY <1>1 DEF HoldsKey
<1>4. ASSUME rows' = rows PROVE \A s : SeenVersion(u, s)' = SeenVersion(u, s)
  BY <1>1, <1>4 DEF SeenVersion
<1>5. ASSUME rows' = rows PROVE TxConsistent(u)' <=> TxConsistent(u)
  BY <1>1, <1>2, <1>4, <1>5 DEF TxConsistent
<1> QED
  BY <1>2, <1>3, <1>4, <1>5

LEMMA EmptyWrites ==
  ASSUME NEW t, tx[t].writes = <<>>
  PROVE  Written(t) = {}
  BY DEF Written

LEMMA ClearStep ==
  ASSUME StoreInv, NEW t \in Txs, NEW r \in Transaction, Becomes(t, r),
         r.writes = <<>>,
         r.pc # "commit",
         r.pc \notin {"idle", "done"} => r.batch \in Batches,
         r.pc = "write" /\ r.key # NoKey =>
            r.key \notin keys /\ \A u \in Txs : u # t => ~ HoldsKey(u, r.key),
         UNCHANGED <<tables, nextSeq, cursor, seen>>,
         begun' \in 0 .. MaxAppends
  PROVE  StoreInv'
<1>1. /\ TypeOK /\ rows' = rows /\ log' = log /\ keys' = keys /\ links' = links
      /\ nextSeq' = nextSeq /\ cursor' = cursor /\ seen' = seen
  BY DEF StoreInv, tables
<1>2. /\ tx' \in [Txs -> Transaction] /\ tx'[t] = r
      /\ \A u \in Txs : u # t => tx'[u] = tx[u]
  BY <1>1, BecomesParts
<1>3. Written(t)' = {}
  BY <1>2 DEF Written
<1>4. \A u \in Txs : Written(u)' \subseteq Written(u) /\ (u # t => Written(u)' = Written(u))
  BY <1>1, <1>3, OthersKeep
<1>5. Len(r.writes) = 0 /\ r.batch \in Seq(Streams) /\ Len(r.batch) \in Nat
  BY DEF Transaction
<1>6. TypeOK'
  <2>1. \A u \in Txs : Len(tx'[u].writes) <= Len(tx'[u].batch)
    BY <1>1, <1>2, <1>5 DEF TypeOK
  <2> QED
    BY <1>1, <1>2, <2>1 DEF TypeOK
<1>7. ASSUME NEW u \in Txs PROVE TxConsistent(u)'
  <2>1. CASE u # t
    BY <1>1, <2>1, OthersKeep DEF StoreInv
  <2>2. CASE u = t
    <3>1. \A s \in Streams : SeenVersion(t, s)' = rows[s] /\ rows[s] \in Nat
      <4>1. \A i \in 1 .. Len(r.writes) : FALSE
        BY <1>5
      <4>2. \A s \in Streams : Cardinality(OnStream(r.writes, s)) = 0
        BY <4>1, CountNone
      <4>3. \A s \in Streams : SeenVersion(t, s)' = rows[s] + 0
        BY <1>1, <1>2, <4>2 DEF SeenVersion, OnStream
      <4> QED
        BY <1>1, <4>3 DEF TypeOK
    <3>2. \A s \in Streams : (rows[s] + 1) .. SeenVersion(t, s)' = {}
      BY <3>1
    <3>3. r.pc = "write" => Len(r.writes) < Len(r.batch)
      BY <1>5, BatchesAssumption
    <3> QED
      BY <1>1, <1>2, <1>3, <1>5, <2>2, <3>2, <3>3 DEF TxConsistent
  <2> QED
    BY <2>1, <2>2
<1>8. LocksExclude'
  BY <1>4 DEF StoreInv, LocksExclude
<1>9. KeysExclude'
  <2>1. \A k : HoldsKey(t, k)' => k = r.key /\ r.pc = "write" /\ k # NoKey
    BY <1>2 DEF HoldsKey
  <2>2. \A u \in Txs : u # t => \A k : HoldsKey(u, k)' <=> HoldsKey(u, k)
    BY <1>1, OthersKeep
  <2>3. KeysExclude
    BY DEF StoreInv
  <2> QED
    BY <1>1, <2>1, <2>2, <2>3 DEF KeysExclude
<1>10. SeqsFollowVersions'
  <2>1. Existing' \subseteq Existing
    BY <1>1, <1>4 DEF Existing
  <2> QED
    BY <1>1, <2>1 DEF StoreInv, SeqsFollowVersions
<1>11. RowsMatchLog' /\ LinksMatchLog' /\ \A e \in seen' : e.seq <= cursor'
  BY <1>1 DEF StoreInv, RowsMatchLog, LinksMatchLog
<1> QED
  BY <1>6, <1>7, <1>8, <1>9, <1>10, <1>11 DEF StoreInv

-----------------------------------------------------------------------------
(* A write: the row lock makes the next version new to everybody.          *)

LEMMA WriteStep ==
  ASSUME StoreInv, NEW t \in Txs, tx[t].pc = "write", ~ Blocked(t),
         Becomes(t, WithEvent(t, NextStream(t))), nextSeq' = nextSeq + 1,
         UNCHANGED <<tables, begun, cursor, seen>>
  PROVE  StoreInv'
<1> DEFINE s == NextStream(t)
           w == tx[t].writes
           x == [seq |-> nextSeq + 1, stream |-> s, version |-> SeenVersion(t, s) + 1, key |-> tx[t].key]
           r == WithEvent(t, s)
<1>1. /\ TypeOK /\ rows' = rows /\ log' = log /\ keys' = keys /\ links' = links
      /\ cursor' = cursor /\ seen' = seen /\ begun' = begun /\ nextSeq \in Nat
      /\ cursor \in 0 .. nextSeq
  BY DEF StoreInv, TypeOK, tables
<1>2. /\ tx[t] \in Transaction /\ w \in Seq(Event) /\ Len(w) \in Nat
      /\ tx[t].batch \in Seq(Streams) /\ tx[t].key \in Keys \cup {NoKey}
      /\ Written(t) \subseteq Event
  BY <1>1, TxParts
<1>3. /\ TxConsistent(t)
      /\ Len(w) < Len(tx[t].batch) /\ tx[t].batch \in Batches
      /\ Len(tx[t].batch) \in Nat
  BY <1>2 DEF StoreInv, TxConsistent
<1>4. s \in Streams /\ s = tx[t].batch[Len(w) + 1]
  BY <1>2, <1>3 DEF NextStream
<1>5. x \in Event
  BY <1>1, <1>2, <1>4, SeenType DEF Event
<1>6. /\ r = [tx[t] EXCEPT !.writes = Append(w, x),
                           !.pc = IF Len(w) + 1 = Len(tx[t].batch) THEN "commit" ELSE "write"]
      /\ Append(w, x) \in Seq(Event)
      /\ Len(Append(w, x)) = Len(w) + 1
      /\ Append(w, x)[Len(w) + 1] = x
      /\ \A i \in 1 .. Len(w) : Append(w, x)[i] = w[i]
  BY <1>2, <1>5, AppendProperties DEF WithEvent
<1>7. /\ r \in Transaction
      /\ r.writes = Append(w, x) /\ r.batch = tx[t].batch /\ r.key = tx[t].key
      /\ r.pc = IF Len(w) + 1 = Len(tx[t].batch) THEN "commit" ELSE "write"
  BY <1>2, <1>6 DEF Transaction
<1> HIDE DEF s, x, r
<1>8. /\ tx' \in [Txs -> Transaction] /\ tx'[t] = r
      /\ \A u \in Txs : u # t => tx'[u] = tx[u]
  BY <1>1, <1>7, BecomesParts DEF r, s
<1>9. Written(t)' = Written(t) \cup {x}
  <2>1. Written(t)' = {Append(w, x)[i] : i \in 1 .. Len(w) + 1}
    BY <1>6, <1>7, <1>8 DEF Written
  <2>2. 1 .. Len(w) + 1 = (1 .. Len(w)) \cup {Len(w) + 1}
    BY <1>2
  <2>3. Written(t)' = {Append(w, x)[i] : i \in 1 .. Len(w)} \cup {x}
    BY <1>6, <2>1, <2>2, Zenon
  <2>4. {Append(w, x)[i] : i \in 1 .. Len(w)} = {w[i] : i \in 1 .. Len(w)}
    BY <1>6, Zenon
  <2> QED
    BY <2>3, <2>4, Zenon DEF Written
<1>10. \A u \in Txs : u # t => Written(u)' = Written(u)
  BY <1>1, <1>7, OthersKeep DEF r, s
<1>11. Existing' = Existing \cup {x}
  BY <1>1, <1>9, <1>10 DEF Existing
<1>12. /\ x.seq = nextSeq + 1 /\ x.stream = s /\ x.version = SeenVersion(t, s) + 1
       /\ x.key = tx[t].key
  BY DEF x
<1>13. SeenVersion(t, s) \in Nat /\ rows[s] \in Nat /\ rows[s] <= SeenVersion(t, s)
  BY <1>1, <1>4, SeenType
<1>14. \A u \in Txs : u # t => \A f \in Written(u) : f.stream # s
  <2> SUFFICES ASSUME NEW u \in Txs, u # t, NEW f \in Written(u), f.stream = s
               PROVE  FALSE
    OBVIOUS
  <2>1. Holds(u, s)
    BY DEF Holds, Written
  <2> QED
    BY <2>1 DEF Blocked, WaitsFor, s
\* The versions t sees after the write.
<1>15. \A q \in Streams :
          SeenVersion(t, q)' = SeenVersion(t, q) + (IF q = s THEN 1 ELSE 0)
  <2> SUFFICES ASSUME NEW q \in Streams
               PROVE  SeenVersion(t, q)' = SeenVersion(t, q) + (IF q = s THEN 1 ELSE 0)
    OBVIOUS
  <2>1. SeenVersion(t, q)' = rows[q] + Cardinality(OnStream(Append(w, x), q))
    BY <1>1, <1>7, <1>8 DEF SeenVersion, OnStream
  <2>2. Cardinality(OnStream(Append(w, x), q)) =
            Cardinality(OnStream(w, q)) + (IF x.stream = q THEN 1 ELSE 0)
    BY <1>2, <1>5, CountAppend
  <2>3. SeenVersion(t, q) = rows[q] + Cardinality(OnStream(w, q))
    BY SeenIsCount
  <2>4. Cardinality(OnStream(w, q)) \in Nat /\ rows[q] \in Nat
    BY <1>1, <1>2, CountType, SeenType
  <2> QED
    BY <1>12, <2>1, <2>2, <2>3, <2>4
<1>16. TypeOK'
  <2>1. \A u \in Txs : Len(tx'[u].writes) <= Len(tx'[u].batch)
    <3>1. Len(r.writes) <= Len(r.batch)
      BY <1>2, <1>3, <1>6, <1>7
    <3>2. \A u \in Txs : Len(tx[u].writes) <= Len(tx[u].batch)
      BY <1>1 DEF TypeOK
    <3> QED
      BY <1>8, <3>1, <3>2
  <2>2. nextSeq' \in Nat /\ cursor' \in 0 .. nextSeq'
    BY <1>1
  <2> QED
    BY <1>1, <1>8, <2>1, <2>2 DEF TypeOK
<1>17. TxConsistent(t)'
  <2>1. /\ tx'[t].pc \in {"write", "commit"} \/ tx'[t].writes = <<>>
        /\ tx'[t].pc \notin {"idle", "done"} => tx'[t].batch \in Batches
        /\ tx'[t].pc = "write" => Len(tx'[t].writes) < Len(tx'[t].batch)
        /\ tx'[t].pc = "commit" => Len(tx'[t].writes) = Len(tx'[t].batch)
    BY <1>2, <1>3, <1>6, <1>7, <1>8
  <2>2. \A i \in 1 .. Len(tx'[t].writes) : tx'[t].writes[i].stream = tx'[t].batch[i]
    <3>1. \A i \in 1 .. Len(w) : w[i].stream = tx[t].batch[i]
      BY <1>3 DEF TxConsistent
    <3>2. \A i \in 1 .. (Len(w) + 1) : i \in 1 .. Len(w) \/ i = Len(w) + 1
      BY <1>2
    <3> QED
      BY <1>4, <1>6, <1>7, <1>8, <1>12, <3>1, <3>2
  <2>3. ASSUME NEW e \in Written(t)'
        PROVE  /\ e.key = tx'[t].key
               /\ rows'[e.stream] < e.version
               /\ e.version <= SeenVersion(t, e.stream)'
    <3>1. CASE e \in Written(t)
      <4>1. /\ e.key = tx[t].key /\ rows[e.stream] < e.version
            /\ e.version <= SeenVersion(t, e.stream)
        BY <1>3, <3>1 DEF TxConsistent
      <4>2. e.stream \in Streams /\ e.version \in Nat
        BY <1>2, <3>1, EventParts
      <4>3. SeenVersion(t, e.stream) \in Nat
        BY <1>1, <4>2, SeenType
      <4> QED
        BY <1>1, <1>7, <1>8, <1>15, <4>1, <4>2, <4>3
    <3>2. CASE e = x
      BY <1>1, <1>4, <1>7, <1>8, <1>12, <1>13, <1>15, <3>2
    <3> QED
      BY <1>9, <3>1, <3>2
  <2>4. ASSUME NEW q \in Streams, NEW v \in (rows'[q] + 1) .. SeenVersion(t, q)'
        PROVE  \E e \in Written(t)' : e.stream = q /\ e.version = v
    <3>1. SeenVersion(t, q) \in Nat /\ rows[q] \in Nat
      BY <1>1, SeenType
    <3>2. CASE v \in (rows[q] + 1) .. SeenVersion(t, q)
      <4>1. \E e \in Written(t) : e.stream = q /\ e.version = v
        BY <1>3, <3>2 DEF TxConsistent
      <4> QED
        BY <1>9, <4>1
    <3>3. CASE v \notin (rows[q] + 1) .. SeenVersion(t, q)
      <4>1. q = s /\ v = SeenVersion(t, s) + 1
        BY <1>1, <1>15, <3>1, <3>3
      <4> QED
        BY <1>9, <1>12, <4>1
    <3> QED
      BY <3>2, <3>3
  <2> QED
    BY <2>1, <2>2, <2>3, <2>4 DEF TxConsistent
<1>18. \A u \in Txs : TxConsistent(u)'
  <2>1. \A u \in Txs : u # t => (TxConsistent(u)' <=> TxConsistent(u))
    BY <1>1, <1>7, OthersKeep DEF r, s
  <2> QED
    BY <1>17, <2>1 DEF StoreInv
<1>19. LocksExclude'
  BY <1>9, <1>10, <1>12, <1>14 DEF StoreInv, LocksExclude
<1>20. KeysExclude'
  <2>1. \A u \in Txs : \A k : HoldsKey(u, k)' <=> HoldsKey(u, k)
    <3>1. \A k : HoldsKey(t, k)' <=> HoldsKey(t, k)
      BY <1>7, <1>8 DEF HoldsKey
    <3>2. \A u \in Txs : u # t => \A k : HoldsKey(u, k)' <=> HoldsKey(u, k)
      BY <1>1, <1>7, OthersKeep DEF r, s
    <3> QED
      BY <3>1, <3>2
  <2> QED
    BY <1>1, <2>1 DEF StoreInv, KeysExclude
<1>21. SeqsFollowVersions'
  <2>1. SeqsFollowVersions /\ RowsMatchLog
    BY DEF StoreInv
  <2>2. Existing \subseteq Event
    BY <1>1, TxParts DEF Existing, TypeOK
  <2>3. \A e \in Existing : e.seq \in Nat /\ e.version \in Nat /\ e.seq < x.seq /\ e.seq <= nextSeq'
    BY <1>1, <1>12, <2>1, <2>2, EventParts DEF SeqsFollowVersions
  <2>4. ASSUME NEW e \in Existing, e.stream = s PROVE e.version < x.version
    <3>1. CASE e \in log
      <4>1. e.version <= rows[s]
        BY <2>1, <2>4, <3>1 DEF RowsMatchLog
      <4> QED
        BY <1>12, <1>13, <2>3, <4>1
    <3>2. CASE e \in Written(t)
      <4>1. e.version <= SeenVersion(t, s)
        BY <1>3, <2>4, <3>2 DEF TxConsistent
      <4> QED
        BY <1>12, <1>13, <2>3, <4>1
    <3>3. CASE \E u \in Txs : u # t /\ e \in Written(u)
      BY <1>14, <2>4, <3>3
    <3> QED
      BY <3>1, <3>2, <3>3 DEF Existing
  <2>5. x.seq \in Nat /\ x.version \in Nat /\ x.seq <= nextSeq'
    BY <1>1, <1>12, <1>13
  <2>6. \A e \in Existing' : e.seq <= nextSeq'
    BY <1>11, <2>3, <2>5
  <2>7. ASSUME NEW e \in Existing', NEW f \in Existing'
        PROVE  /\ e.seq = f.seq => e = f
               /\ e.stream = f.stream /\ e.version = f.version => e = f
               /\ e.stream = f.stream /\ e.version < f.version => e.seq < f.seq
    <3>1. CASE e \in Existing /\ f \in Existing
      BY <2>1, <3>1 DEF SeqsFollowVersions
    <3>2. CASE e = x /\ f = x
      BY <2>5, <3>2
    <3>3. CASE e \in Existing /\ f = x
      BY <1>12, <2>3, <2>4, <2>5, <3>3
    <3>4. CASE e = x /\ f \in Existing
      BY <1>12, <2>3, <2>4, <2>5, <3>4
    <3> QED
      BY <1>11, <3>1, <3>2, <3>3, <3>4
  <2> QED
    BY <2>6, <2>7 DEF SeqsFollowVersions
<1>22. RowsMatchLog' /\ LinksMatchLog' /\ \A e \in seen' : e.seq <= cursor'
  BY <1>1 DEF StoreInv, RowsMatchLog, LinksMatchLog
<1> QED
  BY <1>16, <1>18, <1>19, <1>20, <1>21, <1>22 DEF StoreInv

-----------------------------------------------------------------------------
(* A commit: what t wrote becomes the committed state, nothing else moves. *)

\* The locals of a transaction after any kind of end.
LEMMA EndsParts ==
  ASSUME NEW t \in Txs, NEW answer, NEW E \in SUBSET Event, Ends(t, answer, E),
         answer \in {"ok", "duplicate", "uniqueViolation", "versionConflict", "deadlock", "error"}
  PROVE  LET r == [Idle EXCEPT !.pc = "done", !.answer = answer, !.events = E]
         IN  r \in Transaction /\ Becomes(t, r) /\ r.writes = <<>> /\ r.pc = "done"
<1>1. Idle \in Transaction /\ Idle.writes = <<>>
  BY DEF Idle, Transaction
<1> DEFINE r == [Idle EXCEPT !.pc = "done", !.answer = answer, !.events = E]
<1>2. r.writes = <<>> /\ r.pc = "done"
  BY <1>1 DEF Transaction
<1>3. r \in Transaction
  BY <1>1 DEF Transaction
<1> QED
  BY <1>2, <1>3 DEF Ends

LEMMA CommitStep ==
  ASSUME StoreInv, NEW t \in Txs, Commits(t),
         NEW answer \in {"ok", "error"}, NEW E \in SUBSET Event, Ends(t, answer, E)
  PROVE  StoreInv'
<1> DEFINE r == [Idle EXCEPT !.pc = "done", !.answer = answer, !.events = E]
<1>1. TypeOK
  BY DEF StoreInv
<1>2. r \in Transaction /\ Becomes(t, r) /\ r.writes = <<>> /\ r.pc = "done"
  BY EndsParts
<1> HIDE DEF r
<1>3. r.batch \in Seq(Streams) /\ Len(r.writes) = 0 /\ Len(r.batch) \in Nat
  BY <1>2 DEF Transaction
<1>4. /\ tx[t].pc = "commit"
      /\ rows' = [s \in Streams |-> SeenVersion(t, s)]
      /\ log' = log \cup Written(t)
      /\ keys' = keys \cup ({tx[t].key} \ {NoKey})
      /\ links' = links \cup (IF tx[t].key = NoKey THEN {}
                              ELSE {<<tx[t].key, e.seq>> : e \in Written(t)})
      /\ nextSeq' = nextSeq /\ begun' = begun /\ cursor' = cursor /\ seen' = seen
  BY DEF Commits, Written
<1>5. /\ tx' \in [Txs -> Transaction] /\ tx'[t] = r
      /\ \A u \in Txs : u # t => tx'[u] = tx[u]
  BY <1>1, <1>2, BecomesParts
<1>6. TxConsistent(t)
  BY DEF StoreInv
<1>7. Written(t)' = {} /\ \A u \in Txs : u # t => Written(u)' = Written(u)
  BY <1>1, <1>2, <1>5, OthersKeep, EmptyWrites DEF Written
<1>8. /\ Written(t) \subseteq Event /\ tx[t].key \in Keys \cup {NoKey}
      /\ \A e \in Written(t) : /\ e.stream \in Streams /\ e.seq \in Nat /\ e.version \in Nat
                               /\ e.key = tx[t].key
                               /\ rows[e.stream] < e.version
                               /\ e.version <= SeenVersion(t, e.stream)
  BY <1>1, <1>6, TxParts, EventParts DEF TxConsistent
<1>9. Existing' = Existing
  BY <1>4, <1>7 DEF Existing
<1>10. \A s \in Streams : /\ SeenVersion(t, s) \in Nat /\ rows[s] \in Nat
                          /\ rows[s] <= SeenVersion(t, s) /\ rows'[s] = SeenVersion(t, s)
  BY <1>1, <1>4, SeenType
<1>11. TypeOK'
  <2>1. links' \subseteq Keys \X Nat
    BY <1>4, <1>8, <1>1 DEF TypeOK
  <2>2. \A u \in Txs : Len(tx'[u].writes) <= Len(tx'[u].batch)
    BY <1>1, <1>2, <1>3, <1>5 DEF TypeOK
  <2>3. rows' \in [Streams -> Nat] /\ log' \subseteq Event /\ keys' \subseteq Keys /\ seen' \subseteq log'
    BY <1>1, <1>4, <1>8, <1>10 DEF TypeOK
  <2> QED
    BY <1>1, <1>4, <1>5, <2>1, <2>2, <2>3 DEF TypeOK
\* Another transaction's rows were not touched by t.
<1>12. ASSUME NEW u \in Txs, u # t, NEW f \in Written(u)
       PROVE  /\ f.stream \in Streams /\ rows'[f.stream] = rows[f.stream]
              /\ SeenVersion(u, f.stream)' = SeenVersion(u, f.stream)
  <2>1. f.stream \in Streams
    BY <1>1, <1>12, TxParts, EventParts
  <2>2. \A e \in Written(t) : e.stream # f.stream
    BY <1>12 DEF StoreInv, LocksExclude
  <2>3. SeenVersion(t, f.stream) = rows[f.stream]
    BY <1>1, <2>1, <2>2, SeenUnlocked
  <2>4. rows'[f.stream] = rows[f.stream]
    BY <1>10, <2>1, <2>3
  <2>5. tx'[u] = tx[u]
    BY <1>5, <1>12
  <2> QED
    BY <2>1, <2>4, <2>5 DEF SeenVersion
<1>13. ASSUME NEW u \in Txs PROVE TxConsistent(u)'
  <2>1. CASE u = t
    <3>1. \A s \in Streams : (rows'[s] + 1) .. SeenVersion(t, s)' = {}
      <4>1. \A s \in Streams : SeenVersion(t, s)' = rows'[s]
        BY <1>11, <1>7, SeenUnlockedNext
      <4>2. \A s \in Streams : rows'[s] \in Nat
        BY <1>10
      <4> QED
        BY <4>1, <4>2
    <3> QED
      BY <1>2, <1>3, <1>5, <1>7, <2>1, <3>1 DEF TxConsistent
  <2>2. CASE u # t
    <3>1. TxConsistent(u)
      BY DEF StoreInv
    <3>2. tx'[u] = tx[u] /\ Written(u)' = Written(u)
      BY <1>5, <1>7, <2>2
    <3>3. \A e \in Written(u)' : /\ e.key = tx'[u].key
                                 /\ rows'[e.stream] < e.version
                                 /\ e.version <= SeenVersion(u, e.stream)'
      BY <1>12, <2>2, <3>1, <3>2 DEF TxConsistent
    <3>4. ASSUME NEW s \in Streams, NEW v \in (rows'[s] + 1) .. SeenVersion(u, s)'
          PROVE  \E e \in Written(u)' : e.stream = s /\ e.version = v
      <4>1. CASE \E f \in Written(u) : f.stream = s
        <5>1. rows'[s] = rows[s] /\ SeenVersion(u, s)' = SeenVersion(u, s)
          BY <1>12, <2>2, <4>1
        <5> QED
          BY <3>1, <3>2, <3>4, <5>1 DEF TxConsistent
      <4>2. CASE \A f \in Written(u) : f.stream # s
        <5>1. SeenVersion(u, s)' = rows'[s]
          BY <1>11, <3>2, <4>2, SeenUnlockedNext
        <5>2. rows'[s] \in Nat
          BY <1>10
        <5> QED
          BY <3>4, <5>1, <5>2
      <4> QED
        BY <4>1, <4>2
    <3> QED
      BY <3>1, <3>2, <3>3, <3>4 DEF TxConsistent
  <2> QED
    BY <2>1, <2>2
<1>14. LocksExclude'
  BY <1>7 DEF StoreInv, LocksExclude
<1>15. KeysExclude'
  <2>1. \A k : ~ HoldsKey(t, k)'
    BY <1>2, <1>5 DEF HoldsKey
  <2>2. \A u \in Txs : u # t => \A k : HoldsKey(u, k)' <=> HoldsKey(u, k)
    BY <1>1, <1>2, OthersKeep
  <2>3. tx[t].key # NoKey => HoldsKey(t, tx[t].key) /\ tx[t].key \in Keys
    BY <1>4, <1>8 DEF HoldsKey
  <2>4. KeysExclude
    BY DEF StoreInv
  <2> QED
    BY <1>4, <2>1, <2>2, <2>3, <2>4 DEF KeysExclude
<1>16. SeqsFollowVersions'
  BY <1>4, <1>9 DEF StoreInv, SeqsFollowVersions
<1>17. RowsMatchLog'
  <2>1. RowsMatchLog /\ log \subseteq Event
    BY DEF StoreInv, TypeOK
  <2>2. ASSUME NEW e \in log' PROVE e.version <= rows'[e.stream]
    <3>1. CASE e \in log
      <4>1. e.stream \in Streams /\ e.version \in Nat /\ e.version <= rows[e.stream]
        BY <2>1, <3>1, EventParts DEF RowsMatchLog
      <4> QED
        BY <1>10, <4>1
    <3>2. CASE e \in Written(t)
      BY <1>8, <1>10, <3>2
    <3> QED
      BY <1>4, <3>1, <3>2
  <2>3. ASSUME NEW s \in Streams, NEW v \in 1 .. rows'[s]
        PROVE  \E e \in log' : e.stream = s /\ e.version = v
    <3>1. v \in 1 .. rows[s] \/ v \in (rows[s] + 1) .. SeenVersion(t, s)
      BY <1>10
    <3>2. CASE v \in 1 .. rows[s]
      BY <1>4, <2>1, <3>2 DEF RowsMatchLog
    <3>3. CASE v \in (rows[s] + 1) .. SeenVersion(t, s)
      BY <1>4, <1>6, <3>3 DEF TxConsistent
    <3> QED
      BY <3>1, <3>2, <3>3
  <2> QED
    BY <2>2, <2>3 DEF RowsMatchLog
<1>18. LinksMatchLog'
  <2>1. links = {<<e.key, e.seq>> : e \in {f \in log : f.key # NoKey}}
    BY DEF StoreInv, LinksMatchLog
  <2>2. CASE tx[t].key = NoKey
    <3>1. {f \in log' : f.key # NoKey} = {f \in log : f.key # NoKey}
      BY <1>4, <1>8, <2>2
    <3> QED
      BY <1>4, <2>1, <2>2, <3>1 DEF LinksMatchLog
  <2>3. CASE tx[t].key # NoKey
    <3>1. {f \in log' : f.key # NoKey} = {f \in log : f.key # NoKey} \cup Written(t)
      BY <1>4, <1>8, <2>3
    <3>2. {<<tx[t].key, e.seq>> : e \in Written(t)} = {<<e.key, e.seq>> : e \in Written(t)}
      BY <1>8
    <3> QED
      BY <1>4, <2>1, <2>3, <3>1, <3>2 DEF LinksMatchLog
  <2> QED
    BY <2>2, <2>3
<1>19. \A e \in seen' : e.seq <= cursor'
  BY <1>4 DEF StoreInv
<1> QED
  BY <1>11, <1>13, <1>14, <1>15, <1>16, <1>17, <1>18, <1>19 DEF StoreInv

-----------------------------------------------------------------------------
(* The poller.                                                             *)

LEMMA LeastNatural ==
  ASSUME NEW T \in SUBSET Nat, T # {}
  PROVE  \E m \in T : \A k \in T : m <= k
<1> DEFINE R == OpToRel(<, Nat)
<1>1. IsWellFoundedOn(R, Nat)
  BY NatLessThanWellFounded
<1>2. \A k, j \in Nat : k < j => <<k, j>> \in R
  BY DEF OpToRel
<1> HIDE DEF R
<1>3. PICK m \in T : \A k \in T : ~ (<<k, m>> \in R)
  BY <1>1, WFMin
<1>4. \A k \in T : ~ (k < m)
  BY <1>2, <1>3
<1> QED
  BY <1>4

\* A page has a last event: sequence numbers are bounded by the last one drawn.
LEMMA PageHasLast ==
  ASSUME NEW S \in SUBSET Event, S # {}, NEW bound \in Nat, \A e \in S : e.seq <= bound
  PROVE  \E e \in S : \A f \in S : f.seq <= e.seq
<1> DEFINE T == {bound - e.seq : e \in S}
<1>1. \A e \in S : e.seq \in Nat /\ e.seq <= bound
  BY EventParts
<1>2. T \subseteq Nat /\ T # {}
  BY <1>1
<1> HIDE DEF T
<1>3. PICK m \in T : \A k \in T : m <= k
  BY <1>2, LeastNatural
<1>4. PICK e \in S : m = bound - e.seq
  BY <1>3 DEF T
<1>5. \A f \in S : bound - f.seq \in T
  BY DEF T
<1>6. \A f \in S : bound - e.seq <= bound - f.seq
  BY <1>3, <1>4, <1>5
<1> QED
  BY <1>1, <1>6

\* What one poll does: the page is new, and the cursor moves up to its last event.
LEMMA PollParts ==
  ASSUME StoreInv, Poll
  PROVE  /\ seen' \subseteq log
         /\ cursor' \in Nat /\ cursor < cursor' /\ cursor' <= nextSeq
         /\ seen \subseteq seen'
         /\ \A e \in seen' : e.seq <= cursor'
         /\ \A e \in seen' \ seen : cursor < e.seq
         /\ UNCHANGED <<tables, nextSeq, tx, begun>>
<1> DEFINE page == LoadSince(cursor, PageSize)
           last == CHOOSE e \in page : \A f \in page : f.seq <= e.seq
<1>1. /\ page # {} /\ seen' = seen \cup page /\ cursor' = last.seq
      /\ UNCHANGED <<tables, nextSeq, tx, begun>>
  BY DEF Poll
<1>2. page \subseteq log /\ \A e \in page : e.seq > cursor
  BY DEF LoadSince
<1>3. /\ log \subseteq Event /\ seen \subseteq log /\ nextSeq \in Nat /\ cursor \in Nat
      /\ \A e \in seen : e.seq <= cursor
  BY DEF StoreInv, TypeOK
<1>4. \A e \in log : e.seq <= nextSeq
  BY DEF StoreInv, SeqsFollowVersions, Existing
<1> HIDE DEF page
<1>5. \E e \in page : \A f \in page : f.seq <= e.seq
  BY <1>1, <1>2, <1>3, <1>4, PageHasLast
<1>6. last \in page /\ \A f \in page : f.seq <= last.seq
  BY <1>5
<1> HIDE DEF last
<1>7. last.seq \in Nat /\ cursor < last.seq /\ last.seq <= nextSeq
  BY <1>2, <1>3, <1>4, <1>6, EventParts
<1>8. \A e \in seen : e.seq \in Nat /\ e.seq <= last.seq
  BY <1>3, <1>7, EventParts
<1> QED
  BY <1>1, <1>2, <1>3, <1>6, <1>7, <1>8

\* A step that leaves the transactions and the tables alone.
LEMMA ReaderStep ==
  ASSUME StoreInv, UNCHANGED <<tables, nextSeq, tx, begun>>,
         seen' \subseteq log, cursor' \in 0 .. nextSeq, \A e \in seen' : e.seq <= cursor'
  PROVE  StoreInv'
<1>1. /\ rows' = rows /\ log' = log /\ keys' = keys /\ links' = links
      /\ nextSeq' = nextSeq /\ tx' = tx /\ begun' = begun
  BY DEF tables
<1>2. TypeOK'
  BY <1>1 DEF StoreInv, TypeOK
<1>3. \A t \in Txs : Written(t)' = Written(t)
  BY <1>1 DEF Written
<1>4. Existing' = Existing
  BY <1>1, <1>3 DEF Existing
<1>5. \A t, s : SeenVersion(t, s)' = SeenVersion(t, s)
  BY <1>1 DEF SeenVersion
<1>6. \A t \in Txs : TxConsistent(t)'
  BY <1>1, <1>3, <1>5 DEF StoreInv, TxConsistent
<1>7. LocksExclude'
  BY <1>3 DEF StoreInv, LocksExclude
<1>8. KeysExclude'
  BY <1>1 DEF StoreInv, KeysExclude, HoldsKey
<1>9. SeqsFollowVersions'
  BY <1>1, <1>4 DEF StoreInv, SeqsFollowVersions
<1>10. RowsMatchLog' /\ LinksMatchLog'
  BY <1>1 DEF StoreInv, RowsMatchLog, LinksMatchLog
<1> QED
  BY <1>2, <1>6, <1>7, <1>8, <1>9, <1>10 DEF StoreInv

-----------------------------------------------------------------------------
(* StoreInv is inductive.                                                  *)

LEMMA StoreInvInit == Init => StoreInv
<1> SUFFICES ASSUME Init PROVE StoreInv
  OBVIOUS
<1>1. /\ rows = [s \in Streams |-> 0] /\ log = {} /\ keys = {} /\ links = {} /\ nextSeq = 0
      /\ tx = [t \in Txs |-> Idle] /\ begun = 0 /\ cursor = 0 /\ seen = {}
  BY DEF Init
<1>2. Idle \in Transaction /\ Idle.writes = <<>> /\ Idle.batch = <<>> /\ Idle.pc = "idle"
  BY DEF Idle, Transaction
<1>3. \A t \in Txs : tx[t] = Idle /\ Written(t) = {}
  BY <1>1, <1>2, EmptyWrites
<1>4. TypeOK
  <2>1. \A t \in Txs : Len(tx[t].writes) <= Len(tx[t].batch)
    BY <1>2, <1>3
  <2> QED
    BY <1>1, <1>2, <1>3, <2>1, BoundsAssumption DEF TypeOK
<1>5. ASSUME NEW t \in Txs PROVE TxConsistent(t)
  <2>1. \A s \in Streams : SeenVersion(t, s) = 0 /\ rows[s] = 0
    BY <1>1, <1>3, <1>4, SeenUnlocked
  <2>2. \A s \in Streams : (rows[s] + 1) .. SeenVersion(t, s) = {}
    BY <2>1
  <2> QED
    BY <1>2, <1>3, <2>2 DEF TxConsistent
<1>6. LocksExclude
  BY <1>3 DEF LocksExclude
<1>7. KeysExclude
  BY <1>2, <1>3 DEF KeysExclude, HoldsKey
<1>8. SeqsFollowVersions
  BY <1>1, <1>3 DEF SeqsFollowVersions, Existing
<1>9. RowsMatchLog /\ LinksMatchLog
  BY <1>1 DEF RowsMatchLog, LinksMatchLog
<1> QED
  BY <1>1, <1>4, <1>5, <1>6, <1>7, <1>8, <1>9 DEF StoreInv

\* Every end without a commit keeps the invariant.
LEMMA EndsStep ==
  ASSUME StoreInv, NEW t \in Txs, NEW answer, NEW E \in SUBSET Event, Ends(t, answer, E),
         answer \in {"duplicate", "uniqueViolation", "versionConflict", "deadlock", "error"},
         UNCHANGED <<tables, nextSeq, begun, cursor, seen>>
  PROVE  StoreInv'
<1> DEFINE r == [Idle EXCEPT !.pc = "done", !.answer = answer, !.events = E]
<1>1. TypeOK /\ begun \in 0 .. MaxAppends
  BY DEF StoreInv, TypeOK
<1>2. r \in Transaction /\ Becomes(t, r) /\ r.writes = <<>> /\ r.pc = "done"
  BY EndsParts
<1> HIDE DEF r
<1>3. UNCHANGED <<tables, nextSeq, cursor, seen>> /\ begun' \in 0 .. MaxAppends
  BY <1>1
<1> QED
  BY <1>2, <1>3, ClearStep

LEMMA FunctionIsSeq == ASSUME NEW S, NEW n \in Nat, NEW f \in [1 .. n -> S] PROVE f \in Seq(S)
  BY SeqDef, Zenon

LEMMA EarlierType ==
  ASSUME NEW b, NEW i \in Nat
  PROVE  Earlier(b, i) \in Nat
<1>1. IsFiniteSet(1 .. i - 1)
  BY FS_Interval
<1>2. IsFiniteSet({j \in 1 .. i - 1 : b[j] = b[i]})
  BY <1>1, FS_Subset
<1> QED
  BY <1>2, FS_CardinalityType DEF Earlier

\* The call a caller begins.
JustBegun(r, k, b) ==
    /\ r.writes = <<>> /\ r.batch = b /\ r.key = k
    /\ r.pc \in {"write", "checkKey"} /\ (r.pc = "write" => k = NoKey)
    /\ r.answer = "none" /\ r.events = {} /\ Len(r.expect) = Len(b)

LEMMA BeginCall ==
  ASSUME StoreInv, NEW t \in Txs, NEW k \in Keys \cup {NoKey}, NEW b \in Batches, Begin(t, k, b)
  PROVE  \E r \in Transaction : Becomes(t, r) /\ JustBegun(r, k, b)
<1>1. PICK checked \in BOOLEAN, ahead \in 0 .. PinAhead :
        Becomes(t, [Idle EXCEPT
              !.pc = IF k = NoKey THEN "write" ELSE "checkKey",
              !.key = k,
              !.batch = b,
              !.expect = [i \in 1 .. Len(b) |->
                  IF checked THEN rows[b[i]] + Earlier(b, i) + ahead ELSE NoVersionCheck]])
  BY DEF Begin
<1> DEFINE expect == [i \in 1 .. Len(b) |->
                  IF checked THEN rows[b[i]] + Earlier(b, i) + ahead ELSE NoVersionCheck]
           r == [Idle EXCEPT !.pc = IF k = NoKey THEN "write" ELSE "checkKey",
                             !.key = k, !.batch = b, !.expect = expect]
<1>2. Becomes(t, r)
  BY <1>1
<1>3. b \in Seq(Streams) /\ Len(b) \in Nat /\ \A i \in 1 .. Len(b) : b[i] \in Streams
  BY BatchesAssumption
<1>4. expect \in Seq(Int) /\ Len(expect) = Len(b)
  <2>1. \A i \in 1 .. Len(b) : Earlier(b, i) \in Nat
    BY <1>3, EarlierType
  <2>2. \A i \in 1 .. Len(b) : rows[b[i]] \in Nat
    BY <1>3 DEF StoreInv, TypeOK
  <2>3. \A i \in 1 .. Len(b) : expect[i] \in Int
    BY <2>1, <2>2, BoundsAssumption DEF NoVersionCheck
  <2>4. expect \in [1 .. Len(b) -> Int]
    BY <2>3
  <2>5. expect \in Seq(Int) /\ DOMAIN expect = 1 .. Len(b)
    BY <1>3, <2>4, FunctionIsSeq
  <2> HIDE DEF expect
  <2> QED
    BY <1>3, <2>5, LenProperties
<1> HIDE DEF expect
<1>5. Idle \in Transaction /\ Idle.writes = <<>> /\ Idle.answer = "none" /\ Idle.events = {}
  BY DEF Idle, Transaction
<1>6. r \in Transaction
  BY <1>3, <1>4, <1>5 DEF Transaction
<1>7. /\ r.writes = <<>> /\ r.batch = b /\ r.key = k /\ r.expect = expect
      /\ r.pc \in {"write", "checkKey"} /\ (r.pc = "write" => k = NoKey)
      /\ r.answer = "none" /\ r.events = {}
  BY <1>5 DEF Transaction
<1> HIDE DEF r
<1> QED
  BY <1>2, <1>4, <1>6, <1>7 DEF JustBegun

LEMMA BeginStep ==
  ASSUME StoreInv, NEW t \in Txs, NEW k \in Keys \cup {NoKey}, NEW b \in Batches, Begin(t, k, b)
  PROVE  StoreInv'
<1>1. /\ begun' \in 0 .. MaxAppends
      /\ UNCHANGED <<tables, nextSeq, cursor, seen>>
  BY BoundsAssumption DEF Begin, StoreInv, TypeOK
<1>2. PICK r \in Transaction : Becomes(t, r) /\ JustBegun(r, k, b)
  BY BeginCall
<1> QED
  BY <1>1, <1>2, ClearStep DEF JustBegun

\* The two dedupe statements, when the key is not found.
LEMMA KeyStep ==
  ASSUME StoreInv, NEW t \in Txs, NEW pc \in {"insertKey", "write"},
         tx[t].pc \in {"checkKey", "insertKey"},
         Becomes(t, [tx[t] EXCEPT !.pc = pc]),
         pc = "write" => tx[t].key \notin keys /\ \A u \in Txs : u # t => ~ HoldsKey(u, tx[t].key),
         UNCHANGED <<tables, nextSeq, begun, cursor, seen>>
  PROVE  StoreInv'
<1> DEFINE r == [tx[t] EXCEPT !.pc = pc]
<1>1. TypeOK /\ begun' \in 0 .. MaxAppends /\ UNCHANGED <<tables, nextSeq, cursor, seen>>
  BY DEF StoreInv, TypeOK
<1>2. tx[t] \in Transaction
  BY <1>1, TxParts
<1>3. tx[t].writes = <<>> /\ tx[t].batch \in Batches
  BY DEF StoreInv, TxConsistent
<1>4. r \in Transaction /\ r.writes = tx[t].writes /\ r.batch = tx[t].batch /\ r.pc = pc /\ r.key = tx[t].key
  BY <1>2 DEF Transaction
<1> HIDE DEF r
<1>5. Becomes(t, r)
  BY DEF r
<1> QED
  BY <1>1, <1>3, <1>4, <1>5, ClearStep

LEMMA StoreInvStep == StoreInv /\ [Next]_vars => StoreInv'
<1> SUFFICES ASSUME StoreInv, [Next]_vars PROVE StoreInv'
  OBVIOUS
<1>1. ASSUME NEW t \in Txs, NEW k \in Keys \cup {NoKey}, NEW b \in Batches, Begin(t, k, b)
      PROVE  StoreInv'
  BY <1>1, BeginStep
<1>2. ASSUME NEW t \in Txs, CheckKey(t) PROVE StoreInv'
  <2>1. CASE tx[t].key \in keys
    <3>1. /\ Ends(t, "duplicate", loadDedupeEvents(tx[t].key))
          /\ UNCHANGED <<tables, nextSeq, begun, cursor, seen>>
      BY <1>2, <2>1 DEF CheckKey
    <3>2. loadDedupeEvents(tx[t].key) \in SUBSET Event
      BY DEF loadDedupeEvents, StoreInv, TypeOK
    <3> QED
      BY <3>1, <3>2, EndsStep
  <2>2. CASE tx[t].key \notin keys
    BY <1>2, <2>2, KeyStep DEF CheckKey
  <2> QED
    BY <2>1, <2>2
<1>3. ASSUME NEW t \in Txs, InsertKey(t) PROVE StoreInv'
  <2>1. CASE tx[t].key \in keys
    BY <1>3, <2>1, EndsStep DEF InsertKey, Rollback
  <2>2. CASE tx[t].key \notin keys
    <3>1. \A u \in Txs : u # t => ~ HoldsKey(u, tx[t].key)
      BY <1>3 DEF InsertKey, Blocked, WaitsFor
    <3> QED
      BY <1>3, <2>2, <3>1, KeyStep DEF InsertKey
  <2> QED
    BY <2>1, <2>2
<1>4. ASSUME NEW t \in Txs, Write(t) PROVE StoreInv'
  <2> DEFINE conflict == tx[t].expect[Len(tx[t].writes) + 1]
                            \notin {NoVersionCheck, SeenVersion(t, NextStream(t))}
  <2>1. CASE conflict
    <3>1. Rollback(t, "versionConflict") /\ UNCHANGED <<tables, nextSeq, begun, cursor, seen>>
      BY <1>4, <2>1 DEF Write
    <3> QED
      BY <3>1, EndsStep DEF Rollback
  <2>2. CASE ~ conflict
    <3>1. /\ tx[t].pc = "write" /\ ~ Blocked(t)
          /\ Becomes(t, WithEvent(t, NextStream(t))) /\ nextSeq' = nextSeq + 1
          /\ UNCHANGED <<tables, begun, cursor, seen>>
      BY <1>4, <2>2 DEF Write
    <3> QED
      BY <3>1, WriteStep
  <2> QED
    BY <2>1, <2>2
<1>5. ASSUME NEW t \in Txs, Commit(t) \/ CommitAckLost(t) PROVE StoreInv'
  <2>1. Written(t) \in SUBSET Event /\ {} \in SUBSET Event
    BY TxParts DEF StoreInv
  <2> QED
    BY <1>5, <2>1, CommitStep DEF Commit, CommitAckLost, Rollback
<1>6. ASSUME NEW t \in Txs, Return(t) PROVE StoreInv'
  <2>1. TypeOK /\ begun' \in 0 .. MaxAppends /\ UNCHANGED <<tables, nextSeq, cursor, seen>>
    BY <1>6 DEF Return, StoreInv, TypeOK
  <2>2. Idle \in Transaction /\ Idle.writes = <<>> /\ Idle.pc = "idle"
    BY DEF Idle, Transaction
  <2>3. Becomes(t, Idle)
    BY <1>6 DEF Return
  <2> QED
    BY <2>1, <2>2, <2>3, ClearStep
<1>7. ASSUME NEW t \in Txs, Deadlock(t) \/ Fails(t) PROVE StoreInv'
  BY <1>7, EndsStep DEF Deadlock, Fails, Rollback
<1>8. CASE Poll
  <2>1. nextSeq \in Nat /\ cursor \in 0 .. nextSeq
    BY DEF StoreInv, TypeOK
  <2>2. /\ seen' \subseteq log /\ cursor' \in 0 .. nextSeq /\ \A e \in seen' : e.seq <= cursor'
        /\ UNCHANGED <<tables, nextSeq, tx, begun>>
    BY <1>8, <2>1, PollParts
  <2> QED
    BY <2>2, ReaderStep
<1>9. CASE UNCHANGED vars
  <2>1. /\ seen' \subseteq log /\ cursor' \in 0 .. nextSeq /\ \A e \in seen' : e.seq <= cursor'
        /\ UNCHANGED <<tables, nextSeq, tx, begun>>
    BY <1>9 DEF vars, StoreInv, TypeOK
  <2> QED
    BY <2>1, ReaderStep
<1> QED
  BY <1>1, <1>2, <1>3, <1>4, <1>5, <1>6, <1>7, <1>8, <1>9 DEF Next, TxStep

LEMMA StoreInvHolds == Spec => []StoreInv
<1> QED
  BY StoreInvInit, StoreInvStep, PTL DEF Spec

-----------------------------------------------------------------------------
(* The safety properties.                                                  *)

\* Every table, every transaction and the poller's cursor keep their types, and a
\* transaction never writes past its batch (store.go, Append).
THEOREM StoreTypes == Spec => []TypeOK
<1>1. StoreInv => TypeOK
  BY DEF StoreInv
<1> QED
  BY <1>1, StoreInvHolds, PTL

\* The row lock of stream_versions alone keeps (aggregate, version) unique, committed
\* or in flight, for any number of transactions: the UNIQUE constraint behind it never
\* rejects an insert (store.go, Append's SELECT ... FOR UPDATE).
THEOREM UniqueVersions == Spec => []VersionsNeverCollide
<1>1. StoreInv => VersionsNeverCollide
  BY DEF StoreInv, SeqsFollowVersions, VersionsNeverCollide, Existing
<1> QED
  BY <1>1, StoreInvHolds, PTL

LEMMA LinksComplete == StoreInv => LinksAreComplete
<1> SUFFICES ASSUME StoreInv, NEW k \in Keys, NEW e \in log
             PROVE  e.key = k <=> <<k, e.seq>> \in links
  BY DEF LinksAreComplete
<1>1. links = {<<f.key, f.seq>> : f \in {g \in log : g.key # NoKey}}
  BY DEF StoreInv, LinksMatchLog
<1>2. k # NoKey
  BY NoKeyAssumption
<1>3. ASSUME <<k, e.seq>> \in links PROVE e.key = k
  <2>1. PICK f \in log : <<k, e.seq>> = <<f.key, f.seq>>
    BY <1>1, <1>3
  <2>2. f = e
    BY <2>1 DEF StoreInv, SeqsFollowVersions, Existing
  <2> QED
    BY <2>1, <2>2
<1> QED
  BY <1>1, <1>2, <1>3

\* A retried command is answered with all the events its key wrote and no others
\* (store.go, loadDedupeEvents over idempotency_key_events).
THEOREM CompleteLinks == Spec => []LinksAreComplete
  BY LinksComplete, StoreInvHolds, PTL

\* Only a poll hands events on.
LEMMA OnlyPollSees == [Next]_vars => Poll \/ seen' = seen
  BY DEF Next, vars, Begin, TxStep, CheckKey, InsertKey, Write, Commit, Commits, Return, Deadlock, Fails,
     CommitAckLost

\* A poller meets the events of each stream in version order, though transactions of
\* different streams commit their sequence numbers in any order (LoadSince's ORDER BY
\* global_seq over what Append drew under the row lock).
THEOREM PollInVersionOrder == Spec => SeenInVersionOrder
<1> DEFINE A == \A e \in seen' \ seen : \A f \in seen :
                   e.stream = f.stream => f.version < e.version /\ f.seq < e.seq
<1>1. StoreInv /\ [Next]_vars => A
  <2> SUFFICES ASSUME StoreInv, [Next]_vars, NEW e \in seen' \ seen, NEW f \in seen, e.stream = f.stream
               PROVE  f.version < e.version /\ f.seq < e.seq
    OBVIOUS
  <2>1. Poll
    BY OnlyPollSees
  <2>2. cursor < e.seq /\ e \in log /\ f \in log /\ f.seq <= cursor /\ cursor \in Nat
    BY <2>1, PollParts DEF StoreInv, TypeOK
  <2>3. /\ e.seq \in Nat /\ f.seq \in Nat /\ e.version \in Nat /\ f.version \in Nat
    BY <2>2, EventParts DEF StoreInv, TypeOK
  <2>4. f.seq < e.seq
    BY <2>2, <2>3
  <2>5. e # f
    OBVIOUS
  <2>6. /\ e.version = f.version => e = f
        /\ e.version < f.version => e.seq < f.seq
    BY <2>2 DEF StoreInv, SeqsFollowVersions, Existing
  <2> QED
    BY <2>3, <2>4, <2>5, <2>6
<1> QED
  BY <1>1, StoreInvHolds, PTL DEF Spec, SeenInVersionOrder

-----------------------------------------------------------------------------
(* Refinement: the transactions implement Append's contract.               *)

\* What the i-th event of a batch finds: the version its transaction sees.
LEMMA SeenAtNext ==
  ASSUME StoreInv, NEW t \in Txs, tx[t].pc = "write"
  PROVE  /\ Len(tx[t].writes) + 1 \in 1 .. Len(tx[t].batch)
         /\ NextStream(t) \in Streams
         /\ SeenVersion(t, NextStream(t)) = rows[NextStream(t)] + Earlier(tx[t].batch, Len(tx[t].writes) + 1)
<1> DEFINE w == tx[t].writes
           b == tx[t].batch
           n == Len(w) + 1
<1>1. /\ Len(w) \in Nat /\ b \in Seq(Streams) /\ Len(b) \in Nat /\ Len(w) < Len(b)
      /\ \A i \in 1 .. Len(w) : w[i].stream = b[i]
  BY TxParts DEF StoreInv, TxConsistent
<1>2. n \in 1 .. Len(b) /\ n - 1 = Len(w)
  BY <1>1
<1>3. NextStream(t) = b[n] /\ b[n] \in Streams
  BY <1>1, <1>2 DEF NextStream
<1>4. OnStream(w, b[n]) = {j \in 1 .. n - 1 : b[j] = b[n]}
  BY <1>1, <1>2 DEF OnStream
<1>5. SeenVersion(t, b[n]) = rows[b[n]] + Earlier(b, n)
  BY <1>4, SeenIsCount DEF Earlier
<1> QED
  BY <1>2, <1>3, <1>5

\* The other callers notice nothing while the rows stay.
LEMMA CallsKeep ==
  ASSUME StoreInv, CallsInv, NEW t \in Txs, NEW r \in Transaction, Becomes(t, r), rows' = rows,
         NEW u \in Txs, u # t
  PROVE  WritesChecked(u)' /\ CallInv(u)'
<1>1. tx'[u] = tx[u]
  BY BecomesParts DEF StoreInv
<1>2. WritesChecked(u) /\ CallInv(u)
  BY DEF CallsInv
<1> QED
  BY <1>1, <1>2 DEF WritesChecked, CallInv

\* A step that leaves t without writes.
LEMMA CallsClear ==
  ASSUME StoreInv, CallsInv, NEW t \in Txs, NEW r \in Transaction, Becomes(t, r), rows' = rows,
         r.writes = <<>>,
         r.pc = "idle" => r = Idle,
         r.pc # "done" => r.answer = "none" /\ r.events = {},
         r.pc = "done" => r.answer # "none"
  PROVE  CallsInv'
<1>1. tx'[t] = r
  BY BecomesParts DEF StoreInv
<1>2. WritesChecked(t)' /\ CallInv(t)'
  BY <1>1 DEF WritesChecked, CallInv
<1> QED
  BY <1>2, CallsKeep DEF CallsInv

LEMMA CallsEnd ==
  ASSUME StoreInv, CallsInv, NEW t \in Txs, NEW answer, NEW E \in SUBSET Event, Ends(t, answer, E),
         answer \in {"ok", "duplicate", "uniqueViolation", "versionConflict", "deadlock", "error"},
         rows' = rows
  PROVE  CallsInv'
<1> DEFINE r == [Idle EXCEPT !.pc = "done", !.answer = answer, !.events = E]
<1>1. r \in Transaction /\ Becomes(t, r) /\ r.writes = <<>> /\ r.pc = "done"
  BY EndsParts
<1>2. r.answer = answer
  BY DEF Idle
<1> HIDE DEF r
<1> QED
  BY <1>1, <1>2, CallsClear

LEMMA WithEventParts ==
  ASSUME StoreInv, NEW t \in Txs, tx[t].pc = "write"
  PROVE  LET r == WithEvent(t, NextStream(t))
         IN  /\ r \in Transaction
             /\ r.key = tx[t].key /\ r.batch = tx[t].batch /\ r.expect = tx[t].expect
             /\ r.answer = tx[t].answer /\ r.events = tx[t].events
<1> DEFINE s == NextStream(t)
           w == tx[t].writes
           x == [seq |-> nextSeq + 1, stream |-> s, version |-> SeenVersion(t, s) + 1, key |-> tx[t].key]
<1>1. /\ tx[t] \in Transaction /\ w \in Seq(Event) /\ tx[t].key \in Keys \cup {NoKey}
      /\ nextSeq \in Nat /\ s \in Streams /\ SeenVersion(t, s) \in Nat
  BY TxParts, SeenAtNext, SeenType DEF StoreInv, TypeOK
<1>2. x \in Event
  BY <1>1 DEF Event
<1>3. Append(w, x) \in Seq(Event)
  BY <1>1, <1>2
<1> QED
  BY <1>1, <1>3 DEF WithEvent, Transaction

\* A write passes the version check, and the row is locked from then on.
LEMMA CallsWrite ==
  ASSUME StoreInv, CallsInv, NEW t \in Txs, tx[t].pc = "write",
         tx[t].expect[Len(tx[t].writes) + 1] \in {NoVersionCheck, SeenVersion(t, NextStream(t))},
         Becomes(t, WithEvent(t, NextStream(t))), rows' = rows, nextSeq \in Nat
  PROVE  CallsInv'
<1> DEFINE s == NextStream(t)
           w == tx[t].writes
           b == tx[t].batch
           x == [seq |-> nextSeq + 1, stream |-> s, version |-> SeenVersion(t, s) + 1, key |-> tx[t].key]
           r == WithEvent(t, s)
<1>1. /\ TypeOK /\ tx[t] \in Transaction /\ w \in Seq(Event) /\ Len(w) \in Nat
      /\ tx[t].key \in Keys \cup {NoKey}
  BY TxParts DEF StoreInv
<1>2. /\ Len(w) + 1 \in 1 .. Len(b) /\ s \in Streams
      /\ SeenVersion(t, s) = rows[s] + Earlier(b, Len(w) + 1)
      /\ SeenVersion(t, s) \in Nat
  BY <1>1, SeenAtNext, SeenType
<1>3. x \in Event
  BY <1>1, <1>2 DEF Event
<1>4. /\ Append(w, x) \in Seq(Event) /\ Len(Append(w, x)) = Len(w) + 1
      /\ Append(w, x)[Len(w) + 1] = x
      /\ \A i \in 1 .. Len(w) : Append(w, x)[i] = w[i]
  BY <1>1, <1>3, AppendProperties
<1>5. /\ r \in Transaction /\ r.writes = Append(w, x) /\ r.batch = b /\ r.expect = tx[t].expect
      /\ r.answer = tx[t].answer /\ r.events = tx[t].events /\ r.pc \in {"write", "commit"}
  BY <1>1, <1>4 DEF WithEvent, Transaction
<1>6. x.version = SeenVersion(t, s) + 1 /\ s = b[Len(w) + 1]
  BY DEF NextStream
<1> HIDE DEF x, r
<1>7. tx'[t] = r
  BY <1>1, <1>5, BecomesParts DEF r
<1>8. \A i \in 1 .. Len(w) + 1 : i \in 1 .. Len(w) \/ i = Len(w) + 1
  BY <1>1
<1>9. CallInv(t) /\ WritesChecked(t)
  BY DEF CallsInv
<1>10. CallInv(t)'
  BY <1>5, <1>7, <1>9 DEF CallInv
<1>11. WritesChecked(t)'
  <2> SUFFICES ASSUME NEW i \in 1 .. Len(w) + 1
               PROVE  /\ Append(w, x)[i].version = rows[b[i]] + Earlier(b, i) + 1
                      /\ tx[t].expect[i] \in {NoVersionCheck, Append(w, x)[i].version - 1}
    BY <1>4, <1>5, <1>7 DEF WritesChecked
  <2>1. CASE i \in 1 .. Len(w)
    BY <1>4, <1>9, <2>1 DEF WritesChecked
  <2>2. CASE i = Len(w) + 1
    <3>1. Append(w, x)[i] = x /\ b[i] = s
      BY <1>4, <1>6, <2>2, Zenon
    <3>2. x.version - 1 = SeenVersion(t, s)
      BY <1>2, <1>6
    <3>3. tx[t].expect[i] \in {NoVersionCheck, SeenVersion(t, s)}
      BY <2>2
    <3> QED
      BY <1>2, <1>6, <2>2, <3>1, <3>2, <3>3
  <2> QED
    BY <1>8, <2>1, <2>2
<1>12. \A u \in Txs : u # t => WritesChecked(u)' /\ CallInv(u)'
  BY <1>5, CallsKeep DEF r
<1> QED
  BY <1>10, <1>11, <1>12 DEF CallsInv

\* A commit moves no row that another transaction has locked.
LEMMA CallsCommit ==
  ASSUME StoreInv, CallsInv, NEW t \in Txs, Commits(t),
         NEW answer \in {"ok", "error"}, NEW E \in SUBSET Event, Ends(t, answer, E)
  PROVE  CallsInv'
<1> DEFINE r == [Idle EXCEPT !.pc = "done", !.answer = answer, !.events = E]
<1>1. r \in Transaction /\ Becomes(t, r) /\ r.writes = <<>> /\ r.pc = "done"
  BY EndsParts
<1>2. r.answer = answer
  BY DEF Idle
<1> HIDE DEF r
<1>3. TypeOK /\ tx'[t] = r /\ \A u \in Txs : u # t => tx'[u] = tx[u]
  BY <1>1, BecomesParts DEF StoreInv
<1>4. WritesChecked(t)' /\ CallInv(t)'
  BY <1>1, <1>2, <1>3 DEF WritesChecked, CallInv
<1>5. ASSUME NEW u \in Txs, u # t PROVE WritesChecked(u)' /\ CallInv(u)'
  <2>1. WritesChecked(u) /\ CallInv(u) /\ TxConsistent(u)
    BY DEF CallsInv, StoreInv
  <2>2. ASSUME NEW i \in 1 .. Len(tx[u].writes) PROVE rows'[tx[u].batch[i]] = rows[tx[u].batch[i]]
    <3>1. tx[u].writes[i] \in Written(u) /\ tx[u].writes[i].stream = tx[u].batch[i]
      BY <2>1 DEF Written, TxConsistent
    <3>2. tx[u].batch[i] \in Streams
      BY <1>3, <3>1, TxParts, EventParts
    <3>3. \A e \in Written(t) : e.stream # tx[u].batch[i]
      BY <1>5, <3>1 DEF StoreInv, LocksExclude
    <3>4. SeenVersion(t, tx[u].batch[i]) = rows[tx[u].batch[i]]
      BY <1>3, <3>2, <3>3, SeenUnlocked
    <3> QED
      BY <3>2, <3>4 DEF Commits
  <2> QED
    BY <1>3, <1>5, <2>1, <2>2 DEF WritesChecked, CallInv
<1> QED
  BY <1>4, <1>5 DEF CallsInv

LEMMA CallsInvInit == Init => CallsInv
<1> SUFFICES ASSUME Init, NEW t \in Txs PROVE WritesChecked(t) /\ CallInv(t)
  BY DEF CallsInv
<1>1. tx[t] = Idle /\ Idle.writes = <<>> /\ Idle.pc = "idle" /\ Idle.answer = "none" /\ Idle.events = {}
  BY DEF Init, Idle
<1> QED
  BY <1>1 DEF WritesChecked, CallInv

LEMMA CallsInvStep == StoreInv /\ CallsInv /\ [Next]_vars => CallsInv'
<1> SUFFICES ASSUME StoreInv, CallsInv, [Next]_vars PROVE CallsInv'
  OBVIOUS
<1>0. TypeOK /\ nextSeq \in Nat
  BY DEF StoreInv, TypeOK
<1>1. ASSUME NEW t \in Txs, NEW k \in Keys \cup {NoKey}, NEW b \in Batches, Begin(t, k, b)
      PROVE  CallsInv'
  <2>1. PICK r \in Transaction : Becomes(t, r) /\ JustBegun(r, k, b)
    BY <1>1, BeginCall
  <2>2. rows' = rows
    BY <1>1 DEF Begin, tables
  <2> QED
    BY <2>1, <2>2, CallsClear DEF JustBegun
<1>2. ASSUME NEW t \in Txs, NEW pc \in {"insertKey", "write"}, tx[t].pc \in {"checkKey", "insertKey"},
             Becomes(t, [tx[t] EXCEPT !.pc = pc]), rows' = rows
      PROVE  CallsInv'
  <2> DEFINE r == [tx[t] EXCEPT !.pc = pc]
  <2>1. tx[t] \in Transaction /\ tx[t].writes = <<>> /\ CallInv(t)
    BY <1>0, <1>2, TxParts DEF StoreInv, TxConsistent, CallsInv
  <2>2. /\ r \in Transaction /\ r.writes = <<>> /\ r.pc = pc
        /\ r.answer = tx[t].answer /\ r.events = tx[t].events
    BY <2>1 DEF Transaction
  <2> HIDE DEF r
  <2>3. Becomes(t, r)
    BY <1>2 DEF r
  <2>4. r.answer = "none" /\ r.events = {}
    BY <1>2, <2>1, <2>2 DEF CallInv
  <2> QED
    BY <1>2, <2>2, <2>3, <2>4, CallsClear
<1>3. ASSUME NEW t \in Txs, CheckKey(t) PROVE CallsInv'
  <2>1. rows' = rows /\ tx[t].pc = "checkKey"
    BY <1>3 DEF CheckKey, tables
  <2>2. CASE tx[t].key \in keys
    <3>1. Ends(t, "duplicate", loadDedupeEvents(tx[t].key))
      BY <1>3, <2>2 DEF CheckKey
    <3>2. loadDedupeEvents(tx[t].key) \in SUBSET Event
      BY DEF loadDedupeEvents, StoreInv, TypeOK
    <3> QED
      BY <2>1, <3>1, <3>2, CallsEnd
  <2>3. CASE tx[t].key \notin keys
    BY <1>2, <1>3, <2>1, <2>3 DEF CheckKey
  <2> QED
    BY <2>2, <2>3
<1>4. ASSUME NEW t \in Txs, InsertKey(t) PROVE CallsInv'
  <2>1. rows' = rows /\ tx[t].pc = "insertKey"
    BY <1>4 DEF InsertKey, tables
  <2>2. CASE tx[t].key \in keys
    BY <1>4, <2>1, <2>2, CallsEnd DEF InsertKey, Rollback
  <2>3. CASE tx[t].key \notin keys
    BY <1>2, <1>4, <2>1, <2>3 DEF InsertKey
  <2> QED
    BY <2>2, <2>3
<1>5. ASSUME NEW t \in Txs, Write(t) PROVE CallsInv'
  <2> DEFINE passes == tx[t].expect[Len(tx[t].writes) + 1]
                            \in {NoVersionCheck, SeenVersion(t, NextStream(t))}
  <2>1. rows' = rows /\ tx[t].pc = "write"
    BY <1>5 DEF Write, tables
  <2>2. CASE ~ passes
    <3>1. Rollback(t, "versionConflict")
      BY <1>5, <2>2 DEF Write
    <3> QED
      BY <2>1, <3>1, CallsEnd DEF Rollback
  <2>3. CASE passes
    <3>1. Becomes(t, WithEvent(t, NextStream(t)))
      BY <1>5, <2>3 DEF Write
    <3> QED
      BY <1>0, <2>1, <2>3, <3>1, CallsWrite
  <2> QED
    BY <2>2, <2>3
<1>6. ASSUME NEW t \in Txs, Commit(t) \/ CommitAckLost(t) PROVE CallsInv'
  <2>1. Written(t) \in SUBSET Event /\ {} \in SUBSET Event
    BY <1>0, TxParts
  <2> QED
    BY <1>6, <2>1, CallsCommit DEF Commit, CommitAckLost, Rollback
<1>7. ASSUME NEW t \in Txs, Return(t) PROVE CallsInv'
  <2>1. /\ Idle \in Transaction /\ Idle.writes = <<>> /\ Idle.pc = "idle" /\ Idle.answer = "none"
        /\ Idle.events = {}
    BY DEF Idle, Transaction
  <2>2. Becomes(t, Idle) /\ rows' = rows
    BY <1>7 DEF Return, tables
  <2> QED
    BY <2>1, <2>2, CallsClear
<1>8. ASSUME NEW t \in Txs, Deadlock(t) \/ Fails(t) PROVE CallsInv'
  <2>1. rows' = rows
    BY <1>8 DEF Deadlock, Fails, tables
  <2> QED
    BY <1>8, <2>1, CallsEnd DEF Deadlock, Fails, Rollback
<1>9. CASE Poll \/ UNCHANGED vars
  <2>1. tx' = tx /\ rows' = rows
    BY <1>9 DEF Poll, vars, tables
  <2> QED
    BY <2>1 DEF CallsInv, WritesChecked, CallInv
<1> QED
  BY <1>1, <1>3, <1>4, <1>5, <1>6, <1>7, <1>8, <1>9 DEF Next, TxStep

LEMMA CallsInvHolds == Spec => []CallsInv
  BY CallsInvInit, CallsInvStep, StoreInvHolds, PTL DEF Spec
\* The contract's own copy of the standard operator.
LEMMA SameCardinality == \A S : Contract!Cardinality(S) = Cardinality(S)
  BY DEF Contract!Cardinality, Cardinality, Contract!IsFiniteSet, IsFiniteSet

\* The calls the contract sees.
Calls == [t \in Txs |-> CallOf(tx[t])]

LEMMA CallsParts ==
  ASSUME NEW t \in Txs
  PROVE  /\ Calls[t].key = tx[t].key /\ Calls[t].batch = tx[t].batch /\ Calls[t].expect = tx[t].expect
         /\ Calls[t] = CallOf(tx[t])
  BY DEF Calls, CallOf

LEMMA CallsBecome ==
  ASSUME TypeOK, NEW t \in Txs, NEW r \in Transaction, Becomes(t, r)
  PROVE  Calls' = [Calls EXCEPT ![t] = CallOf(r)]
<1>1. tx'[t] = r /\ \A u \in Txs : u # t => tx'[u] = tx[u]
  BY BecomesParts
<1>2. Calls' = [u \in Txs |-> CallOf(tx'[u])]
  BY DEF Calls
<1>3. \A u \in Txs : CallOf(tx'[u]) = IF u = t THEN CallOf(r) ELSE CallOf(tx[u])
  BY <1>1
<1>4. [Calls EXCEPT ![t] = CallOf(r)] = [u \in Txs |-> IF u = t THEN CallOf(r) ELSE CallOf(tx[u])]
  BY DEF Calls
<1> QED
  BY <1>2, <1>3, <1>4

LEMMA NoCallIs == CallOf(Idle) = Contract!NoCall
<1>1. Marks({}) = {}
  BY DEF Marks
<1> QED
  BY <1>1 DEF CallOf, Idle, Contract!NoCall, Contract!Answered

\* The answer a transaction ends with is the answer of the call.
LEMMA EndAnswers ==
  ASSUME TypeOK, NEW t \in Txs, NEW answer, NEW E \in SUBSET Event, Ends(t, answer, E),
         answer \in {"ok", "duplicate", "uniqueViolation", "versionConflict", "deadlock", "error"}
  PROVE  Contract!Answer(t, IF answer \in {"uniqueViolation", "deadlock"} THEN "error" ELSE answer, Marks(E))
<1> DEFINE r == [Idle EXCEPT !.pc = "done", !.answer = answer, !.events = E]
           said == IF answer \in {"uniqueViolation", "deadlock"} THEN "error" ELSE answer
<1>1. r \in Transaction /\ Becomes(t, r)
  BY EndsParts
<1>2. /\ r.key = NoKey /\ r.batch = <<>> /\ r.expect = <<>> /\ r.answer = answer /\ r.events = E
  BY DEF Idle
<1> HIDE DEF r
<1>3. CallOf(r) = Contract!Answered(said, Marks(E))
  BY <1>2 DEF CallOf, Contract!Answered
<1> HIDE DEF said
<1>4. Calls' = [Calls EXCEPT ![t] = Contract!Answered(said, Marks(E))]
  BY <1>1, <1>3, CallsBecome
<1>5. Contract!Answer(t, said, Marks(E))
  BY <1>4 DEF Contract!Answer, Calls
<1> QED
  BY <1>5 DEF said

\* A transaction at work is a call that waits for its answer.
LEMMA AtWorkIsPending ==
  ASSUME StoreInv, NEW t \in Txs, tx[t].pc \notin {"idle", "done"}
  PROVE  Contract!Pending(t) /\ tx[t].batch \in Batches
<1>1. tx[t].batch \in Batches
  BY DEF StoreInv, TxConsistent
<1>2. tx[t].batch # <<>>
  BY <1>1, BatchesAssumption
<1> QED
  BY <1>1, <1>2, CallsParts DEF Contract!Pending, Calls

\* What an event of the batch finds, in the contract's words.
LEMMA CurrentIs ==
  ASSUME NEW t \in Txs, NEW i
  PROVE  Contract!Current(t, i) = rows[tx[t].batch[i]] + Earlier(tx[t].batch, i)
<1>1. Calls[t].batch = tx[t].batch
  BY CallsParts
<1>2. Contract!Current(t, i) =
        rows[Calls[t].batch[i]] +
           Contract!Cardinality({j \in 1 .. i - 1 : Calls[t].batch[j] = Calls[t].batch[i]})
  BY DEF Contract!Current, Calls
<1> QED
  BY <1>1, <1>2, SameCardinality DEF Earlier

LEMMA VersionsMatchIs ==
  ASSUME NEW t \in Txs
  PROVE  Contract!VersionsMatch(t) <=>
            \A i \in 1 .. Len(tx[t].batch) :
                tx[t].expect[i] \in {-1, rows[tx[t].batch[i]] + Earlier(tx[t].batch, i)}
<1>1. Calls[t].batch = tx[t].batch /\ Calls[t].expect = tx[t].expect
  BY CallsParts
<1>2. Contract!VersionsMatch(t) <=>
         \A i \in 1 .. Len(Calls[t].batch) : Calls[t].expect[i] \in {-1, Contract!Current(t, i)}
  BY DEF Contract!VersionsMatch, Contract!NoVersionCheck, Calls
<1> QED
  BY <1>1, <1>2, CurrentIs

\* The key of a transaction past its dedupe statements is not processed.
LEMMA KeyIsNew ==
  ASSUME StoreInv, NEW t \in Txs, tx[t].pc \in {"write", "commit"}
  PROVE  tx[t].key \notin keys
<1>1. tx[t].key \in Keys \cup {NoKey} /\ keys \subseteq Keys
  BY TxParts DEF StoreInv, TypeOK
<1>2. CASE tx[t].key = NoKey
  BY <1>1, <1>2, NoKeyAssumption
<1>3. CASE tx[t].key # NoKey
  <2>1. HoldsKey(t, tx[t].key) /\ tx[t].key \in Keys
    BY <1>1, <1>3 DEF HoldsKey
  <2> QED
    BY <2>1 DEF StoreInv, KeysExclude
<1> QED
  BY <1>2, <1>3

LEMMA BeginIsCall ==
  ASSUME StoreInv, CallsInv, NEW t \in Txs, NEW k \in Keys \cup {NoKey}, NEW b \in Batches, Begin(t, k, b)
  PROVE  Contract!Call(t)
<1>1. PICK r \in Transaction : Becomes(t, r) /\ JustBegun(r, k, b)
  BY BeginCall
<1>2. /\ TypeOK /\ r.expect \in Seq(Int) /\ r.batch = b /\ r.key = k
      /\ r.answer = "none" /\ r.events = {} /\ Len(r.expect) = Len(b)
  BY <1>1 DEF StoreInv, Transaction, JustBegun
<1>3. Calls' = [Calls EXCEPT ![t] = CallOf(r)]
  BY <1>1, <1>2, CallsBecome
<1>4. Marks({}) = {}
  BY DEF Marks
<1>5. CallOf(r) = [key |-> k, batch |-> b, expect |-> r.expect, events |-> {}, answer |-> "none"]
  BY <1>2, <1>4 DEF CallOf
<1>6. Calls'[t] = CallOf(r)
  BY <1>3 DEF Calls
<1>7. Calls' = [Calls EXCEPT ![t] = Calls'[t]]
  BY <1>3, <1>6
<1>8. tx[t] = Idle
  BY DEF Begin, CallsInv, CallInv
<1>9. Calls[t] = Contract!NoCall
  BY <1>8, CallsParts, NoCallIs
<1>10. CallOf(r) \in Contract!Request
  BY <1>2, <1>5 DEF Contract!Request
<1>11. CallOf(r).expect = r.expect /\ CallOf(r).batch = b
  BY <1>5
<1>12. rows' = rows /\ log' = log /\ keys' = keys
  BY DEF Begin, tables
<1>13. Len(Calls'[t].expect) = Len(Calls'[t].batch) /\ Calls'[t] \in Contract!Request
  BY <1>2, <1>6, <1>10, <1>11
<1> QED
  BY <1>7, <1>9, <1>12, <1>13 DEF Contract!Call, Contract!store, Calls

\* The link table gives a copy all its key's events back.
LEMMA DuplicateIsDuplicate ==
  ASSUME StoreInv, NEW t \in Txs, CheckKey(t), tx[t].key \in keys
  PROVE  Contract!Duplicate(t)
<1> DEFINE k == tx[t].key
           E == loadDedupeEvents(k)
<1>1. k \in Keys /\ TypeOK /\ log \subseteq Event
  BY DEF StoreInv, TypeOK
<1>2. E = {e \in log : e.key = k}
  <2>1. \A e \in log : e.key = k <=> <<k, e.seq>> \in links
    BY <1>1, LinksComplete DEF LinksAreComplete
  <2> QED
    BY <2>1 DEF loadDedupeEvents
<1>3. Marks(E) = {m \in Marks(log) : m.key = k}
  <2>1. \A e \in log : Mark(e).key = e.key
    BY DEF Mark
  <2> QED
    BY <1>2, <2>1 DEF Marks
<1>4. Ends(t, "duplicate", E) /\ UNCHANGED <<rows, log, keys>>
  BY DEF CheckKey, tables
<1>5. E \in SUBSET Event
  BY <1>1, <1>2
<1> HIDE DEF E
<1>6. Contract!Answer(t, "duplicate", Marks(E))
  BY <1>1, <1>4, <1>5, EndAnswers
<1>7. Contract!Pending(t)
  BY AtWorkIsPending DEF CheckKey
<1>8. Contract!Answer(t, "duplicate", {m \in Marks(log) : m.key = Calls[t].key})
  BY <1>3, <1>6, CallsParts
<1>9. Calls[t].key \in keys
  BY CallsParts
<1> QED
  BY <1>4, <1>7, <1>8, <1>9 DEF Contract!Duplicate, Contract!store, Calls

\* An end without effect: an error other than ErrVersionConflict.
LEMMA ErrorIsFails ==
  ASSUME StoreInv, NEW t \in Txs, tx[t].pc \notin {"idle", "done"},
         NEW answer \in {"uniqueViolation", "deadlock", "error"}, Rollback(t, answer), UNCHANGED tables
  PROVE  Contract!Fails(t)
<1>1. Contract!Pending(t)
  BY AtWorkIsPending
<1>2. TypeOK /\ Ends(t, answer, {}) /\ {} \in SUBSET Event
  BY DEF StoreInv, Rollback
<1>3. Marks({}) = {}
  BY DEF Marks
<1>4. Contract!Answer(t, "error", {})
  BY <1>2, <1>3, EndAnswers
<1>5. rows' = rows /\ log' = log /\ keys' = keys
  BY DEF tables
<1> QED
  BY <1>1, <1>4, <1>5 DEF Contract!Fails, Contract!store

\* ErrVersionConflict is said of a version that does not match when it is said.
LEMMA ConflictIsConflict ==
  ASSUME StoreInv, NEW t \in Txs, tx[t].pc = "write",
         tx[t].expect[Len(tx[t].writes) + 1] \notin {NoVersionCheck, SeenVersion(t, NextStream(t))},
         Rollback(t, "versionConflict"), UNCHANGED tables
  PROVE  Contract!Conflict(t)
<1>1. Contract!Pending(t)
  BY AtWorkIsPending
<1>2. TypeOK /\ Ends(t, "versionConflict", {}) /\ {} \in SUBSET Event
  BY DEF StoreInv, Rollback
<1>3. Marks({}) = {}
  BY DEF Marks
<1>4. Contract!Answer(t, "versionConflict", {})
  BY <1>2, <1>3, EndAnswers
<1>5. ~ Contract!VersionsMatch(t)
  BY SeenAtNext, VersionsMatchIs DEF NextStream, NoVersionCheck
<1>6. Calls[t].key \notin keys
  BY KeyIsNew, CallsParts
<1>7. rows' = rows /\ log' = log /\ keys' = keys
  BY DEF tables
<1> QED
  BY <1>1, <1>4, <1>5, <1>6, <1>7 DEF Contract!Conflict, Contract!store, Calls

\* A commit writes the whole batch on versions that match.
LEMMA CommitIsWrites ==
  ASSUME StoreInv, CallsInv, NEW t \in Txs, Commits(t),
         Ends(t, "ok", Written(t)) \/ Ends(t, "error", {})
  PROVE  Contract!Writes(t)
<1> DEFINE w == tx[t].writes
           b == tx[t].batch
<1>1. /\ tx[t].pc = "commit" /\ rows' = [s \in Streams |-> SeenVersion(t, s)]
      /\ log' = log \cup Written(t) /\ keys' = keys \cup ({tx[t].key} \ {NoKey})
  BY DEF Commits
<1>2. /\ TypeOK /\ Len(w) = Len(b) /\ \A i \in 1 .. Len(w) : w[i].stream = b[i]
      /\ \A e \in Written(t) : e.key = tx[t].key
      /\ b \in Seq(Streams) /\ Len(b) \in Nat /\ Written(t) \in SUBSET Event /\ w \in Seq(Event)
  BY <1>1, TxParts DEF StoreInv, TxConsistent
<1>3. Contract!Pending(t) /\ Calls[t].key \notin keys
  BY <1>1, AtWorkIsPending, KeyIsNew, CallsParts
<1>4. \A i \in 1 .. Len(b) : /\ w[i].version = rows[b[i]] + Earlier(b, i) + 1
                             /\ tx[t].expect[i] \in {NoVersionCheck, w[i].version - 1}
  BY <1>2 DEF CallsInv, WritesChecked
<1>5. Contract!VersionsMatch(t)
  <2>1. \A i \in 1 .. Len(b) : rows[b[i]] \in Nat /\ Earlier(b, i) \in Nat
    BY <1>2, EarlierType DEF TypeOK
  <2>2. \A i \in 1 .. Len(b) : w[i].version - 1 = rows[b[i]] + Earlier(b, i)
    BY <1>4, <2>1
  <2>3. \A i \in 1 .. Len(b) : tx[t].expect[i] \in {-1, rows[b[i]] + Earlier(b, i)}
    BY <1>4, <2>2 DEF NoVersionCheck
  <2> QED
    BY <2>3, VersionsMatchIs
<1>6. Marks(Written(t)) = Contract!Produced(t)
  <2> DEFINE P(i) == [stream |-> b[i], version |-> rows[b[i]] + Earlier(b, i) + 1, key |-> tx[t].key]
  <2>1. \A i \in 1 .. Len(b) : Mark(w[i]) = P(i)
    <3>1. \A i \in 1 .. Len(b) : w[i].key = tx[t].key
      BY <1>2 DEF Written
    <3> QED
      BY <1>2, <1>4, <3>1 DEF Mark
  <2>2. Marks(Written(t)) = {Mark(w[i]) : i \in 1 .. Len(b)}
    BY <1>2 DEF Marks, Written
  <2>3. Contract!Produced(t) =
           {[stream |-> Calls[t].batch[i], version |-> Contract!Current(t, i) + 1, key |-> Calls[t].key] :
               i \in 1 .. Len(Calls[t].batch)}
    BY DEF Contract!Produced, Calls
  <2>4. Contract!Produced(t) = {P(i) : i \in 1 .. Len(b)}
    BY <2>3, CallsParts, CurrentIs
  <2> HIDE DEF P
  <2> QED
    BY <2>1, <2>2, <2>4
<1>7. rows' = [s \in Streams |-> rows[s] +
          Contract!Cardinality({i \in 1 .. Len(Calls[t].batch) : Calls[t].batch[i] = s})]
  <2>1. ASSUME NEW s \in Streams
        PROVE  SeenVersion(t, s) = rows[s] +
                  Contract!Cardinality({i \in 1 .. Len(Calls[t].batch) : Calls[t].batch[i] = s})
    <3>1. OnStream(w, s) = {i \in 1 .. Len(b) : b[i] = s}
      BY <1>2 DEF OnStream
    <3> QED
      BY <3>1, SeenIsCount, SameCardinality, CallsParts
  <2> QED
    BY <1>1, <2>1
<1>8. Marks(log)' = Marks(log) \cup Contract!Produced(t)
  <2>1. Marks(log)' = Marks(log \cup Written(t))
    BY <1>1 DEF Marks
  <2>2. Marks(log \cup Written(t)) = Marks(log) \cup Marks(Written(t))
    BY DEF Marks
  <2> QED
    BY <1>6, <2>1, <2>2
<1>9. Contract!Answer(t, "ok", Contract!Produced(t)) \/ Contract!Answer(t, "error", {})
  <2>1. CASE Ends(t, "ok", Written(t))
    BY <1>2, <1>6, <2>1, EndAnswers
  <2>2. CASE Ends(t, "error", {})
    <3>1. Marks({}) = {} /\ {} \in SUBSET Event
      BY DEF Marks
    <3> QED
      BY <1>2, <2>2, <3>1, EndAnswers
  <2> QED
    BY <2>1, <2>2
<1>10. keys' = keys \cup ({Calls[t].key} \ {NoKey})
  BY <1>1, CallsParts
<1> QED
  BY <1>3, <1>5, <1>7, <1>8, <1>9, <1>10 DEF Contract!Writes, Calls

LEMMA ReturnIsReturn ==
  ASSUME StoreInv, CallsInv, NEW t \in Txs, Return(t)
  PROVE  Contract!Return(t)
<1>1. /\ TypeOK /\ Idle \in Transaction /\ Becomes(t, Idle)
      /\ rows' = rows /\ log' = log /\ keys' = keys
  BY DEF Return, StoreInv, Idle, Transaction, tables
<1>2. Calls' = [Calls EXCEPT ![t] = Contract!NoCall]
  BY <1>1, CallsBecome, NoCallIs
<1>3. tx[t].answer # "none"
  BY DEF Return, CallsInv, CallInv
<1>4. CallOf(tx[t]).answer =
         IF tx[t].answer \in {"uniqueViolation", "deadlock"} THEN "error" ELSE tx[t].answer
  BY DEF CallOf
<1>5. Calls[t].answer # "none"
  BY <1>3, <1>4, CallsParts
<1> QED
  BY <1>1, <1>2, <1>5 DEF Contract!Return, Contract!store, Calls

\* A statement that neither ends the call nor commits does not show.
LEMMA AtWorkStutters ==
  ASSUME TypeOK, NEW t \in Txs, NEW r \in Transaction, Becomes(t, r),
         r.key = tx[t].key, r.batch = tx[t].batch, r.expect = tx[t].expect,
         r.answer = tx[t].answer, r.events = tx[t].events
  PROVE  Calls' = Calls
<1>1. Calls' = [Calls EXCEPT ![t] = CallOf(r)]
  BY CallsBecome
<1>2. CallOf(r) = Calls[t]
  BY CallsParts DEF CallOf
<1> QED
  BY <1>1, <1>2 DEF Calls

\* What a step of Append is in the contract.
LEMMA StepIsContractStep ==
  ASSUME StoreInv, CallsInv, [Next]_vars
  PROVE  (\E t \in Txs : \/ Contract!Call(t) \/ Contract!Writes(t) \/ Contract!Duplicate(t)
                         \/ Contract!Conflict(t) \/ Contract!Fails(t) \/ Contract!Return(t))
         \/ UNCHANGED <<rows, log, keys, Calls>>
<1> DEFINE Step(t) == \/ Contract!Call(t) \/ Contract!Writes(t) \/ Contract!Duplicate(t)
                      \/ Contract!Conflict(t) \/ Contract!Fails(t) \/ Contract!Return(t)
           Same == UNCHANGED <<rows, log, keys, Calls>>
<1>0. TypeOK
  BY DEF StoreInv
<1>1. ASSUME NEW t \in Txs, NEW k \in Keys \cup {NoKey}, NEW b \in Batches, Begin(t, k, b) PROVE Step(t)
  BY <1>1, BeginIsCall
<1>2. ASSUME NEW t \in Txs, NEW pc \in {"insertKey", "write"}, Becomes(t, [tx[t] EXCEPT !.pc = pc]),
             UNCHANGED tables
      PROVE  Same
  <2> DEFINE r == [tx[t] EXCEPT !.pc = pc]
  <2>1. tx[t] \in Transaction
    BY <1>0, TxParts
  <2>2. /\ r \in Transaction /\ r.key = tx[t].key /\ r.batch = tx[t].batch /\ r.expect = tx[t].expect
        /\ r.answer = tx[t].answer /\ r.events = tx[t].events
    BY <2>1 DEF Transaction
  <2> HIDE DEF r
  <2>3. Calls' = Calls
    BY <1>0, <1>2, <2>2, AtWorkStutters DEF r
  <2> QED
    BY <1>2, <2>3 DEF tables
<1>3. ASSUME NEW t \in Txs, CheckKey(t) PROVE Step(t) \/ Same
  <2>1. CASE tx[t].key \in keys
    BY <1>3, <2>1, DuplicateIsDuplicate
  <2>2. CASE tx[t].key \notin keys
    BY <1>2, <1>3, <2>2 DEF CheckKey
  <2> QED
    BY <2>1, <2>2
<1>4. ASSUME NEW t \in Txs, InsertKey(t) PROVE Step(t) \/ Same
  <2>1. CASE tx[t].key \in keys
    BY <1>4, <2>1, ErrorIsFails DEF InsertKey
  <2>2. CASE tx[t].key \notin keys
    BY <1>2, <1>4, <2>2 DEF InsertKey
  <2> QED
    BY <2>1, <2>2
<1>5. ASSUME NEW t \in Txs, Write(t) PROVE Step(t) \/ Same
  <2> DEFINE passes == tx[t].expect[Len(tx[t].writes) + 1]
                            \in {NoVersionCheck, SeenVersion(t, NextStream(t))}
  <2>1. CASE ~ passes
    BY <1>5, <2>1, ConflictIsConflict DEF Write
  <2>2. CASE passes
    <3>1. Becomes(t, WithEvent(t, NextStream(t))) /\ UNCHANGED tables /\ tx[t].pc = "write"
      BY <1>5, <2>2 DEF Write
    <3>2. /\ WithEvent(t, NextStream(t)) \in Transaction
          /\ WithEvent(t, NextStream(t)).key = tx[t].key
          /\ WithEvent(t, NextStream(t)).batch = tx[t].batch
          /\ WithEvent(t, NextStream(t)).expect = tx[t].expect
          /\ WithEvent(t, NextStream(t)).answer = tx[t].answer
          /\ WithEvent(t, NextStream(t)).events = tx[t].events
      BY <3>1, WithEventParts
    <3>3. Calls' = Calls
      BY <1>0, <3>1, <3>2, AtWorkStutters
    <3> QED
      BY <3>1, <3>3 DEF tables
  <2> QED
    BY <2>1, <2>2
<1>6. ASSUME NEW t \in Txs, Commit(t) \/ CommitAckLost(t) PROVE Step(t)
  BY <1>6, CommitIsWrites DEF Commit, CommitAckLost, Rollback
<1>7. ASSUME NEW t \in Txs, Return(t) PROVE Step(t)
  BY <1>7, ReturnIsReturn
<1>8. ASSUME NEW t \in Txs, Deadlock(t) \/ Fails(t) PROVE Step(t)
  <2>1. tx[t].pc \notin {"idle", "done"}
    BY <1>8 DEF Deadlock, InCycle, WaitsFor, Fails
  <2> QED
    BY <1>8, <2>1, ErrorIsFails DEF Deadlock, Fails
<1>9. ASSUME Poll \/ UNCHANGED vars PROVE Same
  BY <1>9 DEF Poll, vars, tables, Calls
<1> HIDE DEF Step, Same
<1>10. (\E t \in Txs : Step(t)) \/ Same
  <2>1. CASE \E t \in Txs : \E k \in Keys \cup {NoKey} : \E b \in Batches : Begin(t, k, b)
    BY <1>1, <2>1
  <2>2. CASE \E t \in Txs : TxStep(t)
    BY <1>3, <1>4, <1>5, <1>6, <1>7, <1>8, <2>2 DEF TxStep
  <2>3. CASE \E t \in Txs : Fails(t) \/ CommitAckLost(t)
    BY <1>6, <1>8, <2>3
  <2> QED
    BY <1>9, <2>1, <2>2, <2>3 DEF Next
<1> QED
  BY <1>10 DEF Step, Same

\* The transactions of store.go implement eventstore.Store.Append as eventstore.go states
\* it: each call takes effect in one step, its whole batch at the versions it expected or
\* nothing; a key that was processed is answered duplicate with the events it wrote the
\* first time; ErrVersionConflict is said only of a version that does not match then;
\* whatever the interleaving, the rollbacks, the deadlocks and the lost answers.
THEOREM AppendIsAtomic == Spec => ImplementsContract
<1>1. Init => Contract!Init
  <2> SUFFICES ASSUME Init PROVE Contract!Init
    OBVIOUS
  <2>1. Marks({}) = {}
    BY DEF Marks
  <2>2. \A t \in Txs : CallOf(tx[t]) = Contract!NoCall
    BY NoCallIs DEF Init
  <2> QED
    BY <2>1, <2>2 DEF Init, Contract!Init
<1>2. StoreInv /\ CallsInv /\ [Next]_vars =>
         Contract!Next \/ UNCHANGED <<<<rows, Marks(log), keys>>, [t \in Txs |-> CallOf(tx[t])]>>
  <2> SUFFICES ASSUME StoreInv, CallsInv, [Next]_vars
               PROVE  Contract!Next \/ UNCHANGED <<<<rows, Marks(log), keys>>, Calls>>
    BY DEF Calls
  <2>1. CASE UNCHANGED <<rows, log, keys, Calls>>
    BY <2>1 DEF Marks
  <2> QED
    BY <2>1, StepIsContractStep DEF Contract!Next
<1> QED
  BY <1>1, <1>2, StoreInvHolds, CallsInvHolds, PTL DEF Spec, ImplementsContract, Contract!Spec, Contract!store
=============================================================================
