------------------------- MODULE LedgerRulesProofs -------------------------
(***************************************************************************)
(* Facts about replaying a log, for logs of any length: the fold is well   *)
(* defined, it is computed event by event, it does not depend on what      *)
(* follows, and a serial, overflow-free log never folds to a negative      *)
(* quantity. And about reading it: a page of LoadSince is a run of         *)
(* consecutive events, and folding one event into a view is folding it     *)
(* into the state.                                                         *)
(***************************************************************************)
EXTENDS ReadModel, TLAPS, WellFoundedInduction

\* Every non-empty set of naturals has a least element: the form of induction
\* the lemmas below use (a least counterexample is impossible).
LEMMA LeastNat ==
  ASSUME NEW T \in SUBSET Nat, T # {}
  PROVE  \E m \in T : \A k \in T : m <= k
<1> DEFINE R == OpToRel(<, Nat)
<1>1. IsWellFoundedOn(R, Nat)
  BY NatLessThanWellFounded
<1>2. \A k, j \in Nat : k < j => <<k, j>> \in R
  BY DEF OpToRel
<1> HIDE DEF R
<1>3. PICK m \in T : \A k \in T : ~ (<<k, m>> \in R)
  BY <1>1, WFMin
<1>4. \A k \in T : ~ (k < m)
  BY <1>2, <1>3
<1> QED
  BY <1>4

\* The recursive function inside Fold exists, for any log, so Fold satisfies its
\* own recursion equation.
LEMMA FoldEquation ==
  ASSUME NEW s, NEW log, Len(log) \in Nat
  PROVE  Fold(s, log) =
           [n \in 0 .. Len(log) |->
              IF n = 0 THEN EmptyState(s)
              ELSE IF log[n].stream = s THEN Apply(s, Fold(s, log)[n-1], log[n])
              ELSE Fold(s, log)[n-1]]
<1> DEFINE Step(n, prev) == IF log[n].stream = s THEN Apply(s, prev, log[n]) ELSE prev
           Replay(g, m) == g = [n \in 0 .. m |-> IF n = 0 THEN EmptyState(s) ELSE Step(n, g[n-1])]
           T == {m \in Nat : ~ \E g : Replay(g, m)}
<1> HIDE DEF Step
<1>1. T = {}
  <2> SUFFICES ASSUME T # {} PROVE FALSE
    OBVIOUS
  <2>1. PICK m \in T : \A k \in T : m <= k
    BY LeastNat
  <2>2. CASE m = 0
    <3> DEFINE g == [n \in 0 .. 0 |-> EmptyState(s)]
    <3>1. Replay(g, 0)
      OBVIOUS
    <3> QED
      BY <2>1, <2>2, <3>1
  <2>3. CASE m # 0
    <3>1. m \in Nat /\ m - 1 \in Nat /\ ~ (m - 1 \in T)
      <4>1. T \subseteq Nat
        OBVIOUS
      <4> HIDE DEF T
      <4> QED
        BY <4>1, <2>1, <2>3
    <3>2. PICK g : Replay(g, m - 1)
      BY <3>1
    <3> DEFINE h == [n \in 0 .. m |-> IF n = m THEN Step(m, g[m-1]) ELSE g[n]]
    <3>3. Replay(h, m)
      <4>1. \A n \in 0 .. m : h[n] = IF n = 0 THEN EmptyState(s) ELSE Step(n, h[n-1])
        <5> SUFFICES ASSUME NEW n \in 0 .. m
                     PROVE  h[n] = IF n = 0 THEN EmptyState(s) ELSE Step(n, h[n-1])
          OBVIOUS
        <5>1. CASE n = m
          BY <5>1, <3>1, <2>3
        <5>2. CASE n # m
          <6>1. n \in 0 .. (m - 1) /\ h[n] = g[n]
            BY <5>2, <3>1
          <6>2. g[n] = IF n = 0 THEN EmptyState(s) ELSE Step(n, g[n-1])
            BY <6>1, <3>2
          <6>3. n # 0 => h[n-1] = g[n-1]
            BY <5>2, <3>1
          <6> QED
            BY <6>1, <6>2, <6>3
        <5> QED
          BY <5>1, <5>2
      <4> HIDE DEF h
      <4>2. h = [n \in 0 .. m |-> h[n]]
        BY DEF h
      <4> QED
        BY <4>1, <4>2
    <3> QED
      BY <2>1, <3>3
  <2> QED
    BY <2>2, <2>3
<1>2. PICK g : Replay(g, Len(log))
  BY <1>1
<1>3. Fold(s, log) = CHOOSE f : f = [n \in 0 .. Len(log) |->
                                 IF n = 0 THEN EmptyState(s) ELSE Step(n, f[n-1])]
  BY DEF Fold, Step
<1> QED
  BY <1>2, <1>3 DEF Step

\* The fold event by event.
LEMMA FoldStep ==
  ASSUME NEW s, NEW log, Len(log) \in Nat
  PROVE  /\ Fold(s, log)[0] = EmptyState(s)
         /\ \A n \in 1 .. Len(log) :
              Fold(s, log)[n] = IF log[n].stream = s
                                THEN Apply(s, Fold(s, log)[n-1], log[n])
                                ELSE Fold(s, log)[n-1]
<1> DEFINE F == Fold(s, log)
<1>1. F = [n \in 0 .. Len(log) |->
              IF n = 0 THEN EmptyState(s)
              ELSE IF log[n].stream = s THEN Apply(s, F[n-1], log[n])
              ELSE F[n-1]]
  BY FoldEquation
<1> HIDE DEF F
<1>2. F[0] = EmptyState(s)
  BY <1>1
<1>3. \A n \in 1 .. Len(log) :
         F[n] = IF log[n].stream = s THEN Apply(s, F[n-1], log[n]) ELSE F[n-1]
  <2> TAKE n \in 1 .. Len(log)
  <2>1. n \in 0 .. Len(log) /\ n # 0
    OBVIOUS
  <2> QED
    BY <1>1, <2>1
<1> QED
  BY <1>2, <1>3 DEF F

\* The state after n events depends on those n events only: appending to the log
\* never changes the past.
LEMMA FoldPrefix ==
  ASSUME NEW s, NEW log, NEW longer, Len(log) \in Nat, Len(longer) \in Nat,
         Len(log) <= Len(longer),
         \A n \in 1 .. Len(log) : longer[n] = log[n]
  PROVE  \A n \in 0 .. Len(log) : Fold(s, longer)[n] = Fold(s, log)[n]
<1> DEFINE F == Fold(s, log)
           G == Fold(s, longer)
           T == {n \in Nat : n <= Len(log) /\ G[n] # F[n]}
<1>1. /\ F[0] = EmptyState(s)
      /\ \A n \in 1 .. Len(log) :
           F[n] = IF log[n].stream = s THEN Apply(s, F[n-1], log[n]) ELSE F[n-1]
  BY FoldStep
<1>2. /\ G[0] = EmptyState(s)
      /\ \A n \in 1 .. Len(longer) :
           G[n] = IF longer[n].stream = s THEN Apply(s, G[n-1], longer[n]) ELSE G[n-1]
  BY FoldStep
<1> HIDE DEF F, G
<1>3. T = {}
  <2> SUFFICES ASSUME T # {} PROVE FALSE
    OBVIOUS
  <2>0. T \subseteq Nat
    OBVIOUS
  <2>1. PICK m \in T : \A k \in T : m <= k
    BY <2>0, LeastNat
  <2>2. m \in Nat /\ m <= Len(log) /\ G[m] # F[m]
    OBVIOUS
  <2>3. m # 0
    BY <2>2, <1>1, <1>2
  <2>4. m - 1 \in Nat /\ ~ (m - 1 \in T)
    <3> HIDE DEF T
    <3> QED
      BY <2>1, <2>2, <2>3
  <2>5. G[m-1] = F[m-1]
    BY <2>2, <2>4
  <2>6. m \in 1 .. Len(log) /\ m \in 1 .. Len(longer)
    BY <2>2, <2>3
  <2>7. longer[m] = log[m]
    BY <2>6
  <2> QED
    BY <2>2, <2>5, <2>6, <2>7, <1>1, <1>2
<1> QED
  BY <1>3 DEF F, G

-----------------------------------------------------------------------------
(* Types of replayed states.                                               *)

LEMMA WrapType == \A x \in Int : Wrap(x) \in Int64
  BY IntMaxAssumption DEF Wrap, Int64

LEMMA WrapInRange == \A x \in Int64 : Wrap(x) = x
  BY IntMaxAssumption DEF Wrap, Int64

LEMMA Int64IsInt == Int64 \subseteq Int /\ 0 \in Int64
  BY IntMaxAssumption DEF Int64

LEMMA EmptyStateType == ASSUME NEW s PROVE EmptyState(s) \in StateType(s)
  BY Int64IsInt DEF EmptyState, StateType, AccountState, InventoryState

LEMMA ApplyType ==
  ASSUME NEW s, NEW st \in StateType(s), NEW e, e.stream = s, Decodable(e)
  PROVE  Apply(s, st, e) \in StateType(s)
<1>1. CASE s \in Accounts
  <2>1. st.opened \in BOOLEAN /\ st.balance \in Int64
    BY <1>1 DEF StateType, AccountState
  <2>2. e.amt \in Int /\ st.balance \in Int
    BY <2>1, Int64IsInt DEF Decodable
  <2>3. Wrap(st.balance + e.amt) \in Int64 /\ Wrap(st.balance - e.amt) \in Int64
    BY <2>2, WrapType
  <2>4. e.type \in AccountEventTypes
    BY <1>1 DEF Decodable
  <2>5. ApplyAccount(st, e) \in AccountState
    BY <2>1, <2>3, <2>4 DEF ApplyAccount, AccountState, AccountEventTypes, Decodable
  <2> QED
    BY <1>1, <2>5 DEF Apply, StateType
<1>2. CASE s \notin Accounts
  <2>1. st.available \in Int64 /\ st.reserved \in Int64
    BY <1>2 DEF StateType, InventoryState
  <2>2. e.amt \in Int /\ st.available \in Int /\ st.reserved \in Int
    BY <2>1, Int64IsInt DEF Decodable
  <2>3. /\ Wrap(st.available + e.amt) \in Int64 /\ Wrap(st.available - e.amt) \in Int64
        /\ Wrap(st.reserved + e.amt) \in Int64 /\ Wrap(st.reserved - e.amt) \in Int64
    BY <2>2, WrapType
  <2>4. e.type \in ItemEventTypes
    BY <1>2 DEF Decodable
  <2>5. ApplyInventory(st, e) \in InventoryState
    BY <2>1, <2>3, <2>4 DEF ApplyInventory, InventoryState, ItemEventTypes, Decodable
  <2> QED
    BY <1>2, <2>5 DEF Apply, StateType
<1> QED
  BY <1>1, <1>2

LEMMA FoldType ==
  ASSUME NEW s, NEW log, Len(log) \in Nat, \A n \in 1 .. Len(log) : Decodable(log[n])
  PROVE  \A n \in 0 .. Len(log) : Fold(s, log)[n] \in StateType(s)
<1> DEFINE F == Fold(s, log)
           T == {n \in Nat : n <= Len(log) /\ F[n] \notin StateType(s)}
<1>1. /\ F[0] = EmptyState(s)
      /\ \A n \in 1 .. Len(log) :
           F[n] = IF log[n].stream = s THEN Apply(s, F[n-1], log[n]) ELSE F[n-1]
  BY FoldStep
<1> HIDE DEF F
<1>2. T = {}
  <2> SUFFICES ASSUME T # {} PROVE FALSE
    OBVIOUS
  <2>0. T \subseteq Nat
    OBVIOUS
  <2>1. PICK m \in T : \A k \in T : m <= k
    BY <2>0, LeastNat
  <2>2. m \in Nat /\ m <= Len(log) /\ F[m] \notin StateType(s)
    OBVIOUS
  <2>3. m # 0
    BY <2>2, <1>1, EmptyStateType
  <2>4. m - 1 \in Nat /\ ~ (m - 1 \in T)
    <3> HIDE DEF T
    <3> QED
      BY <2>1, <2>2, <2>3
  <2>5. F[m-1] \in StateType(s)
    BY <2>2, <2>4
  <2>6. m \in 1 .. Len(log)
    BY <2>2, <2>3
  <2>7. log[m].stream = s => Apply(s, F[m-1], log[m]) \in StateType(s)
    BY <2>5, <2>6, ApplyType
  <2> QED
    BY <2>2, <2>5, <2>6, <2>7, <1>1
<1> QED
  BY <1>2 DEF F

-----------------------------------------------------------------------------
(* One legal event that does not overflow keeps every quantity             *)
(* non-negative, and so does a whole log of them.                          *)

LEMMA LegalKeepsNonNegative ==
  ASSUME NEW e, Decodable(e),
         NEW st \in StateType(e.stream), NonNegative(e.stream, st),
         Decide(e.type, st, e.amt) = "nil",
         e.type = "FundsDeposited" => st.balance + e.amt <= IntMax,
         e.type \in {"InventoryAdjusted", "StockReleased"} => st.available + e.amt <= IntMax,
         e.type = "StockReserved" => st.reserved + e.amt <= IntMax
  PROVE  NonNegative(e.stream, Apply(e.stream, st, e))
<1>0. e.amt \in Int /\ IntMax \in Nat
  BY Int64IsInt, IntMaxAssumption DEF Decodable
<1>1. CASE e.stream \in Accounts
  <2>1. st.opened \in BOOLEAN /\ st.balance \in Int64 /\ st.balance >= 0 /\ st.balance \in Int
    BY <1>1, Int64IsInt DEF StateType, AccountState, NonNegative
  <2>2. e.type \in AccountEventTypes
    BY <1>1 DEF Decodable
  <2>3. CASE e.type = "AccountOpened"
    <3>1. e.amt >= 0
      BY <1>0, <2>3 DEF Decide, DecideOpenAccount
    <3>2. Apply(e.stream, st, e).balance = e.amt
      BY <1>1, <2>3 DEF Apply, ApplyAccount
    <3> QED
      BY <1>1, <3>1, <3>2 DEF NonNegative
  <2>4. CASE e.type = "FundsDeposited"
    <3>1. e.amt > 0
      BY <1>0, <2>4 DEF Decide, DecideDeposit
    <3>2. st.balance + e.amt \in Int64
      BY <1>0, <2>1, <2>4, <3>1 DEF Int64
    <3>3. Apply(e.stream, st, e).balance = st.balance + e.amt
      BY <1>1, <2>4, <3>2, WrapInRange DEF Apply, ApplyAccount
    <3> QED
      BY <1>0, <1>1, <2>1, <3>1, <3>3 DEF NonNegative
  <2>5. CASE e.type = "FundsWithdrawn"
    <3>1. e.amt > 0 /\ e.amt <= st.balance
      BY <1>0, <2>1, <2>5 DEF Decide, DecideWithdraw
    <3>2. st.balance - e.amt \in Int64
      BY <1>0, <2>1, <3>1 DEF Int64
    <3>3. Apply(e.stream, st, e).balance = st.balance - e.amt
      BY <1>1, <2>5, <3>2, WrapInRange DEF Apply, ApplyAccount
    <3> QED
      BY <1>0, <1>1, <2>1, <3>1, <3>3 DEF NonNegative
  <2> QED
    BY <2>2, <2>3, <2>4, <2>5 DEF AccountEventTypes
<1>2. CASE e.stream \notin Accounts
  <2>1. /\ st.available \in Int64 /\ st.available >= 0 /\ st.available \in Int
        /\ st.reserved \in Int64 /\ st.reserved >= 0 /\ st.reserved \in Int
    BY <1>2, Int64IsInt DEF StateType, InventoryState, NonNegative
  <2>2. e.type \in ItemEventTypes
    BY <1>2 DEF Decodable
  <2>3. CASE e.type = "InventoryAdjusted"
    <3>1. st.available + e.amt \in Int64
      BY <1>0, <2>1, <2>3 DEF Int64, Decodable
    <3>2. st.available + e.amt >= 0
      BY <1>0, <2>1, <2>3, <3>1, WrapInRange DEF Decide, DecideAdjustInventory
    <3>3. Apply(e.stream, st, e) = [version |-> e.version, available |-> st.available + e.amt, reserved |-> st.reserved]
      BY <1>2, <2>3, <3>1, WrapInRange DEF Apply, ApplyInventory
    <3> QED
      BY <1>2, <2>1, <3>2, <3>3 DEF NonNegative
  <2>4. CASE e.type = "StockReserved"
    <3>1. e.amt > 0 /\ e.amt <= st.available
      BY <1>0, <2>1, <2>4 DEF Decide, DecideReserveStock
    <3>2. st.available - e.amt \in Int64 /\ st.reserved + e.amt \in Int64
      BY <1>0, <2>1, <2>4, <3>1 DEF Int64
    <3>3. Apply(e.stream, st, e) = [version |-> e.version, available |-> st.available - e.amt, reserved |-> st.reserved + e.amt]
      BY <1>2, <2>4, <3>2, WrapInRange DEF Apply, ApplyInventory
    <3> QED
      BY <1>0, <1>2, <2>1, <3>1, <3>3 DEF NonNegative
  <2>5. CASE e.type = "StockReleased"
    <3>1. e.amt > 0 /\ e.amt <= st.reserved
      BY <1>0, <2>1, <2>5 DEF Decide, DecideReleaseStock
    <3>2. st.available + e.amt \in Int64 /\ st.reserved - e.amt \in Int64
      BY <1>0, <2>1, <2>5, <3>1 DEF Int64
    <3>3. Apply(e.stream, st, e) = [version |-> e.version, available |-> st.available + e.amt, reserved |-> st.reserved - e.amt]
      BY <1>2, <2>5, <3>2, WrapInRange DEF Apply, ApplyInventory
    <3> QED
      BY <1>0, <1>2, <2>1, <3>1, <3>3 DEF NonNegative
  <2> QED
    BY <2>2, <2>3, <2>4, <2>5 DEF ItemEventTypes
<1> QED
  BY <1>1, <1>2

\* A serial log without overflow is solvent at every point, for every stream:
\* the business rules suffice, and only overflow can defeat them.
LEMMA SerialLogIsSolvent ==
  ASSUME NEW s, NEW log, Len(log) \in Nat,
         \A n \in 1 .. Len(log) : Decodable(log[n]),
         \A n \in 1 .. Len(log) : LegalAt(log, n),
         \A n \in 1 .. Len(log) : ~ OverflowsAt(log, n)
  PROVE  \A n \in 0 .. Len(log) : NonNegative(s, Fold(s, log)[n])
<1> DEFINE F == Fold(s, log)
           T == {n \in Nat : n <= Len(log) /\ ~ NonNegative(s, F[n])}
<1>1. /\ F[0] = EmptyState(s)
      /\ \A n \in 1 .. Len(log) :
           F[n] = IF log[n].stream = s THEN Apply(s, F[n-1], log[n]) ELSE F[n-1]
  BY FoldStep
<1>2. \A n \in 0 .. Len(log) : F[n] \in StateType(s)
  BY FoldType
<1>3. \A n \in 1 .. Len(log) : log[n].stream = s =>
         /\ Decide(log[n].type, F[n-1], log[n].amt) = "nil"
         /\ ~ (log[n].type = "FundsDeposited" /\ F[n-1].balance + log[n].amt > IntMax)
         /\ ~ (log[n].type \in {"InventoryAdjusted", "StockReleased"} /\ F[n-1].available + log[n].amt > IntMax)
         /\ ~ (log[n].type = "StockReserved" /\ F[n-1].reserved + log[n].amt > IntMax)
  BY DEF LegalAt, OverflowsAt
<1> HIDE DEF F
<1>4. NonNegative(s, F[0])
  BY <1>1 DEF EmptyState, NonNegative
<1>5. T = {}
  <2> SUFFICES ASSUME T # {} PROVE FALSE
    OBVIOUS
  <2>0. T \subseteq Nat
    OBVIOUS
  <2>1. PICK m \in T : \A k \in T : m <= k
    BY <2>0, LeastNat
  <2>2. m \in Nat /\ m <= Len(log) /\ ~ NonNegative(s, F[m])
    OBVIOUS
  <2>3. m # 0
    BY <2>2, <1>4
  <2>4. m - 1 \in Nat /\ ~ (m - 1 \in T)
    <3> HIDE DEF T
    <3> QED
      BY <2>1, <2>2, <2>3
  <2>5. NonNegative(s, F[m-1])
    BY <2>2, <2>4
  <2>6. m \in 1 .. Len(log) /\ m - 1 \in 0 .. Len(log)
    BY <2>2, <2>3
  <2>7. log[m].stream = s
    BY <2>2, <2>5, <2>6, <1>1
  <2> DEFINE e == log[m]
             st == F[m-1]
  <2>8. Decodable(e) /\ st \in StateType(e.stream) /\ NonNegative(e.stream, st)
    BY <2>5, <2>6, <2>7, <1>2
  <2>9. /\ Decide(e.type, st, e.amt) = "nil"
        /\ ~ (e.type = "FundsDeposited" /\ st.balance + e.amt > IntMax)
        /\ ~ (e.type \in {"InventoryAdjusted", "StockReleased"} /\ st.available + e.amt > IntMax)
        /\ ~ (e.type = "StockReserved" /\ st.reserved + e.amt > IntMax)
    BY <2>6, <2>7, <1>3
  <2>10. F[m] = Apply(e.stream, st, e)
    BY <2>6, <2>7, <1>1
  <2> HIDE DEF e, st
  <2>11. e.amt \in Int /\ IntMax \in Nat
    BY <2>8, Int64IsInt, IntMaxAssumption DEF Decodable
  <2>12. e.type = "FundsDeposited" => st.balance + e.amt <= IntMax
    <3> SUFFICES ASSUME e.type = "FundsDeposited" PROVE st.balance + e.amt <= IntMax
      OBVIOUS
    <3>1. st.balance \in Int
      BY <2>8, Int64IsInt DEF StateType, AccountState, Decodable, AccountEventTypes, ItemEventTypes
    <3> QED
      BY <2>9, <2>11, <3>1
  <2>13. e.type \in {"InventoryAdjusted", "StockReleased", "StockReserved"}
            => st.available \in Int /\ st.reserved \in Int
    BY <2>8, Int64IsInt DEF StateType, InventoryState, Decodable, AccountEventTypes, ItemEventTypes
  <2>14. e.type \in {"InventoryAdjusted", "StockReleased"} => st.available + e.amt <= IntMax
    BY <2>9, <2>11, <2>13
  <2>15. e.type = "StockReserved" => st.reserved + e.amt <= IntMax
    BY <2>9, <2>11, <2>13
  <2>16. NonNegative(e.stream, Apply(e.stream, st, e))
    BY <2>8, <2>9, <2>12, <2>14, <2>15, LegalKeepsNonNegative
  <2> QED
    BY <2>2, <2>7, <2>10, <2>16 DEF e
<1> QED
  BY <1>5 DEF F

\* In a serial log an account stream begins with its opening: whatever has a version is open.
LEMMA SerialAccountsOpen ==
  ASSUME NEW s \in Accounts, NEW log, Len(log) \in Nat,
         \A n \in 1 .. Len(log) : Decodable(log[n]),
         \A n \in 1 .. Len(log) : LegalAt(log, n)
  PROVE  \A n \in 0 .. Len(log) : Fold(s, log)[n].opened \/ Fold(s, log)[n].version = 0
<1> DEFINE F == Fold(s, log)
           Bad(st) == ~ st.opened /\ st.version # 0
           T == {n \in Nat : n <= Len(log) /\ Bad(F[n])}
<1>1. /\ F[0] = EmptyState(s)
      /\ \A n \in 1 .. Len(log) :
           F[n] = IF log[n].stream = s THEN Apply(s, F[n-1], log[n]) ELSE F[n-1]
  BY FoldStep
<1>2. \A n \in 1 .. Len(log) : log[n].stream = s => Decide(log[n].type, F[n-1], log[n].amt) = "nil"
  BY DEF LegalAt
<1> HIDE DEF F
<1>3. T = {}
  <2> SUFFICES ASSUME T # {} PROVE FALSE
    OBVIOUS
  <2>0. T \subseteq Nat
    OBVIOUS
  <2>1. PICK m \in T : \A k \in T : m <= k
    BY <2>0, LeastNat
  <2>2. m \in Nat /\ m <= Len(log) /\ Bad(F[m])
    OBVIOUS
  <2>3. m # 0
    BY <1>1, <2>2 DEF EmptyState
  <2>4. m - 1 \in Nat /\ ~ (m - 1 \in T)
    <3> HIDE DEF T
    <3> QED
      BY <2>1, <2>2, <2>3
  <2>5. ~ Bad(F[m-1])
    BY <2>2, <2>4
  <2>6. m \in 1 .. Len(log)
    BY <2>2, <2>3
  <2>7. log[m].stream = s /\ F[m] = ApplyAccount(F[m-1], log[m])
    BY <1>1, <2>2, <2>5, <2>6 DEF Apply
  <2>8. log[m].type \in AccountEventTypes /\ Decide(log[m].type, F[m-1], log[m].amt) = "nil"
    BY <1>2, <2>6, <2>7 DEF Decodable
  <2>9. PICK st, e : st = F[m-1] /\ e = log[m]
    OBVIOUS
  <2>10. e.type = "AccountOpened" \/ st.opened
    BY <2>8, <2>9 DEF AccountEventTypes, Decide, DecideDeposit, DecideWithdraw
  <2>11. ApplyAccount(st, e).opened
    BY <2>8, <2>9, <2>10 DEF AccountEventTypes, ApplyAccount
  <2> QED
    BY <2>2, <2>7, <2>9, <2>11
<1>4. ASSUME NEW n \in 0 .. Len(log) PROVE ~ Bad(F[n])
  BY <1>3
<1> QED
  BY <1>4 DEF F

-----------------------------------------------------------------------------
(* Growing the log.                                                        *)

\* What one more event changes, and what it leaves alone.
LEMMA FoldAppend ==
  ASSUME NEW E, NEW log \in Seq(E), NEW e \in E
  PROVE  LET longer == log \o <<e>> IN
         /\ longer \in Seq(E)
         /\ Len(longer) = Len(log) + 1
         /\ longer[Len(longer)] = e
         /\ \A n \in 1 .. Len(log) : longer[n] = log[n]
         /\ \A s : \A n \in 0 .. Len(log) : Fold(s, longer)[n] = Fold(s, log)[n]
         /\ \A s : Fold(s, longer)[Len(longer)] =
                     IF e.stream = s THEN Apply(s, Fold(s, log)[Len(log)], e)
                     ELSE Fold(s, log)[Len(log)]
         /\ \A n \in 1 .. Len(log) : LegalAt(log, n) => LegalAt(longer, n)
         /\ LegalAt(longer, Len(longer)) <=>
               /\ Decide(e.type, Fold(e.stream, log)[Len(log)], e.amt) = "nil"
               /\ e.version = Fold(e.stream, log)[Len(log)].version + 1
<1> DEFINE longer == log \o <<e>>
<1>1. longer \in Seq(E) /\ Len(longer) = Len(log) + 1 /\ Len(log) \in Nat /\ Len(longer) \in Nat
  OBVIOUS
<1>2. longer[Len(longer)] = e /\ \A n \in 1 .. Len(log) : longer[n] = log[n]
  OBVIOUS
<1> HIDE DEF longer
<1>3. \A s : \A n \in 0 .. Len(log) : Fold(s, longer)[n] = Fold(s, log)[n]
  BY <1>1, <1>2, FoldPrefix
<1>4. ASSUME NEW s
      PROVE  Fold(s, longer)[Len(longer)] =
                     IF e.stream = s THEN Apply(s, Fold(s, log)[Len(log)], e)
                     ELSE Fold(s, log)[Len(log)]
  <2>1. Len(longer) \in 1 .. Len(longer) /\ Len(longer) - 1 = Len(log) /\ Len(log) \in 0 .. Len(log)
    BY <1>1
  <2>2. Fold(s, longer)[Len(longer)] =
            IF longer[Len(longer)].stream = s
            THEN Apply(s, Fold(s, longer)[Len(longer) - 1], longer[Len(longer)])
            ELSE Fold(s, longer)[Len(longer) - 1]
    BY <2>1, <1>1, FoldStep, SMTT(30)
  <2> QED
    BY <2>1, <2>2, <1>2, <1>3
<1>5. ASSUME NEW n \in 1 .. Len(log), LegalAt(log, n)
      PROVE  LegalAt(longer, n)
  <2>1. n - 1 \in 0 .. Len(log)
    BY <1>1
  <2> QED
    BY <1>2, <1>3, <1>5, <2>1 DEF LegalAt
<1>6. LegalAt(longer, Len(longer)) <=>
               /\ Decide(e.type, Fold(e.stream, log)[Len(log)], e.amt) = "nil"
               /\ e.version = Fold(e.stream, log)[Len(log)].version + 1
  <2>1. Len(longer) - 1 = Len(log) /\ Len(log) \in 0 .. Len(log)
    BY <1>1
  <2> QED
    BY <1>2, <1>3, <2>1 DEF LegalAt
<1> QED
  BY <1>1, <1>2, <1>3, <1>4, <1>5, <1>6 DEF longer

-----------------------------------------------------------------------------
(* Reading the log.                                                        *)

\* The loop of LoadSince, event by event: page[n] is what it has collected after n events.
LEMMA LoadSinceEquation ==
  ASSUME NEW log, Len(log) \in Nat, NEW after, NEW limit
  PROVE  \E page :
           /\ LoadSince(log, after, limit) = page[Len(log)]
           /\ page[0] = <<>>
           /\ \A n \in 1 .. Len(log) :
                page[n] = IF log[n].seq > after /\ (limit > 0 => Len(page[n-1]) < limit)
                          THEN Append(page[n-1], log[n]) ELSE page[n-1]
<1> DEFINE Step(n, prev) == IF log[n].seq > after /\ (limit > 0 => Len(prev) < limit)
                            THEN Append(prev, log[n]) ELSE prev
           Loop(g, m) == g = [n \in 0 .. m |-> IF n = 0 THEN <<>> ELSE Step(n, g[n-1])]
           T == {m \in Nat : ~ \E g : Loop(g, m)}
<1> HIDE DEF Step
<1>1. T = {}
  <2> SUFFICES ASSUME T # {} PROVE FALSE
    OBVIOUS
  <2>1. PICK m \in T : \A k \in T : m <= k
    BY LeastNat
  <2>2. CASE m = 0
    <3> DEFINE g == [n \in 0 .. 0 |-> <<>>]
    <3>1. Loop(g, 0)
      OBVIOUS
    <3> QED
      BY <2>1, <2>2, <3>1
  <2>3. CASE m # 0
    <3>1. m \in Nat /\ m - 1 \in Nat /\ ~ (m - 1 \in T)
      <4>1. T \subseteq Nat
        OBVIOUS
      <4> HIDE DEF T
      <4> QED
        BY <4>1, <2>1, <2>3
    <3>2. PICK g : Loop(g, m - 1)
      BY <3>1
    <3> DEFINE h == [n \in 0 .. m |-> IF n = m THEN Step(m, g[m-1]) ELSE g[n]]
    <3>3. Loop(h, m)
      <4>1. \A n \in 0 .. m : h[n] = IF n = 0 THEN <<>> ELSE Step(n, h[n-1])
        <5> SUFFICES ASSUME NEW n \in 0 .. m
                     PROVE  h[n] = IF n = 0 THEN <<>> ELSE Step(n, h[n-1])
          OBVIOUS
        <5>1. CASE n = m
          BY <5>1, <3>1, <2>3
        <5>2. CASE n # m
          <6>1. n \in 0 .. (m - 1) /\ h[n] = g[n]
            BY <5>2, <3>1
          <6>2. g[n] = IF n = 0 THEN <<>> ELSE Step(n, g[n-1])
            BY <6>1, <3>2
          <6>3. n # 0 => h[n-1] = g[n-1]
            BY <5>2, <3>1
          <6> QED
            BY <6>1, <6>2, <6>3
        <5> QED
          BY <5>1, <5>2
      <4> HIDE DEF h
      <4>2. h = [n \in 0 .. m |-> h[n]]
        BY DEF h
      <4> QED
        BY <4>1, <4>2
    <3> QED
      BY <2>1, <3>3
  <2> QED
    BY <2>2, <2>3
<1> DEFINE page == CHOOSE f : Loop(f, Len(log))
<1>2. Loop(page, Len(log))
  BY <1>1
<1>3. LoadSince(log, after, limit) = page[Len(log)]
  BY DEF LoadSince, Step
<1> HIDE DEF page
<1>4. page[0] = <<>>
  BY <1>2
<1>5. \A n \in 1 .. Len(log) : page[n] = Step(n, page[n-1])
  <2> TAKE n \in 1 .. Len(log)
  <2>1. n \in 0 .. Len(log) /\ n # 0
    OBVIOUS
  <2> QED
    BY <1>2, <2>1
<1> QED
  BY <1>3, <1>4, <1>5 DEF Step

\* Of a log whose sequence numbers are positions, a page is the run of events that
\* follows "after": none is skipped, none comes twice, and none is out of order.
LEMMA LoadSinceIsNext ==
  ASSUME NEW E, NEW log \in Seq(E), \A n \in 1 .. Len(log) : log[n].seq = n,
         NEW after \in Nat, NEW limit \in Nat \ {0}
  PROVE  LET page == LoadSince(log, after, limit) IN
         /\ page \in Seq(E)
         /\ \A i \in 1 .. Len(page) : after + i <= Len(log) /\ page[i] = log[after + i]
         /\ Len(page) <= limit
         /\ Len(page) < limit => after + Len(page) >= Len(log)
<1>0. Len(log) \in Nat
  OBVIOUS
<1>1. PICK page :
           /\ LoadSince(log, after, limit) = page[Len(log)]
           /\ page[0] = <<>>
           /\ \A n \in 1 .. Len(log) :
                page[n] = IF log[n].seq > after /\ (limit > 0 => Len(page[n-1]) < limit)
                          THEN Append(page[n-1], log[n]) ELSE page[n-1]
  BY <1>0, LoadSinceEquation
<1> DEFINE Good(n) == /\ page[n] \in Seq(E)
                      /\ \A i \in 1 .. Len(page[n]) : after + i <= n /\ page[n][i] = log[after + i]
                      /\ Len(page[n]) <= limit
                      /\ Len(page[n]) < limit => after + Len(page[n]) >= n
           T == {n \in Nat : n <= Len(log) /\ ~ Good(n)}
<1>2. Good(0)
  BY <1>1
<1>3. ASSUME NEW m \in 1 .. Len(log), Good(m - 1) PROVE Good(m)
  <2> DEFINE prev == page[m-1]
  <2>1. /\ prev \in Seq(E) /\ Len(prev) \in Nat
        /\ \A i \in 1 .. Len(prev) : after + i <= m - 1 /\ prev[i] = log[after + i]
        /\ Len(prev) <= limit
        /\ Len(prev) < limit => after + Len(prev) >= m - 1
    BY <1>3
  <2>2. log[m] \in E /\ log[m].seq = m
    OBVIOUS
  <2>3. page[m] = IF m > after /\ Len(prev) < limit THEN Append(prev, log[m]) ELSE prev
    BY <1>1, <2>2
  <2> HIDE DEF prev, Good
  <2>4. CASE m > after /\ Len(prev) < limit
    <3>1. after + Len(prev) = m - 1
      <4>1. CASE Len(prev) = 0
        BY <2>1, <2>4, <4>1
      <4>2. CASE Len(prev) # 0
        <5>1. Len(prev) \in 1 .. Len(prev)
          BY <2>1, <4>2
        <5>2. after + Len(prev) <= m - 1
          BY <2>1, <5>1
        <5>3. after + Len(prev) >= m - 1 /\ Len(prev) \in Nat
          BY <2>1, <2>4
        <5> QED
          BY <5>2, <5>3
      <4> QED
        BY <4>1, <4>2
    <3> DEFINE next == Append(prev, log[m])
    <3>2. /\ next \in Seq(E) /\ Len(next) = Len(prev) + 1 /\ next[Len(prev) + 1] = log[m]
          /\ \A i \in 1 .. Len(prev) : next[i] = prev[i]
      BY <2>1, <2>2
    <3>3. page[m] = next
      BY <2>3, <2>4
    <3> HIDE DEF next
    <3>4. ASSUME NEW i \in 1 .. Len(next) PROVE after + i <= m /\ next[i] = log[after + i]
      <4>1. CASE i \in 1 .. Len(prev)
        BY <2>1, <3>2, <4>1
      <4>2. CASE i = Len(prev) + 1
        BY <2>1, <3>1, <3>2, <4>2
      <4> QED
        BY <2>1, <3>2, <4>1, <4>2
    <3>5. Len(next) <= limit /\ after + Len(next) >= m
      BY <2>1, <2>4, <3>1, <3>2
    <3> QED
      BY <3>2, <3>3, <3>4, <3>5 DEF Good
  <2>5. CASE ~ (m > after /\ Len(prev) < limit)
    <3>1. page[m] = prev
      BY <2>3, <2>5
    <3>2. \A i \in 1 .. Len(prev) : after + i <= m /\ prev[i] = log[after + i]
      BY <2>1
    <3>3. Len(prev) < limit => after + Len(prev) >= m
      BY <2>1, <2>5
    <3> QED
      BY <2>1, <3>1, <3>2, <3>3 DEF Good
  <2> QED
    BY <2>4, <2>5
<1> HIDE DEF Good
<1>4. T = {}
  <2> SUFFICES ASSUME T # {} PROVE FALSE
    OBVIOUS
  <2>0. T \subseteq Nat
    OBVIOUS
  <2>1. PICK m \in T : \A k \in T : m <= k
    BY <2>0, LeastNat
  <2>2. m \in Nat /\ m <= Len(log) /\ ~ Good(m)
    OBVIOUS
  <2>3. m # 0
    BY <2>2, <1>2
  <2>4. m - 1 \in Nat /\ ~ (m - 1 \in T)
    <3> HIDE DEF T
    <3> QED
      BY <2>1, <2>2, <2>3
  <2>5. Good(m - 1)
    BY <1>0, <2>2, <2>4
  <2>6. m \in 1 .. Len(log)
    BY <1>0, <2>2, <2>3
  <2> QED
    BY <1>3, <2>2, <2>5, <2>6
<1>5. Good(Len(log))
  BY <1>0, <1>4
<1> QED
  BY <1>1, <1>5 DEF Good

-----------------------------------------------------------------------------
(* Views.                                                                  *)

LEMMA ZeroViewType ==
  ASSUME NEW s
  PROVE  ZeroView(s) \in ViewType(s) /\ ZeroView(s) = ViewOf(s, EmptyState(s))
  BY Int64IsInt DEF ZeroView, ViewType, ViewOf, EmptyState, AccountView, InventoryView

LEMMA ApplyViewType ==
  ASSUME NEW e, Decodable(e), NEW view \in ViewType(e.stream)
  PROVE  ApplyView(ProjectorOf(e.stream), view, e) \in ViewType(e.stream)
<1>1. CASE e.stream \in Accounts
  <2>1. view.balance \in Int /\ e.amt \in Int64 /\ e.amt \in Int /\ e.version \in Nat
    BY <1>1, Int64IsInt DEF ViewType, AccountView, Decodable
  <2>2. Wrap(view.balance + e.amt) \in Int64 /\ Wrap(view.balance - e.amt) \in Int64
    BY <2>1, WrapType
  <2>3. e.type \in AccountEventTypes
    BY <1>1 DEF Decodable
  <2>4. ApplyAccountView(view, e) \in AccountView
    BY <2>1, <2>2, <2>3 DEF ApplyAccountView, AccountView, AccountEventTypes
  <2> QED
    BY <1>1, <2>4 DEF ApplyView, ProjectorOf, ViewType
<1>2. CASE e.stream \notin Accounts
  <2>1. /\ view \in InventoryView
        /\ view.available \in Int64 /\ view.reserved \in Int64
        /\ view.available \in Int /\ view.reserved \in Int
        /\ e.amt \in Int /\ e.version \in Nat
    BY <1>2, Int64IsInt DEF ViewType, InventoryView, Decodable
  <2>2. /\ Wrap(view.available + e.amt) \in Int64 /\ Wrap(view.available - e.amt) \in Int64
        /\ Wrap(view.reserved + e.amt) \in Int64 /\ Wrap(view.reserved - e.amt) \in Int64
    BY <2>1, WrapType
  <2>3. e.type \in ItemEventTypes
    BY <1>2 DEF Decodable
  <2>4. ApplyInventoryView(view, e) \in InventoryView
    BY <2>1, <2>2, <2>3 DEF ApplyInventoryView, InventoryView, ItemEventTypes
  <2> QED
    BY <1>2, <2>4 DEF ApplyView, ProjectorOf, ViewType
<1> QED
  BY <1>1, <1>2

\* The applier and the fold do the same to their part of the state.
LEMMA ApplyViewIsApply ==
  ASSUME NEW e, Decodable(e), NEW st \in StateType(e.stream)
  PROVE  ApplyView(ProjectorOf(e.stream), ViewOf(e.stream, st), e)
            = ViewOf(e.stream, Apply(e.stream, st, e))
<1>1. CASE e.stream \in Accounts
  <2>1. e.type \in AccountEventTypes
    BY <1>1 DEF Decodable
  <2> QED
    BY <1>1, <2>1 DEF ApplyView, ProjectorOf, ViewOf, Apply, ApplyAccountView, ApplyAccount, AccountEventTypes
<1>2. CASE e.stream \notin Accounts
  <2>1. e.type \in ItemEventTypes
    BY <1>2 DEF Decodable
  <2> DEFINE v == [version |-> st.version, available |-> st.available, reserved |-> st.reserved]
             a == ApplyInventory(st, e)
  <2>2. ApplyInventoryView(v, e) = a
    <3>1. CASE e.type = "InventoryAdjusted"
      <4>1. [v EXCEPT !.version = e.version, !.available = Wrap(@ + e.amt)]
               = [version |-> e.version, available |-> Wrap(st.available + e.amt), reserved |-> st.reserved]
        <5>1. v \in InventoryView /\ v.available = st.available /\ v.reserved = st.reserved
          BY <1>2 DEF StateType, InventoryState, InventoryView
        <5>2. st.available \in Int64 /\ e.amt \in Int64 /\ e.version \in Nat
          BY <1>2 DEF StateType, InventoryState, Decodable
        <5>3. Wrap(st.available + e.amt) \in Int64
          <6>1. st.available \in Int /\ e.amt \in Int
            BY <5>2, Int64IsInt
          <6> QED
            BY <6>1, WrapType
        <5> HIDE DEF v
        <5> DEFINE r == [v EXCEPT !.version = e.version, !.available = Wrap(@ + e.amt)]
        <5>4. /\ r \in InventoryView
              /\ r.version = e.version /\ r.available = Wrap(st.available + e.amt) /\ r.reserved = st.reserved
          BY <5>1, <5>2, <5>3 DEF InventoryView
        <5> HIDE DEF r
        <5>5. r = [version |-> r.version, available |-> r.available, reserved |-> r.reserved]
          BY <5>4 DEF InventoryView
        <5> QED
          BY <5>4, <5>5 DEF r
      <4>2. ApplyInventoryView(v, e) = [v EXCEPT !.version = e.version, !.available = Wrap(@ + e.amt)]
        BY <3>1, Zenon DEF ApplyInventoryView
      <4>3. a = [version |-> e.version, available |-> Wrap(st.available + e.amt), reserved |-> st.reserved]
        BY <3>1, Zenon DEF ApplyInventory
      <4> QED
        BY <4>1, <4>2, <4>3, Zenon
    <3>2. CASE e.type \in {"StockReserved", "StockReleased"}
      BY <3>2 DEF ApplyInventoryView, ApplyInventory
    <3> QED
      BY <2>1, <3>1, <3>2 DEF ItemEventTypes
  <2>3. [version |-> a.version, available |-> a.available, reserved |-> a.reserved] = a
    BY <2>1 DEF ApplyInventory, ItemEventTypes
  <2> QED
    BY <1>2, <2>2, <2>3 DEF ApplyView, ProjectorOf, ViewOf, Apply
<1> QED
  BY <1>1, <1>2
=============================================================================
