---------------------------- MODULE LedgerRules ----------------------------
(***************************************************************************)
(* The two event-sourced aggregates of internal/ledger as pure operators:  *)
(* the folded states of state.go, the replay of one stream (FoldAccount,   *)
(* FoldInventory) and the decision functions of decide.go.                 *)
(*                                                                         *)
(* An event is a record with at least the fields                           *)
(*    stream   (AggregateType and AggregateID together)                    *)
(*    version  (1-based position in its own stream)                        *)
(*    type     (EventType)                                                 *)
(*    amt      (the one number its JSON payload carries)                   *)
(* Reasons, order ids, timestamps and the JSON encoding are left out: no   *)
(* decision and no fold reads them.                                        *)
(***************************************************************************)
EXTENDS Integers, Sequences

CONSTANTS Accounts,   \* identifiers of "account" streams
          Items,      \* identifiers of "inventory_item" streams
          IntMax      \* largest value of the signed machine integer (int64)

ASSUME KindsAssumption == Accounts \cap Items = {}
ASSUME IntMaxAssumption == IntMax \in Nat \ {0}

-----------------------------------------------------------------------------
(* Machine integers: Go's int64 wraps silently on overflow.                *)

Int64 == -(IntMax + 1) .. IntMax

Wrap(x) == ((x + IntMax + 1) % (2 * (IntMax + 1))) - (IntMax + 1)

-----------------------------------------------------------------------------
(* Commands.                                                               *)

AccountOps == {"OpenAccount", "Deposit", "Withdraw", "Transfer"}
ItemOps == {"AdjustInventory", "ReserveStock", "ReleaseStock"}

\* A command names streams of the kind its handler loads, and a machine integer.
WellFormed(c) ==
    /\ c.amt \in Int64
    /\ \/ c.op \in AccountOps /\ c.stream \in Accounts /\ c.to \in Accounts
       \/ c.op \in ItemOps /\ c.stream \in Items

-----------------------------------------------------------------------------
(* Event types, folded states and the effect of one event.                 *)

AccountEventTypes == {"AccountOpened", "FundsDeposited", "FundsWithdrawn"}
ItemEventTypes == {"InventoryAdjusted", "StockReserved", "StockReleased"}

\* An event the folds can decode: its type belongs to the kind of its stream.
Decodable(e) ==
    /\ e.version \in Nat
    /\ e.amt \in Int64
    /\ e.type \in (IF e.stream \in Accounts THEN AccountEventTypes ELSE ItemEventTypes)

AccountState == [version : Nat, opened : BOOLEAN, balance : Int64]
InventoryState == [version : Nat, available : Int64, reserved : Int64]

\* Version 0 is "the stream does not exist yet".
EmptyState(s) ==
    IF s \in Accounts
    THEN [version |-> 0, opened |-> FALSE, balance |-> 0]
    ELSE [version |-> 0, available |-> 0, reserved |-> 0]

StateType(s) == IF s \in Accounts THEN AccountState ELSE InventoryState

\* One iteration of FoldAccount's loop.
ApplyAccount(st, e) ==
    CASE e.type = "AccountOpened" ->
            [version |-> e.version, opened |-> TRUE, balance |-> e.amt]
      [] e.type = "FundsDeposited" ->
            [version |-> e.version, opened |-> st.opened, balance |-> Wrap(st.balance + e.amt)]
      [] e.type = "FundsWithdrawn" ->
            [version |-> e.version, opened |-> st.opened, balance |-> Wrap(st.balance - e.amt)]

\* One iteration of FoldInventory's loop.
ApplyInventory(st, e) ==
    CASE e.type = "InventoryAdjusted" ->
            [version |-> e.version, available |-> Wrap(st.available + e.amt), reserved |-> st.reserved]
      [] e.type = "StockReserved" ->
            [version |-> e.version, available |-> Wrap(st.available - e.amt), reserved |-> Wrap(st.reserved + e.amt)]
      [] e.type = "StockReleased" ->
            [version |-> e.version, available |-> Wrap(st.available + e.amt), reserved |-> Wrap(st.reserved - e.amt)]

Apply(s, st, e) == IF s \in Accounts THEN ApplyAccount(st, e) ELSE ApplyInventory(st, e)

\* The folds run over what LoadStream returns: the log restricted to stream s.
\* Fold(s, log)[n] is the folded state of s after the first n events of the log.
Fold(s, log) ==
    LET f[n \in 0 .. Len(log)] ==
            IF n = 0 THEN EmptyState(s)
            ELSE IF log[n].stream = s THEN Apply(s, f[n-1], log[n])
            ELSE f[n-1]
    IN  f

-----------------------------------------------------------------------------
(* Decisions: "nil" when the command's event may be appended, otherwise    *)
(* the business-rule error, in the order the code tests for them.          *)

DecideOpenAccount(current, initialBalance) ==
    IF current.opened THEN "ErrAccountAlreadyOpened"
    ELSE IF initialBalance < 0 THEN "ErrInvalidAmount"
    ELSE "nil"

DecideDeposit(current, amount) ==
    IF ~ current.opened THEN "ErrAccountNotOpen"
    ELSE IF amount <= 0 THEN "ErrInvalidAmount"
    ELSE "nil"

DecideWithdraw(current, amount) ==
    IF ~ current.opened THEN "ErrAccountNotOpen"
    ELSE IF amount <= 0 THEN "ErrInvalidAmount"
    ELSE IF amount > current.balance THEN "ErrInsufficientFunds"
    ELSE "nil"

DecideAdjustInventory(current, delta) ==
    IF delta = 0 THEN "ErrInvalidQuantity"
    ELSE IF delta < 0 /\ Wrap(current.available + delta) < 0 THEN "ErrInsufficientStock"
    ELSE "nil"

DecideReserveStock(current, quantity) ==
    IF quantity <= 0 THEN "ErrInvalidQuantity"
    ELSE IF quantity > current.available THEN "ErrInsufficientStock"
    ELSE "nil"

\* Mutant: the release is bounded by the wrong quantity.
DecideReleaseStockMutAvailable(current, quantity) ==
    IF quantity <= 0 THEN "ErrInvalidQuantity"
    ELSE IF quantity > current.available THEN "ErrInsufficientStock"
    ELSE "nil"

DecideReleaseStock(current, quantity) ==
    IF quantity <= 0 THEN "ErrInvalidQuantity"
    ELSE IF quantity > current.reserved THEN "ErrInsufficientStock"
    ELSE "nil"

\* The decision that stands behind an event of the given type.
Decide(type, current, amt) ==
    CASE type = "AccountOpened"     -> DecideOpenAccount(current, amt)
      [] type = "FundsDeposited"    -> DecideDeposit(current, amt)
      [] type = "FundsWithdrawn"    -> DecideWithdraw(current, amt)
      [] type = "InventoryAdjusted" -> DecideAdjustInventory(current, amt)
      [] type = "StockReserved"     -> DecideReserveStock(current, amt)
      [] type = "StockReleased"     -> DecideReleaseStock(current, amt)

BusinessErrors ==
    {"ErrAccountAlreadyOpened", "ErrAccountNotOpen", "ErrInvalidAmount", "ErrInsufficientFunds",
     "ErrInvalidQuantity", "ErrInsufficientStock"}

-----------------------------------------------------------------------------
(* What a log must satisfy to be a serial history of legal decisions.      *)

\* The n-th event was decided on the state its stream really had at that point
\* of the log, and took the next version of that stream.
LegalAt(log, n) ==
    LET e == log[n]
        before == Fold(e.stream, log)[n-1]
    IN  /\ Decide(e.type, before, e.amt) = "nil"
        /\ e.version = before.version + 1

\* The quantities of a folded state, and whether they are all non-negative.
NonNegative(s, st) ==
    IF s \in Accounts THEN st.balance >= 0 ELSE st.available >= 0 /\ st.reserved >= 0

\* Adding the n-th event to its stream's state leaves the machine's range:
\* the only additions no decision bounds are credits.
OverflowsAt(log, n) ==
    LET e == log[n]
        before == Fold(e.stream, log)[n-1]
    IN  \/ e.type = "FundsDeposited" /\ before.balance + e.amt > IntMax
        \/ e.type \in {"InventoryAdjusted", "StockReleased"} /\ before.available + e.amt > IntMax
        \/ e.type = "StockReserved" /\ before.reserved + e.amt > IntMax
=============================================================================
