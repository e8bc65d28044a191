---------------------------- MODULE AtomicLedger ----------------------------
(***************************************************************************)
(* What the command layer promises, whatever the number of handlers, the   *)
(* retries, the crashes and the lost answers: the log grows as if every    *)
(* command that took effect had run alone, deciding on the state the log   *)
(* held at that very moment and writing all of its events in one step, and *)
(* a dedupe key takes effect at most once. This is the reading of          *)
(* service.go's doc comments (Withdraw "even under concurrent              *)
(* withdrawals", Transfer "atomically", Result.Duplicate), with no         *)
(* handlers, no versions to check and no retries.                          *)
(***************************************************************************)
EXTENDS LedgerRules

CONSTANTS Commands, NoKey

VARIABLES events,   \* the log
          used      \* dedupe keys that took effect

StateOf(s) == Fold(s, events)[Len(events)]

\* The event a decision adds to stream s, i places after the end of the log.
NewEvent(s, type, amt, key, i) ==
    [seq     |-> Len(events) + i,
     stream  |-> s,
     version |-> StateOf(s).version + 1,
     type    |-> type,
     amt     |-> amt,
     key     |-> key]

\* A command on one stream.
Single(c, type) ==
    /\ Decide(type, StateOf(c.stream), c.amt) = "nil"
    /\ events' = events \o <<NewEvent(c.stream, type, c.amt, c.key, 1)>>

\* Both legs of a transfer, or neither.
Transfer(c) ==
    /\ c.stream # c.to
    /\ DecideWithdraw(StateOf(c.stream), c.amt) = "nil"
    /\ DecideDeposit(StateOf(c.to), c.amt) = "nil"
    /\ events' = events \o <<NewEvent(c.stream, "FundsWithdrawn", c.amt, c.key, 1),
                             NewEvent(c.to, "FundsDeposited", c.amt, c.key, 2)>>

Execute(c) ==
    /\ c.key \notin used
    /\ used' = IF c.key = NoKey THEN used ELSE used \cup {c.key}
    /\ \/ c.op = "OpenAccount" /\ Single(c, "AccountOpened")
       \/ c.op = "Deposit" /\ Single(c, "FundsDeposited")
       \/ c.op = "Withdraw" /\ Single(c, "FundsWithdrawn")
       \/ c.op = "AdjustInventory" /\ Single(c, "InventoryAdjusted")
       \/ c.op = "ReserveStock" /\ Single(c, "StockReserved")
       \/ c.op = "ReleaseStock" /\ Single(c, "StockReleased")
       \/ c.op = "Transfer" /\ Transfer(c)

Init == events = <<>> /\ used = {}

Next == \E c \in Commands : Execute(c)

Spec == Init /\ [][Next]_<<events, used>>
=============================================================================
