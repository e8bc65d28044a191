-------------------------- MODULE MCLedgerService --------------------------
(***************************************************************************)
(* Small instances of LedgerService for TLC.                               *)
(***************************************************************************)
EXTENDS LedgerService, TLC

CONSTANTS a, b, i, k1, k2

Cmd(op, s, to, amt, key) == [op |-> op, stream |-> s, to |-> to, amt |-> amt, key |-> key]

\* Two accounts: withdrawals race each other and a transfer on the same balance, while
\* clients retry keyed commands through failing stores and crashes. k2 is (wrongly)
\* shared by two different commands, and a transfer may name one account twice.
AccountCommands ==
    {Cmd("OpenAccount", a, a, 2, k2), Cmd("OpenAccount", b, b, 1, NoKey),
     Cmd("Withdraw", a, a, 2, NoKey), Cmd("Deposit", a, a, 1, NoKey),
     Cmd("Transfer", a, b, 1, k1), Cmd("Withdraw", b, b, 1, k2), Cmd("Transfer", b, b, 1, NoKey)}

\* One item: stock comes in, is reserved, released and written off.
StockCommands ==
    {Cmd("AdjustInventory", i, i, 2, k1), Cmd("AdjustInventory", i, i, -1, NoKey),
     Cmd("ReserveStock", i, i, 2, NoKey), Cmd("ReleaseStock", i, i, 1, NoKey)}

\* One account that is opened, credited and debited.
HotCommands ==
    {Cmd("OpenAccount", a, a, 1, NoKey), Cmd("Deposit", a, a, 1, k1), Cmd("Withdraw", a, a, 1, NoKey)}

HandlerSymmetry == Permutations(Handlers)
=============================================================================
