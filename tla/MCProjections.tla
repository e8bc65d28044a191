--------------------------- MODULE MCProjections ---------------------------
(***************************************************************************)
(* Small instances of Projections for TLC. Every command carries a key of  *)
(* its own, so that each takes effect at most once and the log is finite.  *)
(***************************************************************************)
EXTENDS Projections, TLC

CONSTANTS a, b

Cmd(op, s, to, amt, key) == [op |-> op, stream |-> s, to |-> to, amt |-> amt, key |-> key]

\* Two accounts, and a transfer whose two events are published together.
TransferCommands ==
    {Cmd("OpenAccount", a, a, 1, "k1"), Cmd("OpenAccount", b, b, 0, "k2"), Cmd("Transfer", a, b, 1, "k3")}

\* One account that is opened and credited.
CreditCommands ==
    {Cmd("OpenAccount", a, a, 1, "k1"), Cmd("Deposit", a, a, 1, "k2"), Cmd("Withdraw", a, a, 1, "k3")}

WriterSymmetry == Permutations(Writers)
=============================================================================
