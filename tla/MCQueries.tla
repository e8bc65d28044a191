----------------------------- MODULE MCQueries -----------------------------
(***************************************************************************)
(* A small instance of Queries for TLC. Every command carries a key of its *)
(* own, so that each takes effect at most once and the log is finite.      *)
(***************************************************************************)
EXTENDS Queries

CONSTANTS a, i

Cmd(op, s, to, amt, key) == [op |-> op, stream |-> s, to |-> to, amt |-> amt, key |-> key]

\* One account and one item, each changed twice.
TwoStreams ==
    {Cmd("OpenAccount", a, a, 2, "k1"), Cmd("Withdraw", a, a, 1, "k2"),
     Cmd("AdjustInventory", i, i, 2, "k3"), Cmd("ReserveStock", i, i, 1, "k4")}
=============================================================================
