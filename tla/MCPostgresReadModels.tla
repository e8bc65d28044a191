----------------------- MODULE MCPostgresReadModels -----------------------
(***************************************************************************)
(* Small instances of PostgresReadModels for TLC. Every command carries a  *)
(* key of its own, so that each takes effect at most once.                 *)
(***************************************************************************)
EXTENDS PostgresReadModels

CONSTANTS a, i, balancesPoller, inventoryPoller, inventoryBus

Cmd(op, s, amt, key) == [op |-> op, stream |-> s, to |-> s, amt |-> amt, key |-> key]

\* Events for both projectors: each sees the other's pass by.
BothCommands ==
    {Cmd("OpenAccount", a, 1, "k1"), Cmd("Deposit", a, 1, "k2"), Cmd("AdjustInventory", i, 1, "k3")}

\* A single event.
OneCommand == {Cmd("AdjustInventory", i, 1, "k1")}

Wiring == [w \in Workers |-> IF w = balancesPoller THEN "balances" ELSE "inventory"]
=============================================================================
