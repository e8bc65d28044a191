----------------------------- MODULE MCNatsBus -----------------------------
(***************************************************************************)
(* Small instances of NatsBus for TLC. Every command carries a key of its  *)
(* own, so that each takes effect at most once and the log is finite.      *)
(***************************************************************************)
EXTENDS NatsBus

CONSTANTS a, b

Cmd(op, s, to, amt, key) == [op |-> op, stream |-> s, to |-> to, amt |-> amt, key |-> key]

\* An account that is opened and credited.
CreditCommands == {Cmd("OpenAccount", a, a, 1, "k1"), Cmd("Deposit", a, a, 1, "k2")}

\* A single event.
OneCommand == {Cmd("OpenAccount", a, a, 1, "k1")}
=============================================================================
