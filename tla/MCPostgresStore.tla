-------------------------- MODULE MCPostgresStore --------------------------
(***************************************************************************)
(* Small instances of PostgresStore for TLC.                               *)
(***************************************************************************)
EXTENDS PostgresStore

CONSTANTS a, b, c

\* Transfers in both directions, and a command on a stream of its own: its sequence
\* number may be drawn before a transfer's and committed after it.
TransferBatches == {<<a, b>>, <<b, a>>, <<c>>}

\* Independent single-stream commands.
SingleBatches == {<<a>>, <<b>>}
=============================================================================
