------------------------------ MODULE Queries ------------------------------
(***************************************************************************)
(* The query half of internal/grpcserver/server.go over the read side of   *)
(* Projections: clients that ask GetProjectionLag how far the views are    *)
(* behind and then read one with GetBalance or GetInventory. The handler   *)
(* of GetProjectionLag makes three reads, of the log and of the two        *)
(* checkpoints, while commands, deliveries and polls go on.                *)
(***************************************************************************)
EXTENDS Projections

CONSTANT Clients

VARIABLE query    \* each client's query in progress

queryVars == <<vars, query>>

\* latest and lags are the answer of GetProjectionLag, of and view the answer of
\* GetBalance or GetInventory.
NoQuery == [pc |-> "idle"]

Asks(c, q) == query' = [query EXCEPT ![c] = q]

-----------------------------------------------------------------------------
\* Store.LatestGlobalSeq.
LatestGlobalSeq == Len(events)

\* Events a checkpoint is behind; a checkpoint past latest, read later, is not behind.
Lag(latest, seq) == IF latest < seq THEN 0 ELSE latest - seq

\* GetProjectionLag reads the end of the log first.
GetProjectionLag(c) ==
    /\ query[c].pc = "idle"
    /\ Asks(c, [pc |-> "balances", since |-> Len(events), latest |-> LatestGlobalSeq,
                lags |-> [p \in Projectors |-> 0]])
    /\ UNCHANGED vars

\* The projectors' checkpoints, in the order of the handler's loop.
After(p) == IF p = "balances" THEN "inventory" ELSE "read"

\* Mutant: the loop reads the first projector's checkpoint for both.
ReadCheckpointMutFirst(c, p) ==
    /\ query[c].pc = p
    /\ Asks(c, [query[c] EXCEPT !.pc = After(p), !.lags[p] = Lag(query[c].latest, checkpoint["balances"])])
    /\ UNCHANGED vars

ReadCheckpoint(c, p) ==
    /\ query[c].pc = p
    /\ Asks(c, [query[c] EXCEPT !.pc = After(p), !.lags[p] = Lag(query[c].latest, checkpoint[p])])
    /\ UNCHANGED vars

\* GetBalance / GetInventory: the view as it is now.
ReadView(c, s) ==
    /\ query[c].pc = "read"
    /\ Asks(c, [pc |-> "answered", since |-> query[c].since,
                lag |-> query[c].lags[ProjectorOf(s)], of |-> s, view |-> views[s]])
    /\ UNCHANGED vars

\* The client has its answers.
Answered(c) ==
    /\ query[c].pc = "answered"
    /\ Asks(c, NoQuery)
    /\ UNCHANGED vars

QueryStep(c) ==
    \/ GetProjectionLag(c)
    \/ \E p \in Projectors : ReadCheckpoint(c, p)
    \/ \E s \in Streams : ReadView(c, s)
    \/ Answered(c)

QueryInit == Init /\ query = [c \in Clients |-> NoQuery]

QueryNext ==
    \/ Next /\ UNCHANGED query
    \/ \E c \in Clients : QueryStep(c)

QuerySpec == QueryInit /\ [][QueryNext]_queryVars /\ Fairness

-----------------------------------------------------------------------------
(* Properties.                                                             *)

\* A reported lag bounds how stale the next answer is: the view a client then reads is
\* the ledger's own state at some point of the log that is at most lag events behind
\* the end of the log when GetProjectionLag was called. In particular after "lag 0" a
\* client sees the effect of every command answered before it asked.
LagBoundsStaleness ==
    \A c \in Clients :
        query[c].pc = "answered" =>
            LET s == query[c].of
            IN  \E n \in (query[c].since - query[c].lag) .. Len(events) :
                    query[c].view = ViewOf(s, Fold(s, events)[n])

-----------------------------------------------------------------------------
(* The inductive strengthening of LagBoundsStaleness: what a query in      *)
(* progress knows stays true while the log grows and checkpoints rise.     *)

Asking == [pc : {"balances", "inventory", "read"}, since : Nat, latest : Nat, lags : [Projectors -> Nat]]

Answer ==
    [pc : {"answered"}, since : Nat, lag : Nat, of : Streams, view : AccountView \cup InventoryView]

\* The projectors whose checkpoint has been read.
Known(pc) ==
    CASE pc = "balances"  -> {}
      [] pc = "inventory" -> {"balances"}
      [] OTHER            -> Projectors

AskingInv(q) ==
    /\ q.latest = q.since /\ q.since <= Len(events)
    /\ \A p \in Known(q.pc) : q.since - q.lags[p] <= checkpoint[p]

AnswerInv(q) ==
    \E n \in 0 .. Len(events) :
        q.since - q.lag <= n /\ q.view = ViewOf(q.of, Fold(q.of, events)[n])

QueryInv(q) ==
    \/ q = NoQuery
    \/ q \in Asking /\ AskingInv(q)
    \/ q \in Answer /\ AnswerInv(q)

QueriesInv == query = [c \in Clients |-> query[c]] /\ \A c \in Clients : QueryInv(query[c])
=============================================================================
