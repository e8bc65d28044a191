----------------------------- MODULE ReadModel -----------------------------
(***************************************************************************)
(* The views of internal/projections and what folding one event into them  *)
(* does, whichever store keeps them and however the events arrive.         *)
(***************************************************************************)
EXTENDS LedgerRules

Projectors == {"balances", "inventory"}

ProjectorOf(s) == IF s \in Accounts THEN "balances" ELSE "inventory"

\* EventApplier.Relevant: by the event's aggregate type.
Relevant(p, e) == ProjectorOf(e.stream) = p

-----------------------------------------------------------------------------
(* Views. An absent view reads as the zero view.                           *)

AccountView == [version : Nat, balance : Int64]
InventoryView == [version : Nat, available : Int64, reserved : Int64]

ViewType(s) == IF s \in Accounts THEN AccountView ELSE InventoryView

ZeroView(s) ==
    IF s \in Accounts THEN [version |-> 0, balance |-> 0]
    ELSE [version |-> 0, available |-> 0, reserved |-> 0]

\* Mutant: only the version of the view is kept up to date.
ApplyAccountViewMutVersionOnly(view, e) == [view EXCEPT !.version = e.version]

\* AccountApplier.Apply on the view it read.
ApplyAccountView(view, e) ==
    [version |-> e.version,
     balance |-> CASE e.type = "AccountOpened"  -> e.amt
                   [] e.type = "FundsDeposited" -> Wrap(view.balance + e.amt)
                   [] e.type = "FundsWithdrawn" -> Wrap(view.balance - e.amt)]

\* Mutant: a reservation is not taken out of the available stock.
ApplyInventoryViewMutReserve(view, e) ==
    CASE e.type = "InventoryAdjusted" ->
            [view EXCEPT !.version = e.version, !.available = Wrap(@ + e.amt)]
      [] e.type = "StockReserved" -> [view EXCEPT !.version = e.version, !.reserved = Wrap(@ + e.amt)]
      [] e.type = "StockReleased" -> [view EXCEPT !.version = e.version, !.reserved = Wrap(@ - e.amt)]

\* InventoryApplier.Apply on the view it read.
ApplyInventoryView(view, e) ==
    CASE e.type = "InventoryAdjusted" ->
            [view EXCEPT !.version = e.version, !.available = Wrap(@ + e.amt)]
      [] e.type = "StockReserved" ->
            [version |-> e.version, available |-> Wrap(view.available - e.amt), reserved |-> Wrap(view.reserved + e.amt)]
      [] e.type = "StockReleased" ->
            [version |-> e.version, available |-> Wrap(view.available + e.amt), reserved |-> Wrap(view.reserved - e.amt)]

\* The Applier a projector is wired with; it only sees its own kind of event.
ApplyView(p, view, e) ==
    IF p = "balances" THEN ApplyAccountView(view, e) ELSE ApplyInventoryView(view, e)

\* The read model's part of a folded state.
ViewOf(s, st) ==
    IF s \in Accounts THEN [version |-> st.version, balance |-> st.balance]
    ELSE [version |-> st.version, available |-> st.available, reserved |-> st.reserved]

-----------------------------------------------------------------------------
(* Reading the log. A page is at most limit events; limit <= 0 is "all".   *)

\* Mutant: starts one event too late.
LoadSinceMutGap(log, after, limit) ==
    LET newer == SelectSeq(log, LAMBDA e : e.seq > after + 1)
    IN  IF limit > 0 /\ Len(newer) > limit THEN SubSeq(newer, 1, limit) ELSE newer

\* Mutant: the newest events come first into the page.
LoadSinceMutNewest(log, after, limit) ==
    LET newer == SelectSeq(log, LAMBDA e : e.seq > after)
    IN  IF limit > 0 /\ Len(newer) > limit THEN SubSeq(newer, Len(newer) - limit + 1, Len(newer)) ELSE newer

\* Store.LoadSince: the first events of the global order after a sequence number.
\* page[n] is what the loop has collected from the first n events of the log.
LoadSince(log, after, limit) ==
    LET page[n \in 0 .. Len(log)] ==
            IF n = 0 THEN <<>>
            ELSE IF log[n].seq > after /\ (limit > 0 => Len(page[n-1]) < limit) THEN Append(page[n-1], log[n])
            ELSE page[n-1]
    IN  page[Len(log)]
=============================================================================
