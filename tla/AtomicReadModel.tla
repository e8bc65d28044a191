-------------------------- MODULE AtomicReadModel --------------------------
(***************************************************************************)
(* What ReadModelStore.WithTx promises a projector (projections.go): its   *)
(* check-checkpoint / mutate-view / advance-checkpoint sequence is         *)
(* indivisible. The views and checkpoints change only by whole             *)
(* applications of one event that the checkpoint does not cover yet.       *)
(***************************************************************************)
EXTENDS ReadModel

CONSTANTS Served,      \* the projectors
          Views        \* the streams they keep views of

VARIABLES events, views, checkpoint

Init ==
    /\ views = [s \in Views |-> ZeroView(s)]
    /\ checkpoint = [p \in Served |-> 0]

\* An event past the checkpoint is folded into its view, if it is this projector's,
\* and becomes the checkpoint.
ApplyEvent(p, e) ==
    /\ e.seq > checkpoint[p]
    /\ checkpoint' = [checkpoint EXCEPT ![p] = e.seq]
    /\ views' = IF Relevant(p, e) THEN [views EXCEPT ![e.stream] = ApplyView(p, @, e)] ELSE views

Next == \E p \in Served : \E n \in 1 .. Len(events) : ApplyEvent(p, events[n])

Spec == Init /\ [][Next]_<<views, checkpoint>>
=============================================================================
