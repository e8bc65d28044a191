------------------------------ MODULE NatsBus ------------------------------
(***************************************************************************)
(* The read side fed through NATS JetStream (internal/bus/natsbus/bus.go)  *)
(* instead of the in-process bus. Commands, ApplyEvent and the CatchUp     *)
(* polls are those of Projections; a publish stores messages in a durable  *)
(* stream, and the broker hands them to the callbacks that the two         *)
(* Subscribe calls of cmd/streamledger registered.                         *)
(*                                                                         *)
(* Both calls name the same durable consumer, so the broker keeps one      *)
(* cursor and one set of acknowledgements for the two of them and gives    *)
(* each message to one of them, whichever asks first.                      *)
(*                                                                         *)
(* A behaviour is the life of one process, as in Projections. An event is  *)
(* published by the one handler that appended it, so the broker's          *)
(* duplicate window, keyed by GlobalSeq, has nothing to drop. Only Publish *)
(* writes to the stream: there are no malformed messages.                  *)
(***************************************************************************)
EXTENDS Projections, FiniteSets

VARIABLES stream,    \* the messages of the JetStream stream
          sent,      \* the consumer's cursor: messages handed out at least once
          owed,      \* messages handed out whose ack wait is running
          acked,     \* messages acknowledged
          inbox,     \* each callback's buffer of messages, the one in its hands first
          handled    \* messages whose handler returned nil, for each callback

brokerVars == <<stream, sent, owed, acked>>
busVars == <<brokerVars, inbox, handled>>
natsVars == <<vars, busVars>>

-----------------------------------------------------------------------------
(* The wire format.                                                        *)

\* Mutant: the version is left out.
toWireMutNoVersion(e) ==
    [global_seq |-> e.seq, aggregate_id |-> e.stream, version |-> 0,
     event_type |-> e.type, payload |-> e.amt, dedupe_key |-> e.key]

toWire(e) ==
    [global_seq |-> e.seq, aggregate_id |-> e.stream, version |-> e.version,
     event_type |-> e.type, payload |-> e.amt, dedupe_key |-> e.key]

toEvent(m) ==
    [seq |-> m.global_seq, stream |-> m.aggregate_id, version |-> m.version,
     type |-> m.event_type, amt |-> m.payload, key |-> m.dedupe_key]

-----------------------------------------------------------------------------
(* Publishing: pub[w].batch holds the events still to be published.        *)

\* One message of Publish's loop is stored and the store acknowledged.
PublishMsg(w) ==
    /\ pub[w].batch # <<>>
    /\ stream' = Append(stream, toWire(Head(pub[w].batch)))
    /\ pub' = [pub EXCEPT ![w].batch = Tail(@)]
    /\ UNCHANGED <<logVars, readVars, poll, faults, sent, owed, acked, inbox, handled>>

\* PublishMsg returns an error, whether or not the message was stored: the rest of the
\* batch is not published, and the error is only logged.
PublishFails(w) ==
    /\ Fault
    /\ pub[w].batch # <<>>
    /\ stream' \in {stream, Append(stream, toWire(Head(pub[w].batch)))}
    /\ pub' = [pub EXCEPT ![w] = NotPublishing]
    /\ UNCHANGED <<logVars, readVars, poll, sent, owed, acked, inbox, handled>>

-----------------------------------------------------------------------------
(* The broker.                                                             *)

\* Mutant: MaxDeliver 1.
SendMutOnce(k, p) ==
    /\ k = sent + 1
    /\ sent' = k
    /\ owed' = owed \cup {k}
    /\ inbox' = [inbox EXCEPT ![p] = Append(@, k)]
    /\ UNCHANGED <<vars, stream, acked, handled>>

\* The consumer hands out message k, the next one or an old one that was nacked or
\* whose ack wait is over, to whichever callback pulls.
Send(k, p) ==
    /\ k <= sent + 1
    /\ k \notin owed \cup acked
    /\ sent' = IF k > sent THEN k ELSE sent
    /\ owed' = owed \cup {k}
    /\ inbox' = [inbox EXCEPT ![p] = Append(@, k)]
    /\ UNCHANGED <<vars, stream, acked, handled>>

Buffered(k) == \E p \in Projectors : \E n \in 1 .. Len(inbox[p]) : inbox[p][n] = k

\* The ack wait of a message nobody holds any more ends.
AckWaitEnds(k) ==
    /\ k \in owed
    /\ ~ Buffered(k)
    /\ owed' = owed \ {k}
    /\ UNCHANGED <<vars, stream, sent, acked, inbox, handled>>

\* The ack wait ends while the message is still in a callback's buffer or hands.
AckWaitTooShort(k) ==
    /\ Fault
    /\ k \in owed
    /\ Buffered(k)
    /\ owed' = owed \ {k}
    /\ UNCHANGED <<logVars, readVars, pub, poll, stream, sent, acked, inbox, handled>>

-----------------------------------------------------------------------------
(* The callbacks: one message at a time; the handler, then Ack or Nak.     *)

HasMessage(p) == inbox[p] # <<>>
Message(p) == Head(inbox[p])
Dropped(p) == [inbox EXCEPT ![p] = Tail(@)]

\* The handler runs ApplyEvent and returns nil; whether it applied the event or skipped
\* it as a duplicate, the message is handled.
Handler(p) ==
    /\ HasMessage(p)
    /\ ApplyEvent(p, toEvent(stream[Message(p)]))
    /\ handled' = [handled EXCEPT ![p] = @ \cup {Message(p)}]
    /\ inbox' = Dropped(p)

\* Handled, and acknowledged. The broker takes an acknowledgement that comes late, too.
HandleAck(p) ==
    /\ Handler(p)
    /\ acked' = acked \cup {Message(p)}
    /\ owed' = owed \ {Message(p)}
    /\ UNCHANGED <<logVars, pub, poll, faults, stream, sent>>

\* Handled, and the acknowledgement is lost: its error is ignored.
HandleAckLost(p) ==
    /\ Fault
    /\ Handler(p)
    /\ UNCHANGED <<logVars, pub, poll, brokerVars>>

\* Mutant: a message whose handler failed is acknowledged, as a malformed one is.
HandleNakMutAck(p) ==
    /\ Fault
    /\ HasMessage(p)
    /\ inbox' = Dropped(p)
    /\ owed' = owed \ {Message(p)}
    /\ acked' = acked \cup {Message(p)}
    /\ UNCHANGED <<logVars, readVars, pub, poll, stream, sent, handled>>

\* The handler returns an error: Nak, and the broker may send the message again at once.
HandleNak(p) ==
    /\ Fault
    /\ HasMessage(p)
    /\ inbox' = Dropped(p)
    /\ owed' = owed \ {Message(p)}
    /\ UNCHANGED <<logVars, readVars, pub, poll, stream, sent, acked, handled>>

-----------------------------------------------------------------------------
NatsInit ==
    /\ Init
    /\ stream = <<>>
    /\ sent = 0
    /\ owed = {}
    /\ acked = {}
    /\ inbox = [p \in Projectors |-> <<>>]
    /\ handled = [p \in Projectors |-> {}]

Messages == 1 .. Len(stream)

BrokerStep == \E k \in Messages : AckWaitEnds(k) \/ \E p \in Projectors : Send(k, p)

Poll(p) == PollStep(p) /\ UNCHANGED busVars

NatsNext ==
    \/ \E w \in Writers : \E c \in Commands : Command(w, c) /\ UNCHANGED busVars
    \/ \E w \in Writers : PublishMsg(w) \/ PublishFails(w)
    \/ BrokerStep
    \/ \E k \in Messages : AckWaitTooShort(k)
    \/ \E p \in Projectors : HandleAck(p) \/ HandleAckLost(p) \/ HandleNak(p)
    \/ \E p \in Projectors : Poll(p) \/ (CatchUpFails(p) /\ UNCHANGED busVars)

\* Publishing goroutines, callbacks and pollers run on, and the broker hands out what
\* it may hand out.
NatsFairness ==
    /\ \A w \in Writers : WF_natsVars(PublishMsg(w))
    /\ WF_natsVars(BrokerStep)
    /\ \A p \in Projectors : WF_natsVars(HandleAck(p)) /\ WF_natsVars(Poll(p))

NatsSpec == NatsInit /\ [][NatsNext]_natsVars /\ NatsFairness

-----------------------------------------------------------------------------
(* Properties. NeverAppliedTwice and CheckpointsOnlyAdvance of Projections *)
(* are about this bus as well.                                             *)

\* The broker's books are in order, and what is on the wire is an event of the log.
NatsTypeOK ==
    /\ TypeOK
    /\ \A k \in Messages : toEvent(stream[k]) \in {events[n] : n \in 1 .. Len(events)}
    /\ sent \in 0 .. Len(stream)
    /\ owed \cup acked \subseteq 1 .. sent
    /\ owed \cap acked = {}
    /\ \A p \in Projectors : \A n \in 1 .. Len(inbox[p]) : inbox[p][n] \in 1 .. sent

\* No message is lost between the broker and a projector: one that is not to be sent
\* again has been through some callback's handler, whose checkpoint covers it, however
\* often it was nacked, timed out or sent twice (Subscribe: handler first, then Ack).
AckedIsHandled ==
    \A k \in acked : \E p \in Projectors :
        k \in handled[p] /\ stream[k].global_seq <= checkpoint[p]

\* Every message of the stream is eventually acknowledged: nacks, lost acks and timeouts
\* delay it, nothing strands it (MaxDeliver: -1).
EveryMessageSettles == \A k \in 1 .. 2 * Cardinality(Commands) : Len(stream) >= k ~> k \in acked

\* The checkpoints catch up with the log for good, though publishes fail: a projector's
\* lag returns to zero.
LagSettles == <>[](\A p \in Projectors : checkpoint[p] = Len(events))

\* What bus.Subscriber says of every subscription: it "delivers published messages to
\* handler", at least once.
AtLeastOnce ==
    \A p \in Projectors : \A k \in 1 .. 2 * Cardinality(Commands) :
        Len(stream) >= k ~> k \in handled[p]

-----------------------------------------------------------------------------
(* The inductive strengthening of NatsTypeOK and AckedIsHandled.           *)

WireMessage ==
    [global_seq : Nat, aggregate_id : Streams, version : Nat,
     event_type : AccountEventTypes \cup ItemEventTypes, payload : Int64, dedupe_key : {c.key : c \in Commands}]

StreamInv ==
    /\ stream \in Seq(WireMessage)
    /\ \A k \in Messages : InLog(toEvent(stream[k]))

BrokerInv ==
    /\ sent \in 0 .. Len(stream)
    /\ owed \subseteq 1 .. sent /\ acked \subseteq 1 .. sent
    /\ owed \cap acked = {}
    /\ inbox \in [Projectors -> Seq(Nat)]
    /\ \A p \in Projectors : \A n \in 1 .. Len(inbox[p]) : inbox[p][n] \in 1 .. sent

\* What went through a handler is behind its checkpoint, and only that is acknowledged.
HandledInv ==
    /\ handled \in [Projectors -> SUBSET Nat]
    /\ \A p \in Projectors : \A k \in handled[p] : k \in Messages /\ stream[k].global_seq <= checkpoint[p]
    /\ \A k \in acked : \E p \in Projectors : k \in handled[p]

NatsInv == ReadInv /\ StreamInv /\ BrokerInv /\ HandledInv
=============================================================================
