--------------------------- MODULE NatsBusProofs ---------------------------
(***************************************************************************)
(* The read side behind JetStream: effectively once whatever the broker    *)
(* redelivers, and nothing acknowledged that was not handled.              *)
(***************************************************************************)
EXTENDS NatsBus, ProjectionsProofs

-----------------------------------------------------------------------------
(* The wire format loses nothing.                                          *)

LEMMA ToWire ==
  ASSUME NEW e \in LoggedEvent
  PROVE  toWire(e) \in WireMessage /\ toEvent(toWire(e)) = e
<1>1. toWire(e) \in WireMessage
  BY DEF toWire, WireMessage, LoggedEvent
<1>2. toEvent(toWire(e)) = [seq |-> e.seq, stream |-> e.stream, version |-> e.version,
                            type |-> e.type, amt |-> e.amt, key |-> e.key]
  BY DEF toWire, toEvent
<1>3. e = [seq |-> e.seq, stream |-> e.stream, version |-> e.version,
           type |-> e.type, amt |-> e.amt, key |-> e.key]
  BY DEF LoggedEvent
<1> QED
  BY <1>1, <1>2, <1>3

LEMMA FromWire ==
  ASSUME NEW m \in WireMessage
  PROVE  toEvent(m) \in LoggedEvent /\ toEvent(m).seq = m.global_seq /\ m.global_seq \in Nat
  BY DEF toEvent, WireMessage, LoggedEvent

-----------------------------------------------------------------------------
(* What stays true of the stream, the broker's books and the handlers.     *)

LEMMA StreamKept ==
  ASSUME StreamInv, Grows, UNCHANGED stream
  PROVE  StreamInv'
<1>1. ASSUME NEW k \in 1 .. Len(stream) PROVE InLog(toEvent(stream[k]))'
  <2>1. PICK e : e = toEvent(stream[k]) /\ InLog(e)
    BY DEF StreamInv, Messages
  <2>2. InLog(e)'
    BY <2>1, InLogStays
  <2>3. toEvent(stream[k])' = e
    BY <2>1 DEF toEvent
  <2> QED
    BY <2>2, <2>3
<1> QED
  BY <1>1 DEF StreamInv, Messages

LEMMA StreamGrows ==
  ASSUME StreamInv, Grows, NEW e \in LoggedEvent, InLog(e), stream' = Append(stream, toWire(e))
  PROVE  /\ StreamInv'
         /\ Len(stream) \in Nat /\ Len(stream') = Len(stream) + 1
         /\ \A k \in 1 .. Len(stream) : stream'[k] = stream[k]
<1>1. PICK m \in WireMessage : m = toWire(e) /\ toEvent(m) = e
  BY ToWire
<1>2. stream \in Seq(WireMessage)
  BY DEF StreamInv
<1>3. /\ stream' \in Seq(WireMessage) /\ Len(stream) \in Nat /\ Len(stream') = Len(stream) + 1
      /\ \A k \in 1 .. Len(stream) : stream'[k] = stream[k]
      /\ stream'[Len(stream) + 1] = m
  BY <1>1, <1>2, AppendProperties
<1>4. ASSUME NEW k \in 1 .. Len(stream') PROVE InLog(toEvent(stream[k]))'
  <2>1. CASE k \in 1 .. Len(stream)
    <3>1. PICK f : f = toEvent(stream[k]) /\ InLog(f)
      BY <2>1 DEF StreamInv, Messages
    <3>2. InLog(f)'
      BY <3>1, InLogStays
    <3>3. toEvent(stream[k])' = f
      BY <1>3, <2>1, <3>1 DEF toEvent
    <3> QED
      BY <3>2, <3>3
  <2>2. CASE k = Len(stream) + 1
    <3>1. InLog(e)'
      BY InLogStays
    <3>2. toEvent(stream[k])' = e
      BY <1>1, <1>3, <2>2 DEF toEvent
    <3> QED
      BY <3>1, <3>2
  <2> QED
    BY <1>3, <2>1, <2>2
<1> QED
  BY <1>3, <1>4 DEF StreamInv, Messages

\* The stream keeps what it has.
StreamLonger ==
    /\ Len(stream) \in Nat /\ Len(stream') \in Nat /\ Len(stream) <= Len(stream')
    /\ \A k \in 1 .. Len(stream) : stream'[k] = stream[k]

LEMMA StreamSame ==
  ASSUME StreamInv, UNCHANGED stream
  PROVE  StreamLonger
<1>1. Len(stream) \in Nat
  BY DEF StreamInv
<1> QED
  BY <1>1 DEF StreamLonger

LEMMA BrokerKept ==
  ASSUME BrokerInv, StreamLonger, UNCHANGED <<sent, owed, acked, inbox>>
  PROVE  BrokerInv'
<1>1. sent' \in 0 .. Len(stream')
  BY DEF BrokerInv, StreamLonger
<1> QED
  BY <1>1 DEF BrokerInv

\* Handled messages stay behind the checkpoints while these rise.
LEMMA HandledStays ==
  ASSUME ReadInv, StreamInv, HandledInv, StreamLonger, Rises, NEW p \in Projectors, NEW k \in handled[p]
  PROVE  k \in 1 .. Len(stream') /\ stream'[k].global_seq <= checkpoint'[p]
<1>1. k \in 1 .. Len(stream) /\ stream[k].global_seq <= checkpoint[p]
  BY DEF HandledInv, Messages
<1>2. stream[k] \in WireMessage
  BY <1>1 DEF StreamInv
<1>3. stream[k].global_seq \in Nat
  BY <1>2, FromWire
<1>4. checkpoint[p] \in Nat /\ checkpoint'[p] \in Nat /\ checkpoint'[p] >= checkpoint[p]
  BY DEF Rises
<1>5. k \in 1 .. Len(stream') /\ stream'[k] = stream[k]
  BY <1>1 DEF StreamLonger
<1>6. stream[k].global_seq <= checkpoint'[p]
  BY <1>1, <1>3, <1>4
<1> QED
  BY <1>5, <1>6

LEMMA HandledKept ==
  ASSUME ReadInv, StreamInv, HandledInv, StreamLonger, Rises, UNCHANGED <<handled, acked>>
  PROVE  HandledInv'
<1>1. \A p \in Projectors : \A k \in handled[p] : k \in 1 .. Len(stream') /\ stream'[k].global_seq <= checkpoint'[p]
  BY HandledStays
<1> QED
  BY <1>1 DEF HandledInv, Messages

-----------------------------------------------------------------------------
(* Every step keeps NatsInv.                                               *)

\* Commands, polls and failed polls: the bus is not involved.
LEMMA ReadSideStep ==
  ASSUME NatsInv, [Next]_vars, UNCHANGED busVars
  PROVE  NatsInv'
<1>1. ReadInv /\ StreamInv /\ BrokerInv /\ HandledInv
  BY DEF NatsInv
<1>2. ReadInv' /\ Grows /\ Rises
  BY <1>1, ReadInvStep, NextGrows
<1>3. UNCHANGED stream /\ UNCHANGED <<sent, owed, acked, inbox>> /\ UNCHANGED <<handled, acked>>
  BY DEF busVars, brokerVars
<1>4. StreamInv' /\ StreamLonger
  BY <1>1, <1>2, <1>3, StreamKept, StreamSame
<1>5. BrokerInv'
  BY <1>1, <1>3, <1>4, BrokerKept
<1>6. HandledInv'
  BY <1>1, <1>2, <1>3, <1>4, HandledKept
<1> QED
  BY <1>2, <1>4, <1>5, <1>6 DEF NatsInv

\* The head of a writer's batch.
LEMMA HeadOfBatch ==
  ASSUME ReadInv, NEW w \in Writers, pub[w].batch # <<>>
  PROVE  /\ Head(pub[w].batch) \in LoggedEvent /\ InLog(Head(pub[w].batch))
         /\ \E r \in Publishing : PublishInv(r) /\ [pub EXCEPT ![w].batch = Tail(@)] = [pub EXCEPT ![w] = r]
<1>1. PICK q \in Publishing : q = pub[w] /\ PublishInv(q)
  BY DEF ReadInv
<1>2. PICK b \in Seq(LoggedEvent) : b = q.batch /\ b # <<>> /\ \A i \in 1 .. Len(b) : InLog(b[i])
  BY <1>1 DEF Publishing, PublishInv
<1>3. PICK rest \in Seq(LoggedEvent) :
        rest = Tail(b) /\ Len(rest) = Len(b) - 1 /\ \A i \in 1 .. Len(rest) : rest[i] = b[i+1]
  <2>1. /\ Tail(b) \in Seq(LoggedEvent) /\ Len(Tail(b)) = Len(b) - 1
        /\ \A i \in 1 .. Len(Tail(b)) : Tail(b)[i] = b[i+1]
    BY <1>2, HeadTailProperties
  <2> QED
    BY <2>1
<1>4. Head(b) \in LoggedEvent /\ Head(b) = b[1] /\ Len(b) \in Nat /\ Len(b) > 0
  BY <1>2, HeadTailProperties
<1>5. 1 \in 1 .. Len(b) /\ \A i \in 1 .. Len(rest) : i + 1 \in 1 .. Len(b)
  BY <1>3, <1>4
<1>6. PICK r : r = [q EXCEPT !.batch = rest]
  OBVIOUS
<1>7. r \in Publishing /\ r.batch = rest /\ r.rounds = q.rounds /\ r.left = q.left
  BY <1>6 DEF Publishing
<1>8. \A i \in 1 .. Len(rest) : InLog(rest[i])
  BY <1>2, <1>3, <1>5
<1>9. PublishInv(r)
  BY <1>1, <1>7, <1>8 DEF PublishInv
<1>10. [pub EXCEPT ![w].batch = Tail(@)] = [pub EXCEPT ![w] = r]
  BY <1>1, <1>2, <1>3, <1>6 DEF ReadInv
<1>11. InLog(Head(b))
  BY <1>2, <1>4, <1>5
<1> QED
  BY <1>1, <1>2, <1>4, <1>7, <1>9, <1>10, <1>11

\* A publish: the writer moves on, and the stream may have one message more.
LEMMA PublishKeepsInv ==
  ASSUME NatsInv, NEW w \in Writers, NEW r \in Publishing, PublishInv(r), pub' = [pub EXCEPT ![w] = r],
         NEW e \in LoggedEvent, InLog(e), stream' \in {stream, Append(stream, toWire(e))},
         UNCHANGED <<logVars, readVars, poll, sent, owed, acked, inbox, handled>>
  PROVE  NatsInv'
<1>1. ReadInv /\ StreamInv /\ BrokerInv /\ HandledInv /\ LogInv /\ UNCHANGED events
  BY DEF NatsInv, ReadInv, logVars
<1>2. ReadInv'
  BY <1>1, WriterMoves
<1>3. Grows /\ Rises
  BY <1>1, LogKept, QuietRises
<1>4. StreamInv' /\ StreamLonger
  <2>1. CASE stream' = stream
    BY <1>1, <1>3, <2>1, StreamKept, StreamSame
  <2>2. CASE stream' = Append(stream, toWire(e))
    BY <1>1, <1>3, <2>2, StreamGrows DEF StreamLonger
  <2> QED
    BY <2>1, <2>2
<1>5. BrokerInv'
  BY <1>1, <1>4, BrokerKept
<1>6. HandledInv'
  BY <1>1, <1>3, <1>4, HandledKept
<1> QED
  BY <1>2, <1>4, <1>5, <1>6 DEF NatsInv

LEMMA PublishMsgStep ==
  ASSUME NatsInv, NEW w \in Writers, PublishMsg(w)
  PROVE  NatsInv'
<1>1. ReadInv /\ pub[w].batch # <<>>
  BY DEF NatsInv, PublishMsg
<1>2. PICK e \in LoggedEvent : e = Head(pub[w].batch) /\ InLog(e)
  BY <1>1, HeadOfBatch
<1>3. PICK r \in Publishing : PublishInv(r) /\ pub' = [pub EXCEPT ![w] = r]
  BY <1>1, HeadOfBatch DEF PublishMsg
<1>4. stream' \in {stream, Append(stream, toWire(e))}
  BY <1>2 DEF PublishMsg
<1>5. UNCHANGED <<logVars, readVars, poll, sent, owed, acked, inbox, handled>>
  BY DEF PublishMsg
<1> QED
  BY <1>2, <1>3, <1>4, <1>5, PublishKeepsInv

LEMMA PublishFailsStep ==
  ASSUME NatsInv, NEW w \in Writers, PublishFails(w)
  PROVE  NatsInv'
<1>1. ReadInv /\ pub[w].batch # <<>>
  BY DEF NatsInv, PublishFails
<1>2. PICK e \in LoggedEvent : e = Head(pub[w].batch) /\ InLog(e)
  BY <1>1, HeadOfBatch
<1>3. PICK r \in Publishing : PublishInv(r) /\ pub' = [pub EXCEPT ![w] = r]
  <2>1. NotPublishing \in Publishing /\ PublishInv(NotPublishing)
    BY IdleTypes, DeliveryAssumption DEF PublishInv, NotPublishing
  <2> QED
    BY <2>1 DEF PublishFails
<1>4. stream' \in {stream, Append(stream, toWire(e))}
  BY <1>2 DEF PublishFails
<1>5. UNCHANGED <<logVars, readVars, poll, sent, owed, acked, inbox, handled>>
  BY DEF PublishFails
<1> QED
  BY <1>2, <1>3, <1>4, <1>5, PublishKeepsInv

\* A step of the broker alone: the stream, the handlers and the read side stand still.
LEMMA BrokerMoves ==
  ASSUME NatsInv, UNCHANGED events, UNCHANGED readVars, UNCHANGED pub, UNCHANGED poll,
         UNCHANGED stream, UNCHANGED <<handled, acked>>, BrokerInv'
  PROVE  NatsInv'
<1>1. ReadInv /\ StreamInv /\ BrokerInv /\ HandledInv /\ LogInv
  BY DEF NatsInv, ReadInv
<1>2. ReadInv' /\ Grows /\ Rises
  BY <1>1, ReadInvQuiet, LogKept, QuietRises
<1>3. StreamInv' /\ StreamLonger
  BY <1>1, <1>2, StreamKept, StreamSame
<1>4. HandledInv'
  BY <1>1, <1>2, <1>3, HandledKept
<1> QED
  BY <1>2, <1>3, <1>4 DEF NatsInv

LEMMA SendStep ==
  ASSUME NatsInv, NEW k \in Messages, NEW p \in Projectors, Send(k, p)
  PROVE  NatsInv'
<1>0. BrokerInv /\ stream' = stream /\ acked' = acked
  BY DEF NatsInv, Send
<1>1. sent \in Nat /\ Len(stream) \in Nat /\ k \in Nat /\ k >= 1 /\ k <= Len(stream) /\ sent <= Len(stream)
  BY DEF NatsInv, StreamInv, BrokerInv, Messages
<1>2. sent' = (IF k > sent THEN k ELSE sent) /\ owed' = owed \cup {k} /\ k \notin owed \cup acked
  BY DEF Send
<1>3. sent' \in 0 .. Len(stream) /\ sent <= sent' /\ k \in 1 .. sent'
  BY <1>1, <1>2
<1>4. \A n \in 1 .. sent : n \in 1 .. sent'
  BY <1>1, <1>3
<1>5. PICK old \in Seq(Nat) : old = inbox[p]
  BY <1>0 DEF BrokerInv
<1>6. PICK box \in Seq(Nat) :
        /\ box = Append(inbox[p], k) /\ Len(box) = Len(inbox[p]) + 1 /\ Len(inbox[p]) \in Nat
        /\ box[Len(inbox[p]) + 1] = k /\ \A n \in 1 .. Len(inbox[p]) : box[n] = inbox[p][n]
  <2>1. /\ Append(old, k) \in Seq(Nat) /\ Len(Append(old, k)) = Len(old) + 1 /\ Len(old) \in Nat
        /\ Append(old, k)[Len(old) + 1] = k /\ \A n \in 1 .. Len(old) : Append(old, k)[n] = old[n]
    BY <1>1, AppendProperties
  <2> QED
    BY <1>5, <2>1
<1>7. inbox' = [inbox EXCEPT ![p] = box]
  BY <1>6 DEF Send
<1>8. inbox' \in [Projectors -> Seq(Nat)] /\ \A q \in Projectors : inbox'[q] = IF q = p THEN box ELSE inbox[q]
  BY <1>0, <1>7 DEF BrokerInv
<1>9. \A n \in 1 .. Len(box) : box[n] \in 1 .. sent'
  <2> TAKE n \in 1 .. Len(box)
  <2>1. CASE n \in 1 .. Len(inbox[p])
    <3>1. inbox[p][n] \in 1 .. sent
      BY <1>0, <2>1 DEF BrokerInv
    <3> QED
      BY <1>4, <1>6, <2>1, <3>1
  <2>2. CASE n = Len(inbox[p]) + 1
    BY <1>3, <1>6, <2>2
  <2> QED
    BY <1>6, <2>1, <2>2
<1>10. \A q \in Projectors : \A n \in 1 .. Len(inbox'[q]) : inbox'[q][n] \in 1 .. sent'
  BY <1>0, <1>4, <1>8, <1>9 DEF BrokerInv
<1>11. owed' \subseteq 1 .. sent' /\ acked' \subseteq 1 .. sent'
  BY <1>0, <1>2, <1>3, <1>4 DEF BrokerInv
<1>12. owed' \cap acked' = {}
  BY <1>0, <1>2 DEF BrokerInv
<1>13. BrokerInv'
  BY <1>0, <1>3, <1>8, <1>10, <1>11, <1>12 DEF BrokerInv
<1> QED
  BY <1>13, BrokerMoves DEF Send, vars, readVars

\* A message stops being owed, whether or not somebody still holds it.
LEMMA AckWaitStep ==
  ASSUME NatsInv, NEW k \in Messages, AckWaitEnds(k) \/ AckWaitTooShort(k)
  PROVE  NatsInv'
<1>1. owed' = owed \ {k} /\ UNCHANGED <<stream, sent, acked, inbox, handled>>
  BY DEF AckWaitEnds, AckWaitTooShort
<1>2. UNCHANGED events /\ UNCHANGED readVars /\ UNCHANGED pub /\ UNCHANGED poll
  BY DEF AckWaitEnds, AckWaitTooShort, vars, logVars, readVars
<1>3. BrokerInv'
  BY <1>1 DEF NatsInv, BrokerInv
<1> QED
  BY <1>1, <1>2, <1>3, BrokerMoves

\* The message in a callback's hands.
LEMMA InHand ==
  ASSUME NatsInv, NEW p \in Projectors, HasMessage(p)
  PROVE  /\ Message(p) \in 1 .. sent /\ Message(p) \in 1 .. Len(stream)
         /\ Dropped(p) \in [Projectors -> Seq(Nat)]
         /\ \A q \in Projectors : \A n \in 1 .. Len(Dropped(p)[q]) : Dropped(p)[q][n] \in 1 .. sent
<1>1. PICK box \in Seq(Nat) : box = inbox[p] /\ box # <<>> /\ \A n \in 1 .. Len(box) : box[n] \in 1 .. sent
  BY DEF NatsInv, BrokerInv, HasMessage
<1>2. PICK rest \in Seq(Nat) :
        rest = Tail(box) /\ Len(rest) = Len(box) - 1 /\ \A n \in 1 .. Len(rest) : rest[n] = box[n+1]
  BY <1>1, HeadTailProperties
<1>3. Len(box) \in Nat /\ Len(box) > 0 /\ Head(box) = box[1] /\ 1 \in 1 .. Len(box)
  BY <1>1
<1>4. Message(p) \in 1 .. sent
  BY <1>1, <1>3 DEF Message
<1>5. sent \in Nat /\ Len(stream) \in Nat /\ sent <= Len(stream)
  BY DEF NatsInv, BrokerInv, StreamInv
<1>6. \A n \in 1 .. Len(rest) : n + 1 \in 1 .. Len(box)
  BY <1>2, <1>3
<1>7. \A n \in 1 .. Len(rest) : rest[n] \in 1 .. sent
  BY <1>1, <1>2, <1>6
<1>8. inbox \in [Projectors -> Seq(Nat)] /\ \A q \in Projectors : \A n \in 1 .. Len(inbox[q]) : inbox[q][n] \in 1 .. sent
  BY DEF NatsInv, BrokerInv
<1>9. Dropped(p) = [inbox EXCEPT ![p] = rest]
  BY <1>1, <1>2 DEF Dropped
<1>10. Dropped(p) \in [Projectors -> Seq(Nat)] /\ \A q \in Projectors : Dropped(p)[q] = IF q = p THEN rest ELSE inbox[q]
  BY <1>8, <1>9
<1>11. \A q \in Projectors : \A n \in 1 .. Len(Dropped(p)[q]) : Dropped(p)[q][n] \in 1 .. sent
  BY <1>7, <1>8, <1>10
<1>12. Message(p) \in 1 .. Len(stream)
  BY <1>4, <1>5
<1> QED
  BY <1>4, <1>10, <1>11, <1>12

LEMMA HandleNakStep ==
  ASSUME NatsInv, NEW p \in Projectors, HandleNak(p)
  PROVE  NatsInv'
<1>1. /\ inbox' = Dropped(p) /\ owed' = owed \ {Message(p)}
      /\ UNCHANGED stream /\ UNCHANGED <<handled, acked>> /\ UNCHANGED sent
  BY DEF HandleNak
<1>2. /\ inbox' \in [Projectors -> Seq(Nat)]
      /\ \A q \in Projectors : \A n \in 1 .. Len(inbox'[q]) : inbox'[q][n] \in 1 .. sent
  BY <1>1, InHand DEF HandleNak
<1>3. BrokerInv'
  BY <1>1, <1>2 DEF NatsInv, BrokerInv
<1> QED
  BY <1>1, <1>3, BrokerMoves DEF HandleNak, logVars

\* The handler has run; what the broker hears of it comes after.
LEMMA HandlerStep ==
  ASSUME NatsInv, NEW p \in Projectors, Handler(p),
         UNCHANGED <<logVars, pub, poll, stream, sent>>,
         acked' \in {acked, acked \cup {Message(p)}}, owed' \subseteq owed, owed' \cap acked' = {}
  PROVE  NatsInv'
<1>0. /\ ReadInv /\ StreamInv /\ BrokerInv /\ HandledInv /\ LogInv /\ ViewsInv
      /\ UNCHANGED events /\ UNCHANGED pub /\ UNCHANGED poll /\ UNCHANGED stream
  BY DEF NatsInv, ReadInv, logVars
<1>1. PICK k : k = Message(p)
  OBVIOUS
<1>2. k \in 1 .. sent /\ k \in 1 .. Len(stream)
  BY <1>1, InHand DEF Handler
<1>3. stream[k] \in WireMessage
  BY <1>0, <1>2 DEF StreamInv
<1>4. PICK e \in LoggedEvent : e = toEvent(stream[k]) /\ e.seq = stream[k].global_seq /\ InLog(e)
  BY <1>0, <1>2, <1>3, FromWire DEF StreamInv, Messages
<1>5. ApplyEvent(p, e)
  BY <1>1, <1>4 DEF Handler
<1>6. LogInv' /\ Grows /\ Rises
  BY <1>0, <1>5, LogKept, ApplyRises
<1>7. ReadInv'
  <2>1. ViewsInv'
    BY <1>0, <1>4, <1>5, ApplyEventKeeps
  <2>2. pub' \in [Writers -> Publishing] /\ \A v \in Writers : PublishInv(pub[v])'
    BY <1>0, <1>6, PublishKept
  <2>3. poll' \in [Projectors -> Polling] /\ \A q \in Projectors : PollInv(q, poll[q])'
    BY <1>0, <1>6, PollKept DEF Rises
  <2> QED
    BY <1>6, <2>1, <2>2, <2>3 DEF ReadInv
<1>8. StreamInv' /\ StreamLonger
  BY <1>0, <1>6, StreamKept, StreamSame
<1>9. /\ inbox' \in [Projectors -> Seq(Nat)]
      /\ \A q \in Projectors : \A n \in 1 .. Len(inbox'[q]) : inbox'[q][n] \in 1 .. sent
  BY InHand DEF Handler
<1>10. BrokerInv'
  <2>1. owed' \subseteq 1 .. sent /\ acked' \subseteq 1 .. sent
    BY <1>0, <1>1, <1>2 DEF BrokerInv
  <2> QED
    BY <1>0, <1>9, <2>1 DEF BrokerInv
<1>11. HandledInv'
  <2>1. handled' = [handled EXCEPT ![p] = @ \cup {k}] /\ handled \in [Projectors -> SUBSET Nat]
    BY <1>0, <1>1 DEF Handler, HandledInv
  <2>2. /\ handled' \in [Projectors -> SUBSET Nat]
        /\ \A q \in Projectors : handled'[q] = IF q = p THEN handled[q] \cup {k} ELSE handled[q]
    <3>1. k \in Nat
      BY <1>2
    <3> QED
      BY <2>1, <3>1
  <2>3. stream'[k].global_seq <= checkpoint'[p] /\ k \in 1 .. Len(stream')
    BY <1>0, <1>2, <1>4, <1>5, ApplyEventEffect
  <2>4. ASSUME NEW q \in Projectors, NEW n \in handled'[q]
        PROVE  n \in 1 .. Len(stream') /\ stream'[n].global_seq <= checkpoint'[q]
    <3>1. CASE n \in handled[q]
      BY <1>0, <1>6, <1>8, <3>1, HandledStays
    <3>2. CASE n = k /\ q = p
      BY <2>3, <3>2
    <3> QED
      BY <2>2, <2>4, <3>1, <3>2
  <2>5. ASSUME NEW n \in acked' PROVE \E q \in Projectors : n \in handled'[q]
    <3>1. CASE n \in acked
      BY <1>0, <2>2, <3>1 DEF HandledInv
    <3>2. CASE n = k
      BY <2>2, <3>2
    <3> QED
      BY <1>1, <2>5, <3>1, <3>2
  <2> QED
    BY <2>2, <2>4, <2>5 DEF HandledInv, Messages
<1> QED
  BY <1>7, <1>8, <1>10, <1>11 DEF NatsInv

LEMMA HandleStep ==
  ASSUME NatsInv, NEW p \in Projectors, HandleAck(p) \/ HandleAckLost(p)
  PROVE  NatsInv'
<1>0. owed \cap acked = {}
  BY DEF NatsInv, BrokerInv
<1>1. CASE HandleAck(p)
  <2>1. /\ Handler(p) /\ UNCHANGED <<logVars, pub, poll, stream, sent>>
        /\ acked' = acked \cup {Message(p)} /\ owed' = owed \ {Message(p)}
    BY <1>1 DEF HandleAck
  <2>2. owed' \subseteq owed /\ owed' \cap acked' = {}
    BY <1>0, <2>1
  <2> QED
    BY <2>1, <2>2, HandlerStep
<1>2. CASE HandleAckLost(p)
  <2>1. Handler(p) /\ UNCHANGED <<logVars, pub, poll, stream, sent>> /\ acked' = acked /\ owed' = owed
    BY <1>2 DEF HandleAckLost, brokerVars
  <2>2. owed' \subseteq owed /\ owed' \cap acked' = {}
    BY <1>0, <2>1
  <2> QED
    BY <2>1, <2>2, HandlerStep
<1> QED
  BY <1>1, <1>2

LEMMA NatsInvStep == NatsInv /\ [NatsNext]_natsVars => NatsInv'
<1> SUFFICES ASSUME NatsInv, [NatsNext]_natsVars PROVE NatsInv'
  OBVIOUS
<1>1. CASE \E w \in Writers : \E c \in Commands : Command(w, c) /\ UNCHANGED busVars
  <2>1. [Next]_vars /\ UNCHANGED busVars
    BY <1>1 DEF Next
  <2> QED
    BY <2>1, ReadSideStep
<1>2. CASE \E w \in Writers : PublishMsg(w) \/ PublishFails(w)
  BY <1>2, PublishMsgStep, PublishFailsStep
<1>3. CASE BrokerStep
  BY <1>3, SendStep, AckWaitStep DEF BrokerStep
<1>4. CASE \E k \in Messages : AckWaitTooShort(k)
  BY <1>4, AckWaitStep
<1>5. CASE \E p \in Projectors : HandleAck(p) \/ HandleAckLost(p) \/ HandleNak(p)
  BY <1>5, HandleStep, HandleNakStep
<1>6. CASE \E p \in Projectors : Poll(p) \/ (CatchUpFails(p) /\ UNCHANGED busVars)
  <2>1. [Next]_vars /\ UNCHANGED busVars
    BY <1>6 DEF Next, Poll
  <2> QED
    BY <2>1, ReadSideStep
<1>8. CASE UNCHANGED natsVars
  <2>1. [Next]_vars /\ UNCHANGED busVars
    BY <1>8 DEF natsVars
  <2> QED
    BY <2>1, ReadSideStep
<1> QED
  BY <1>1, <1>2, <1>3, <1>4, <1>5, <1>6, <1>8 DEF NatsNext

LEMMA NatsInvInit == NatsInit => NatsInv
<1> SUFFICES ASSUME NatsInit PROVE NatsInv
  OBVIOUS
<1>1. ReadInv
  BY ReadInvInit DEF NatsInit
<1>2. stream = <<>> /\ Len(stream) = 0 /\ stream \in Seq(WireMessage)
  BY DEF NatsInit
<1>3. StreamInv
  BY <1>2 DEF StreamInv, Messages
<1>4. inbox \in [Projectors -> Seq(Nat)] /\ \A p \in Projectors : Len(inbox[p]) = 0
  BY DEF NatsInit
<1>5. BrokerInv
  BY <1>2, <1>4 DEF NatsInit, BrokerInv
<1>6. HandledInv
  BY DEF NatsInit, HandledInv
<1> QED
  BY <1>1, <1>3, <1>5, <1>6 DEF NatsInv

LEMMA NatsInvariant == NatsSpec => []NatsInv
  BY NatsInvInit, NatsInvStep, PTL DEF NatsSpec

-----------------------------------------------------------------------------
(* What it is for.                                                         *)

LEMMA NatsInvTypes == NatsInv => NatsTypeOK
<1> SUFFICES ASSUME NatsInv PROVE NatsTypeOK
  OBVIOUS
<1>1. TypeOK
  BY ReadInvTypes DEF NatsInv
<1>2. ASSUME NEW k \in Messages PROVE toEvent(stream[k]) \in {events[n] : n \in 1 .. Len(events)}
  <2>1. PICK e : e = toEvent(stream[k]) /\ e.seq \in 1 .. Len(events) /\ e = events[e.seq]
    BY DEF NatsInv, StreamInv, InLog
  <2> QED
    BY <2>1
<1>3. /\ sent \in 0 .. Len(stream) /\ owed \cup acked \subseteq 1 .. sent /\ owed \cap acked = {}
      /\ \A p \in Projectors : \A n \in 1 .. Len(inbox[p]) : inbox[p][n] \in 1 .. sent
  BY DEF NatsInv, BrokerInv
<1> QED
  BY <1>1, <1>2, <1>3 DEF NatsTypeOK

\* The broker's books are in order and every message on the wire decodes to an event of
\* the log, through failed publishes and redeliveries (bus.go, Publish).
THEOREM BrokerTypes == NatsSpec => []NatsTypeOK
  BY NatsInvariant, NatsInvTypes, PTL

\* An acknowledged message has been through a handler, whose checkpoint covers it: no
\* nack, timeout or lost acknowledgement loses one (bus.go, Subscribe).
THEOREM HandledBeforeAcked == NatsSpec => []AckedIsHandled
<1>1. NatsInv => AckedIsHandled
  BY DEF NatsInv, HandledInv, AckedIsHandled
<1> QED
  BY <1>1, NatsInvariant, PTL

\* Effectively once over an at-least-once broker: no redelivery is applied again
\* (projector.go, ApplyEvent).
THEOREM EffectivelyOnceOverNats == NatsSpec => []NeverAppliedTwice
<1>1. NatsInv => NeverAppliedTwice
  BY DEF NatsInv, ReadInv, ViewsInv
<1> QED
  BY <1>1, NatsInvariant, PTL
\* What a callback's handler does to the read model.
LEMMA HandlerAdvances ==
  ASSUME NatsInv, NEW p \in Projectors, Handler(p)
  PROVE  Advancing
<1>1. PICK k : k = Message(p)
  OBVIOUS
<1>2. k \in 1 .. Len(stream) /\ StreamInv /\ ViewsInv
  BY <1>1, InHand DEF Handler, NatsInv, ReadInv
<1>3. stream[k] \in WireMessage
  BY <1>2 DEF StreamInv
<1>4. PICK e \in LoggedEvent : e = toEvent(stream[k])
  BY <1>2, <1>3, FromWire DEF StreamInv, Messages
<1>5. ApplyEvent(p, e)
  BY <1>1, <1>4 DEF Handler
<1> QED
  BY <1>2, <1>5, ApplyEventAdvances

LEMMA NatsStepAdvances ==
  ASSUME NatsInv, [NatsNext]_natsVars
  PROVE  Advancing
<1>0. ReadInv /\ ViewsInv
  BY DEF NatsInv, ReadInv
<1>1. CASE UNCHANGED readVars
  BY <1>0, <1>1, QuietAdvances
<1>2. CASE \E p \in Projectors : Handler(p)
  BY <1>2, HandlerAdvances
<1>3. CASE \E p \in Projectors : PollStep(p)
  <2>1. [Next]_vars
    BY <1>3 DEF Next
  <2> QED
    BY <1>0, <2>1, StepAdvances
<1>4. UNCHANGED vars => UNCHANGED readVars
  BY DEF vars, readVars
<1>5. UNCHANGED readVars \/ (\E p \in Projectors : Handler(p)) \/ \E p \in Projectors : PollStep(p)
  BY <1>4 DEF NatsNext, natsVars, Command, PublishMsg, PublishFails, BrokerStep, Send, AckWaitEnds, AckWaitTooShort,
              HandleAck, HandleAckLost, HandleNak, Poll, CatchUpFails
<1> QED
  BY <1>1, <1>2, <1>3, <1>5

\* Redelivery leaves no trace over NATS either: checkpoints never move back and a view
\* changes only together with its projector's checkpoint, whichever callback a message
\* reaches and however late (bus.go, Subscribe, and projector.go, ApplyEvent).
THEOREM RedeliveryLeavesNoTrace == NatsSpec => CheckpointsOnlyAdvance
<1>1. NatsInv /\ [NatsNext]_natsVars => [Advancing]_vars
  BY NatsStepAdvances
<1> QED
  BY <1>1, NatsInvariant, PTL DEF NatsSpec, CheckpointsOnlyAdvance, Advancing
=============================================================================
