------------------------- MODULE EventStream_proofs -------------------------
(* Proofs about EventStream: the order of the events that the logic thread   *)
(* pops, for any number of connections and any length of the queue.          *)
EXTENDS EventStream, TLAPS

(* What SafeQueue::push does to the queue, position by position.             *)
LEMMA AppendFacts ==
    ASSUME NEW q \in Seq(Event), NEW e \in Event
    PROVE  /\ Append(q, e) \in Seq(Event)
           /\ Len(Append(q, e)) = Len(q) + 1 /\ Len(q) \in Nat
           /\ Append(q, e)[Len(q) + 1] = e
           /\ \A i \in 1..Len(q) : Append(q, e)[i] = q[i]
OBVIOUS

(* What SafeQueue::pop does to it.                                           *)
LEMMA PopFacts ==
    ASSUME NEW q \in Seq(Event), q # <<>>
    PROVE  /\ Tail(q) \in Seq(Event)
           /\ Len(q) \in Nat \ {0} /\ Len(Tail(q)) = Len(q) - 1
           /\ Head(q) = q[1] /\ Head(q) \in Event
           /\ \A i \in 1..Len(q) - 1 : Tail(q)[i] = q[i + 1]
OBVIOUS

(* The three kinds of events are told apart by their type.                   *)
LEMMA EventFacts ==
    ASSUME NEW c \in Conn
    PROVE  /\ ConnectEvent(c) \in Event /\ DisconnectEvent(c) \in Event
           /\ \A m \in Msg : MessageEvent(c, m) \in Event
           /\ NoEvent \notin Event
           /\ ConnectEvent(c).type = "CONNECT" /\ ConnectEvent(c).conn = c
           /\ DisconnectEvent(c).type = "DISCONNECT" /\ DisconnectEvent(c).conn = c
           /\ \A m \in Msg : MessageEvent(c, m).type = "MESSAGE" /\ MessageEvent(c, m).conn = c
           /\ \A e \in Event : /\ e.conn \in Conn
                               /\ e.type \in {"CONNECT", "DISCONNECT", "MESSAGE"}
                               /\ e.type = "CONNECT" /\ e.conn = c => e = ConnectEvent(c)
                               /\ e.type = "DISCONNECT" /\ e.conn = c => e = DisconnectEvent(c)
<1>1. NoEvent \notin Event
  BY Zenon DEF NoEvent, Event
<1>2. \A e \in Event : /\ e.type = "CONNECT" /\ e.conn = c => e = ConnectEvent(c)
                       /\ e.type = "DISCONNECT" /\ e.conn = c => e = DisconnectEvent(c)
  BY DEF Event, ConnectEvent, DisconnectEvent
<1>3. \A e \in Event : e.conn \in Conn /\ e.type \in {"CONNECT", "DISCONNECT", "MESSAGE"}
  BY DEF Event
<1> QED
  BY <1>1, <1>2, <1>3 DEF Event, ConnectEvent, DisconnectEvent, MessageEvent

(* The type invariant of the stream.                                         *)
LEMMA StreamTypeInit == StreamInit => StreamTypeOK
BY DEF StreamInit, StreamTypeOK

(* Every step keeps the types.                                               *)
LEMMA StreamTypeNext == StreamTypeOK /\ [StreamNext]_streamVars => StreamTypeOK'
<1> SUFFICES ASSUME StreamTypeOK, [StreamNext]_streamVars PROVE StreamTypeOK'
  OBVIOUS
<1> USE DEF StreamTypeOK
<1>1. ASSUME NEW c \in Conn, PushConnect(c) PROVE StreamTypeOK'
  BY <1>1, AppendFacts, EventFacts DEF PushConnect, push
<1>2. ASSUME NEW c \in Conn, NetClose(c) PROVE StreamTypeOK'
  BY <1>2 DEF NetClose, CloseConn, Thread
<1>3. ASSUME NEW c \in Conn, NEW m \in Msg, PushMessage(c, m) PROVE StreamTypeOK'
  BY <1>3, AppendFacts, EventFacts DEF PushMessage, push
<1>4. ASSUME NEW t \in Thread, PushDisconnect(t) PROVE StreamTypeOK'
  <2>1. closing[t] \in Conn
    BY <1>4 DEF PushDisconnect
  <2> QED
    BY <1>4, <2>1, AppendFacts, EventFacts DEF PushDisconnect, push
<1>5. CASE Pop
  <2>1. Head(event_queue) \in Event /\ Tail(event_queue) \in Seq(Event)
    BY <1>5, PopFacts DEF Pop
  <2>2. Head(event_queue).conn \in Conn
    BY <2>1 DEF Event
  <2>3. StageAfter(Head(event_queue)) \in {"unseen", "open", "gone"}
    BY <2>2 DEF StageAfter
  <2> QED
    BY <1>5, <2>1, <2>2, <2>3 DEF Pop
<1>6. CASE Handle
  <2>1. evt' = NoEvent /\ UNCHANGED <<connected, event_queue, stage>>
    BY <1>6 DEF Handle
  <2>2. CASE UNCHANGED <<closer, closing>>
    BY <2>1, <2>2
  <2>3. CASE evt.type = "MESSAGE" /\ CloseConn("logic", evt.conn)
    BY <2>1, <2>3 DEF CloseConn, Thread
  <2> QED
    BY <1>6, <2>2, <2>3 DEF Handle
<1>7. CASE UNCHANGED streamVars
  BY <1>7 DEF streamVars
<1> QED
  BY <1>1, <1>2, <1>3, <1>4, <1>5, <1>6, <1>7 DEF StreamNext

(* Every variable of the stream keeps its type.                              *)
THEOREM StreamTypeCorrect == StreamSafety => []StreamTypeOK
BY StreamTypeInit, StreamTypeNext, PTL DEF StreamSafety

-----------------------------------------------------------------------------
(* The inductive invariant.  OneDisconnect and the legality of the next pop  *)
(* need to know how the events of one connection lie in the queue.           *)

(* Nothing happens to a connection that has not been announced, and whoever  *)
(* stands in close_conn is the one whose exchange won.                       *)
OnlyConnected ==
    /\ \A i \in 1..Len(event_queue) : event_queue[i].conn \in connected
    /\ \A c \in Conn \ connected : closer[c] = None
    /\ \A t \in Thread : closing[t] # None => closer[closing[t]] = t

(* The CONNECT comes before all else, and is queued until it is seen.        *)
ConnectFirst ==
    /\ \A c \in Conn : stage[c] = "unseen" <=> c \notin connected \/ Queued(ConnectEvent(c))
    /\ \A i, j \in 1..Len(event_queue) :
           i < j /\ event_queue[i].conn = event_queue[j].conn => event_queue[j].type # "CONNECT"

(* After the DISCONNECT there are only messages that the reactor had read    *)
(* before it noticed that the logic thread closed the connection.            *)
DisconnectLast ==
    /\ \A i, j \in 1..Len(event_queue) :
           i < j /\ event_queue[i].conn = event_queue[j].conn /\ event_queue[i].type = "DISCONNECT"
               => closer[event_queue[i].conn] = "logic"
    /\ \A i \in 1..Len(event_queue) :
           stage[event_queue[i].conn] = "gone" => closer[event_queue[i].conn] = "logic"

StreamIInv == StreamTypeOK /\ OnlyConnected /\ ConnectFirst /\ DisconnectLast /\ OneDisconnect

(* The invariant holds at the start.                                         *)
LEMMA StreamIInvInit == StreamInit => StreamIInv
<1> SUFFICES ASSUME StreamInit PROVE StreamIInv
  OBVIOUS
<1>1. StreamTypeOK
  BY StreamTypeInit
<1>2. 1..Len(event_queue) = {}
  BY DEF StreamInit
<1>3. OnlyConnected /\ ConnectFirst /\ DisconnectLast
  BY <1>2 DEF StreamInit, OnlyConnected, ConnectFirst, DisconnectLast, Queued
<1>4. OneDisconnect
  BY <1>2, EventStreamAssumption DEF StreamInit, OneDisconnect, Queued, Pushing, closed
<1> QED
  BY <1>1, <1>3, <1>4 DEF StreamIInv

(* What a push leaves to be shown: the old events stay where they were.      *)
LEMMA PushQueued ==
    ASSUME StreamTypeOK, NEW e \in Event, push(e)
    PROVE  /\ Len(event_queue) \in Nat /\ Len(event_queue') = Len(event_queue) + 1
           /\ event_queue'[Len(event_queue) + 1] = e
           /\ \A i \in 1..Len(event_queue) : event_queue'[i] = event_queue[i]
           /\ \A d : Queued(d)' <=> Queued(d) \/ d = e
<1>1. /\ Len(event_queue) \in Nat /\ Len(event_queue') = Len(event_queue) + 1
      /\ event_queue'[Len(event_queue) + 1] = e
      /\ \A i \in 1..Len(event_queue) : event_queue'[i] = event_queue[i]
  BY AppendFacts DEF push, StreamTypeOK
<1>2. \A d : Queued(d)' <=> Queued(d) \/ d = e
  BY <1>1 DEF Queued
<1> QED
  BY <1>1, <1>2

(* A CONNECT is pushed, before anything else of its connection.              *)
LEMMA PushConnectKeeps ==
    ASSUME StreamIInv, NEW c \in Conn, PushConnect(c)
    PROVE  (OnlyConnected /\ ConnectFirst /\ DisconnectLast /\ OneDisconnect)'
<1> DEFINE e == ConnectEvent(c)
           n == Len(event_queue)
<1> USE DEF StreamIInv
<1>1. e \in Event /\ e.conn = c /\ e.type = "CONNECT"
  BY EventFacts
<1>2. push(e) /\ connected' = connected \cup {c} /\ c \notin connected
      /\ UNCHANGED <<closer, closing, evt, stage>>
  BY DEF PushConnect
<1>3. /\ n \in Nat /\ Len(event_queue') = n + 1 /\ event_queue'[n + 1] = e
      /\ \A i \in 1..n : event_queue'[i] = event_queue[i]
      /\ \A d : Queued(d)' <=> Queued(d) \/ d = e
  BY <1>1, <1>2, PushQueued
<1>4. \A i \in 1..n : event_queue[i] \in Event /\ event_queue[i].conn # c
  BY <1>2, <1>3 DEF OnlyConnected, StreamTypeOK
<1>5. \A d \in Conn : e # DisconnectEvent(d) /\ (e = ConnectEvent(d) <=> d = c)
  BY <1>1, EventFacts
<1> HIDE DEF e, n
<1>6. OnlyConnected'
  BY <1>1, <1>2, <1>3 DEF OnlyConnected, n
<1>7. ConnectFirst'
  <2>1. \A d \in Conn : (stage[d] = "unseen" <=> d \notin connected \/ Queued(ConnectEvent(d)))'
    BY <1>2, <1>3, <1>5 DEF ConnectFirst
  <2>2. ASSUME NEW i \in 1..n + 1, NEW j \in 1..n + 1, i < j,
               event_queue'[i].conn = event_queue'[j].conn
        PROVE  event_queue'[j].type # "CONNECT"
    <3>1. j # n + 1
      BY <1>1, <1>3, <1>4, <2>2
    <3> QED
      BY <1>3, <2>2, <3>1 DEF ConnectFirst, n
  <2> QED
    BY <1>3, <2>1, <2>2 DEF ConnectFirst
<1>8. DisconnectLast'
  <2>1. stage[c] = "unseen"
    BY <1>2 DEF ConnectFirst
  <2>2. ASSUME NEW i \in 1..n + 1, NEW j \in 1..n + 1, i < j,
               event_queue'[i].conn = event_queue'[j].conn, event_queue'[i].type = "DISCONNECT"
        PROVE  closer[event_queue'[i].conn] = "logic"
    <3>1. j # n + 1
      BY <1>1, <1>3, <1>4, <2>2
    <3> QED
      BY <1>3, <2>2, <3>1 DEF DisconnectLast, n
  <2>3. ASSUME NEW i \in 1..n + 1, stage[event_queue'[i].conn] = "gone"
        PROVE  closer[event_queue'[i].conn] = "logic"
    <3>1. i # n + 1
      BY <1>1, <1>3, <2>1, <2>3
    <3> QED
      BY <1>3, <2>3, <3>1 DEF DisconnectLast, n
  <2> QED
    BY <1>2, <1>3, <2>2, <2>3 DEF DisconnectLast
<1>9. OneDisconnect'
  <2> SUFFICES ASSUME NEW d \in Conn
               PROVE  (/\ closed(d) <=> Pushing(d) \/ Queued(DisconnectEvent(d)) \/ stage[d] = "gone"
                       /\ ~(Pushing(d) /\ Queued(DisconnectEvent(d)))
                       /\ stage[d] = "gone" => ~Pushing(d) /\ ~Queued(DisconnectEvent(d))
                       /\ \A i, j \in 1..Len(event_queue) :
                             event_queue[i] = DisconnectEvent(d) /\ event_queue[j] = DisconnectEvent(d)
                                => i = j)'
    BY DEF OneDisconnect
  <2>1. /\ Queued(DisconnectEvent(d))' <=> Queued(DisconnectEvent(d))
        /\ Pushing(d)' <=> Pushing(d)
        /\ closed(d)' <=> closed(d)
    BY <1>2, <1>3, <1>5 DEF Pushing, closed
  <2>2. ASSUME NEW i \in 1..n + 1, NEW j \in 1..n + 1,
               event_queue'[i] = DisconnectEvent(d), event_queue'[j] = DisconnectEvent(d)
        PROVE  i = j
    <3>1. i # n + 1 /\ j # n + 1
      BY <1>3, <1>5, <2>2
    <3> QED
      BY <1>3, <2>2, <3>1 DEF OneDisconnect, n
  <2> QED
    BY <1>2, <1>3, <2>1, <2>2 DEF OneDisconnect
<1> QED
  BY <1>6, <1>7, <1>8, <1>9

(* A MESSAGE is pushed.                                                      *)
LEMMA PushMessageKeeps ==
    ASSUME StreamIInv, NEW c \in Conn, NEW m \in Msg, PushMessage(c, m)
    PROVE  (OnlyConnected /\ ConnectFirst /\ DisconnectLast /\ OneDisconnect)'
<1> DEFINE e == MessageEvent(c, m)
           n == Len(event_queue)
<1> USE DEF StreamIInv
<1>1. e \in Event /\ e.conn = c /\ e.type = "MESSAGE"
  BY EventFacts
<1>2. push(e) /\ c \in connected /\ closer[c] # "net" /\ closing["net"] = None
      /\ UNCHANGED <<connected, closer, closing, evt, stage>>
  BY DEF PushMessage
<1>3. /\ n \in Nat /\ Len(event_queue') = n + 1 /\ event_queue'[n + 1] = e
      /\ \A i \in 1..n : event_queue'[i] = event_queue[i]
      /\ \A d : Queued(d)' <=> Queued(d) \/ d = e
  BY <1>1, <1>2, PushQueued
<1>4. \A d \in Conn : e # DisconnectEvent(d) /\ e # ConnectEvent(d)
  BY <1>1, EventFacts
<1>5. closed(c) => closer[c] = "logic"
  BY <1>2 DEF closed, StreamTypeOK, Thread
<1>6. \A i \in 1..n : event_queue[i] \in Event
  BY <1>3 DEF StreamTypeOK
<1> HIDE DEF e, n
<1>7. OnlyConnected'
  BY <1>1, <1>2, <1>3 DEF OnlyConnected, n
<1>8. ConnectFirst'
  BY <1>1, <1>2, <1>3, <1>4 DEF ConnectFirst, n
<1>9. DisconnectLast'
  <2>1. ASSUME NEW i \in 1..n + 1, NEW j \in 1..n + 1, i < j,
               event_queue'[i].conn = event_queue'[j].conn, event_queue'[i].type = "DISCONNECT"
        PROVE  closer[event_queue'[i].conn] = "logic"
    <3>1. CASE j # n + 1
      <4>1. i \in 1..n /\ j \in 1..n
        BY <1>3, <2>1, <3>1
      <4>2. event_queue'[i] = event_queue[i] /\ event_queue'[j] = event_queue[j]
        BY <1>3, <4>1
      <4> QED
        BY <2>1, <4>1, <4>2 DEF DisconnectLast, n
    <3>2. CASE j = n + 1
      <4>1. i \in 1..n /\ event_queue'[i] = event_queue[i] /\ event_queue[i].conn = c
        BY <1>1, <1>3, <2>1, <3>2
      <4>2. event_queue[i] = DisconnectEvent(c)
        BY <1>6, <2>1, <4>1, EventFacts
      <4>3. closed(c)
        BY <4>1, <4>2 DEF OneDisconnect, Queued, n
      <4> QED
        BY <1>5, <4>1, <4>3
    <3> QED
      BY <3>1, <3>2
  <2>2. ASSUME NEW i \in 1..n + 1, stage[event_queue'[i].conn] = "gone"
        PROVE  closer[event_queue'[i].conn] = "logic"
    <3>1. stage[c] = "gone" => closed(c)
      BY DEF OneDisconnect
    <3> QED
      BY <1>1, <1>3, <1>5, <2>2, <3>1 DEF DisconnectLast, n
  <2> QED
    BY <1>2, <1>3, <2>1, <2>2 DEF DisconnectLast
<1>10. OneDisconnect'
  <2> SUFFICES ASSUME NEW d \in Conn
               PROVE  (/\ closed(d) <=> Pushing(d) \/ Queued(DisconnectEvent(d)) \/ stage[d] = "gone"
                       /\ ~(Pushing(d) /\ Queued(DisconnectEvent(d)))
                       /\ stage[d] = "gone" => ~Pushing(d) /\ ~Queued(DisconnectEvent(d))
                       /\ \A i, j \in 1..Len(event_queue) :
                             event_queue[i] = DisconnectEvent(d) /\ event_queue[j] = DisconnectEvent(d)
                                => i = j)'
    BY DEF OneDisconnect
  <2>1. /\ Queued(DisconnectEvent(d))' <=> Queued(DisconnectEvent(d))
        /\ Pushing(d)' <=> Pushing(d)
        /\ closed(d)' <=> closed(d)
    BY <1>2, <1>3, <1>4 DEF Pushing, closed
  <2>2. ASSUME NEW i \in 1..n + 1, NEW j \in 1..n + 1,
               event_queue'[i] = DisconnectEvent(d), event_queue'[j] = DisconnectEvent(d)
        PROVE  i = j
    <3>1. i # n + 1 /\ j # n + 1
      BY <1>3, <1>4, <2>2
    <3> QED
      BY <1>3, <2>2, <3>1 DEF OneDisconnect, n
  <2> QED
    BY <1>2, <1>3, <2>1, <2>2 DEF OneDisconnect
<1> QED
  BY <1>7, <1>8, <1>9, <1>10

(* A DISCONNECT is pushed.                                                   *)
LEMMA PushDisconnectKeeps ==
    ASSUME StreamIInv, NEW t \in Thread, PushDisconnect(t)
    PROVE  (OnlyConnected /\ ConnectFirst /\ DisconnectLast /\ OneDisconnect)'
<1> DEFINE c == closing[t]
           e == DisconnectEvent(c)
           n == Len(event_queue)
<1> USE DEF StreamIInv
<1>1. c \in Conn /\ e \in Event /\ e.conn = c /\ e.type = "DISCONNECT"
  BY EventFacts DEF PushDisconnect, StreamTypeOK
<1>2. push(e) /\ closing' = [closing EXCEPT ![t] = None]
      /\ UNCHANGED <<connected, closer, evt, stage>>
  BY DEF PushDisconnect
<1>3. /\ n \in Nat /\ Len(event_queue') = n + 1 /\ event_queue'[n + 1] = e
      /\ \A i \in 1..n : event_queue'[i] = event_queue[i]
      /\ \A d : Queued(d)' <=> Queued(d) \/ d = e
  BY <1>1, <1>2, PushQueued
<1>4. \A d \in Conn : (e = DisconnectEvent(d) <=> d = c) /\ e # ConnectEvent(d)
  BY <1>1, EventFacts
<1>5. closer[c] = t /\ c \in connected /\ closed(c) /\ Pushing(c)
  <2>1. closer[c] = t
    BY <1>1, EventStreamAssumption DEF OnlyConnected
  <2>2. c \in connected /\ closed(c)
    BY <1>1, <2>1, EventStreamAssumption DEF OnlyConnected, closed
  <2> QED
    BY <2>1, <2>2 DEF Pushing
<1>6. ~Queued(DisconnectEvent(c)) /\ stage[c] # "gone"
  BY <1>1, <1>5 DEF OneDisconnect
<1>7. \A i \in 1..n : event_queue[i] \in Event
  BY <1>3 DEF StreamTypeOK
<1>8. \A s \in Thread : closing'[s] = IF s = t THEN None ELSE closing[s]
  BY <1>2 DEF StreamTypeOK
<1> HIDE DEF e, n, c
<1>9. OnlyConnected'
  BY <1>1, <1>2, <1>3, <1>5, <1>8 DEF OnlyConnected, n
<1>10. ConnectFirst'
  BY <1>1, <1>2, <1>3, <1>4 DEF ConnectFirst, n
<1>11. DisconnectLast'
  <2>1. ASSUME NEW i \in 1..n + 1, NEW j \in 1..n + 1, i < j,
               event_queue'[i].conn = event_queue'[j].conn, event_queue'[i].type = "DISCONNECT"
        PROVE  closer[event_queue'[i].conn] = "logic"
    <3>1. CASE j # n + 1
      <4>1. i \in 1..n /\ j \in 1..n
        BY <1>3, <2>1, <3>1
      <4>2. event_queue'[i] = event_queue[i] /\ event_queue'[j] = event_queue[j]
        BY <1>3, <4>1
      <4> QED
        BY <2>1, <4>1, <4>2 DEF DisconnectLast, n
    <3>2. CASE j = n + 1
      <4>1. i \in 1..n /\ event_queue'[i] = event_queue[i] /\ event_queue[i].conn = c
        BY <1>1, <1>3, <2>1, <3>2
      <4>2. event_queue[i] = DisconnectEvent(c)
        BY <1>1, <1>7, <2>1, <4>1, EventFacts
      <4> QED
        BY <1>6, <4>1, <4>2 DEF Queued, n
    <3> QED
      BY <3>1, <3>2
  <2>2. ASSUME NEW i \in 1..n + 1, stage[event_queue'[i].conn] = "gone"
        PROVE  closer[event_queue'[i].conn] = "logic"
    BY <1>1, <1>3, <1>6, <2>2 DEF DisconnectLast, n
  <2> QED
    BY <1>2, <1>3, <2>1, <2>2 DEF DisconnectLast
<1>12. OneDisconnect'
  <2> SUFFICES ASSUME NEW d \in Conn
               PROVE  (/\ closed(d) <=> Pushing(d) \/ Queued(DisconnectEvent(d)) \/ stage[d] = "gone"
                       /\ ~(Pushing(d) /\ Queued(DisconnectEvent(d)))
                       /\ stage[d] = "gone" => ~Pushing(d) /\ ~Queued(DisconnectEvent(d))
                       /\ \A i, j \in 1..Len(event_queue) :
                             event_queue[i] = DisconnectEvent(d) /\ event_queue[j] = DisconnectEvent(d)
                                => i = j)'
    BY DEF OneDisconnect
  <2>1. /\ Queued(DisconnectEvent(d))' <=> Queued(DisconnectEvent(d)) \/ d = c
        /\ closed(d)' <=> closed(d)
    BY <1>2, <1>3, <1>4 DEF closed
  <2>2. Pushing(d)' <=> Pushing(d) /\ d # c
    <3>1. \A s \in Thread : closing[s] = c => s = t
      BY <1>1, <1>5, EventStreamAssumption DEF OnlyConnected
    <3> QED
      BY <1>1, <1>8, <3>1, EventStreamAssumption DEF Pushing, c
  <2>3. ASSUME NEW i \in 1..n + 1, NEW j \in 1..n + 1,
               event_queue'[i] = DisconnectEvent(d), event_queue'[j] = DisconnectEvent(d)
        PROVE  i = j
    <3>1. CASE d = c
      <4>1. i = n + 1 /\ j = n + 1
        BY <1>3, <1>6, <2>3, <3>1 DEF Queued, n
      <4> QED
        BY <4>1
    <3>2. CASE d # c
      <4>1. i # n + 1 /\ j # n + 1
        BY <1>3, <1>4, <2>3, <3>2
      <4> QED
        BY <1>3, <2>3, <4>1 DEF OneDisconnect, n
    <3> QED
      BY <3>1, <3>2
  <2> QED
    BY <1>1, <1>2, <1>3, <1>5, <1>6, <2>1, <2>2, <2>3 DEF OneDisconnect
<1> QED
  BY <1>9, <1>10, <1>11, <1>12

(* close_conn's exchange, in either thread.                                  *)
LEMMA CloseConnKeeps ==
    ASSUME StreamIInv, NEW t \in Thread, NEW c \in Conn, CloseConn(t, c),
           UNCHANGED <<connected, event_queue, stage>>
    PROVE  (OnlyConnected /\ ConnectFirst /\ DisconnectLast /\ OneDisconnect)'
<1> USE DEF StreamIInv
<1>1. c \in connected /\ ~closed(c) /\ closing[t] = None
  BY DEF CloseConn
<1>2. /\ \A d \in Conn : closer'[d] = IF d = c THEN t ELSE closer[d]
      /\ \A s \in Thread : closing'[s] = IF s = t THEN c ELSE closing[s]
  BY DEF CloseConn, StreamTypeOK
<1>3. ~Pushing(c) /\ ~Queued(DisconnectEvent(c)) /\ stage[c] # "gone"
  BY <1>1 DEF OneDisconnect
<1>4. \A i \in 1..Len(event_queue) : event_queue[i] \in Event
  BY DEF StreamTypeOK
<1>5. OnlyConnected'
  BY <1>1, <1>2, <1>3 DEF OnlyConnected, Pushing, StreamTypeOK
<1>6. ConnectFirst'
  BY DEF ConnectFirst, Queued
<1>7. DisconnectLast'
  <2>1. ASSUME NEW i \in 1..Len(event_queue),
               event_queue[i].conn = c
        PROVE  event_queue[i].type # "DISCONNECT"
    BY <1>3, <1>4, <2>1, EventFacts DEF Queued
  <2>2. \A i \in 1..Len(event_queue) : event_queue[i].conn \in Conn
    BY <1>4, EventFacts
  <2>3. ASSUME NEW i \in 1..Len(event_queue), NEW j \in 1..Len(event_queue), i < j,
               event_queue[i].conn = event_queue[j].conn, event_queue[i].type = "DISCONNECT"
        PROVE  closer'[event_queue[i].conn] = "logic"
    BY <1>2, <2>1, <2>2, <2>3 DEF DisconnectLast
  <2>4. ASSUME NEW i \in 1..Len(event_queue), stage[event_queue[i].conn] = "gone"
        PROVE  closer'[event_queue[i].conn] = "logic"
    BY <1>2, <1>3, <2>2, <2>4 DEF DisconnectLast
  <2> QED
    BY <2>3, <2>4 DEF DisconnectLast
<1>8. OneDisconnect'
  <2> SUFFICES ASSUME NEW d \in Conn
               PROVE  (/\ closed(d) <=> Pushing(d) \/ Queued(DisconnectEvent(d)) \/ stage[d] = "gone"
                       /\ ~(Pushing(d) /\ Queued(DisconnectEvent(d)))
                       /\ stage[d] = "gone" => ~Pushing(d) /\ ~Queued(DisconnectEvent(d))
                       /\ \A i, j \in 1..Len(event_queue) :
                             event_queue[i] = DisconnectEvent(d) /\ event_queue[j] = DisconnectEvent(d)
                                => i = j)'
    BY DEF OneDisconnect
  <2>1. Queued(DisconnectEvent(d))' <=> Queued(DisconnectEvent(d))
    BY DEF Queued
  <2>2. closed(d)' <=> closed(d) \/ d = c
    BY <1>2, EventStreamAssumption DEF closed
  <2>3. Pushing(d)' <=> Pushing(d) \/ d = c
    BY <1>1, <1>2, EventStreamAssumption DEF Pushing
  <2> QED
    BY <1>1, <1>3, <2>1, <2>2, <2>3 DEF OneDisconnect
<1> QED
  BY <1>5, <1>6, <1>7, <1>8

(* The logic thread pops the head of the queue.                              *)
LEMMA PopKeeps ==
    ASSUME StreamIInv, Pop
    PROVE  (OnlyConnected /\ ConnectFirst /\ DisconnectLast /\ OneDisconnect)'
<1> DEFINE n == Len(event_queue)
<1> USE DEF StreamIInv
<1>0. /\ event_queue \in Seq(Event) /\ event_queue # <<>>
      /\ event_queue' = Tail(event_queue) /\ Head(event_queue) \in Event
  BY PopFacts DEF Pop, StreamTypeOK
<1>h. PICK h \in Event : h = Head(event_queue)
  BY <1>0
<1>c. PICK c \in Conn : c = h.conn
  BY EventFacts DEF Event
<1>1. /\ n \in Nat \ {0} /\ Len(event_queue') = n - 1
      /\ h = event_queue[1] /\ h \in Event /\ c \in Conn /\ h.conn = c
      /\ \A i \in 1..n - 1 : event_queue'[i] = event_queue[i + 1]
  BY <1>0, <1>h, <1>c, PopFacts
<1>2. UNCHANGED <<connected, closer, closing>>
  BY DEF Pop
<1>3. \A d \in Conn : stage'[d] = IF d = c THEN StageAfter(h) ELSE stage[d]
  BY <1>1, <1>h DEF Pop, StreamTypeOK
<1>s. StageAfter(h) = IF h.type = "CONNECT" THEN "open"
                      ELSE IF h.type = "DISCONNECT" THEN "gone" ELSE stage[c]
  BY <1>1 DEF StageAfter
<1>4. c \in connected
  BY <1>1 DEF OnlyConnected
<1>5. \A d : Queued(d) <=> Queued(d)' \/ d = h
  <2>1. ASSUME NEW d, Queued(d) PROVE Queued(d)' \/ d = h
    <3>1. PICK i \in 1..n : event_queue[i] = d
      BY <2>1 DEF Queued
    <3>2. CASE i = 1
      BY <1>1, <3>1, <3>2
    <3>3. CASE i # 1
      <4>1. i - 1 \in 1..n - 1 /\ event_queue'[i - 1] = d
        BY <1>1, <3>1, <3>3
      <4> QED
        BY <1>1, <4>1 DEF Queued
    <3> QED
      BY <3>2, <3>3
  <2>2. ASSUME NEW d, Queued(d)' PROVE Queued(d)
    <3>1. PICK i \in 1..n - 1 : event_queue'[i] = d
      BY <1>1, <2>2 DEF Queued
    <3>2. i + 1 \in 1..n /\ event_queue[i + 1] = d
      BY <1>1, <3>1
    <3> QED
      BY <3>2 DEF Queued
  <2>3. Queued(h)
    BY <1>1 DEF Queued
  <2> QED
    BY <2>1, <2>2, <2>3
<1>6. \A i \in 1..n : event_queue[i] \in Event
  BY <1>1 DEF StreamTypeOK
<1> HIDE DEF n
<1>7. OnlyConnected'
  BY <1>1, <1>2 DEF OnlyConnected, n
(* No later event of c is a CONNECT, so c's CONNECT is queued only as h.     *)
<1>8. ~Queued(ConnectEvent(c))'
  <2> SUFFICES ASSUME Queued(ConnectEvent(c))' PROVE FALSE
    OBVIOUS
  <2>1. PICK i \in 1..n - 1 : event_queue'[i] = ConnectEvent(c)
    BY <1>1 DEF Queued
  <2>2. i + 1 \in 1..n /\ 1 \in 1..n /\ 1 < i + 1 /\ event_queue[i + 1] = ConnectEvent(c)
    BY <1>1, <2>1
  <2>3. event_queue[i + 1].conn = event_queue[1].conn /\ event_queue[i + 1].type = "CONNECT"
    BY <1>1, <2>2, EventFacts
  <2> QED
    BY <2>2, <2>3 DEF ConnectFirst, n
<1>9. stage[c] = "unseen" <=> h = ConnectEvent(c)
  BY <1>1, <1>4, <1>5, <1>8 DEF ConnectFirst
<1>10. StageAfter(h) # "unseen"
  <2>1. h.type = "CONNECT" <=> h = ConnectEvent(c)
    BY <1>1, EventFacts
  <2> QED
    BY <1>s, <1>9, <2>1
<1>11. ConnectFirst'
  <2>1. ASSUME NEW d \in Conn
        PROVE  (stage[d] = "unseen" <=> d \notin connected \/ Queued(ConnectEvent(d)))'
    <3>1. CASE d = c
      BY <1>2, <1>3, <1>4, <1>8, <1>10, <3>1
    <3>2. CASE d # c
      <4>1. h # ConnectEvent(d)
        BY <1>1, <3>2, EventFacts
      <4> QED
        BY <1>2, <1>3, <1>5, <3>2, <4>1 DEF ConnectFirst
    <3> QED
      BY <3>1, <3>2
  <2>2. ASSUME NEW i \in 1..n - 1, NEW j \in 1..n - 1, i < j,
               event_queue'[i].conn = event_queue'[j].conn
        PROVE  event_queue'[j].type # "CONNECT"
    <3>1. i + 1 \in 1..n /\ j + 1 \in 1..n /\ i + 1 < j + 1
      BY <1>1, <2>2
    <3> QED
      BY <1>1, <2>2, <3>1 DEF ConnectFirst, n
  <2> QED
    BY <1>1, <2>1, <2>2 DEF ConnectFirst
(* Once the DISCONNECT is popped, what is left of c are messages, and only   *)
(* if the logic thread closed it.                                            *)
<1>12. h.type = "DISCONNECT" => h = DisconnectEvent(c)
  BY <1>1, EventFacts
<1>13. DisconnectLast'
  <2>1. ASSUME NEW i \in 1..n - 1, NEW j \in 1..n - 1, i < j,
               event_queue'[i].conn = event_queue'[j].conn, event_queue'[i].type = "DISCONNECT"
        PROVE  closer[event_queue'[i].conn] = "logic"
    <3>1. i + 1 \in 1..n /\ j + 1 \in 1..n /\ i + 1 < j + 1
      BY <1>1, <2>1
    <3> QED
      BY <1>1, <2>1, <3>1 DEF DisconnectLast, n
  <2>2. ASSUME NEW i \in 1..n - 1, stage'[event_queue'[i].conn] = "gone"
        PROVE  closer[event_queue'[i].conn] = "logic"
    <3> DEFINE d == event_queue'[i].conn
    <3>1. i + 1 \in 1..n /\ 1 \in 1..n /\ 1 < i + 1 /\ event_queue'[i] = event_queue[i + 1] /\ d \in Conn
      BY <1>1, <1>6, EventFacts
    <3>2. CASE stage[d] = "gone"
      BY <3>1, <3>2 DEF DisconnectLast, n
    <3>3. CASE stage[d] # "gone"
      <4>1. d = c /\ StageAfter(h) = "gone"
        BY <1>3, <2>2, <3>1, <3>3
      <4>2. h.type = "DISCONNECT"
        BY <1>s, <3>3, <4>1
      <4>3. event_queue[1].conn = event_queue[i + 1].conn /\ event_queue[1].type = "DISCONNECT"
        BY <1>1, <3>1, <4>1, <4>2
      <4> QED
        BY <1>1, <3>1, <4>1, <4>3 DEF DisconnectLast, n
    <3> QED
      BY <3>2, <3>3
  <2> QED
    BY <1>1, <1>2, <2>1, <2>2 DEF DisconnectLast
<1>14. OneDisconnect'
  <2> SUFFICES ASSUME NEW d \in Conn
               PROVE  (/\ closed(d) <=> Pushing(d) \/ Queued(DisconnectEvent(d)) \/ stage[d] = "gone"
                       /\ ~(Pushing(d) /\ Queued(DisconnectEvent(d)))
                       /\ stage[d] = "gone" => ~Pushing(d) /\ ~Queued(DisconnectEvent(d))
                       /\ \A i, j \in 1..Len(event_queue) :
                             event_queue[i] = DisconnectEvent(d) /\ event_queue[j] = DisconnectEvent(d)
                                => i = j)'
    BY DEF OneDisconnect
  <2>1. (Pushing(d)' <=> Pushing(d)) /\ (closed(d)' <=> closed(d))
    BY <1>2 DEF Pushing, closed
  <2>2. ASSUME NEW i \in 1..n - 1, NEW j \in 1..n - 1,
               event_queue'[i] = DisconnectEvent(d), event_queue'[j] = DisconnectEvent(d)
        PROVE  i = j
    <3>1. i + 1 \in 1..n /\ j + 1 \in 1..n
      BY <1>1
    <3>2. i + 1 = j + 1
      BY <1>1, <2>2, <3>1 DEF OneDisconnect, n
    <3> QED
      BY <3>2
  <2>3. CASE h = DisconnectEvent(d)
    <3>1. d = c /\ h.type = "DISCONNECT"
      BY <1>1, <2>3, EventFacts
    <3>2. stage'[d] = "gone"
      BY <1>s, <1>3, <3>1
    <3>3. ~Queued(DisconnectEvent(d))'
      <4> SUFFICES ASSUME Queued(DisconnectEvent(d))' PROVE FALSE
        OBVIOUS
      <4>1. PICK i \in 1..n - 1 : event_queue'[i] = DisconnectEvent(d)
        BY <1>1 DEF Queued
      <4>2. i + 1 \in 1..n /\ 1 \in 1..n /\ event_queue[i + 1] = DisconnectEvent(d)
        BY <1>1, <4>1
      <4>3. i + 1 = 1
        BY <1>1, <2>3, <4>2 DEF OneDisconnect, n
      <4> QED
        BY <1>1, <4>3
    <3>4. Queued(DisconnectEvent(d))
      BY <1>5, <2>3
    <3> QED
      BY <1>1, <2>1, <2>2, <3>2, <3>3, <3>4 DEF OneDisconnect
  <2>4. CASE h # DisconnectEvent(d)
    <3>1. Queued(DisconnectEvent(d))' <=> Queued(DisconnectEvent(d))
      BY <1>5, <2>4
    <3>2. stage'[d] = "gone" <=> stage[d] = "gone"
      <4>1. CASE d # c
        BY <1>3, <4>1
      <4>2. CASE d = c
        <5>1. h.type # "DISCONNECT"
          BY <1>12, <2>4, <4>2
        <5>2. stage[c] = "gone" => h # ConnectEvent(c)
          BY <1>9
        <5>3. h.type = "CONNECT" => h = ConnectEvent(c)
          BY <1>1, EventFacts
        <5> QED
          BY <1>3, <4>2, <5>1, <5>2, <5>3, <1>s
      <4> QED
        BY <4>1, <4>2
    <3> QED
      BY <1>1, <2>1, <2>2, <3>1, <3>2 DEF OneDisconnect
  <2> QED
    BY <2>3, <2>4
<1> QED
  BY <1>7, <1>11, <1>13, <1>14

(* Every step keeps the invariant,                                           *)
LEMMA StreamIInvNext == StreamIInv /\ [StreamNext]_streamVars => StreamIInv'
<1> SUFFICES ASSUME StreamIInv, [StreamNext]_streamVars PROVE StreamIInv'
  OBVIOUS
<1> DEFINE Parts == OnlyConnected /\ ConnectFirst /\ DisconnectLast /\ OneDisconnect
<1>1. StreamTypeOK'
  BY StreamTypeNext DEF StreamIInv
<1>2. ASSUME NEW c \in Conn, PushConnect(c) PROVE Parts'
  BY <1>2, PushConnectKeeps
<1>3. ASSUME NEW c \in Conn, NetClose(c) PROVE Parts'
  BY <1>3, CloseConnKeeps DEF NetClose, Thread
<1>4. ASSUME NEW c \in Conn, NEW m \in Msg, PushMessage(c, m) PROVE Parts'
  BY <1>4, PushMessageKeeps
<1>5. ASSUME NEW t \in Thread, PushDisconnect(t) PROVE Parts'
  BY <1>5, PushDisconnectKeeps
<1>6. ASSUME Pop PROVE Parts'
  BY <1>6, PopKeeps
<1>7. ASSUME Handle PROVE Parts'
  <2>1. CASE UNCHANGED <<closer, closing>>
    BY <1>7, <2>1 DEF Handle, StreamIInv, OnlyConnected, ConnectFirst, DisconnectLast,
                      OneDisconnect, Pushing, Queued, closed
  <2>2. CASE evt.type = "MESSAGE" /\ CloseConn("logic", evt.conn)
    <3>1. evt.conn \in Conn /\ "logic" \in Thread
      BY <2>2 DEF CloseConn, StreamIInv, StreamTypeOK, Thread
    <3> QED
      BY <1>7, <2>2, <3>1, CloseConnKeeps DEF Handle
  <2> QED
    BY <1>7, <2>1, <2>2 DEF Handle
<1>8. ASSUME UNCHANGED streamVars PROVE Parts'
  BY <1>8 DEF streamVars, StreamIInv, OnlyConnected, ConnectFirst, DisconnectLast,
              OneDisconnect, Pushing, Queued, closed
<1>9. Parts'
  BY <1>2, <1>3, <1>4, <1>5, <1>6, <1>7, <1>8 DEF StreamNext
<1> QED
  BY <1>1, <1>9 DEF StreamIInv

(* and so it holds always.                                                   *)
LEMMA StreamIInvInvariant == StreamSafety => []StreamIInv
BY StreamIInvInit, StreamIInvNext, PTL DEF StreamSafety

(* A closed connection is reported by exactly one DISCONNECT.                *)
THEOREM OneDisconnectHolds == StreamSafety => []OneDisconnect
<1>1. StreamIInv => OneDisconnect
  BY DEF StreamIInv
<1> QED
  BY <1>1, StreamIInvInvariant, PTL

(* The head of the queue is an event that is legal next.                     *)
LEMMA PopLegal ==
    ASSUME StreamIInv, Pop
    PROVE  evt' \in Event /\ LegalNext(evt')
<1>1. event_queue \in Seq(Event) /\ event_queue # <<>> /\ evt' = Head(event_queue)
  BY DEF Pop, StreamIInv, StreamTypeOK
<1>2. PICK h \in Event : h = evt'
  BY <1>1, PopFacts
<1>3. PICK c \in Conn : c = h.conn
  BY DEF Event
<1>4. 1 \in 1..Len(event_queue) /\ event_queue[1] = h
  BY <1>1, <1>2, PopFacts
<1>5. c \in connected
  BY <1>3, <1>4 DEF StreamIInv, OnlyConnected
<1>6. h.type = "CONNECT" => stage[c] = "unseen"
  <2>1. h.type = "CONNECT" => h = ConnectEvent(c)
    BY <1>3, EventFacts
  <2> QED
    BY <1>4, <2>1 DEF StreamIInv, ConnectFirst, Queued
<1>7. h.type # "CONNECT" => stage[c] # "unseen"
  <2> SUFFICES ASSUME h.type # "CONNECT", Queued(ConnectEvent(c)) PROVE FALSE
    BY <1>5 DEF StreamIInv, ConnectFirst
  <2>1. PICK i \in 1..Len(event_queue) : event_queue[i] = ConnectEvent(c)
    BY DEF Queued
  <2>2. event_queue[i].type = "CONNECT" /\ event_queue[i].conn = event_queue[1].conn
    BY <1>3, <1>4, <2>1, EventFacts
  <2>3. i # 1
    BY <1>4, <2>2
  <2> QED
    BY <1>4, <2>2, <2>3 DEF StreamIInv, ConnectFirst
<1>8. h.type = "DISCONNECT" => stage[c] # "gone"
  <2>1. h.type = "DISCONNECT" => h = DisconnectEvent(c)
    BY <1>3, EventFacts
  <2> QED
    BY <1>4, <2>1 DEF StreamIInv, OneDisconnect, Queued
<1>9. stage[c] = "gone" => closer[c] = "logic"
  BY <1>3, <1>4 DEF StreamIInv, DisconnectLast
<1>10. h.type \in {"CONNECT", "DISCONNECT", "MESSAGE"} /\ stage[c] \in {"unseen", "open", "gone"}
  BY DEF Event, StreamIInv, StreamTypeOK
<1> QED
  BY <1>2, <1>3, <1>6, <1>7, <1>8, <1>9, <1>10 DEF LegalNext

(* Every event that the logic thread pops is legal after what it has popped  *)
(* before: CONNECT first and once, DISCONNECT once, MESSAGE in between, or   *)
(* later if the logic thread closed the connection itself.                   *)
THEOREM PoppedInOrderHolds == StreamSafety => PoppedInOrder
<1>1. StreamIInv /\ [StreamNext]_streamVars =>
          [evt = NoEvent /\ evt' # NoEvent => LegalNext(evt')]_streamVars
  <2> SUFFICES ASSUME StreamIInv, StreamNext, evt = NoEvent, evt' # NoEvent
               PROVE  LegalNext(evt')
    BY DEF streamVars
  <2>1. Pop
    BY DEF StreamNext, PushConnect, NetClose, CloseConn, PushMessage, PushDisconnect, Handle
  <2> QED
    BY <2>1, PopLegal
<1> QED
  BY <1>1, StreamIInvInvariant, PTL DEF StreamSafety, PoppedInOrder
=============================================================================
