---------------------------- MODULE EventStream ----------------------------
(* What WebServer promises to the application: the stream of NetworkEvents   *)
(* (v4/event.h) that goes through event_queue_ (v4/safe_queue.h) from the    *)
(* reactor thread ("net": accept_loop, handle_read, close_conn) to the       *)
(* thread that runs ChatApp::LogicLoop ("logic", which also pushes a         *)
(* DISCONNECT when WebServer::Close makes it run close_conn).                *)
(* SafeQueue holds its mutex for a whole push or pop, so each is one step.   *)
EXTENDS Naturals, Sequences

CONSTANTS
    Conn,       \* connections, each one Connection object that is never reused
    Msg,        \* payloads that the codec can hand to the application
    None,       \* a null pointer
    MaxQueue    \* bound: no CONNECT or MESSAGE is pushed on a longer queue

Thread == {"net", "logic"}

ASSUME EventStreamAssumption ==
    /\ None \notin Conn \cup Thread
    /\ MaxQueue \in Nat

Event == [type: {"CONNECT", "DISCONNECT"}, conn: Conn, payload: {None}]
            \cup [type: {"MESSAGE"}, conn: Conn, payload: Msg]

NoEvent == [type |-> "NONE"]

ConnectEvent(c)    == [type |-> "CONNECT", conn |-> c, payload |-> None]
DisconnectEvent(c) == [type |-> "DISCONNECT", conn |-> c, payload |-> None]
MessageEvent(c, m) == [type |-> "MESSAGE", conn |-> c, payload |-> m]

VARIABLES
    connected,    \* connections whose CONNECT was pushed
    closer,       \* the thread whose exchange(true) on Connection::closed won, or None
    closing,      \* the connection a thread closes: exchange done, DISCONNECT not pushed
    event_queue,  \* WebServer::event_queue_
    evt,          \* the event the logic thread is handling, or NoEvent
    stage         \* history: what the logic thread has popped of each connection

streamVars == <<connected, closer, closing, event_queue, evt, stage>>

closed(c) == closer[c] # None

StreamInit ==
    /\ connected = {}
    /\ closer = [c \in Conn |-> None]
    /\ closing = [t \in Thread |-> None]
    /\ event_queue = <<>>
    /\ evt = NoEvent
    /\ stage = [c \in Conn |-> "unseen"]

(* SafeQueue::push.                                                          *)
push(e) == event_queue' = Append(event_queue, e)

(* The end of accept_loop's body.                                            *)
PushConnect(c) ==
    /\ c \notin connected
    /\ closing["net"] = None
    /\ Len(event_queue) < MaxQueue
    /\ connected' = connected \cup {c}
    /\ push(ConnectEvent(c))
    /\ UNCHANGED <<closer, closing, evt, stage>>

(* Slip: handle_read goes on after its own close_conn.                       *)
PushMessageAfterClose(c, m) ==
    /\ c \in connected
    /\ closing["net"] = None
    /\ Len(event_queue) < MaxQueue
    /\ push(MessageEvent(c, m))
    /\ UNCHANGED <<connected, closer, closing, evt, stage>>

(* handle_read decoded a message.  It looked c up before it took conn->mtx   *)
(* and does not look at closed: the logic thread may have closed c since.    *)
PushMessage(c, m) ==
    /\ c \in connected
    /\ closer[c] # "net"
    /\ closing["net"] = None
    /\ Len(event_queue) < MaxQueue
    /\ push(MessageEvent(c, m))
    /\ UNCHANGED <<connected, closer, closing, evt, stage>>

(* close_conn up to the exchange.  A caller that finds closed set returns    *)
(* at once and changes nothing.                                              *)
CloseConn(t, c) ==
    /\ c \in connected
    /\ ~closed(c)
    /\ closing[t] = None
    /\ closer' = [closer EXCEPT ![c] = t]
    /\ closing' = [closing EXCEPT ![t] = c]

(* The rest of close_conn as the stream sees it.                             *)
PushDisconnect(t) ==
    /\ closing[t] # None
    /\ push(DisconnectEvent(closing[t]))
    /\ closing' = [closing EXCEPT ![t] = None]
    /\ UNCHANGED <<connected, closer, evt, stage>>

StageAfter(e) ==
    IF e.type = "CONNECT" THEN "open"
    ELSE IF e.type = "DISCONNECT" THEN "gone" ELSE stage[e.conn]

(* SafeQueue::pop, called by LogicLoop between two events.                   *)
Pop ==
    /\ evt = NoEvent
    /\ closing["logic"] = None
    /\ event_queue # <<>>
    /\ evt' = Head(event_queue)
    /\ event_queue' = Tail(event_queue)
    /\ stage' = [stage EXCEPT ![Head(event_queue).conn] = StageAfter(Head(event_queue))]
    /\ UNCHANGED <<connected, closer, closing>>

(* ProcessEvent, of which the stream sees whether it ran WebServer::Close on *)
(* the connection of a MESSAGE (a client over its rate limit) or not.        *)
Handle ==
    /\ evt # NoEvent
    /\ evt' = NoEvent
    /\ \/ UNCHANGED <<closer, closing>>
       \/ evt.type = "MESSAGE" /\ CloseConn("logic", evt.conn)
    /\ UNCHANGED <<connected, event_queue, stage>>

NetClose(c) ==
    /\ CloseConn("net", c)
    /\ UNCHANGED <<connected, event_queue, evt, stage>>

StreamNext ==
    \/ \E c \in Conn : PushConnect(c) \/ NetClose(c)
    \/ \E c \in Conn, m \in Msg : PushMessage(c, m)
    \/ \E t \in Thread : PushDisconnect(t)
    \/ Pop
    \/ Handle

StreamSafety == StreamInit /\ [][StreamNext]_streamVars

-----------------------------------------------------------------------------
(* Properties                                                                *)

Queued(e) == \E i \in 1..Len(event_queue) : event_queue[i] = e

Pushing(c) == \E t \in Thread : closing[t] = c

StreamTypeOK ==
    /\ connected \subseteq Conn
    /\ closer \in [Conn -> Thread \cup {None}]
    /\ closing \in [Thread -> Conn \cup {None}]
    /\ event_queue \in Seq(Event)
    /\ evt \in Event \cup {NoEvent}
    /\ stage \in [Conn -> {"unseen", "open", "gone"}]

(* Every event the logic thread pops is legal where it comes: a CONNECT only *)
(* for a connection it has not seen, a DISCONNECT only once and after the    *)
(* CONNECT, a MESSAGE after the CONNECT, and after the DISCONNECT only when  *)
(* it was the logic thread that closed the connection (the messages that the *)
(* reactor had already read when WebServer::Close ran).  ProcessEvent relies *)
(* on it: HandleMessage and HandleDisconnect cast what HandleConnect stored. *)
LegalNext(e) ==
    \/ e.type = "CONNECT" /\ stage[e.conn] = "unseen"
    \/ e.type = "DISCONNECT" /\ stage[e.conn] = "open"
    \/ e.type = "MESSAGE" /\ stage[e.conn] = "open"
    \/ e.type = "MESSAGE" /\ stage[e.conn] = "gone" /\ closer[e.conn] = "logic"

PoppedInOrder == [][evt = NoEvent /\ evt' # NoEvent => LegalNext(evt')]_streamVars

(* A connection whose closed flag is set is accounted for exactly once: the  *)
(* thread that set it is about to push its DISCONNECT, or the DISCONNECT is  *)
(* in event_queue_, or the logic thread has popped it; never two of these,   *)
(* and none of them for a connection that is open.                           *)
OneDisconnect ==
    \A c \in Conn :
        /\ closed(c) <=> Pushing(c) \/ Queued(DisconnectEvent(c)) \/ stage[c] = "gone"
        /\ ~(Pushing(c) /\ Queued(DisconnectEvent(c)))
        /\ stage[c] = "gone" => ~Pushing(c) /\ ~Queued(DisconnectEvent(c))
        /\ \A i, j \in 1..Len(event_queue) :
               event_queue[i] = DisconnectEvent(c) /\ event_queue[j] = DisconnectEvent(c) => i = j
=============================================================================
