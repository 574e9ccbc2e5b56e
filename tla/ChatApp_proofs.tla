--------------------------- MODULE ChatApp_proofs ---------------------------
(* Proofs about ChatApp: its variables keep their types, it uses the event   *)
(* stream as EventStream allows, online_users_, rooms_ and the sessions      *)
(* agree, and what is sent in a room reaches those in it, for any number of  *)
(* connections, names, rooms and queued events; and the rate limit of a      *)
(* session lets through what it should.                                      *)
EXTENDS ChatApp, EventStream_proofs, TokenBucket, Integers

(* The token bucket never leaves its range, as HandleMessage uses it.        *)
LEMMA TokenFacts ==
    ASSUME NEW t \in Tokens, NEW e \in Tokens
    PROVE  /\ Refill(t, e) \in Tokens
           /\ ~TooFast(Refill(t, e)) => Spend(Refill(t, e)) \in Tokens
BY RateLimitAssumption DEF Tokens, Refill, TooFast, Spend

-----------------------------------------------------------------------------
(* ProcessEvent has an event in its hands from the check to the handler.     *)
CheckedHasEvent == checked => evt # NoEvent

(* Only a look at an event sets checked, and handling it resets it.          *)
LEMMA CheckedHasEventNext == CheckedHasEvent /\ [Next]_vars => CheckedHasEvent'
<1> SUFFICES ASSUME CheckedHasEvent, [Next]_vars PROVE CheckedHasEvent'
  OBVIOUS
<1> USE DEF CheckedHasEvent
<1>1. ASSUME NEW c \in Conn, Connect(c) PROVE CheckedHasEvent'
  BY <1>1 DEF Connect, PushConnect, appVars
<1>2. ASSUME NEW c \in Conn, Disconnect(c) PROVE CheckedHasEvent'
  BY <1>2 DEF Disconnect, NetClose, appVars
<1>3. ASSUME NEW c \in Conn, NEW m \in Msg, Receive(c, m) PROVE CheckedHasEvent'
  BY <1>3 DEF Receive, PushMessage, appVars
<1>4. ASSUME NEW t \in Thread, ReportClosed(t) PROVE CheckedHasEvent'
  BY <1>4 DEF ReportClosed, PushDisconnect, appVars
<1>5. CASE PopEvent
  BY <1>5 DEF PopEvent, Pop
<1>6. CASE ProcessEvent
  BY <1>6 DEF ProcessEvent
<1>7. CASE HandleEvent
  BY <1>7 DEF HandleEvent
<1>8. CASE UNCHANGED vars
  BY <1>8 DEF vars, streamVars, appVars
<1> QED
  BY <1>1, <1>2, <1>3, <1>4, <1>5, <1>6, <1>7, <1>8 DEF Next

(* Every step of the application and the reactor is a step of the stream or  *)
(* leaves the stream alone.                                                  *)
LEMMA StepRefines == CheckedHasEvent /\ [Next]_vars => [StreamNext]_streamVars
<1> SUFFICES ASSUME CheckedHasEvent, [Next]_vars PROVE [StreamNext]_streamVars
  OBVIOUS
<1>1. ASSUME NEW c \in Conn, Connect(c) PROVE StreamNext
  BY <1>1 DEF Connect, StreamNext
<1>2. ASSUME NEW c \in Conn, Disconnect(c) PROVE StreamNext
  BY <1>2 DEF Disconnect, StreamNext
<1>3. ASSUME NEW c \in Conn, NEW m \in Msg, Receive(c, m) PROVE StreamNext
  BY <1>3 DEF Receive, StreamNext
<1>4. ASSUME NEW t \in Thread, ReportClosed(t) PROVE StreamNext
  BY <1>4 DEF ReportClosed, StreamNext
<1>5. CASE PopEvent
  BY <1>5 DEF PopEvent, StreamNext
<1>6. CASE ProcessEvent
  <2>1. CASE Ignored(evt)
    <3>1. Handle
      BY <1>6, <2>1 DEF ProcessEvent, Handle
    <3> QED
      BY <3>1 DEF StreamNext
  <2>2. CASE ~Ignored(evt)
    BY <1>6, <2>2 DEF ProcessEvent, streamVars
  <2> QED
    BY <2>1, <2>2
<1>7. CASE HandleEvent
  <2>1. evt # NoEvent /\ evt' = NoEvent /\ UNCHANGED <<connected, event_queue, stage>>
    BY <1>7 DEF HandleEvent, CheckedHasEvent
  <2>2. \/ UNCHANGED <<closer, closing>>
        \/ evt.type = "MESSAGE" /\ CloseConn("logic", evt.conn)
    <3>1. ASSUME evt.type = "MESSAGE", NEW e \in Tokens, HandleMessage(evt.conn, evt.payload, e)
          PROVE  UNCHANGED <<closer, closing>> \/ CloseConn("logic", evt.conn)
      BY <3>1, Zenon DEF HandleMessage, HandleTooFast
    <3> QED
      BY <1>7, <3>1 DEF HandleEvent, HandleNothing
  <2> QED
    BY <2>1, <2>2 DEF Handle, StreamNext
<1>8. CASE UNCHANGED vars
  BY <1>8 DEF vars
<1> QED
  BY <1>1, <1>2, <1>3, <1>4, <1>5, <1>6, <1>7, <1>8 DEF Next

(* ChatApp takes part in the stream of events only as EventStream allows, so *)
(* what holds of every such stream holds of the one ChatApp sees.            *)
THEOREM ImplementsEventStream == Safety => StreamSafety
<1>1. Init => StreamInit /\ CheckedHasEvent
  BY DEF Init, CheckedHasEvent
<1> QED
  BY <1>1, CheckedHasEventNext, StepRefines, PTL DEF Safety, StreamSafety

-----------------------------------------------------------------------------
(* Type correctness.                                                         *)

(* A session as HandleMessage and the handlers leave it.                     *)
GoodSession(s) == s \in ChatSession /\ (s.is_logged_in => s.username # Empty)

RoomTable(rs) == DOMAIN rs \subseteq Room /\ \A r \in DOMAIN rs : rs[r] \subseteq Name

Tables ==
    /\ DOMAIN user_data \subseteq Conn
    /\ \A c \in DOMAIN user_data : GoodSession(user_data[c])
    /\ DOMAIN online_users \subseteq Name
    /\ \A n \in DOMAIN online_users : online_users[n] \in Conn
    /\ RoomTable(rooms)
    /\ sent \subseteq (Conn \cup {None}) \X ServerMessage
    /\ renamed \subseteq Conn

(* TypeOK, split into the stream and the tables.                             *)
LEMMA TypeOKParts == TypeOK <=> StreamTypeOK /\ Tables /\ checked \in BOOLEAN
BY DEF TypeOK, Tables, GoodSession, RoomTable

(* What SendProto records is a packet to a client.                           *)
LEMMA SendProtoType ==
    ASSUME NEW conns \in SUBSET Conn, NEW kind \in Kind, NEW r \in Room \cup {Empty}
    PROVE  SendProto(conns, Packet(kind, r)) \subseteq (Conn \cup {None}) \X ServerMessage
<1>1. Packet(kind, r) \in ServerMessage
  BY DEF Packet, ServerMessage
<1> QED
  BY <1>1 DEF SendProto

(* The members of a room are connections.                                    *)
LEMMA ConnsOfType ==
    ASSUME Tables, NEW names
    PROVE  ConnsOf(names) \in SUBSET Conn
BY DEF Tables, ConnsOf, online

(* A room without one of its members is a room.                              *)
LEMMA RoomsWithoutType ==
    ASSUME Tables, NEW r \in Room, NEW n
    PROVE  RoomTable(RoomsWithout(r, n)) /\ Members(r) \subseteq Name
<1>1. Members(r) \subseteq Name
  BY DEF Tables, RoomTable, Members
<1>2. CASE Members(r) \subseteq {n}
  <2>1. RoomsWithout(r, n) = Erase(rooms, r)
    BY <1>2 DEF RoomsWithout
  <2> QED
    BY <1>1, <2>1 DEF RoomTable, Tables, Erase
<1>3. CASE ~(Members(r) \subseteq {n})
  <2>1. RoomsWithout(r, n) = Put(rooms, r, Members(r) \ {n})
    BY <1>3 DEF RoomsWithout
  <2> QED
    BY <1>1, <2>1 DEF RoomTable, Tables, Put
<1> QED
  BY <1>2, <1>3

(* Storing the sender's session.                                             *)
LEMMA StoreSession ==
    ASSUME Tables, NEW c \in DOMAIN user_data, NEW s, GoodSession(s),
           user_data' = [user_data EXCEPT ![c] = s]
    PROVE  /\ DOMAIN user_data' = DOMAIN user_data
           /\ user_data'[c] = s
           /\ \A d \in DOMAIN user_data : d # c => user_data'[d] = user_data[d]
           /\ \A d \in DOMAIN user_data' : GoodSession(user_data'[d])
BY DEF Tables

(* HandleDisconnect keeps the types of the tables.                           *)
LEMMA HandleDisconnectType ==
    ASSUME Tables, NEW c \in Conn, HandleDisconnect(c)
    PROVE  Tables'
<1> DEFINE s == user_data[c]
           r == s.current_room
<1>1. c \in DOMAIN user_data /\ s \in ChatSession /\ r \in Room \cup {Empty}
  BY DEF HandleDisconnect, Tables, GoodSession, ChatSession
<1>2. UNCHANGED <<user_data, renamed>>
  BY DEF HandleDisconnect
<1>3. CASE s.is_logged_in /\ s.username # Empty
  <2>1. /\ online_users' = Erase(online_users, s.username)
        /\ rooms' = IF r = Empty THEN rooms ELSE RoomsWithout(r, s.username)
        /\ sent' = IF r = Empty THEN {}
                   ELSE SendProto(ConnsOf(Members(r) \ {s.username}), Packet("left", r))
    BY <1>3 DEF HandleDisconnect
  <2>2. DOMAIN online_users' \subseteq Name /\ \A n \in DOMAIN online_users' : online_users'[n] \in Conn
    BY <2>1 DEF Tables, Erase
  <2>3. RoomTable(rooms')
    BY <1>1, <2>1, RoomsWithoutType DEF Tables
  <2>4. sent' \subseteq (Conn \cup {None}) \X ServerMessage
    <3>1. ConnsOf(Members(r) \ {s.username}) \in SUBSET Conn /\ "left" \in Kind
      BY ConnsOfType DEF Kind
    <3> QED
      BY <1>1, <2>1, <3>1, SendProtoType
  <2> QED
    BY <1>2, <2>2, <2>3, <2>4 DEF Tables, GoodSession, RoomTable
<1>4. CASE ~(s.is_logged_in /\ s.username # Empty)
  <2>1. sent' = {} /\ UNCHANGED <<online_users, rooms>>
    BY <1>4 DEF HandleDisconnect
  <2> QED
    BY <1>2, <2>1 DEF Tables, GoodSession, RoomTable
<1> QED
  BY <1>3, <1>4

(* So does HandleLogin,                                                      *)
LEMMA HandleLoginType ==
    ASSUME Tables, NEW c \in DOMAIN user_data, NEW session, GoodSession(session),
           NEW name \in Name \cup {Empty}, HandleLogin(c, session, name)
    PROVE  Tables'
<1>0. c \in Conn /\ {c} \in SUBSET Conn /\ {"login_failed", "login_ok"} \subseteq Kind
  BY DEF Tables, Kind
<1>1. CASE online(name) \/ name = Empty
  <2>1. /\ user_data' = [user_data EXCEPT ![c] = session]
        /\ sent' = SendProto({c}, Packet("login_failed", Empty))
        /\ UNCHANGED <<online_users, rooms, renamed>>
    BY <1>1 DEF HandleLogin
  <2>2. sent' \subseteq (Conn \cup {None}) \X ServerMessage
    BY <1>0, <2>1, SendProtoType
  <2> QED
    BY <2>1, <2>2, StoreSession DEF Tables, RoomTable
<1>2. CASE ~(online(name) \/ name = Empty)
  <2> DEFINE s == [session EXCEPT !.username = name, !.is_logged_in = TRUE]
  <2>1. /\ user_data' = [user_data EXCEPT ![c] = s]
        /\ online_users' = Put(online_users, name, c)
        /\ sent' = SendProto({c}, Packet("login_ok", Empty))
        /\ renamed' \in {renamed, renamed \cup {c}}
        /\ UNCHANGED rooms
    BY <1>2 DEF HandleLogin
  <2>2. GoodSession(s)
    BY <1>2 DEF GoodSession, ChatSession
  <2>3. sent' \subseteq (Conn \cup {None}) \X ServerMessage
    BY <1>0, <2>1, SendProtoType
  <2>4. DOMAIN online_users' \subseteq Name /\ \A n \in DOMAIN online_users' : online_users'[n] \in Conn
    BY <1>0, <1>2, <2>1 DEF Tables, Put
  <2>5. DOMAIN user_data' = DOMAIN user_data /\ \A d \in DOMAIN user_data' : GoodSession(user_data'[d])
    BY <2>1, <2>2, StoreSession
  <2>6. renamed' \subseteq Conn
    BY <1>0, <2>1 DEF Tables
  <2> QED
    BY <2>1, <2>3, <2>4, <2>5, <2>6 DEF Tables, RoomTable
<1> QED
  BY <1>1, <1>2

(* HandleJoinRoom,                                                           *)
LEMMA HandleJoinRoomType ==
    ASSUME Tables, NEW c \in DOMAIN user_data, NEW session, GoodSession(session),
           NEW new_room \in Room \cup {Empty}, HandleJoinRoom(c, session, new_room)
    PROVE  Tables'
<1> DEFINE me == session.username
           old_room == session.current_room
           left == IF old_room = Empty THEN rooms ELSE RoomsWithout(old_room, me)
           others == (IF new_room \in DOMAIN left THEN left[new_room] ELSE {}) \ {me}
<1>0. c \in Conn /\ {c} \in SUBSET Conn /\ {"left", "joined", "entered"} \subseteq Kind
  BY DEF Tables, Kind
<1>1. old_room \in Room \cup {Empty} /\ me \in Name \cup {Empty}
  BY DEF GoodSession, ChatSession
<1>2. RoomTable(left)
  BY <1>1, RoomsWithoutType DEF Tables
<1>3. others \subseteq Name
  BY <1>2 DEF RoomTable
<1>4. CASE session.is_logged_in
  <2> DEFINE s == [session EXCEPT !.current_room = new_room]
             p1 == IF old_room = Empty THEN {}
                   ELSE SendProto(ConnsOf(Members(old_room) \ {me}), Packet("left", old_room))
             p2 == IF new_room = Empty THEN {}
                   ELSE SendProto(ConnsOf(others), Packet("joined", new_room))
             p3 == SendProto({c}, Packet("entered", new_room))
             all == (Conn \cup {None}) \X ServerMessage
  <2>1. /\ user_data' = [user_data EXCEPT ![c] = s]
        /\ rooms' = IF new_room = Empty THEN left ELSE Put(left, new_room, others \cup {me})
        /\ sent' = UNION {p1, p2, p3}
        /\ UNCHANGED <<online_users, renamed>>
    BY <1>4 DEF HandleJoinRoom
  <2>2. GoodSession(s)
    BY <1>4 DEF GoodSession, ChatSession
  <2>3. me \in Name
    BY <1>1, <1>4 DEF GoodSession
  <2>4. p1 \subseteq all
    <3>1. ConnsOf(Members(old_room) \ {me}) \in SUBSET Conn
      BY ConnsOfType
    <3> QED
      BY <1>0, <1>1, <3>1, SendProtoType
  <2>5. p2 \subseteq all
    <3>1. ConnsOf(others) \in SUBSET Conn
      BY ConnsOfType
    <3> QED
      BY <1>0, <3>1, SendProtoType
  <2>6. p3 \subseteq all
    BY <1>0, SendProtoType
  <2>7. RoomTable(rooms')
    <3> HIDE DEF left, others, me
    <3>1. CASE new_room = Empty
      BY <1>2, <2>1, <3>1
    <3>2. CASE new_room # Empty
      <4>1. rooms' = Put(left, new_room, others \cup {me}) /\ new_room \in Room
        BY <2>1, <3>2
      <4> QED
        BY <1>2, <1>3, <2>3, <4>1 DEF RoomTable, Put
    <3> QED
      BY <3>1, <3>2
  <2>8. DOMAIN user_data' = DOMAIN user_data /\ \A d \in DOMAIN user_data' : GoodSession(user_data'[d])
    BY <2>1, <2>2, StoreSession
  <2>9. sent' \subseteq all
    <3> HIDE DEF p1, p2, p3, all
    <3> QED
      BY <2>1, <2>4, <2>5, <2>6
  <2> QED
    BY <2>1, <2>7, <2>8, <2>9 DEF Tables
<1>5. CASE ~session.is_logged_in
  <2>1. /\ user_data' = [user_data EXCEPT ![c] = session]
        /\ sent' = {}
        /\ UNCHANGED <<online_users, rooms, renamed>>
    BY <1>5 DEF HandleJoinRoom
  <2> QED
    BY <2>1, StoreSession DEF Tables, RoomTable
<1> QED
  BY <1>4, <1>5

(* The handlers that answer without changing anything but the tokens.        *)
LEMMA AnswerType ==
    ASSUME Tables, NEW c \in DOMAIN user_data, NEW session, GoodSession(session),
           user_data' = [user_data EXCEPT ![c] = session],
           sent' \subseteq (Conn \cup {None}) \X ServerMessage,
           RoomTable(rooms'), UNCHANGED <<online_users, renamed>>
    PROVE  Tables'
BY StoreSession DEF Tables

(* and the handlers that only send.                                          *)
LEMMA ChatHandlersType ==
    ASSUME Tables, NEW c \in DOMAIN user_data, NEW session, GoodSession(session), NEW arg,
           \/ HandleGlobalChat(c, session)
           \/ HandlePrivateChat(c, session, arg)
           \/ HandleRoomChat(c, session, arg)
           \/ HandleUnset(c, session)
    PROVE  Tables'
<1> DEFINE all == (Conn \cup {None}) \X ServerMessage
<1>1. c \in Conn /\ {c} \in SUBSET Conn /\ RoomTable(rooms)
  BY DEF Tables
<1>2. {"global_chat", "private_chat", "confirm", "not_found", "error", "room_chat"} \subseteq Kind
  BY DEF Kind
<1>3. user_data' = [user_data EXCEPT ![c] = session] /\ UNCHANGED <<online_users, renamed>>
  BY DEF HandleGlobalChat, HandlePrivateChat, HandleRoomChat, HandleUnset
<1>4. ASSUME HandleGlobalChat(c, session) PROVE sent' \subseteq all /\ RoomTable(rooms')
  <2>1. Packet("global_chat", Empty) \in ServerMessage
    BY <1>2 DEF Packet, ServerMessage
  <2> QED
    BY <1>1, <1>4, <2>1 DEF HandleGlobalChat
<1>5. ASSUME HandlePrivateChat(c, session, arg) PROVE sent' \subseteq all /\ RoomTable(rooms')
  <2> DEFINE p1 == SendProto(ConnsOf({arg}), Packet("private_chat", Empty))
             p2 == SendProto({c}, Packet("confirm", Empty))
             p3 == SendProto({c}, Packet("not_found", Empty))
  <2>1. p1 \subseteq all
    <3>1. ConnsOf({arg}) \in SUBSET Conn
      BY ConnsOfType
    <3> QED
      BY <1>2, <3>1, SendProtoType
  <2>2. p2 \subseteq all /\ p3 \subseteq all
    BY <1>1, <1>2, SendProtoType
  <2>3. sent' \in {{}, p1 \cup p2, p3} /\ rooms' = rooms
    BY <1>5 DEF HandlePrivateChat
  <2> HIDE DEF p1, p2, p3, all
  <2> QED
    BY <1>1, <2>1, <2>2, <2>3
<1>6. ASSUME HandleRoomChat(c, session, arg) PROVE sent' \subseteq all /\ RoomTable(rooms')
  <2>1. CASE ~session.is_logged_in \/ session.current_room = Empty
    <3>1. sent' = SendProto({c}, Packet("error", Empty)) /\ rooms' = rooms
      BY <1>6, <2>1 DEF HandleRoomChat
    <3> QED
      BY <1>1, <1>2, <3>1, SendProtoType
  <2>2. CASE /\ session.is_logged_in /\ session.current_room # Empty
             /\ session.current_room # arg
    <3>1. sent' = {} /\ rooms' = rooms
      BY <1>6, <2>2 DEF HandleRoomChat
    <3> QED
      BY <1>1, <3>1
  <2>3. CASE /\ session.is_logged_in /\ session.current_room # Empty
             /\ session.current_room = arg
    <3>1. sent' = SendProto(ConnsOf(Members(arg)), Packet("room_chat", arg))
          /\ rooms' = Put(rooms, arg, Members(arg))
      BY <1>6, <2>3 DEF HandleRoomChat
    <3>2. arg \in Room
      BY <2>3 DEF GoodSession, ChatSession
    <3>3. ConnsOf(Members(arg)) \in SUBSET Conn
      BY ConnsOfType
    <3>4. RoomTable(rooms')
      BY <1>1, <3>1, <3>2 DEF RoomTable, Put, Members
    <3> QED
      BY <1>2, <3>1, <3>2, <3>3, <3>4, SendProtoType
  <2> QED
    BY <2>1, <2>2, <2>3
<1>7. ASSUME HandleUnset(c, session) PROVE sent' \subseteq all /\ RoomTable(rooms')
  BY <1>1, <1>7 DEF HandleUnset
<1>8. sent' \subseteq all /\ RoomTable(rooms')
  BY <1>4, <1>5, <1>6, <1>7
<1> QED
  BY <1>3, <1>8, AnswerType

(* The session that HandleMessage hands on differs in its tokens only.       *)
LEMMA SessionWithFacts ==
    ASSUME Tables, NEW c \in DOMAIN user_data, NEW t \in Tokens
    PROVE  /\ GoodSession(SessionWith(c, t))
           /\ SessionWith(c, t).username = user_data[c].username
           /\ SessionWith(c, t).is_logged_in = user_data[c].is_logged_in
           /\ SessionWith(c, t).current_room = user_data[c].current_room
BY DEF Tables, GoodSession, ChatSession, SessionWith

(* What the stream hands over is a message of a client.                      *)
LEMMA MessageFacts ==
    ASSUME NEW m \in Msg
    PROVE  /\ m.type \in {"login", "private_chat"} => m.arg \in Name \cup {Empty}
           /\ m.type \in {"join_room", "room_chat"} => m.arg \in Room \cup {Empty}
BY ChatAppMessages DEF ClientMessage

(* HandleMessage keeps the types, whatever the payload.                      *)
LEMMA HandleMessageType ==
    ASSUME Tables, NEW c \in Conn, NEW m \in Msg, NEW e \in Tokens, HandleMessage(c, m, e)
    PROVE  Tables'
<1> DEFINE refilled == Refill(user_data[c].tokens, e)
<1>1. c \in DOMAIN user_data /\ user_data[c].tokens \in Tokens
  BY DEF HandleMessage, Tables, GoodSession, ChatSession
<1>2. refilled \in Tokens /\ (~TooFast(refilled) => Spend(refilled) \in Tokens)
  BY <1>1, TokenFacts
<1>3. \/ HandleTooFast(c, refilled)
      \/ ~TooFast(refilled) /\ Dispatch(c, SessionWith(c, Spend(refilled)), m)
  BY DEF HandleMessage
<1> HIDE DEF refilled
<1>4. CASE HandleTooFast(c, refilled)
  <2>1. /\ user_data' = [user_data EXCEPT ![c] = SessionWith(c, refilled)]
        /\ sent' = SendProto({c}, Packet("error", Empty))
        /\ UNCHANGED <<online_users, rooms, renamed>>
    BY <1>4 DEF HandleTooFast
  <2>2. sent' \subseteq (Conn \cup {None}) \X ServerMessage
    <3>1. {c} \in SUBSET Conn /\ "error" \in Kind
      BY DEF Kind
    <3> QED
      BY <2>1, <3>1, SendProtoType
  <2>3. GoodSession(SessionWith(c, refilled)) /\ RoomTable(rooms')
    BY <1>1, <1>2, <2>1, SessionWithFacts DEF Tables
  <2> QED
    BY <1>1, <2>1, <2>2, <2>3, AnswerType
<1>5. CASE ~TooFast(refilled) /\ Dispatch(c, SessionWith(c, Spend(refilled)), m)
  <2>1. GoodSession(SessionWith(c, Spend(refilled)))
    BY <1>1, <1>2, <1>5, SessionWithFacts
  <2>2. PICK s : GoodSession(s) /\ Dispatch(c, s, m)
    BY <1>5, <2>1
  <2>3. CASE m.type = "login" /\ HandleLogin(c, s, m.arg)
    BY <1>1, <2>2, <2>3, MessageFacts, HandleLoginType
  <2>4. CASE m.type = "join_room" /\ HandleJoinRoom(c, s, m.arg)
    BY <1>1, <2>2, <2>4, MessageFacts, HandleJoinRoomType
  <2>5. CASE \/ HandleGlobalChat(c, s)
             \/ HandlePrivateChat(c, s, m.arg)
             \/ HandleRoomChat(c, s, m.arg)
             \/ HandleUnset(c, s)
    BY <1>1, <2>2, <2>5, ChatHandlersType
  <2> QED
    BY <2>2, <2>3, <2>4, <2>5 DEF Dispatch
<1> QED
  BY <1>3, <1>4, <1>5

(* And so does HandleConnect.                                                *)
LEMMA HandleConnectType ==
    ASSUME Tables, NEW c \in Conn, HandleConnect(c)
    PROVE  Tables'
<1>1. GoodSession(NewSession)
  BY RateLimitAssumption DEF GoodSession, NewSession, ChatSession, Tokens
<1>2. DOMAIN user_data' \subseteq Conn /\ \A d \in DOMAIN user_data' : GoodSession(user_data'[d])
  BY <1>1 DEF HandleConnect, Put, Tables
<1> QED
  BY <1>2 DEF HandleConnect, Tables, RoomTable

(* Every step keeps the types.                                               *)
LEMMA TypeOKNext == TypeOK /\ CheckedHasEvent /\ [Next]_vars => TypeOK'
<1> SUFFICES ASSUME TypeOK, CheckedHasEvent, [Next]_vars PROVE TypeOK'
  OBVIOUS
<1>1. StreamTypeOK'
  BY StepRefines, StreamTypeNext, TypeOKParts
<1>2. Tables /\ checked \in BOOLEAN
  BY TypeOKParts
<1>3. ASSUME UNCHANGED <<user_data, online_users, rooms, sent, renamed>> PROVE Tables'
  BY <1>2, <1>3 DEF Tables, RoomTable, GoodSession
<1>4. ASSUME HandleEvent PROVE Tables'
  <2>1. CASE HandleNothing(evt)
    BY <1>2, <2>1 DEF HandleNothing, Tables, RoomTable, GoodSession
  <2>2. CASE ~HandleNothing(evt)
    <3>1. evt \in Event
      BY <1>4, TypeOKParts DEF HandleEvent, CheckedHasEvent, StreamTypeOK
    <3>2. PICK c \in Conn : c = evt.conn
      BY <3>1 DEF Event
    <3>3. CASE evt.type = "CONNECT" /\ HandleConnect(evt.conn)
      BY <1>2, <3>2, <3>3, HandleConnectType
    <3>4. CASE evt.type = "DISCONNECT" /\ HandleDisconnect(evt.conn)
      BY <1>2, <3>2, <3>4, HandleDisconnectType
    <3>5. CASE evt.type = "MESSAGE" /\ \E e \in Tokens : HandleMessage(evt.conn, evt.payload, e)
      <4>1. evt.payload \in Msg
        BY <3>1, <3>5 DEF Event
      <4> QED
        BY <1>2, <3>2, <3>5, <4>1, HandleMessageType
    <3> QED
      BY <1>4, <2>2, <3>3, <3>4, <3>5 DEF HandleEvent
  <2> QED
    BY <2>1, <2>2
<1>5. ASSUME PopEvent PROVE Tables'
  BY <1>2, <1>5 DEF PopEvent, Tables, RoomTable, GoodSession
<1>6. Tables'
  <2>1. ASSUME ~HandleEvent, ~PopEvent PROVE UNCHANGED <<user_data, online_users, rooms, sent, renamed>>
    BY <2>1 DEF Next, Connect, Disconnect, Receive, ReportClosed, ProcessEvent, vars, appVars
  <2> QED
    BY <1>3, <1>4, <1>5, <2>1
<1>7. checked' \in BOOLEAN
  BY <1>2, Zenon DEF Next, Connect, Disconnect, Receive, ReportClosed, PopEvent, ProcessEvent,
                     HandleEvent, vars, appVars
<1> QED
  <2>1. TypeOK' <=> StreamTypeOK' /\ Tables' /\ checked' \in BOOLEAN
    BY DEF TypeOK, Tables, GoodSession, RoomTable
  <2> QED
    BY <1>1, <1>6, <1>7, <2>1

(* They hold at the start.                                                   *)
LEMMA InitTypeOK == Init => TypeOK /\ CheckedHasEvent
<1> SUFFICES ASSUME Init PROVE TypeOK /\ CheckedHasEvent
  OBVIOUS
<1>1. StreamTypeOK
  BY StreamTypeInit DEF Init
<1>2. Tables
  BY DEF Init, Tables, RoomTable
<1> QED
  BY <1>1, <1>2, TypeOKParts DEF Init, CheckedHasEvent

(* Every variable of the application keeps its type: tokens never go below   *)
(* zero or above the capacity, and nobody is logged in without a name.       *)
THEOREM TypeCorrect == Safety => [](TypeOK /\ CheckedHasEvent)
BY InitTypeOK, CheckedHasEventNext, TypeOKNext, PTL DEF Safety

-----------------------------------------------------------------------------
(* The inductive invariant of online_users_ and the sessions.                *)

(* What the logic thread has in its hands fits what it has popped before: a  *)
(* session is born by the CONNECT, and the closed flag, stale as it may be   *)
(* when the handler runs, was read before the DISCONNECT was popped.         *)
EventAtHand ==
    /\ \A c \in Conn : stage[c] = "unseen" => c \notin DOMAIN user_data
    /\ evt # NoEvent =>
         /\ evt.type = "CONNECT" => stage[evt.conn] = "open" /\ evt.conn \notin DOMAIN user_data
         /\ evt.type = "DISCONNECT" => stage[evt.conn] = "gone"
         /\ evt.type = "MESSAGE" /\ checked => stage[evt.conn] # "gone"

IInv ==
    /\ StreamIInv /\ TypeOK /\ CheckedHasEvent
    /\ EventAtHand /\ SessionsOwnTheirNames /\ NoGhostUsers

(* A message either leaves the names alone ...                               *)
KeepsNames(c) ==
    /\ UNCHANGED <<online_users, renamed>>
    /\ DOMAIN user_data' = DOMAIN user_data
    /\ user_data'[c].username = user_data[c].username
    /\ user_data'[c].is_logged_in = user_data[c].is_logged_in
    /\ \A d \in DOMAIN user_data : d # c => user_data'[d] = user_data[d]

(* ... or is a login that takes a free one.                                  *)
TakesName(c, name) ==
    /\ ~online(name)
    /\ DOMAIN online_users' = DOMAIN online_users \cup {name}
    /\ online_users'[name] = c
    /\ \A n \in DOMAIN online_users : online_users'[n] = online_users[n]
    /\ renamed' = IF user_data[c].is_logged_in THEN renamed \cup {c} ELSE renamed
    /\ DOMAIN user_data' = DOMAIN user_data
    /\ user_data'[c].username = name /\ user_data'[c].is_logged_in
    /\ \A d \in DOMAIN user_data : d # c => user_data'[d] = user_data[d]

(* To the names, a message does nothing, or takes a free one.                *)
LEMMA MessageEffect ==
    ASSUME Tables, NEW c \in Conn, NEW m \in Msg, NEW e \in Tokens, HandleMessage(c, m, e)
    PROVE  c \in DOMAIN user_data /\ (KeepsNames(c) \/ TakesName(c, m.arg))
<1> DEFINE refilled == Refill(user_data[c].tokens, e)
<1>1. c \in DOMAIN user_data /\ user_data[c].tokens \in Tokens
  BY DEF HandleMessage, Tables, GoodSession, ChatSession
<1>2. refilled \in Tokens /\ (~TooFast(refilled) => Spend(refilled) \in Tokens)
  BY <1>1, TokenFacts
<1>3. \/ HandleTooFast(c, refilled)
      \/ ~TooFast(refilled) /\ Dispatch(c, SessionWith(c, Spend(refilled)), m)
  BY DEF HandleMessage
<1> HIDE DEF refilled
<1>4. ASSUME NEW s, GoodSession(s), s.username = user_data[c].username,
             s.is_logged_in = user_data[c].is_logged_in,
             user_data' = [user_data EXCEPT ![c] = s], UNCHANGED <<online_users, renamed>>
      PROVE  KeepsNames(c)
  <2>1. /\ DOMAIN user_data' = DOMAIN user_data /\ user_data'[c] = s
        /\ \A d \in DOMAIN user_data : d # c => user_data'[d] = user_data[d]
    BY <1>1, <1>4, StoreSession
  <2> QED
    BY <1>4, <2>1 DEF KeepsNames
<1>5. CASE HandleTooFast(c, refilled)
  <2>1. /\ user_data' = [user_data EXCEPT ![c] = SessionWith(c, refilled)]
        /\ UNCHANGED <<online_users, renamed>>
    BY <1>5 DEF HandleTooFast
  <2> QED
    BY <1>1, <1>2, <1>4, <2>1, SessionWithFacts
<1>6. CASE ~TooFast(refilled) /\ Dispatch(c, SessionWith(c, Spend(refilled)), m)
  <2>1. PICK s : /\ GoodSession(s) /\ Dispatch(c, s, m)
                 /\ s.username = user_data[c].username
                 /\ s.is_logged_in = user_data[c].is_logged_in
                 /\ s.current_room = user_data[c].current_room
    BY <1>1, <1>2, <1>6, SessionWithFacts
  <2>2. CASE \/ HandleGlobalChat(c, s)
             \/ HandlePrivateChat(c, s, m.arg)
             \/ HandleRoomChat(c, s, m.arg)
             \/ HandleUnset(c, s)
    <3>1. user_data' = [user_data EXCEPT ![c] = s] /\ UNCHANGED <<online_users, renamed>>
      BY <2>2 DEF HandleGlobalChat, HandlePrivateChat, HandleRoomChat, HandleUnset
    <3> QED
      BY <1>1, <1>4, <2>1, <3>1
  <2>3. CASE m.type = "join_room" /\ HandleJoinRoom(c, s, m.arg)
    <3>1. CASE s.is_logged_in
      <4> DEFINE t == [s EXCEPT !.current_room = m.arg]
      <4>1. user_data' = [user_data EXCEPT ![c] = t] /\ UNCHANGED <<online_users, renamed>>
        BY <2>3, <3>1 DEF HandleJoinRoom
      <4>2. GoodSession(t) /\ t.username = s.username /\ t.is_logged_in = s.is_logged_in
        BY <2>1, <2>3, MessageFacts DEF GoodSession, ChatSession
      <4> QED
        BY <1>1, <1>4, <2>1, <4>1, <4>2
    <3>2. CASE ~s.is_logged_in
      <4>1. user_data' = [user_data EXCEPT ![c] = s] /\ UNCHANGED <<online_users, renamed>>
        BY <2>3, <3>2 DEF HandleJoinRoom
      <4> QED
        BY <1>1, <1>4, <2>1, <4>1
    <3> QED
      BY <3>1, <3>2
  <2>4. CASE m.type = "login" /\ HandleLogin(c, s, m.arg)
    <3>1. CASE online(m.arg) \/ m.arg = Empty
      <4>1. user_data' = [user_data EXCEPT ![c] = s] /\ UNCHANGED <<online_users, renamed>>
        BY <2>4, <3>1 DEF HandleLogin
      <4> QED
        BY <1>1, <1>4, <2>1, <4>1
    <3>2. CASE ~(online(m.arg) \/ m.arg = Empty)
      <4> DEFINE t == [s EXCEPT !.username = m.arg, !.is_logged_in = TRUE]
      <4>1. /\ user_data' = [user_data EXCEPT ![c] = t]
            /\ online_users' = Put(online_users, m.arg, c)
            /\ renamed' = IF s.is_logged_in THEN renamed \cup {c} ELSE renamed
        BY <2>4, <3>2 DEF HandleLogin
      <4>2. GoodSession(t) /\ t.username = m.arg /\ t.is_logged_in
        BY <2>1, <2>4, <3>2, MessageFacts DEF GoodSession, ChatSession
      <4>3. /\ DOMAIN user_data' = DOMAIN user_data /\ user_data'[c] = t
            /\ \A d \in DOMAIN user_data : d # c => user_data'[d] = user_data[d]
        BY <1>1, <4>1, <4>2, StoreSession
      <4>4. /\ DOMAIN online_users' = DOMAIN online_users \cup {m.arg}
            /\ online_users'[m.arg] = c
            /\ \A n \in DOMAIN online_users : online_users'[n] = online_users[n]
        BY <3>2, <4>1 DEF Put, online
      <4>5. user_data'[c].username = m.arg /\ user_data'[c].is_logged_in
        BY <4>2, <4>3
      <4> HIDE DEF t
      <4>6. TakesName(c, m.arg)
        BY <2>1, <3>2, <4>1, <4>3, <4>4, <4>5 DEF TakesName
      <4> QED
        BY <1>1, <4>6
    <3> QED
      BY <3>1, <3>2
  <2> QED
    BY <1>1, <2>1, <2>2, <2>3, <2>4 DEF Dispatch
<1> QED
  BY <1>1, <1>3, <1>5, <1>6

(* HandleDisconnect frees the name of the session, if it has one.            *)
LEMMA DisconnectEffect ==
    ASSUME Tables, NEW c \in Conn, HandleDisconnect(c)
    PROVE  /\ UNCHANGED <<user_data, renamed>>
           /\ LoggedIn(c) =>
                 /\ DOMAIN online_users' = DOMAIN online_users \ {user_data[c].username}
                 /\ \A n \in DOMAIN online_users' : online_users'[n] = online_users[n]
           /\ ~LoggedIn(c) => UNCHANGED online_users
<1>1. c \in DOMAIN user_data /\ UNCHANGED <<user_data, renamed>>
  BY DEF HandleDisconnect
<1>2. CASE LoggedIn(c)
  <2>1. user_data[c].is_logged_in /\ user_data[c].username # Empty
    BY <1>2 DEF LoggedIn, Tables, GoodSession
  <2>2. online_users' = Erase(online_users, user_data[c].username)
    BY <2>1 DEF HandleDisconnect
  <2> QED
    BY <1>1, <1>2, <2>2 DEF Erase
<1>3. CASE ~LoggedIn(c)
  BY <1>1, <1>3 DEF LoggedIn, HandleDisconnect
<1> QED
  BY <1>2, <1>3

-----------------------------------------------------------------------------
(* Each step keeps the invariant, and leaves those who have departed alone.  *)

DepartedStep ==
    \A c \in Conn : Departed(c) =>
        /\ c \in DOMAIN user_data => user_data'[c] = user_data[c]
        /\ \A n \in Name : (online(n) /\ online_users[n] = c)
                              <=> (n \in DOMAIN online_users' /\ online_users'[n] = c)

NamesStep == EventAtHand' /\ SessionsOwnTheirNames' /\ NoGhostUsers' /\ DepartedStep

(* The steps of the reactor, and of the stack of WebServer::Close.           *)
LEMMA OutsideStep ==
    ASSUME IInv, UNCHANGED <<evt, stage, appVars>>
    PROVE  NamesStep
<1> USE DEF appVars
<1>1. EventAtHand' /\ DepartedStep
  BY DEF IInv, EventAtHand, DepartedStep, online
<1>2. SessionsOwnTheirNames'
  BY DEF IInv, SessionsOwnTheirNames, LoggedIn, Departed, online
<1>3. NoGhostUsers'
  BY DEF IInv, NoGhostUsers, LoggedIn, Departed
<1> QED
  BY <1>1, <1>2, <1>3 DEF NamesStep

(* A pop makes nobody depart, for the DISCONNECT it finds is still to be     *)
(* handled, and there was none before it.                                    *)
LEMMA PopDeparts ==
    ASSUME IInv, PopEvent
    PROVE  \A c \in Conn : Departed(c)' <=> Departed(c)
<1>1. PICK h \in Event : /\ evt' = h /\ LegalNext(h)
                         /\ stage' = [stage EXCEPT ![h.conn] = StageAfter(h)]
  BY PopLegal DEF IInv, PopEvent, Pop, StageAfter
<1>2. PICK b \in Conn : h.conn = b
  BY DEF Event
<1>3. stage \in [Conn -> {"unseen", "open", "gone"}]
  BY DEF IInv, StreamIInv, StreamTypeOK
<1>4. evt = NoEvent /\ ~checked /\ ~checked' /\ UNCHANGED <<user_data, online_users, renamed>>
  BY DEF PopEvent, Pop, IInv, CheckedHasEvent
<1>5. stage'[b] = StageAfter(h) /\ \A c \in Conn \ {b} : stage'[c] = stage[c]
  BY <1>1, <1>2, <1>3
<1>6. ASSUME NEW c \in Conn
      PROVE  NoEvent # DisconnectEvent(c) /\ (c # b => h # DisconnectEvent(c))
  <2>1. DisconnectEvent(c) \in Event /\ NoEvent \notin Event /\ DisconnectEvent(c).conn = c
    BY EventFacts
  <2> QED
    BY <1>2, <2>1
<1>7. h.type = "DISCONNECT" => h = DisconnectEvent(b)
  BY <1>2, EventFacts
<1>8. h.type \in {"CONNECT", "DISCONNECT", "MESSAGE"}
  BY DEF Event
<1>9. ASSUME NEW c \in Conn PROVE Departed(c)' <=> Departed(c)
  <2>1. Departed(c) <=> stage[c] = "gone"
    BY <1>4, <1>6 DEF Departed
  <2>2. Departed(c)' <=> stage'[c] = "gone" /\ h # DisconnectEvent(c)
    BY <1>1 DEF Departed, DisconnectEvent
  <2>3. CASE c # b
    BY <1>5, <1>6, <2>1, <2>2, <2>3
  <2>4. CASE c = b
    BY <1>1, <1>2, <1>5, <1>7, <1>8, <2>1, <2>2, <2>4 DEF StageAfter, LegalNext, DisconnectEvent
  <2> QED
    BY <2>3, <2>4
<1> QED
  BY <1>9

(* Popping an event changes no name.                                         *)
LEMMA PopStep ==
    ASSUME IInv, PopEvent
    PROVE  NamesStep
<1>1. PICK h \in Event : /\ evt' = h /\ LegalNext(h)
                         /\ stage' = [stage EXCEPT ![h.conn] = StageAfter(h)]
  BY PopLegal DEF IInv, PopEvent, Pop, StageAfter
<1>2. PICK b \in Conn : h.conn = b
  BY DEF Event
<1>3. stage \in [Conn -> {"unseen", "open", "gone"}]
  BY DEF IInv, StreamIInv, StreamTypeOK
<1>4. evt = NoEvent /\ ~checked /\ ~checked' /\ UNCHANGED <<user_data, online_users, renamed>>
  BY DEF PopEvent, Pop, IInv, CheckedHasEvent
<1>5. stage'[b] = StageAfter(h) /\ \A c \in Conn \ {b} : stage'[c] = stage[c]
  BY <1>1, <1>2, <1>3
<1>8. h.type \in {"CONNECT", "DISCONNECT", "MESSAGE"}
  BY DEF Event
<1>9. \A c \in Conn : Departed(c)' <=> Departed(c)
  BY PopDeparts
<1>10. EventAtHand'
  <2>1. \A c \in Conn : stage'[c] = "unseen" => stage[c] = "unseen"
    BY <1>1, <1>2, <1>5, <1>8 DEF StageAfter
  <2>2. h.type = "CONNECT" => stage[b] = "unseen" /\ stage'[b] = "open"
    BY <1>1, <1>2, <1>5 DEF LegalNext, StageAfter
  <2>3. h.type = "DISCONNECT" => stage'[b] = "gone"
    BY <1>5 DEF StageAfter
  <2> QED
    BY <1>1, <1>2, <1>4, <2>1, <2>2, <2>3 DEF IInv, EventAtHand
<1>11. SessionsOwnTheirNames'
  BY <1>4, <1>9 DEF IInv, SessionsOwnTheirNames, LoggedIn, online
<1>12. NoGhostUsers'
  <2>1. \A n \in DOMAIN online_users : online_users[n] \in Conn
    BY TypeOKParts DEF IInv, Tables
  <2> QED
    BY <1>4, <1>9, <2>1 DEF IInv, NoGhostUsers, LoggedIn
<1>13. DepartedStep
  BY <1>4 DEF DepartedStep, online
<1> QED
  BY <1>10, <1>11, <1>12, <1>13 DEF NamesStep

(* ProcessEvent drops no DISCONNECT ...                                      *)
LEMMA ProcessDeparts ==
    ASSUME IInv, ProcessEvent
    PROVE  \A c \in Conn : Departed(c)' <=> Departed(c)
<1> SUFFICES ASSUME NEW c \in Conn PROVE Departed(c)' <=> Departed(c)
  OBVIOUS
<1>1. DisconnectEvent(c) \in Event /\ NoEvent \notin Event /\ DisconnectEvent(c).type = "DISCONNECT"
  BY EventFacts
<1>2. evt' = evt \/ (evt' = NoEvent /\ evt.type # "DISCONNECT")
  BY DEF ProcessEvent, Ignored
<1>3. Departed(c)' <=> stage[c] = "gone" /\ evt' # DisconnectEvent(c)
  BY DEF ProcessEvent, Departed, DisconnectEvent
<1> QED
  BY <1>1, <1>2, <1>3 DEF Departed

(* ... and what it lets pass of a connection that it sees open is not yet    *)
(* followed by its DISCONNECT.                                               *)
LEMMA ProcessStep ==
    ASSUME IInv, ProcessEvent
    PROVE  NamesStep
<1>1. evt \in Event /\ evt # NoEvent /\ evt.conn \in Conn
  BY EventFacts DEF ProcessEvent, IInv, StreamIInv, StreamTypeOK, Event
<1>2. UNCHANGED <<stage, user_data, online_users, renamed>>
  BY DEF ProcessEvent
<1>3. \A c \in Conn : Departed(c)' <=> Departed(c)
  BY ProcessDeparts
<1>4. EventAtHand'
  <2>1. CASE Ignored(evt)
    BY <1>2, <2>1 DEF ProcessEvent, IInv, EventAtHand
  <2>2. CASE ~Ignored(evt)
    <3>1. evt.type = "MESSAGE" => stage[evt.conn] # "gone"
      BY <1>1, <2>2 DEF Ignored, IInv, StreamIInv, OneDisconnect
    <3> QED
      BY <1>2, <2>2, <3>1 DEF ProcessEvent, IInv, EventAtHand
  <2> QED
    BY <2>1, <2>2
<1>5. SessionsOwnTheirNames'
  BY <1>2, <1>3 DEF IInv, SessionsOwnTheirNames, LoggedIn, online
<1>6. NoGhostUsers'
  <2>1. \A n \in DOMAIN online_users : online_users[n] \in Conn
    BY TypeOKParts DEF IInv, Tables
  <2> QED
    BY <1>2, <1>3, <2>1 DEF IInv, NoGhostUsers, LoggedIn
<1>7. DepartedStep
  BY <1>2 DEF DepartedStep, online
<1> QED
  BY <1>4, <1>5, <1>6, <1>7 DEF NamesStep

(* When a handler returns, those have departed who had before, and the one   *)
(* whose DISCONNECT it was.                                                  *)
LEMMA AfterHandler ==
    ASSUME IInv, HandleEvent
    PROVE  /\ evt \in Event /\ evt # NoEvent /\ checked /\ evt.conn \in Conn
           /\ evt' = NoEvent /\ UNCHANGED stage
           /\ \A c \in Conn : /\ Departed(c)' <=> stage[c] = "gone"
                              /\ Departed(c) <=> stage[c] = "gone" /\ evt # DisconnectEvent(c)
           /\ evt.type = "DISCONNECT" => evt = DisconnectEvent(evt.conn)
           /\ \A c \in Conn : evt = DisconnectEvent(c) => c = evt.conn /\ evt.type = "DISCONNECT"
<1>1. evt # NoEvent /\ checked /\ evt' = NoEvent /\ UNCHANGED stage
  BY DEF HandleEvent, IInv, CheckedHasEvent
<1>2. evt \in Event /\ evt.conn \in Conn
  BY <1>1 DEF IInv, StreamIInv, StreamTypeOK, Event
<1>3. \A c \in Conn : evt = DisconnectEvent(c) => c = evt.conn /\ evt.type = "DISCONNECT"
  BY DEF DisconnectEvent
<1>4. evt.type = "DISCONNECT" => evt = DisconnectEvent(evt.conn)
  BY <1>2, EventFacts
<1>5. ASSUME NEW c \in Conn
      PROVE  /\ Departed(c)' <=> stage[c] = "gone"
             /\ Departed(c) <=> stage[c] = "gone" /\ evt # DisconnectEvent(c)
  <2>1. NoEvent # DisconnectEvent(c)
    BY EventFacts
  <2>2. Departed(c)' <=> stage'[c] = "gone" /\ evt' # DisconnectEvent(c)
    BY DEF Departed, DisconnectEvent
  <2> QED
    BY <1>1, <2>1, <2>2 DEF Departed
<1> QED
  BY <1>1, <1>2, <1>3, <1>4, <1>5

(* A handler that touches neither the sessions nor the names: a DISCONNECT   *)
(* without a session leaves no name behind either.                           *)
LEMMA IdleHandlerStep ==
    ASSUME IInv, HandleEvent, UNCHANGED <<user_data, online_users, renamed>>,
           evt.type = "DISCONNECT" => evt.conn \notin DOMAIN user_data
    PROVE  NamesStep
<1>1. EventAtHand'
  BY AfterHandler DEF IInv, EventAtHand
<1>2. SessionsOwnTheirNames'
  BY AfterHandler DEF IInv, SessionsOwnTheirNames, LoggedIn, online
<1>3. NoGhostUsers'
  <2> SUFFICES ASSUME NEW n \in DOMAIN online_users, online_users[n] \notin renamed
               PROVE  LET c == online_users[n]
                      IN  LoggedIn(c) /\ ~Departed(c)' /\ user_data[c].username = n
    BY DEF NoGhostUsers, LoggedIn
  <2>1. PICK c \in Conn : c = online_users[n]
    BY TypeOKParts DEF IInv, Tables
  <2>2. LoggedIn(c) /\ ~Departed(c) /\ user_data[c].username = n
    BY <2>1 DEF IInv, NoGhostUsers
  <2>3. evt # DisconnectEvent(c)
    BY <2>2, AfterHandler DEF LoggedIn
  <2> QED
    BY <2>1, <2>2, <2>3, AfterHandler
<1>4. DepartedStep
  BY DEF DepartedStep, online
<1> QED
  BY <1>1, <1>2, <1>3, <1>4 DEF NamesStep

(* A new client has no name.                                                 *)
LEMMA ConnectStep ==
    ASSUME IInv, HandleEvent, NEW c \in Conn, c = evt.conn, evt.type = "CONNECT", HandleConnect(c)
    PROVE  NamesStep
<1>1. /\ user_data' = Put(user_data, c, NewSession) /\ UNCHANGED <<online_users, renamed>>
      /\ stage[c] = "open" /\ c \notin DOMAIN user_data
  BY AfterHandler DEF HandleConnect, IInv, EventAtHand
<1>2. /\ DOMAIN user_data' = DOMAIN user_data \cup {c} /\ ~user_data'[c].is_logged_in
      /\ \A d \in DOMAIN user_data : d # c => user_data'[d] = user_data[d]
  BY <1>1 DEF Put, NewSession
<1>3. \A d \in Conn : Departed(d)' <=> Departed(d)
  BY AfterHandler
<1>4. EventAtHand'
  BY <1>1, <1>2, AfterHandler DEF IInv, EventAtHand
<1>5. SessionsOwnTheirNames'
  BY <1>1, <1>2, <1>3 DEF IInv, SessionsOwnTheirNames, LoggedIn, online
<1>6. NoGhostUsers'
  <2> SUFFICES ASSUME NEW n \in DOMAIN online_users, NEW d \in Conn, d = online_users[n],
                      d \notin renamed
               PROVE  /\ d \in DOMAIN user_data' /\ user_data'[d].is_logged_in
                      /\ ~Departed(d)' /\ user_data'[d].username = n
    BY <1>1, TypeOKParts DEF NoGhostUsers, LoggedIn, Departed, DisconnectEvent, IInv, Tables
  <2>1. LoggedIn(d) /\ ~Departed(d) /\ user_data[d].username = n
    BY DEF IInv, NoGhostUsers
  <2>2. d # c
    BY <1>1, <2>1 DEF LoggedIn
  <2> QED
    BY <1>2, <1>3, <2>1, <2>2 DEF LoggedIn
<1>7. DepartedStep
  BY <1>1, <1>2 DEF DepartedStep, Departed, online
<1> QED
  BY <1>4, <1>5, <1>6, <1>7 DEF NamesStep

(* No one else is logged in under the name that HandleDisconnect frees.      *)
LEMMA DisconnectStep ==
    ASSUME IInv, HandleEvent, NEW c \in Conn, c = evt.conn, evt.type = "DISCONNECT",
           HandleDisconnect(c)
    PROVE  NamesStep
<1>1. Tables
  BY TypeOKParts DEF IInv
<1>2. evt = DisconnectEvent(c) /\ stage[c] = "gone" /\ ~Departed(c) /\ Departed(c)'
  BY AfterHandler DEF IInv, EventAtHand
<1>3. \A d \in Conn : d # c => (Departed(d)' <=> Departed(d))
  BY AfterHandler
<1>4. /\ UNCHANGED <<user_data, renamed>>
      /\ LoggedIn(c) =>
            /\ DOMAIN online_users' = DOMAIN online_users \ {user_data[c].username}
            /\ \A n \in DOMAIN online_users' : online_users'[n] = online_users[n]
      /\ ~LoggedIn(c) => UNCHANGED online_users
  BY <1>1, DisconnectEffect
<1>5. LoggedIn(c) => online(user_data[c].username) /\ online_users[user_data[c].username] = c
  BY <1>2 DEF IInv, SessionsOwnTheirNames
<1>6. \A n \in DOMAIN online_users : online_users[n] # c =>
          n \in DOMAIN online_users' /\ online_users'[n] = online_users[n]
  BY <1>4, <1>5
<1>7. DOMAIN online_users' \subseteq DOMAIN online_users
      /\ \A n \in DOMAIN online_users' : online_users'[n] = online_users[n]
  BY <1>4
<1>8. EventAtHand'
  BY <1>4, AfterHandler DEF IInv, EventAtHand
<1>9. SessionsOwnTheirNames'
  <2> SUFFICES ASSUME NEW d \in Conn, LoggedIn(d), ~Departed(d)'
               PROVE  LET n == user_data[d].username
                      IN  n \in DOMAIN online_users' /\ online_users'[n] = d
    BY <1>4 DEF SessionsOwnTheirNames, LoggedIn, online
  <2>1. d # c /\ ~Departed(d)
    BY <1>2, <1>3
  <2>2. online(user_data[d].username) /\ online_users[user_data[d].username] = d
    BY <2>1 DEF IInv, SessionsOwnTheirNames
  <2> QED
    BY <1>6, <2>1, <2>2 DEF online
<1>10. NoGhostUsers'
  <2> SUFFICES ASSUME NEW n \in DOMAIN online_users', NEW d \in Conn, d = online_users[n],
                      d \notin renamed
               PROVE  LoggedIn(d) /\ ~Departed(d)' /\ user_data[d].username = n
    BY <1>1, <1>4, <1>7 DEF NoGhostUsers, LoggedIn, Departed, DisconnectEvent, Tables
  <2>1. LoggedIn(d) /\ ~Departed(d) /\ user_data[d].username = n
    BY <1>7 DEF IInv, NoGhostUsers
  <2>2. d # c
    BY <1>4, <2>1
  <2> QED
    BY <1>3, <2>1, <2>2
<1>11. DepartedStep
  <2> SUFFICES ASSUME NEW d \in Conn, Departed(d), NEW n \in Name
               PROVE  (online(n) /\ online_users[n] = d)
                          <=> (n \in DOMAIN online_users' /\ online_users'[n] = d)
    BY <1>4 DEF DepartedStep
  <2>1. d # c
    BY <1>2
  <2> QED
    BY <1>6, <1>7, <2>1 DEF online
<1> QED
  BY <1>8, <1>9, <1>10, <1>11 DEF NamesStep

(* The sender has not departed, whatever the reactor does in the meantime,   *)
(* and takes at most a name that nobody has.                                 *)
LEMMA MessageStep ==
    ASSUME IInv, HandleEvent, NEW c \in Conn, c = evt.conn, evt.type = "MESSAGE",
           NEW m \in Msg, NEW e \in Tokens, HandleMessage(c, m, e)
    PROVE  NamesStep
<1>1. Tables
  BY TypeOKParts DEF IInv
<1>2. c \in DOMAIN user_data /\ (KeepsNames(c) \/ TakesName(c, m.arg))
  BY <1>1, MessageEffect
<1>3. stage[c] # "gone" /\ ~Departed(c)
  BY AfterHandler DEF IInv, EventAtHand, Departed
<1>4. \A d \in Conn : Departed(d)' <=> Departed(d)
  BY AfterHandler
<1>5. /\ DOMAIN user_data' = DOMAIN user_data
      /\ \A d \in DOMAIN user_data : d # c => user_data'[d] = user_data[d]
  BY <1>2 DEF KeepsNames, TakesName
<1>6. EventAtHand'
  BY <1>5, AfterHandler DEF IInv, EventAtHand
<1>7. CASE KeepsNames(c)
  <2>1. /\ UNCHANGED <<online_users, renamed>>
        /\ user_data'[c].username = user_data[c].username
        /\ user_data'[c].is_logged_in = user_data[c].is_logged_in
    BY <1>7 DEF KeepsNames
  <2>2. \A d \in DOMAIN user_data : /\ user_data'[d].username = user_data[d].username
                                    /\ user_data'[d].is_logged_in = user_data[d].is_logged_in
    BY <1>5, <2>1
  <2>3. SessionsOwnTheirNames'
    BY <1>4, <1>5, <2>1, <2>2 DEF IInv, SessionsOwnTheirNames, LoggedIn, online
  <2>4. NoGhostUsers'
    BY <1>1, <1>4, <1>5, <2>1, <2>2 DEF IInv, NoGhostUsers, LoggedIn, Tables
  <2>5. DepartedStep
    BY <1>3, <1>5, <2>1 DEF DepartedStep, online
  <2> QED
    BY <1>6, <2>3, <2>4, <2>5 DEF NamesStep
<1>8. CASE TakesName(c, m.arg)
  <2> DEFINE name == m.arg
  <2>1. /\ ~online(name)
        /\ DOMAIN online_users' = DOMAIN online_users \cup {name}
        /\ online_users'[name] = c
        /\ \A n \in DOMAIN online_users : online_users'[n] = online_users[n]
        /\ renamed' = IF user_data[c].is_logged_in THEN renamed \cup {c} ELSE renamed
        /\ user_data'[c].username = name /\ user_data'[c].is_logged_in
    BY <1>8 DEF TakesName
  <2> HIDE DEF name
  <2>2. SessionsOwnTheirNames'
    <3> SUFFICES ASSUME NEW d \in Conn, LoggedIn(d)', ~Departed(d)'
                 PROVE  /\ user_data'[d].username \in DOMAIN online_users'
                        /\ online_users'[user_data'[d].username] = d
      BY DEF SessionsOwnTheirNames, online
    <3>1. CASE d = c
      BY <2>1, <3>1
    <3>2. CASE d # c
      <4>1. LoggedIn(d) /\ ~Departed(d) /\ user_data'[d] = user_data[d]
        BY <1>4, <1>5, <3>2 DEF LoggedIn
      <4>2. online(user_data[d].username) /\ online_users[user_data[d].username] = d
        BY <4>1 DEF IInv, SessionsOwnTheirNames
      <4> QED
        BY <2>1, <4>1, <4>2 DEF online
    <3> QED
      BY <3>1, <3>2
  <2>3. NoGhostUsers'
    <3>1. \A n \in DOMAIN online_users' : online_users'[n] \in Conn
      BY <1>1, <2>1 DEF Tables
    <3> SUFFICES ASSUME NEW n \in DOMAIN online_users', NEW d \in Conn, d = online_users'[n],
                        d \notin renamed'
                 PROVE  /\ d \in DOMAIN user_data' /\ user_data'[d].is_logged_in
                        /\ ~Departed(d)' /\ user_data'[d].username = n
      BY <3>1 DEF NoGhostUsers, LoggedIn, Departed, DisconnectEvent
    <3>2. CASE n = name
      BY <1>2, <1>3, <1>4, <1>5, <2>1, <3>2
    <3>3. CASE n # name
      <4>1. n \in DOMAIN online_users /\ online_users[n] = d /\ d \notin renamed
        BY <2>1, <3>3
      <4>2. LoggedIn(d) /\ ~Departed(d) /\ user_data[d].username = n
        BY <4>1 DEF IInv, NoGhostUsers
      <4>3. d # c
        BY <2>1, <4>2 DEF LoggedIn
      <4> QED
        BY <1>4, <1>5, <4>2, <4>3 DEF LoggedIn
    <3> QED
      BY <3>2, <3>3
  <2>4. DepartedStep
    BY <1>3, <1>5, <2>1 DEF DepartedStep, online
  <2> QED
    BY <1>6, <2>2, <2>3, <2>4 DEF NamesStep
<1> QED
  BY <1>2, <1>7, <1>8

(* Whatever the event is, its handler treats the names as it should.         *)
LEMMA HandlerStep ==
    ASSUME IInv, HandleEvent
    PROVE  NamesStep
<1>1. PICK c \in Conn : c = evt.conn
  BY AfterHandler
<1>2. CASE HandleNothing(evt)
  BY <1>2, IdleHandlerStep DEF HandleNothing
<1>3. CASE evt.type = "CONNECT" /\ HandleConnect(evt.conn)
  BY <1>1, <1>3, ConnectStep
<1>4. CASE evt.type = "DISCONNECT" /\ HandleDisconnect(evt.conn)
  BY <1>1, <1>4, DisconnectStep
<1>5. CASE evt.type = "MESSAGE" /\ \E e \in Tokens : HandleMessage(evt.conn, evt.payload, e)
  <2>1. evt.payload \in Msg
    BY <1>5, AfterHandler DEF Event
  <2> QED
    BY <1>1, <1>5, <2>1, MessageStep
<1> QED
  BY <1>2, <1>3, <1>4, <1>5 DEF HandleEvent

(* Every step treats the names as it should.                                 *)
LEMMA NamesNext == IInv /\ [Next]_vars => NamesStep
<1> SUFFICES ASSUME IInv, [Next]_vars PROVE NamesStep
  OBVIOUS
<1>1. CASE UNCHANGED <<evt, stage, appVars>>
  BY <1>1, OutsideStep
<1>2. ASSUME NEW c \in Conn, Connect(c) \/ Disconnect(c) PROVE UNCHANGED <<evt, stage, appVars>>
  BY <1>2 DEF Connect, PushConnect, Disconnect, NetClose
<1>3. ASSUME NEW c \in Conn, NEW m \in Msg, Receive(c, m) PROVE UNCHANGED <<evt, stage, appVars>>
  BY <1>3 DEF Receive, PushMessage
<1>4. ASSUME NEW t \in Thread, ReportClosed(t) PROVE UNCHANGED <<evt, stage, appVars>>
  BY <1>4 DEF ReportClosed, PushDisconnect
<1>5. ASSUME UNCHANGED vars PROVE UNCHANGED <<evt, stage, appVars>>
  BY <1>5 DEF vars, streamVars
<1> QED
  BY <1>1, <1>2, <1>3, <1>4, <1>5, PopStep, ProcessStep, HandlerStep DEF Next

(* The invariant holds at the start,                                         *)
LEMMA IInvInit == Init => IInv
<1> SUFFICES ASSUME Init PROVE IInv
  OBVIOUS
<1>1. StreamIInv
  BY StreamIInvInit DEF Init
<1>2. TypeOK /\ CheckedHasEvent
  BY InitTypeOK
<1>3. EventAtHand /\ SessionsOwnTheirNames /\ NoGhostUsers
  BY DEF Init, StreamInit, EventAtHand, SessionsOwnTheirNames, NoGhostUsers, LoggedIn, online
<1> QED
  BY <1>1, <1>2, <1>3 DEF IInv

(* is kept by every step,                                                    *)
LEMMA IInvNext == IInv /\ [Next]_vars => IInv'
<1> SUFFICES ASSUME IInv, [Next]_vars PROVE IInv'
  OBVIOUS
<1>1. StreamIInv'
  BY StepRefines, StreamIInvNext DEF IInv
<1>2. TypeOK' /\ CheckedHasEvent'
  BY TypeOKNext, CheckedHasEventNext DEF IInv
<1>3. EventAtHand' /\ SessionsOwnTheirNames' /\ NoGhostUsers'
  BY NamesNext DEF NamesStep
<1> QED
  BY <1>1, <1>2, <1>3 DEF IInv

(* and so holds always.                                                      *)
LEMMA IInvInvariant == Safety => []IInv
BY IInvInit, IInvNext, PTL DEF Safety

(* A client that is logged in, and whose disconnection has not been handled, *)
(* is the one that online_users_ has under its name.                         *)
THEOREM SessionsOwnTheirNamesHolds == Safety => []SessionsOwnTheirNames
<1>1. IInv => SessionsOwnTheirNames
  BY DEF IInv
<1> QED
  BY <1>1, IInvInvariant, PTL

(* Every name in online_users_ belongs to a client that is logged in under   *)
(* it and is still there, unless that client logged in more than once.       *)
THEOREM NoGhostUsersHolds == Safety => []NoGhostUsers
<1>1. IInv => NoGhostUsers
  BY DEF IInv
<1> QED
  BY <1>1, IInvInvariant, PTL

(* No step changes the session or the names of a client that has departed.   *)
THEOREM DepartedInertHolds == Safety => DepartedInert
<1>1. IInv /\ [Next]_vars =>
        [\A c \in Conn : Departed(c) =>
            /\ c \in DOMAIN user_data => user_data'[c] = user_data[c]
            /\ \A n \in Name : (online(n) /\ online_users[n] = c)
                                  <=> (n \in DOMAIN online_users' /\ online_users'[n] = c)]_vars
  BY NamesNext DEF NamesStep, DepartedStep
<1> QED
  BY <1>1, IInvInvariant, PTL DEF Safety, DepartedInert
-----------------------------------------------------------------------------
(* The rooms.  What makes RoomsAgree and RoomDelivery inductive also covers  *)
(* the clients that logged in twice: their current room holds one of their   *)
(* names, not always the present one.                                        *)

Present(c) == LoggedIn(c) /\ ~Departed(c)

RoomsNotEmpty == \A r \in DOMAIN rooms : rooms[r] # {}

MembersOnline == \A r \in Room : \A n \in Members(r) : online(n)

MemberOfOne ==
    \A c \in Conn : Present(c) =>
        \A r \in Room : user_data[c].username \in Members(r) => user_data[c].current_room = r

InItsRoom ==
    \A c \in Conn : Present(c) =>
        \A r \in Room : user_data[c].current_room = r => \E n \in Members(r) : online_users[n] = c

NoRoomBeforeLogin ==
    \A c \in DOMAIN user_data : ~user_data[c].is_logged_in => user_data[c].current_room = Empty

RoomsInv == RoomsNotEmpty /\ MembersOnline /\ MemberOfOne /\ InItsRoom /\ NoRoomBeforeLogin

(* The members of r in a table of rooms.                                     *)
MembersIn(rs, r) == IF r \in DOMAIN rs THEN rs[r] ELSE {}

(* Members, before and after a step, by the table of rooms.                  *)
LEMMA MembersInFacts ==
    ASSUME NEW r
    PROVE  Members(r) = MembersIn(rooms, r) /\ Members(r)' = MembersIn(rooms', r)
BY DEF Members, MembersIn

(* Assigning one room leaves the members of the others.                      *)
LEMMA PutMembers ==
    ASSUME NEW rs, NEW k, NEW v, NEW r
    PROVE  MembersIn(Put(rs, k, v), r) = IF r = k THEN v ELSE MembersIn(rs, r)
BY DEF MembersIn, Put

(* A room keeps its members when one leaves another, and ceases to exist     *)
(* with the last of them.                                                    *)
LEMMA RoomsWithoutMembers ==
    ASSUME RoomsNotEmpty, NEW r, NEW n
    PROVE  /\ \A x \in DOMAIN RoomsWithout(r, n) : RoomsWithout(r, n)[x] # {}
           /\ \A x : MembersIn(RoomsWithout(r, n), x)
                         = IF x = r THEN Members(r) \ {n} ELSE Members(x)
<1>1. CASE Members(r) \subseteq {n}
  <2>1. RoomsWithout(r, n) = Erase(rooms, r)
    BY <1>1 DEF RoomsWithout
  <2> QED
    BY <1>1, <2>1 DEF RoomsNotEmpty, Members, MembersIn, Erase
<1>2. CASE ~(Members(r) \subseteq {n})
  <2>1. RoomsWithout(r, n) = Put(rooms, r, Members(r) \ {n})
    BY <1>2 DEF RoomsWithout
  <2> QED
    BY <1>2, <2>1 DEF RoomsNotEmpty, Members, MembersIn, Put
<1> QED
  BY <1>1, <1>2

(* Packets that belong to no room.                                           *)
Roomless(packets) == \A s \in packets : s[2].origin_room = Empty

(* SendProto gives the packet to all of conns that are open, and no one else. *)
LEMMA SendProtoFacts ==
    ASSUME NEW conns, NEW kind, NEW r
    PROVE  /\ \A s \in SendProto(conns, Packet(kind, r)) :
                  s[1] \in conns /\ s[2].kind = kind /\ s[2].origin_room = r
           /\ \A d \in conns : ~closed(d) =>
                  <<d, Packet(kind, r)>> \in SendProto(conns, Packet(kind, r))
BY DEF SendProto, Packet

(* Packets that belong to a room and are no chat: each goes to an online     *)
(* member of its room other than me, or to c about its own room r.           *)
Notices(packets, me, c, r) ==
    \A s \in packets : s[2].origin_room # Empty =>
        /\ s[2].kind # "room_chat"
        /\ s[2].origin_room \in Room
        /\ \/ s[1] \in ConnsOf(Members(s[2].origin_room) \ {me})
           \/ s[1] = c /\ s[2].origin_room = r

(* What a message does to the session of its sender and to the rooms: it     *)
(* keeps them ...                                                            *)
KeepsSessions ==
    /\ DOMAIN user_data' = DOMAIN user_data
    /\ \A d \in DOMAIN user_data :
           /\ user_data'[d].username = user_data[d].username
           /\ user_data'[d].is_logged_in = user_data[d].is_logged_in
           /\ user_data'[d].current_room = user_data[d].current_room
    /\ UNCHANGED <<online_users, renamed>>

(* ... or is chat that is delivered in the sender's room ...                 *)
Chats(c) ==
    /\ LoggedIn(c) /\ user_data[c].current_room \in Room
    /\ LET r == user_data[c].current_room
       IN  /\ rooms' = Put(rooms, r, Members(r))
           /\ sent' = SendProto(ConnsOf(Members(r)), Packet("room_chat", r))

(* ... or moves the sender into room r, or into none.                        *)
Moves(c, r) ==
    /\ LoggedIn(c) /\ r \in Room \cup {Empty}
    /\ DOMAIN user_data' = DOMAIN user_data
    /\ user_data'[c].username = user_data[c].username
    /\ user_data'[c].is_logged_in
    /\ user_data'[c].current_room = r
    /\ \A d \in DOMAIN user_data : d # c => user_data'[d] = user_data[d]
    /\ UNCHANGED <<online_users, renamed>>
    /\ RoomsNotEmpty => RoomsNotEmpty'
    /\ RoomsNotEmpty => \A x \in Room : Members(x)' =
           IF x = r THEN Members(x) \cup {user_data[c].username}
           ELSE IF x = user_data[c].current_room THEN Members(x) \ {user_data[c].username}
           ELSE Members(x)
    /\ RoomsNotEmpty => Notices(sent', user_data[c].username, c, r)

(* HandleJoinRoom takes the sender out of its old room before it enters the  *)
(* new one, also when they are the same, and announces both.                 *)
LEMMA JoinEffect ==
    ASSUME Tables, NEW c \in DOMAIN user_data, NEW s, GoodSession(s), s.is_logged_in,
           s.username = user_data[c].username, user_data[c].is_logged_in,
           s.current_room = user_data[c].current_room,
           NEW new_room \in Room \cup {Empty}, HandleJoinRoom(c, s, new_room)
    PROVE  Moves(c, new_room)
<1> DEFINE me == s.username
           old_room == s.current_room
           left == IF old_room = Empty THEN rooms ELSE RoomsWithout(old_room, me)
           others == (IF new_room \in DOMAIN left THEN left[new_room] ELSE {}) \ {me}
           t == [s EXCEPT !.current_room = new_room]
           p1 == IF old_room = Empty THEN {}
                 ELSE SendProto(ConnsOf(Members(old_room) \ {me}), Packet("left", old_room))
           p2 == IF new_room = Empty THEN {}
                 ELSE SendProto(ConnsOf(others), Packet("joined", new_room))
           p3 == SendProto({c}, Packet("entered", new_room))
<1>1. /\ user_data' = [user_data EXCEPT ![c] = t]
      /\ rooms' = IF new_room = Empty THEN left ELSE Put(left, new_room, others \cup {me})
      /\ sent' = UNION {p1, p2, p3}
      /\ UNCHANGED <<online_users, renamed>>
  BY DEF HandleJoinRoom
<1>2. old_room \in Room \cup {Empty} /\ Empty \notin Room
  BY ChatAppAssumption DEF GoodSession, ChatSession, Empty
<1>3. GoodSession(t) /\ t.username = me /\ t.is_logged_in /\ t.current_room = new_room
  BY DEF GoodSession, ChatSession
<1>4. /\ DOMAIN user_data' = DOMAIN user_data /\ user_data'[c] = t
      /\ \A d \in DOMAIN user_data : d # c => user_data'[d] = user_data[d]
  BY <1>1, <1>3, StoreSession
<1>5. ASSUME RoomsNotEmpty
      PROVE  /\ \A x \in DOMAIN left : left[x] # {}
             /\ \A x \in Room : MembersIn(left, x)
                    = IF x = old_room THEN Members(x) \ {me} ELSE Members(x)
  <2>1. CASE old_room = Empty
    BY <1>2, <1>5, <2>1 DEF RoomsNotEmpty, Members, MembersIn
  <2>2. CASE old_room # Empty
    <3>1. left = RoomsWithout(old_room, me)
      BY <2>2
    <3> HIDE DEF left, old_room, me
    <3> QED
      BY <1>5, <3>1, RoomsWithoutMembers
  <2> QED
    BY <2>1, <2>2
<1>6. others = MembersIn(left, new_room) \ {me}
  BY DEF MembersIn
<1>7. rooms' \in {left, Put(left, new_room, others \cup {me})}
  BY <1>1
<1> HIDE DEF left, others, t
<1>8. RoomsNotEmpty => RoomsNotEmpty'
  <2> SUFFICES ASSUME RoomsNotEmpty PROVE \A x \in DOMAIN rooms' : rooms'[x] # {}
    BY DEF RoomsNotEmpty
  <2> QED
    BY <1>5, <1>7 DEF Put
<1>9. ASSUME RoomsNotEmpty, NEW x \in Room
      PROVE  Members(x)' = IF x = new_room THEN Members(x) \cup {me}
                           ELSE IF x = old_room THEN Members(x) \ {me}
                           ELSE Members(x)
  <2>1. Members(x)' = MembersIn(rooms', x)
    BY MembersInFacts
  <2>2. MembersIn(left, x) = IF x = old_room THEN Members(x) \ {me} ELSE Members(x)
    BY <1>5, <1>9
  <2>3. CASE new_room = Empty
    BY <1>1, <1>2, <2>1, <2>2, <2>3
  <2>4. CASE new_room # Empty
    <3>1. MembersIn(rooms', x) = IF x = new_room THEN others \cup {me} ELSE MembersIn(left, x)
      BY <1>1, <2>4, PutMembers
    <3>2. CASE x = new_room
      BY <1>6, <2>1, <2>2, <3>1, <3>2
    <3> QED
      BY <2>1, <2>2, <3>1, <3>2
  <2> QED
    BY <2>3, <2>4
<1>10. RoomsNotEmpty => Notices(sent', me, c, new_room)
  <2> SUFFICES ASSUME RoomsNotEmpty, NEW p \in sent', p[2].origin_room # Empty
               PROVE  /\ p[2].kind # "room_chat"
                      /\ p[2].origin_room \in Room
                      /\ \/ p[1] \in ConnsOf(Members(p[2].origin_room) \ {me})
                         \/ p[1] = c /\ p[2].origin_room = new_room
    BY DEF Notices
  <2>1. p \in p1 \/ p \in p2 \/ p \in p3
    <3> HIDE DEF p1, p2, p3
    <3> QED
      BY <1>1
  <2>2. CASE p \in p1
    <3>1. /\ p[1] \in ConnsOf(Members(old_room) \ {me})
          /\ p[2].kind = "left" /\ p[2].origin_room = old_room
      BY <2>2, SendProtoFacts
    <3> QED
      BY <1>2, <3>1
  <2>3. CASE p \in p2
    <3>1. /\ p[1] \in ConnsOf(others) /\ new_room # Empty
          /\ p[2].kind = "joined" /\ p[2].origin_room = new_room
      BY <2>3, SendProtoFacts
    <3>2. others = Members(new_room) \ {me}
      BY <1>5, <1>6, <3>1
    <3> QED
      BY <3>1, <3>2
  <2>4. CASE p \in p3
    <3>1. p[1] = c /\ p[2].kind = "entered" /\ p[2].origin_room = new_room
      BY <2>4, SendProtoFacts
    <3> QED
      BY <3>1
  <2> QED
    BY <2>1, <2>2, <2>3, <2>4
<1> QED
  BY <1>1, <1>3, <1>4, <1>8, <1>9, <1>10 DEF Moves, LoggedIn

(* The four things that a message can do to the sessions and the rooms.      *)
LEMMA MessageRooms ==
    ASSUME Tables, NEW c \in Conn, NEW m \in Msg, NEW e \in Tokens, HandleMessage(c, m, e)
    PROVE  \/ KeepsSessions /\ UNCHANGED rooms /\ Roomless(sent')
           \/ KeepsSessions /\ Chats(c)
           \/ /\ TakesName(c, m.arg) /\ user_data'[c].current_room = user_data[c].current_room
              /\ UNCHANGED rooms /\ Roomless(sent')
           \/ Moves(c, m.arg)
<1> DEFINE refilled == Refill(user_data[c].tokens, e)
           Same(s) == /\ GoodSession(s)
                      /\ s.username = user_data[c].username
                      /\ s.is_logged_in = user_data[c].is_logged_in
                      /\ s.current_room = user_data[c].current_room
<1>1. c \in DOMAIN user_data /\ user_data[c].tokens \in Tokens
  BY DEF HandleMessage, Tables, GoodSession, ChatSession
<1>2. refilled \in Tokens /\ (~TooFast(refilled) => Spend(refilled) \in Tokens)
  BY <1>1, TokenFacts
<1>3. \/ HandleTooFast(c, refilled)
      \/ ~TooFast(refilled) /\ Dispatch(c, SessionWith(c, Spend(refilled)), m)
  BY DEF HandleMessage
<1> HIDE DEF refilled
<1>4. ASSUME NEW s, Same(s), user_data' = [user_data EXCEPT ![c] = s],
             UNCHANGED <<online_users, renamed>>
      PROVE  KeepsSessions
  <2>1. /\ DOMAIN user_data' = DOMAIN user_data /\ user_data'[c] = s
        /\ \A d \in DOMAIN user_data : d # c => user_data'[d] = user_data[d]
    BY <1>1, <1>4, StoreSession
  <2> QED
    BY <1>4, <2>1 DEF KeepsSessions
<1>5. CASE HandleTooFast(c, refilled)
  <2>1. /\ user_data' = [user_data EXCEPT ![c] = SessionWith(c, refilled)]
        /\ UNCHANGED <<online_users, rooms, renamed>>
        /\ sent' = SendProto({c}, Packet("error", Empty))
    BY <1>5 DEF HandleTooFast
  <2>2. Same(SessionWith(c, refilled))
    BY <1>1, <1>2, SessionWithFacts
  <2>3. Roomless(sent')
    BY <2>1, SendProtoFacts DEF Roomless
  <2> QED
    BY <1>4, <2>1, <2>2, <2>3
<1>6. CASE ~TooFast(refilled) /\ Dispatch(c, SessionWith(c, Spend(refilled)), m)
  <2>1. PICK s : Same(s) /\ Dispatch(c, s, m)
    BY <1>1, <1>2, <1>6, SessionWithFacts
  <2>2. CASE HandleGlobalChat(c, s) \/ HandleUnset(c, s)
    <3>1. /\ user_data' = [user_data EXCEPT ![c] = s]
          /\ UNCHANGED <<online_users, rooms, renamed>>
          /\ sent' \in {{}, {<<None, Packet("global_chat", Empty)>>}}
      BY <2>2 DEF HandleGlobalChat, HandleUnset
    <3>2. Roomless(sent')
      BY <3>1 DEF Roomless, Packet
    <3> QED
      BY <1>4, <2>1, <3>1, <3>2
  <2>3. CASE HandlePrivateChat(c, s, m.arg)
    <3> DEFINE p1 == SendProto(ConnsOf({m.arg}), Packet("private_chat", Empty))
               p2 == SendProto({c}, Packet("confirm", Empty))
               p3 == SendProto({c}, Packet("not_found", Empty))
    <3>1. /\ user_data' = [user_data EXCEPT ![c] = s]
          /\ UNCHANGED <<online_users, rooms, renamed>>
          /\ sent' \in {{}, p1 \cup p2, p3}
      BY <2>3 DEF HandlePrivateChat
    <3>2. Roomless(p1) /\ Roomless(p2) /\ Roomless(p3)
      BY SendProtoFacts DEF Roomless
    <3>3. Roomless(sent')
      <4> HIDE DEF p1, p2, p3
      <4> QED
        BY <3>1, <3>2 DEF Roomless
    <3> QED
      BY <1>4, <2>1, <3>1, <3>3
  <2>4. CASE m.type = "room_chat" /\ HandleRoomChat(c, s, m.arg)
    <3>1. user_data' = [user_data EXCEPT ![c] = s] /\ UNCHANGED <<online_users, renamed>>
      BY <2>4 DEF HandleRoomChat
    <3>2. KeepsSessions
      BY <1>4, <2>1, <3>1
    <3>3. CASE /\ s.is_logged_in /\ s.current_room # Empty
               /\ s.current_room = m.arg
      <4>1. /\ sent' = SendProto(ConnsOf(Members(m.arg)), Packet("room_chat", m.arg))
            /\ rooms' = Put(rooms, m.arg, Members(m.arg))
        BY <2>4, <3>3 DEF HandleRoomChat
      <4>2. m.arg = user_data[c].current_room /\ m.arg \in Room /\ LoggedIn(c)
        BY <1>1, <2>1, <3>3 DEF LoggedIn, GoodSession, ChatSession
      <4> QED
        BY <3>2, <4>1, <4>2 DEF Chats
    <3>4. CASE ~(/\ s.is_logged_in /\ s.current_room # Empty
                 /\ s.current_room = m.arg)
      <4>1. UNCHANGED rooms /\ sent' \in {{}, SendProto({c}, Packet("error", Empty))}
        BY <2>4, <3>4 DEF HandleRoomChat
      <4>2. Roomless(sent')
        BY <4>1, SendProtoFacts DEF Roomless
      <4> QED
        BY <3>2, <4>1, <4>2
    <3> QED
      BY <3>3, <3>4
  <2>5. CASE m.type = "join_room" /\ HandleJoinRoom(c, s, m.arg)
    <3>1. CASE s.is_logged_in
      <4>1. m.arg \in Room \cup {Empty}
        BY <2>5, MessageFacts
      <4> QED
        BY <1>1, <2>1, <2>5, <3>1, <4>1, JoinEffect
    <3>2. CASE ~s.is_logged_in
      <4>1. /\ user_data' = [user_data EXCEPT ![c] = s]
            /\ UNCHANGED <<online_users, rooms, renamed>> /\ sent' = {}
        BY <2>5, <3>2 DEF HandleJoinRoom
      <4>2. Roomless(sent')
        BY <4>1 DEF Roomless
      <4> QED
        BY <1>4, <2>1, <4>1, <4>2
    <3> QED
      BY <3>1, <3>2
  <2>6. CASE m.type = "login" /\ HandleLogin(c, s, m.arg)
    <3>1. CASE online(m.arg) \/ m.arg = Empty
      <4>1. /\ user_data' = [user_data EXCEPT ![c] = s]
            /\ UNCHANGED <<online_users, rooms, renamed>>
            /\ sent' = SendProto({c}, Packet("login_failed", Empty))
        BY <2>6, <3>1 DEF HandleLogin
      <4>2. Roomless(sent')
        BY <4>1, SendProtoFacts DEF Roomless
      <4> QED
        BY <1>4, <2>1, <4>1, <4>2
    <3>2. CASE ~(online(m.arg) \/ m.arg = Empty)
      <4> DEFINE t == [s EXCEPT !.username = m.arg, !.is_logged_in = TRUE]
      <4>1. /\ user_data' = [user_data EXCEPT ![c] = t]
            /\ online_users' = Put(online_users, m.arg, c)
            /\ UNCHANGED rooms
            /\ sent' = SendProto({c}, Packet("login_ok", Empty))
        BY <2>6, <3>2 DEF HandleLogin
      <4>2. Roomless(sent')
        BY <4>1, SendProtoFacts DEF Roomless
      <4>3. GoodSession(t) /\ t.current_room = s.current_room
        BY <2>1, <2>6, <3>2, MessageFacts DEF GoodSession, ChatSession
      <4>4. user_data'[c] = t
        BY <1>1, <4>1, <4>3, StoreSession
      <4>5. user_data'[c].current_room = user_data[c].current_room
        BY <2>1, <4>3, <4>4
      <4>6. m.arg \in DOMAIN online_users'
        BY <4>1 DEF Put
      <4>7. TakesName(c, m.arg)
        <5>1. KeepsNames(c) \/ TakesName(c, m.arg)
          BY MessageEffect
        <5>2. ~KeepsNames(c)
          BY <3>2, <4>6 DEF KeepsNames, online
        <5> QED
          BY <5>1, <5>2
      <4> HIDE DEF t
      <4> QED
        BY <4>1, <4>2, <4>5, <4>7
    <3> QED
      BY <3>1, <3>2
  <2> QED
    BY <2>1, <2>2, <2>3, <2>4, <2>5, <2>6 DEF Dispatch
<1> QED
  BY <1>3, <1>5, <1>6

(* HandleDisconnect takes the leaver out of its room and tells the others.   *)
LEMMA DisconnectRooms ==
    ASSUME Tables, RoomsNotEmpty, NEW c \in Conn, LoggedIn(c), HandleDisconnect(c)
    PROVE  /\ RoomsNotEmpty'
           /\ \A x \in Room : Members(x)' =
                  IF x = user_data[c].current_room THEN Members(x) \ {user_data[c].username}
                  ELSE Members(x)
           /\ Notices(sent', user_data[c].username, c, Empty)
<1> DEFINE me == user_data[c].username
           r == user_data[c].current_room
<1>1. user_data[c].is_logged_in /\ me # Empty /\ r \in Room \cup {Empty}
  BY DEF LoggedIn, Tables, GoodSession, ChatSession
<1>2. /\ rooms' = IF r = Empty THEN rooms ELSE RoomsWithout(r, me)
      /\ sent' = IF r = Empty THEN {}
                 ELSE SendProto(ConnsOf(Members(r) \ {me}), Packet("left", r))
  BY <1>1 DEF HandleDisconnect
<1>3. Empty \notin Room
  BY ChatAppAssumption DEF Empty
<1> HIDE DEF me, r
<1>4. CASE r = Empty
  <2>1. RoomsNotEmpty' /\ \A x \in Room : Members(x)' = Members(x)
    BY <1>2, <1>4 DEF RoomsNotEmpty, Members
  <2> QED
    BY <1>2, <1>3, <1>4, <2>1 DEF Notices, r
<1>5. CASE r # Empty
  <2>1. rooms' = RoomsWithout(r, me)
    BY <1>2, <1>5
  <2>2. RoomsNotEmpty'
    BY <2>1, RoomsWithoutMembers DEF RoomsNotEmpty
  <2>3. ASSUME NEW x \in Room
        PROVE  Members(x)' = IF x = r THEN Members(x) \ {me} ELSE Members(x)
    <3>1. Members(x)' = MembersIn(rooms', x)
      BY MembersInFacts
    <3> QED
      BY <2>1, <3>1, RoomsWithoutMembers
  <2>4. Notices(sent', me, c, Empty)
    <3>1. sent' = SendProto(ConnsOf(Members(r) \ {me}), Packet("left", r)) /\ r \in Room
      BY <1>1, <1>2, <1>5 DEF r
    <3>2. \A s \in sent' : /\ s[1] \in ConnsOf(Members(r) \ {me})
                          /\ s[2].kind = "left" /\ s[2].origin_room = r
      BY <3>1, SendProtoFacts
    <3> QED
      BY <3>1, <3>2 DEF Notices
  <2> QED
    BY <2>2, <2>3, <2>4 DEF me, r
<1> QED
  BY <1>4, <1>5

-----------------------------------------------------------------------------
(* Who is reached through a name in a room, and what that says of a packet.  *)

(* An online name in a room that no login has left behind is that of a       *)
(* client whose session names the room.                                      *)
LEMMA MemberFacts ==
    ASSUME IInv, RoomsInv, NEW r \in Room, NEW names \in SUBSET Members(r),
           NEW x \in ConnsOf(names), x \notin renamed
    PROVE  /\ x \in Conn /\ Present(x) /\ x \in DOMAIN user_data
           /\ user_data[x].username \in names
           /\ user_data[x].current_room = r
<1>1. PICK n \in names : online(n) /\ x = online_users[n]
  BY DEF ConnsOf
<1>2. x \in Conn
  BY <1>1, TypeOKParts DEF IInv, Tables, online
<1>3. LoggedIn(x) /\ ~Departed(x) /\ user_data[x].username = n
  BY <1>1 DEF IInv, NoGhostUsers, online
<1>4. n \in Members(r)
  BY <1>1
<1>5. user_data[x].current_room = r
  BY <1>2, <1>3, <1>4 DEF RoomsInv, MemberOfOne, Present
<1> QED
  BY <1>1, <1>2, <1>3, <1>5 DEF Present, LoggedIn

(* Packets of no room are outside RoomDelivery.                              *)
LEMMA RoomlessDelivered ==
    ASSUME Roomless(sent')
    PROVE  RoomDelivery'
<1>1. ASSUME NEW d, NEW r \in Room, <<d, Packet("room_chat", r)>> \in sent' PROVE FALSE
  <2>1. Packet("room_chat", r).origin_room = Empty
    BY <1>1 DEF Roomless
  <2> QED
    BY <2>1, ChatAppAssumption DEF Packet, Empty
<1>2. \A s \in sent' : s[2].origin_room = Empty
  BY DEF Roomless
<1> QED
  BY <1>1, <1>2 DEF RoomDelivery

(* Notices reach only those whose session names the room after the step.     *)
LEMMA NoticesDelivered ==
    ASSUME IInv, RoomsInv, NEW c \in Conn, NEW r, LoggedIn(c), UNCHANGED renamed,
           Notices(sent', user_data[c].username, c, r),
           r # Empty => user_data'[c].current_room = r,
           \A d \in DOMAIN user_data : d # c => user_data'[d].current_room = user_data[d].current_room
    PROVE  RoomDelivery'
<1>1. ASSUME NEW d, NEW x \in Room, <<d, Packet("room_chat", x)>> \in sent' PROVE FALSE
  <2>1. Packet("room_chat", x).kind = "room_chat" /\ Packet("room_chat", x).origin_room # Empty
    BY ChatAppAssumption DEF Packet, Empty
  <2> QED
    BY <1>1, <2>1 DEF Notices
<1>2. ASSUME NEW s \in sent', s[2].origin_room # Empty, s[1] \notin renamed
      PROVE  user_data'[s[1]].current_room = s[2].origin_room
  <2> DEFINE x == s[2].origin_room
             d == s[1]
  <2>1. x \in Room /\ (d \in ConnsOf(Members(x) \ {user_data[c].username}) \/ (d = c /\ x = r))
    BY <1>2 DEF Notices
  <2>2. CASE d \in ConnsOf(Members(x) \ {user_data[c].username})
    <3> HIDE DEF x, d
    <3>1. Members(x) \ {user_data[c].username} \in SUBSET Members(x)
      OBVIOUS
    <3>2. d \notin renamed
      BY <1>2 DEF d
    <3>3. /\ d \in DOMAIN user_data /\ user_data[d].current_room = x
          /\ user_data[d].username \in Members(x) \ {user_data[c].username}
      BY <2>1, <2>2, <3>1, <3>2, MemberFacts
    <3>4. d # c
      BY <3>3
    <3>5. user_data'[d].current_room = x
      BY <3>3, <3>4
    <3> QED
      BY <3>5 DEF x, d
  <2>3. CASE d = c /\ x = r
    BY <1>2, <2>3
  <2> QED
    BY <2>1, <2>2, <2>3
<1> QED
  BY <1>1, <1>2 DEF RoomDelivery

(* Chat in a room reaches every session that names the room, since each has  *)
(* a name among the members.                                                 *)
LEMMA ChatDelivered ==
    ASSUME IInv, RoomsInv, NEW c \in Conn, KeepsSessions, Chats(c),
           \A d \in Conn : ~closed(d)' => ~closed(d) /\ ~Departed(d)
    PROVE  RoomDelivery'
<1> DEFINE room == user_data[c].current_room
           p == Packet("room_chat", room)
<1>1. room \in Room /\ sent' = SendProto(ConnsOf(Members(room)), p)
  BY DEF Chats
<1>2. p.kind = "room_chat" /\ p.origin_room = room
  BY DEF Packet
<1>3. /\ \A s \in sent' : s[1] \in ConnsOf(Members(room)) /\ s[2].origin_room = room
      /\ \A d \in ConnsOf(Members(room)) : ~closed(d) => <<d, p>> \in sent'
  BY <1>1, SendProtoFacts
<1> HIDE DEF p
<1>4. ASSUME NEW s \in sent', s[1] \notin renamed'
      PROVE  user_data'[s[1]].current_room = s[2].origin_room
  <2>1. s[1] \in DOMAIN user_data /\ user_data[s[1]].current_room = room
    <3> HIDE DEF room
    <3> QED
      BY <1>1, <1>3, <1>4, MemberFacts DEF KeepsSessions
  <2> QED
    BY <1>3, <2>1 DEF KeepsSessions
<1>5. ASSUME NEW d \in DOMAIN user_data', user_data'[d].current_room = room, ~closed(d)'
      PROVE  <<d, p>> \in sent'
  <2>1. d \in DOMAIN user_data /\ d \in Conn /\ user_data[d].current_room = room
    BY <1>5, TypeOKParts DEF KeepsSessions, IInv, Tables
  <2>2. ~closed(d) /\ ~Departed(d)
    BY <1>5, <2>1
  <2>3. room # Empty
    BY <1>1, ChatAppAssumption DEF Empty
  <2>4. Present(d)
    BY <2>1, <2>2, <2>3 DEF Present, LoggedIn, RoomsInv, NoRoomBeforeLogin
  <2>5. PICK n \in Members(room) : online_users[n] = d
    BY <1>1, <2>1, <2>4 DEF RoomsInv, InItsRoom
  <2>6. online(n)
    BY <1>1, <2>5 DEF RoomsInv, MembersOnline
  <2>7. d \in ConnsOf(Members(room))
    BY <2>5, <2>6 DEF ConnsOf
  <2> QED
    BY <1>3, <2>2, <2>7
<1>6. ASSUME NEW r \in Room, NEW x, <<x, Packet("room_chat", r)>> \in sent'
      PROVE  r = room
  BY <1>3, <1>6 DEF Packet
<1>7. ASSUME NEW r \in Room, \E x \in Conn : <<x, Packet("room_chat", r)>> \in sent',
             NEW d \in DOMAIN user_data', user_data'[d].current_room = r, ~closed(d)'
      PROVE  <<d, Packet("room_chat", r)>> \in sent'
  BY <1>5, <1>6, <1>7 DEF p
<1> QED
  BY <1>4, <1>7 DEF RoomDelivery, closed

-----------------------------------------------------------------------------
(* Each step keeps RoomsInv and RoomDelivery.                                *)

RoomsStep == RoomsInv' /\ RoomDelivery'

(* A step that changes no session, name or room, and brings nobody back.     *)
LEMMA SameRooms ==
    ASSUME IInv, RoomsInv, KeepsSessions, RoomsNotEmpty',
           \A r \in Room : Members(r)' = Members(r),
           \A d \in Conn : Departed(d) => Departed(d)'
    PROVE  RoomsInv'
<1>1. \A d \in Conn : Present(d)' => Present(d)
  BY DEF Present, LoggedIn, KeepsSessions
<1>2. \A d \in Conn : Present(d) => /\ user_data'[d].username = user_data[d].username
                                    /\ user_data'[d].current_room = user_data[d].current_room
  BY DEF Present, LoggedIn, KeepsSessions
<1>3. MembersOnline'
  BY DEF RoomsInv, MembersOnline, KeepsSessions, online
<1>4. MemberOfOne'
  BY <1>1, <1>2 DEF RoomsInv, MemberOfOne
<1>5. InItsRoom'
  BY <1>1, <1>2 DEF RoomsInv, InItsRoom, KeepsSessions
<1>6. NoRoomBeforeLogin'
  BY DEF RoomsInv, NoRoomBeforeLogin, KeepsSessions
<1> QED
  BY <1>3, <1>4, <1>5, <1>6 DEF RoomsInv

(* The sender leaves its old room, if it has one, and enters the new one.    *)
LEMMA MoveRooms ==
    ASSUME IInv, RoomsInv, NEW c \in Conn, NEW r, Moves(c, r), ~Departed(c),
           \A d \in Conn : Departed(d)' <=> Departed(d)
    PROVE  RoomsInv'
<1> DEFINE me == user_data[c].username
           old_room == user_data[c].current_room
<1>1. Present(c) /\ online(me) /\ online_users[me] = c
  BY DEF Moves, Present, IInv, SessionsOwnTheirNames
<1>2. /\ RoomsNotEmpty'
      /\ DOMAIN user_data' = DOMAIN user_data /\ c \in DOMAIN user_data
      /\ user_data'[c].username = me /\ user_data'[c].is_logged_in /\ user_data'[c].current_room = r
      /\ \A d \in DOMAIN user_data : d # c => user_data'[d] = user_data[d]
      /\ UNCHANGED <<online_users, renamed>>
      /\ \A x \in Room : Members(x)' = IF x = r THEN Members(x) \cup {me}
                                       ELSE IF x = old_room THEN Members(x) \ {me} ELSE Members(x)
  BY DEF Moves, RoomsInv, LoggedIn
<1>3. \A x \in Room : me \in Members(x) => x = old_room
  BY <1>1 DEF RoomsInv, MemberOfOne
<1> HIDE DEF me, old_room
<1>4. ASSUME NEW d \in Conn, d # c, Present(d)'
      PROVE  /\ Present(d) /\ user_data'[d] = user_data[d]
             /\ online_users[user_data[d].username] = d /\ user_data[d].username # me
  <2>1. Present(d) /\ user_data'[d] = user_data[d]
    BY <1>2, <1>4 DEF Present, LoggedIn
  <2>2. online_users[user_data[d].username] = d
    BY <2>1 DEF Present, IInv, SessionsOwnTheirNames
  <2> QED
    BY <1>1, <1>4, <2>1, <2>2
<1>5. MembersOnline'
  <2> SUFFICES ASSUME NEW x \in Room, NEW n \in Members(x)' PROVE online(n)
    BY <1>2 DEF MembersOnline, online
  <2>1. n \in Members(x) \/ n = me
    BY <1>2
  <2> QED
    BY <1>1, <2>1 DEF RoomsInv, MembersOnline
<1>6. MemberOfOne'
  <2> SUFFICES ASSUME NEW d \in Conn, Present(d)', NEW x \in Room,
                      user_data'[d].username \in Members(x)'
               PROVE  user_data'[d].current_room = x
    BY DEF MemberOfOne
  <2>1. CASE d = c
    BY <1>2, <1>3, <2>1
  <2>2. CASE d # c
    <3>1. user_data[d].username \in Members(x)
      BY <1>2, <1>4, <2>2
    <3> QED
      BY <1>4, <2>2, <3>1 DEF RoomsInv, MemberOfOne
  <2> QED
    BY <2>1, <2>2
<1>7. InItsRoom'
  <2> SUFFICES ASSUME NEW d \in Conn, Present(d)', NEW x \in Room, user_data'[d].current_room = x
               PROVE  \E n \in Members(x)' : online_users'[n] = d
    BY DEF InItsRoom
  <2>1. CASE d = c
    BY <1>1, <1>2, <2>1
  <2>2. CASE d # c
    <3>1. PICK n \in Members(x) : online_users[n] = d
      BY <1>4, <2>2 DEF RoomsInv, InItsRoom
    <3>2. n \in Members(x)'
      BY <1>1, <1>2, <2>2, <3>1
    <3> QED
      BY <1>2, <3>1, <3>2
  <2> QED
    BY <2>1, <2>2
<1>8. NoRoomBeforeLogin'
  BY <1>2 DEF RoomsInv, NoRoomBeforeLogin
<1> QED
  BY <1>2, <1>5, <1>6, <1>7, <1>8 DEF RoomsInv

(* A name that is free is in no room, so whoever takes it enters none by it. *)
LEMMA LoginRooms ==
    ASSUME IInv, RoomsInv, NEW c \in Conn, NEW name, TakesName(c, name), UNCHANGED rooms,
           c \in DOMAIN user_data, user_data'[c].current_room = user_data[c].current_room,
           \A d \in Conn : Departed(d)' <=> Departed(d)
    PROVE  RoomsInv'
<1>1. RoomsNotEmpty' /\ \A x \in Room : Members(x)' = Members(x)
  BY DEF RoomsInv, RoomsNotEmpty, Members
<1>2. /\ ~online(name)
      /\ DOMAIN online_users' = DOMAIN online_users \cup {name}
      /\ \A n \in DOMAIN online_users : online_users'[n] = online_users[n]
      /\ DOMAIN user_data' = DOMAIN user_data
      /\ user_data'[c].username = name /\ user_data'[c].is_logged_in
      /\ \A d \in DOMAIN user_data : d # c => user_data'[d] = user_data[d]
  BY DEF TakesName
<1>3. \A x \in Room : name \notin Members(x)
  BY <1>2 DEF RoomsInv, MembersOnline
<1>4. \A d \in Conn : d # c /\ Present(d)' => Present(d) /\ user_data'[d] = user_data[d]
  BY <1>2 DEF Present, LoggedIn
<1>5. MembersOnline'
  BY <1>1, <1>2 DEF RoomsInv, MembersOnline, online
<1>6. MemberOfOne'
  BY <1>1, <1>2, <1>3, <1>4 DEF RoomsInv, MemberOfOne
<1>7. InItsRoom'
  <2> SUFFICES ASSUME NEW d \in Conn, Present(d)', NEW x \in Room, user_data'[d].current_room = x
               PROVE  \E n \in Members(x)' : online_users'[n] = d
    BY DEF InItsRoom
  <2>1. Present(d) /\ user_data[d].current_room = x
    <3>1. CASE d = c
      <4>1. user_data[c].current_room # Empty
        BY <3>1, ChatAppAssumption DEF Empty
      <4>2. LoggedIn(c)
        BY <4>1 DEF LoggedIn, RoomsInv, NoRoomBeforeLogin
      <4>3. ~Departed(c)
        BY <3>1 DEF Present
      <4> QED
        BY <3>1, <4>2, <4>3 DEF Present
    <3> QED
      BY <1>4, <3>1
  <2>2. PICK n \in Members(x) : online_users[n] = d
    BY <2>1 DEF RoomsInv, InItsRoom
  <2>3. n \in DOMAIN online_users
    BY DEF RoomsInv, MembersOnline, online
  <2> QED
    BY <1>1, <1>2, <2>2, <2>3
<1>8. NoRoomBeforeLogin'
  BY <1>2 DEF RoomsInv, NoRoomBeforeLogin
<1> QED
  BY <1>1, <1>5, <1>6, <1>7, <1>8 DEF RoomsInv

(* A step that leaves the application's tables and what was sent.            *)
LEMMA QuietRooms ==
    ASSUME IInv, RoomsInv, RoomDelivery,
           UNCHANGED <<user_data, online_users, rooms, renamed>>,
           sent' \in {sent, {}},
           \A d \in Conn : closed(d) => closed(d)',
           \A d \in Conn : Departed(d) => Departed(d)'
    PROVE  RoomsStep
<1>1. RoomsInv'
  <2>1. RoomsNotEmpty' /\ \A r \in Room : Members(r)' = Members(r)
    BY DEF RoomsInv, RoomsNotEmpty, Members
  <2>2. KeepsSessions
    BY DEF KeepsSessions
  <2> QED
    BY <2>1, <2>2, SameRooms
<1>2. RoomDelivery'
  <2>1. CASE sent' = sent
    <3>1. DOMAIN user_data \subseteq Conn
      BY TypeOKParts DEF IInv, Tables
    <3>2. \A d \in DOMAIN user_data : ~closed(d)' => ~closed(d)
      BY <3>1
    <3> QED
      BY <2>1, <3>2 DEF RoomDelivery
  <2>2. CASE sent' = {}
    BY <2>2 DEF RoomDelivery
  <2> QED
    BY <2>1, <2>2
<1> QED
  BY <1>1, <1>2 DEF RoomsStep

(* No handler opens a closed connection again.                               *)
LEMMA HandlerClosed ==
    ASSUME IInv, HandleEvent
    PROVE  \A d \in Conn : closed(d) => closed(d)'
<1>1. UNCHANGED closer \/ CloseConn("logic", evt.conn)
  <2>1. ASSUME NEW e \in Tokens, HandleMessage(evt.conn, evt.payload, e)
        PROVE  UNCHANGED <<closer, closing>> \/ CloseConn("logic", evt.conn)
    BY <2>1, Zenon DEF HandleMessage, HandleTooFast
  <2> QED
    BY <2>1 DEF HandleEvent, HandleNothing
<1>2. closer \in [Conn -> Thread \cup {None}]
  BY DEF IInv, StreamIInv, StreamTypeOK
<1> QED
  BY <1>1, <1>2, EventStreamAssumption DEF CloseConn, closed, Thread

(* A new session is in no room.                                              *)
LEMMA ConnectRooms ==
    ASSUME IInv, RoomsInv, HandleEvent, NEW c \in Conn, c = evt.conn, evt.type = "CONNECT",
           HandleConnect(c)
    PROVE  RoomsStep
<1>1. /\ user_data' = Put(user_data, c, NewSession) /\ UNCHANGED <<online_users, rooms, renamed>>
      /\ sent' = {} /\ c \notin DOMAIN user_data
  BY AfterHandler DEF HandleConnect, IInv, EventAtHand
<1>2. /\ DOMAIN user_data' = DOMAIN user_data \cup {c}
      /\ ~user_data'[c].is_logged_in /\ user_data'[c].current_room = Empty
      /\ \A d \in DOMAIN user_data : user_data'[d] = user_data[d]
  BY <1>1 DEF Put, NewSession
<1>3. \A d \in Conn : Departed(d)' <=> Departed(d)
  BY AfterHandler
<1>4. \A d \in Conn : Present(d)' => Present(d) /\ user_data'[d] = user_data[d]
  BY <1>2, <1>3 DEF Present, LoggedIn
<1>5. \A r \in Room : Members(r)' = Members(r)
  BY <1>1 DEF Members
<1>6. RoomsNotEmpty' /\ MembersOnline'
  BY <1>1, <1>5 DEF RoomsInv, RoomsNotEmpty, MembersOnline, online
<1>7. MemberOfOne' /\ InItsRoom'
  BY <1>1, <1>4, <1>5 DEF RoomsInv, MemberOfOne, InItsRoom
<1>8. NoRoomBeforeLogin'
  BY <1>2 DEF RoomsInv, NoRoomBeforeLogin
<1>9. RoomDelivery'
  BY <1>1 DEF RoomDelivery
<1> QED
  BY <1>6, <1>7, <1>8, <1>9 DEF RoomsStep, RoomsInv

(* The room that a leaver was in is the only one its name was in, so that    *)
(* name can be freed; those of the others stay.                              *)
LEMMA DisconnectRoomsStep ==
    ASSUME IInv, RoomsInv, RoomDelivery, HandleEvent, NEW c \in Conn, c = evt.conn,
           evt.type = "DISCONNECT", HandleDisconnect(c)
    PROVE  RoomsStep
<1>1. Tables
  BY TypeOKParts DEF IInv
<1>2. ~Departed(c) /\ Departed(c)'
  BY AfterHandler DEF IInv, EventAtHand
<1>3. \A d \in Conn : d # c => (Departed(d)' <=> Departed(d))
  BY AfterHandler
<1>4. CASE ~LoggedIn(c)
  <2>1. sent' = {} /\ UNCHANGED <<user_data, online_users, rooms, renamed>>
    BY <1>4 DEF HandleDisconnect, LoggedIn
  <2> QED
    BY <1>2, <1>3, <2>1, HandlerClosed, QuietRooms
<1>5. CASE LoggedIn(c)
  <2> DEFINE me == user_data[c].username
  <2>1. /\ UNCHANGED <<user_data, renamed>>
        /\ DOMAIN online_users' = DOMAIN online_users \ {me}
        /\ \A n \in DOMAIN online_users' : online_users'[n] = online_users[n]
    BY <1>1, <1>5, DisconnectEffect
  <2>2. /\ RoomsNotEmpty'
        /\ \A x \in Room : Members(x)' = IF x = user_data[c].current_room THEN Members(x) \ {me}
                                         ELSE Members(x)
        /\ Notices(sent', me, c, Empty)
    BY <1>1, <1>5, DisconnectRooms DEF RoomsInv
  <2>3. Present(c) /\ online_users[me] = c
    BY <1>2, <1>5 DEF Present, IInv, SessionsOwnTheirNames
  <2>4. \A x \in Room : me \in Members(x) => x = user_data[c].current_room
    BY <2>3 DEF RoomsInv, MemberOfOne
  <2>5. \A d \in Conn : Present(d)' => Present(d) /\ d # c
    BY <1>2, <1>3, <2>1 DEF Present, LoggedIn
  <2>6. RoomDelivery'
    BY <1>5, <2>1, <2>2, NoticesDelivered
  <2> HIDE DEF me
  <2>7. \A x \in Room : Members(x)' = Members(x) \ {me}
    BY <2>2, <2>4
  <2>8. MembersOnline'
    BY <2>1, <2>7 DEF RoomsInv, MembersOnline, online
  <2>9. MemberOfOne'
    BY <2>1, <2>5, <2>7 DEF RoomsInv, MemberOfOne
  <2>10. InItsRoom'
    <3> SUFFICES ASSUME NEW d \in Conn, Present(d)', NEW x \in Room, user_data[d].current_room = x
                 PROVE  \E n \in Members(x)' : online_users'[n] = d
      BY <2>1 DEF InItsRoom
    <3>1. PICK n \in Members(x) : online_users[n] = d
      BY <2>5 DEF RoomsInv, InItsRoom
    <3>2. n # me /\ online(n)
      BY <2>3, <2>5, <3>1 DEF RoomsInv, MembersOnline
    <3> QED
      BY <2>1, <2>7, <3>1, <3>2 DEF online
  <2>11. NoRoomBeforeLogin'
    BY <2>1 DEF RoomsInv, NoRoomBeforeLogin
  <2> QED
    BY <2>2, <2>6, <2>8, <2>9, <2>10, <2>11 DEF RoomsStep, RoomsInv
<1> QED
  BY <1>4, <1>5

(* The sender of a message that is handled has not departed.                 *)
LEMMA MessageRoomsStep ==
    ASSUME IInv, RoomsInv, HandleEvent, NEW c \in Conn, c = evt.conn, evt.type = "MESSAGE",
           NEW m \in Msg, NEW e \in Tokens, HandleMessage(c, m, e)
    PROVE  RoomsStep
<1>1. Tables
  BY TypeOKParts DEF IInv
<1>2. c \in DOMAIN user_data
  BY DEF HandleMessage
<1>3. ~Departed(c) /\ \A d \in Conn : Departed(d)' <=> Departed(d)
  BY AfterHandler DEF IInv, EventAtHand, Departed
<1>4. \/ KeepsSessions /\ UNCHANGED rooms /\ Roomless(sent')
      \/ KeepsSessions /\ Chats(c)
      \/ /\ TakesName(c, m.arg) /\ user_data'[c].current_room = user_data[c].current_room
         /\ UNCHANGED rooms /\ Roomless(sent')
      \/ Moves(c, m.arg)
  BY <1>1, MessageRooms
<1>5. CASE KeepsSessions /\ UNCHANGED rooms /\ Roomless(sent')
  <2>1. RoomsNotEmpty' /\ \A r \in Room : Members(r)' = Members(r)
    BY <1>5 DEF RoomsInv, RoomsNotEmpty, Members
  <2> QED
    BY <1>3, <1>5, <2>1, SameRooms, RoomlessDelivered DEF RoomsStep
<1>6. CASE KeepsSessions /\ Chats(c)
  <2> DEFINE room == user_data[c].current_room
  <2>1. LoggedIn(c) /\ room \in Room /\ rooms' = Put(rooms, room, Members(room))
    BY <1>6 DEF Chats
  <2>2. Members(room) # {}
    BY <1>3, <2>1 DEF RoomsInv, InItsRoom, Present
  <2>3. RoomsNotEmpty' /\ \A r \in Room : Members(r)' = Members(r)
    <3> HIDE DEF room
    <3>1. RoomsNotEmpty'
      BY <2>1, <2>2 DEF RoomsInv, RoomsNotEmpty, Put
    <3>2. \A r \in Room : Members(r)' = Members(r)
      BY <2>1, MembersInFacts, PutMembers
    <3> QED
      BY <3>1, <3>2
  <2>4. \A d \in Conn : ~closed(d)' => ~closed(d) /\ ~Departed(d)
    BY HandlerClosed DEF IInv, StreamIInv, OneDisconnect, Departed
  <2> QED
    BY <1>3, <1>6, <2>3, <2>4, SameRooms, ChatDelivered DEF RoomsStep
<1>7. CASE /\ TakesName(c, m.arg) /\ user_data'[c].current_room = user_data[c].current_room
           /\ UNCHANGED rooms /\ Roomless(sent')
  BY <1>2, <1>3, <1>7, LoginRooms, RoomlessDelivered DEF RoomsStep
<1>8. CASE Moves(c, m.arg)
  <2>1. RoomsInv'
    BY <1>3, <1>8, MoveRooms
  <2>2. RoomDelivery'
    BY <1>8, NoticesDelivered DEF Moves, RoomsInv
  <2> QED
    BY <2>1, <2>2 DEF RoomsStep
<1> QED
  BY <1>4, <1>5, <1>6, <1>7, <1>8

(* Every handler keeps the rooms in order.                                   *)
LEMMA HandlerRooms ==
    ASSUME IInv, RoomsInv, RoomDelivery, HandleEvent
    PROVE  RoomsStep
<1>1. PICK c \in Conn : c = evt.conn
  BY AfterHandler
<1>2. CASE HandleNothing(evt)
  <2>1. \A d \in Conn : Departed(d) => Departed(d)'
    BY AfterHandler
  <2> QED
    BY <1>2, <2>1, HandlerClosed, QuietRooms DEF HandleNothing
<1>3. CASE evt.type = "CONNECT" /\ HandleConnect(evt.conn)
  BY <1>1, <1>3, ConnectRooms
<1>4. CASE evt.type = "DISCONNECT" /\ HandleDisconnect(evt.conn)
  BY <1>1, <1>4, DisconnectRoomsStep
<1>5. CASE evt.type = "MESSAGE" /\ \E e \in Tokens : HandleMessage(evt.conn, evt.payload, e)
  <2>1. evt.payload \in Msg
    BY <1>5, AfterHandler DEF Event
  <2> QED
    BY <1>1, <1>5, <2>1, MessageRoomsStep
<1> QED
  BY <1>2, <1>3, <1>4, <1>5 DEF HandleEvent

(* Every step does.                                                          *)
LEMMA RoomsNext == IInv /\ RoomsInv /\ RoomDelivery /\ [Next]_vars => RoomsStep
<1> SUFFICES ASSUME IInv, RoomsInv, RoomDelivery, [Next]_vars PROVE RoomsStep
  OBVIOUS
<1>1. closer \in [Conn -> Thread \cup {None}] /\ closing \in [Thread -> Conn \cup {None}]
  BY DEF IInv, StreamIInv, StreamTypeOK
<1>2. ASSUME UNCHANGED <<evt, stage, appVars>>, \A d \in Conn : closed(d) => closed(d)'
      PROVE  RoomsStep
  <2>1. \A d \in Conn : Departed(d) => Departed(d)'
    BY <1>2 DEF Departed, DisconnectEvent
  <2> QED
    BY <1>2, <2>1, QuietRooms DEF appVars
<1>3. ASSUME NEW c \in Conn, Connect(c) PROVE RoomsStep
  BY <1>2, <1>3 DEF Connect, PushConnect, closed
<1>4. ASSUME NEW c \in Conn, Disconnect(c) PROVE RoomsStep
  <2>1. \A d \in Conn : closed(d) => closed(d)'
    BY <1>1, <1>4, EventStreamAssumption DEF Disconnect, NetClose, CloseConn, closed, Thread
  <2> QED
    BY <1>2, <1>4, <2>1 DEF Disconnect, NetClose
<1>5. ASSUME NEW c \in Conn, NEW m \in Msg, Receive(c, m) PROVE RoomsStep
  BY <1>2, <1>5 DEF Receive, PushMessage, closed
<1>6. ASSUME NEW t \in Thread, ReportClosed(t) PROVE RoomsStep
  BY <1>2, <1>6 DEF ReportClosed, PushDisconnect, closed
<1>7. CASE UNCHANGED vars
  BY <1>2, <1>7 DEF vars, streamVars, closed
<1>8. CASE PopEvent
  <2>1. \A d \in Conn : Departed(d) => Departed(d)'
    BY <1>8, PopDeparts
  <2>2. UNCHANGED <<user_data, online_users, rooms, renamed, closer>> /\ sent' = {}
    BY <1>8 DEF PopEvent, Pop
  <2> QED
    BY <2>1, <2>2, QuietRooms DEF closed
<1>9. CASE ProcessEvent
  <2>1. \A d \in Conn : Departed(d) => Departed(d)'
    BY <1>9, ProcessDeparts
  <2>2. UNCHANGED <<user_data, online_users, rooms, renamed, sent, closer>>
    BY <1>9 DEF ProcessEvent
  <2> QED
    BY <2>1, <2>2, QuietRooms DEF closed
<1> QED
  BY <1>3, <1>4, <1>5, <1>6, <1>7, <1>8, <1>9, HandlerRooms DEF Next

RIInv == IInv /\ RoomsInv /\ RoomDelivery

(* The rooms are in order in every reachable state.                          *)
LEMMA RIInvInvariant == Safety => []RIInv
<1>1. Init => RoomsInv /\ RoomDelivery
  BY DEF Init, RoomsInv, RoomsNotEmpty, MembersOnline, MemberOfOne, InItsRoom, NoRoomBeforeLogin,
         Members, Present, LoggedIn, RoomDelivery
<1>2. Init => RIInv
  BY <1>1, IInvInit DEF RIInv
<1>3. RIInv /\ [Next]_vars => RIInv'
  BY IInvNext, RoomsNext DEF RIInv, RoomsStep
<1> QED
  BY <1>2, <1>3, PTL DEF Safety

(* rooms_ and the sessions tell the same story: a client is a member of the  *)
(* room its session names and of no other, no room is empty, and everyone in *)
(* a room is online.                                                         *)
THEOREM RoomsAgreeHolds == Safety => []RoomsAgree
<1>1. ASSUME RIInv PROVE RoomsAgree
  <2>1. \A r \in DOMAIN rooms : rooms[r] # {} /\ \A n \in rooms[r] : online(n)
    BY <1>1, TypeOKParts
       DEF RIInv, IInv, RoomsInv, RoomsNotEmpty, MembersOnline, Members, Tables, RoomTable
  <2>2. ASSUME NEW c \in Conn \ renamed, Present(c), NEW r \in Room, user_data[c].current_room = r
        PROVE  user_data[c].username \in Members(r)
    <3>1. PICK n \in Members(r) : online_users[n] = c
      BY <1>1, <2>2 DEF RIInv, RoomsInv, InItsRoom
    <3>2. online(n)
      BY <1>1 DEF RIInv, RoomsInv, MembersOnline
    <3> QED
      BY <1>1, <2>2, <3>1, <3>2 DEF RIInv, IInv, NoGhostUsers, online
  <2> QED
    BY <1>1, <2>1, <2>2 DEF RoomsAgree, Present, RIInv, RoomsInv, MemberOfOne
<1> QED
  BY <1>1, RIInvInvariant, PTL

(* What the application sends on behalf of a room goes to nobody outside it, *)
(* and chat that anyone in it is sent goes to everyone in it.                *)
THEOREM RoomDeliveryHolds == Safety => []RoomDelivery
<1>1. RIInv => RoomDelivery
  BY DEF RIInv
<1> QED
  BY <1>1, RIInvInvariant, PTL

-----------------------------------------------------------------------------
(* The bucket of a session by itself: what the rate limit of HandleMessage   *)
(* promises, for every capacity, cost and length of the run.                 *)

(* A refill keeps the bucket within its capacity and never takes tokens: the *)
(* two statements after "rate limiting" in HandleMessage.                    *)
LEMMA RefillBounds ==
    ASSUME NEW t \in Tokens, NEW e \in Nat
    PROVE  /\ Refill(t, e) \in Tokens
           /\ Refill(t, e) >= t
           /\ Refill(t, e) <= t + e
           /\ e >= CostUnits => ~TooFast(Refill(t, e))
BY RateLimitAssumption DEF Tokens, Refill, TooFast

(* A message that is let through leaves a natural number of tokens.          *)
LEMMA SpendBounds ==
    ASSUME NEW t \in Tokens, ~TooFast(t)
    PROVE  Spend(t) \in Tokens /\ Spend(t) + CostUnits = t
BY RateLimitAssumption DEF Tokens, TooFast, Spend

(* The type invariant of the session's bucket: tokens stay between nothing   *)
(* and the capacity, and last_refill is never ahead of the clock.            *)
THEOREM BucketTypeCorrect == BucketSpec => []BucketTypeOK
<1>1. BucketInit => BucketTypeOK
  <2> SUFFICES ASSUME BucketInit PROVE BucketTypeOK
    OBVIOUS
  <2>1. banned \in BOOLEAN
    BY Zenon DEF BucketInit
  <2>2. /\ now \in 0..MaxTime /\ tokens \in Tokens /\ last_refill \in 0..now
        /\ since \in 0..now /\ spent \in Nat
    BY RateLimitAssumption, TokenBucketAssumption DEF BucketInit, Tokens
  <2> QED
    BY <2>1, <2>2 DEF BucketTypeOK
<1>2. BucketTypeOK /\ [BucketNext]_bucketVars => BucketTypeOK'
  <2> SUFFICES ASSUME BucketTypeOK, [BucketNext]_bucketVars PROVE BucketTypeOK'
    OBVIOUS
  <2> USE RateLimitAssumption, TokenBucketAssumption
  <2>1. CASE Tick
    BY <2>1 DEF Tick, BucketTypeOK
  <2>2. CASE Message
    <3> DEFINE refilled == Refill(tokens, now - last_refill)
    <3>1. now - last_refill \in Nat /\ tokens \in Tokens
      BY DEF BucketTypeOK
    <3>2. refilled \in Tokens
      BY <3>1, RefillBounds
    <3>3. ~TooFast(refilled) => Spend(refilled) \in Tokens
      BY <3>2, SpendBounds
    <3>4. banned' \in BOOLEAN
      BY <2>2, Zenon DEF Message, BucketTypeOK
    <3>5. tokens' \in Tokens
      BY <2>2, <3>2, <3>3 DEF Message
    <3>6. now' = now /\ since' = since /\ last_refill' = now /\ spent' \in {spent, spent + CostUnits}
      BY <2>2 DEF Message
    <3> QED
      BY <3>4, <3>5, <3>6 DEF BucketTypeOK
  <2>3. CASE Observe
    BY <2>3 DEF Observe, BucketTypeOK
  <2>4. CASE UNCHANGED bucketVars
    BY <2>4 DEF bucketVars, BucketTypeOK
  <2> QED
    BY <2>1, <2>2, <2>3, <2>4 DEF BucketNext
<1> QED
  BY <1>1, <1>2, PTL DEF BucketSpec

(* What was spent since the observer started, and what is left in the        *)
(* bucket, came from a full bucket and from the refills since then.  A       *)
(* window that began after the last refill has seen no message.              *)
Conserved ==
    IF since > last_refill THEN spent = 0
    ELSE spent + tokens <= CapUnits + (last_refill - since)

(* So it is conserved.                                                       *)
LEMMA ConservedInvariant == BucketSpec => []Conserved
<1>1. BucketInit => Conserved
  BY RateLimitAssumption DEF BucketInit, Conserved
<1>2. BucketTypeOK /\ Conserved /\ [BucketNext]_bucketVars => Conserved'
  <2> SUFFICES ASSUME BucketTypeOK, Conserved, [BucketNext]_bucketVars PROVE Conserved'
    OBVIOUS
  <2> USE RateLimitAssumption, TokenBucketAssumption
  <2>1. CASE Tick
    BY <2>1 DEF Tick, Conserved
  <2>2. CASE Message
    <3> DEFINE refilled == Refill(tokens, now - last_refill)
    <3>1. now - last_refill \in Nat /\ tokens \in Tokens
      BY DEF BucketTypeOK
    <3>2. refilled \in Tokens /\ refilled <= tokens + (now - last_refill)
      BY <3>1, RefillBounds
    <3>3. since' = since /\ last_refill' = now /\ since <= now
      BY <2>2 DEF Message, BucketTypeOK
    <3>4. CASE TooFast(refilled)
      <4>1. tokens' = refilled /\ spent' = spent
        BY <2>2, <3>4 DEF Message
      <4> QED
        BY <3>2, <3>3, <4>1 DEF Conserved, BucketTypeOK, Tokens
    <3>5. CASE ~TooFast(refilled)
      <4>1. tokens' = Spend(refilled) /\ spent' = spent + CostUnits
        BY <2>2, <3>5 DEF Message
      <4>2. tokens' + CostUnits = refilled /\ tokens' \in Tokens
        BY <3>2, <3>5, <4>1, SpendBounds
      <4> QED
        BY <3>2, <3>3, <4>1, <4>2 DEF Conserved, BucketTypeOK, Tokens
    <3> QED
      BY <3>4, <3>5
  <2>3. CASE Observe
    BY <2>3 DEF Observe, Conserved, BucketTypeOK, Tokens
  <2>4. CASE UNCHANGED bucketVars
    BY <2>4 DEF bucketVars, Conserved
  <2> QED
    BY <2>1, <2>2, <2>3, <2>4 DEF BucketNext
<1> QED
  BY <1>1, <1>2, BucketTypeCorrect, PTL DEF BucketSpec

(* No client gets more than a full bucket and one token per second through   *)
(* in any window of time: the promise of the rate limit in HandleMessage.    *)
THEOREM WindowBounded == BucketSpec => []WindowBound
<1>1. BucketTypeOK /\ Conserved => WindowBound
  BY RateLimitAssumption DEF BucketTypeOK, Conserved, WindowBound, Tokens
<1> QED
  BY <1>1, BucketTypeCorrect, ConservedInvariant, PTL

(* A message that is handled one token's time after the one before it never  *)
(* gets its client closed by HandleMessage.                                  *)
THEOREM PatientIsServed == BucketSpec => PatientServed
<1>1. BucketTypeOK /\ [BucketNext]_bucketVars =>
        [Message /\ now - last_refill >= CostUnits => ~banned']_bucketVars
  <2> SUFFICES ASSUME BucketTypeOK, Message, now - last_refill >= CostUnits
               PROVE  ~banned'
    OBVIOUS
  <2>1. now - last_refill \in Nat /\ tokens \in Tokens
    BY RateLimitAssumption DEF BucketTypeOK
  <2>2. ~TooFast(Refill(tokens, now - last_refill))
    BY <2>1, RefillBounds
  <2> QED
    BY <2>2 DEF Message
<1> QED
  BY <1>1, BucketTypeCorrect, PTL DEF BucketSpec, PatientServed
=============================================================================
