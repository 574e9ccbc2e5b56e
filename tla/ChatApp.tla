------------------------------ MODULE ChatApp ------------------------------
(* v4/chatapp.h: the chat application, which the logic thread runs on the    *)
(* stream of events of WebServer.  Sessions, online_users_ and rooms_ belong *)
(* to that thread alone, so a handler is one step; what interleaves with it  *)
(* is the reactor thread, which queues events and closes connections between *)
(* any two steps, also after ProcessEvent has read conn->closed and before   *)
(* the handler runs.                                                         *)
EXTENDS EventStream, RateLimit

CONSTANTS
    Name,       \* usernames
    Room        \* room names

ASSUME ChatAppAssumption == None \notin Name /\ None \notin Room

Empty == None   \* the empty string

(* What a payload can decode to: a chat::ClientMessage with one of its five  *)
(* payloads, or with none of them, or something protobuf refuses.            *)
ClientMessage ==
    [type: {"login", "private_chat"}, arg: Name \cup {Empty}]
        \cup [type: {"join_room", "room_chat"}, arg: Room \cup {Empty}]
        \cup [type: {"global_chat", "unset", "garbage"}, arg: {Empty}]

ASSUME ChatAppMessages == Msg \subseteq ClientMessage

(* What the application sends: a chat::ServerMessage, of which origin_room   *)
(* is what the clients tell the packets of different rooms apart by.         *)
Kind == {"login_ok", "login_failed", "error", "global_chat", "private_chat", "confirm",
         "not_found", "room_chat", "joined", "left", "entered"}

ServerMessage == [kind: Kind, origin_room: Room \cup {Empty}]

Packet(kind, room) == [kind |-> kind, origin_room |-> room]

(* HandleConnect: user_data = ChatSession{}.                                 *)
NewSession ==
    [username |-> Empty, is_logged_in |-> FALSE, current_room |-> Empty, tokens |-> CapUnits]

ChatSession ==
    [username: Name \cup {Empty}, is_logged_in: BOOLEAN,
     current_room: Room \cup {Empty}, tokens: Tokens]

VARIABLES
    user_data,      \* Connection::user_data, for the connections where it has a value
    online_users,   \* ChatApp::online_users_, from names to connections
    rooms,          \* ChatApp::rooms_, from room names to sets of names
    checked,        \* ProcessEvent has read conn->closed and is about to handle evt
    sent,           \* what the last handler sent, as pairs of a connection and a packet
    renamed         \* history: connections that logged in again under a new name

appVars == <<user_data, online_users, rooms, checked, sent, renamed>>
vars == <<streamVars, appVars>>

Init ==
    /\ StreamInit
    /\ user_data = [c \in {} |-> NewSession]
    /\ online_users = [n \in {} |-> None]
    /\ rooms = [r \in {} |-> {}]
    /\ checked = FALSE
    /\ sent = {}
    /\ renamed = {}

-----------------------------------------------------------------------------
(* A std::unordered_map is a function whose domain is the set of its keys.   *)

online(n) == n \in DOMAIN online_users

Put(f, k, v) == [x \in DOMAIN f \cup {k} |-> IF x = k THEN v ELSE f[x]]

Erase(f, k) == [x \in DOMAIN f \ {k} |-> f[x]]

(* rooms_[r], where operator[] creates the room it does not find.            *)
Members(r) == IF r \in DOMAIN rooms THEN rooms[r] ELSE {}

(* Slip: nobody erases the empty room.                                       *)
RoomsKept(r, n) == Put(rooms, r, Members(r) \ {n})

(* rooms_ after rooms_[r].erase(n), and rooms_.erase(r) when nobody is left. *)
RoomsWithout(r, n) ==
    IF Members(r) \subseteq {n} THEN Erase(rooms, r) ELSE Put(rooms, r, Members(r) \ {n})

(* The connections of those of the names that are online.                    *)
ConnsOf(names) == {online_users[n] : n \in {m \in names : online(m)}}

(* SendProto to each of conns.  SendPreEncoded drops what goes to a closed   *)
(* connection.                                                               *)
SendProto(conns, p) == {<<c, p>> : c \in {d \in conns : ~closed(d)}}

-----------------------------------------------------------------------------
(* Handlers.  session is the sender's ChatSession after HandleMessage took   *)
(* the token.                                                                *)

HandleConnect(c) ==
    /\ user_data' = Put(user_data, c, NewSession)
    /\ sent' = {}
    /\ UNCHANGED <<online_users, rooms, renamed>>

HandleDisconnect(c) ==
    /\ c \in DOMAIN user_data
    /\ LET s == user_data[c]
           r == s.current_room
       IN  IF s.is_logged_in /\ s.username # Empty
           THEN /\ online_users' = Erase(online_users, s.username)
                /\ rooms' = IF r = Empty THEN rooms ELSE RoomsWithout(r, s.username)
                /\ sent' = IF r = Empty THEN {}
                           ELSE SendProto(ConnsOf(Members(r) \ {s.username}), Packet("left", r))
           ELSE sent' = {} /\ UNCHANGED <<online_users, rooms>>
    /\ UNCHANGED <<user_data, renamed>>

(* Slip: HandleLogin does not look the name up.                              *)
HandleLoginTaken(c, session, name) ==
    /\ name # Empty
    /\ user_data' = [user_data EXCEPT ![c] =
                         [session EXCEPT !.username = name, !.is_logged_in = TRUE]]
    /\ online_users' = Put(online_users, name, c)
    /\ sent' = SendProto({c}, Packet("login_ok", Empty))
    /\ renamed' = IF session.is_logged_in THEN renamed \cup {c} ELSE renamed
    /\ UNCHANGED rooms

HandleLogin(c, session, name) ==
    IF online(name) \/ name = Empty
    THEN /\ user_data' = [user_data EXCEPT ![c] = session]
         /\ sent' = SendProto({c}, Packet("login_failed", Empty))
         /\ UNCHANGED <<online_users, rooms, renamed>>
    ELSE /\ user_data' = [user_data EXCEPT ![c] =
                             [session EXCEPT !.username = name, !.is_logged_in = TRUE]]
         /\ online_users' = Put(online_users, name, c)
         /\ sent' = SendProto({c}, Packet("login_ok", Empty))
         /\ renamed' = IF session.is_logged_in THEN renamed \cup {c} ELSE renamed
         /\ UNCHANGED rooms

(* A broadcast has no receiver here: Broadcast queues it for every           *)
(* connection that the workers find later, logged in or not.                 *)
HandleGlobalChat(c, session) ==
    /\ user_data' = [user_data EXCEPT ![c] = session]
    /\ sent' = IF session.is_logged_in THEN {<<None, Packet("global_chat", Empty)>>} ELSE {}
    /\ UNCHANGED <<online_users, rooms, renamed>>

HandlePrivateChat(c, session, target) ==
    /\ user_data' = [user_data EXCEPT ![c] = session]
    /\ sent' = IF ~session.is_logged_in THEN {}
               ELSE IF online(target)
               THEN SendProto(ConnsOf({target}), Packet("private_chat", Empty))
                        \cup SendProto({c}, Packet("confirm", Empty))
               ELSE SendProto({c}, Packet("not_found", Empty))
    /\ UNCHANGED <<online_users, rooms, renamed>>

HandleJoinRoom(c, session, new_room) ==
    LET me == session.username
        old_room == session.current_room
        left == IF old_room = Empty THEN rooms ELSE RoomsWithout(old_room, me)
        others == (IF new_room \in DOMAIN left THEN left[new_room] ELSE {}) \ {me}
    IN  IF session.is_logged_in
        THEN /\ user_data' = [user_data EXCEPT ![c] = [session EXCEPT !.current_room = new_room]]
             /\ rooms' = IF new_room = Empty THEN left ELSE Put(left, new_room, others \cup {me})
             /\ sent' = UNION
                    {IF old_room = Empty THEN {}
                     ELSE SendProto(ConnsOf(Members(old_room) \ {me}), Packet("left", old_room)),
                     IF new_room = Empty THEN {}
                     ELSE SendProto(ConnsOf(others), Packet("joined", new_room)),
                     SendProto({c}, Packet("entered", new_room))}
             /\ UNCHANGED <<online_users, renamed>>
        ELSE /\ user_data' = [user_data EXCEPT ![c] = session]
             /\ sent' = {}
             /\ UNCHANGED <<online_users, rooms, renamed>>

(* Slip: HandleRoomChat leaves its sender out, as the notices do.            *)
HandleRoomChatOthers(c, session, room) ==
    /\ user_data' = [user_data EXCEPT ![c] = session]
    /\ sent' = IF session.is_logged_in /\ session.current_room = room
               THEN SendProto(ConnsOf(Members(room) \ {session.username}), Packet("room_chat", room))
               ELSE {}
    /\ UNCHANGED <<online_users, rooms, renamed>>

HandleRoomChat(c, session, room) ==
    /\ user_data' = [user_data EXCEPT ![c] = session]
    /\ \/ /\ ~session.is_logged_in \/ session.current_room = Empty
          /\ sent' = SendProto({c}, Packet("error", Empty))
          /\ UNCHANGED rooms
       \/ /\ session.is_logged_in /\ session.current_room # Empty
          /\ session.current_room # room
          /\ sent' = {}
          /\ UNCHANGED rooms
       \/ /\ session.is_logged_in /\ session.current_room # Empty
          /\ session.current_room = room
          /\ sent' = SendProto(ConnsOf(Members(room)), Packet("room_chat", room))
          /\ rooms' = Put(rooms, room, Members(room))
    /\ UNCHANGED <<online_users, renamed>>

HandleUnset(c, session) ==
    /\ user_data' = [user_data EXCEPT ![c] = session]
    /\ sent' = {}
    /\ UNCHANGED <<online_users, rooms, renamed>>

(* The switch of HandleMessage.                                              *)
Dispatch(c, session, m) ==
    \/ m.type = "login"        /\ HandleLogin(c, session, m.arg)
    \/ m.type = "global_chat"  /\ HandleGlobalChat(c, session)
    \/ m.type = "private_chat" /\ HandlePrivateChat(c, session, m.arg)
    \/ m.type = "join_room"    /\ HandleJoinRoom(c, session, m.arg)
    \/ m.type = "room_chat"    /\ HandleRoomChat(c, session, m.arg)
    \/ m.type = "unset"        /\ HandleUnset(c, session)

SessionWith(c, tokens) == [user_data[c] EXCEPT !.tokens = tokens]

(* The client is over its rate limit: an error packet, then Close, whose     *)
(* close_conn returns at once when the reactor has closed c in the meantime. *)
HandleTooFast(c, tokens) ==
    /\ user_data' = [user_data EXCEPT ![c] = SessionWith(c, tokens)]
    /\ sent' = SendProto({c}, Packet("error", Empty))
    /\ UNCHANGED <<online_users, rooms, renamed>>
    /\ IF closed(c) THEN UNCHANGED <<closer, closing>> ELSE CloseConn("logic", c)

(* HandleMessage, when the bucket gained elapsed units since the last one.   *)
HandleMessage(c, m, elapsed) ==
    /\ c \in DOMAIN user_data
    /\ m.type # "garbage"
    /\ LET tokens == Refill(user_data[c].tokens, elapsed)
       IN  \/ TooFast(tokens) /\ HandleTooFast(c, tokens)
           \/ /\ ~TooFast(tokens)
              /\ Dispatch(c, SessionWith(c, Spend(tokens)), m)
              /\ UNCHANGED <<closer, closing>>

(* The handlers that return at their first line.                             *)
HandleNothing(e) ==
    /\ \/ e.type # "CONNECT" /\ e.conn \notin DOMAIN user_data
       \/ e.type = "MESSAGE" /\ e.payload.type = "garbage"
    /\ sent' = {}
    /\ UNCHANGED <<user_data, online_users, rooms, renamed, closer, closing>>

-----------------------------------------------------------------------------
(* The steps of LogicLoop: pop, then ProcessEvent, which drops every event   *)
(* but a DISCONNECT of a connection it sees closed, then the handler.        *)

PopEvent ==
    /\ Pop
    /\ sent' = {}
    /\ UNCHANGED <<user_data, online_users, rooms, checked, renamed>>

(* Slip: ProcessEvent drops nothing.                                         *)
IgnoredNever(e) == FALSE

Ignored(e) == closed(e.conn) /\ e.type # "DISCONNECT"

ProcessEvent ==
    /\ evt # NoEvent
    /\ ~checked
    /\ IF Ignored(evt) THEN evt' = NoEvent /\ UNCHANGED checked
                       ELSE checked' = TRUE /\ UNCHANGED evt
    /\ UNCHANGED <<connected, closer, closing, event_queue, stage>>
    /\ UNCHANGED <<user_data, online_users, rooms, sent, renamed>>

HandleEvent ==
    /\ checked
    /\ checked' = FALSE
    /\ evt' = NoEvent
    /\ \/ HandleNothing(evt)
       \/ evt.type = "CONNECT"    /\ HandleConnect(evt.conn)    /\ UNCHANGED <<closer, closing>>
       \/ evt.type = "DISCONNECT" /\ HandleDisconnect(evt.conn) /\ UNCHANGED <<closer, closing>>
       \/ /\ evt.type = "MESSAGE"
          /\ \E elapsed \in Tokens : HandleMessage(evt.conn, evt.payload, elapsed)
    /\ UNCHANGED <<connected, event_queue, stage>>

(* What the two threads do in WebServer.                                     *)
Connect(c) == PushConnect(c) /\ UNCHANGED appVars
Receive(c, m) == PushMessage(c, m) /\ UNCHANGED appVars
Disconnect(c) == NetClose(c) /\ UNCHANGED appVars
ReportClosed(t) == PushDisconnect(t) /\ UNCHANGED appVars

Next ==
    \/ \E c \in Conn : Connect(c) \/ Disconnect(c)
    \/ \E c \in Conn, m \in Msg : Receive(c, m)
    \/ \E t \in Thread : ReportClosed(t)
    \/ PopEvent \/ ProcessEvent \/ HandleEvent

Safety == Init /\ [][Next]_vars

-----------------------------------------------------------------------------
(* Properties                                                                *)

TypeOK ==
    /\ StreamTypeOK
    /\ DOMAIN user_data \subseteq Conn
    /\ \A c \in DOMAIN user_data :
           user_data[c] \in ChatSession /\ (user_data[c].is_logged_in => user_data[c].username # Empty)
    /\ DOMAIN online_users \subseteq Name
    /\ \A n \in DOMAIN online_users : online_users[n] \in Conn
    /\ DOMAIN rooms \subseteq Room
    /\ \A r \in DOMAIN rooms : rooms[r] \subseteq Name
    /\ checked \in BOOLEAN
    /\ sent \subseteq (Conn \cup {None}) \X ServerMessage
    /\ renamed \subseteq Conn

(* The application is done with c: HandleDisconnect(c) has returned.         *)
Departed(c) == stage[c] = "gone" /\ evt # DisconnectEvent(c)

LoggedIn(c) == c \in DOMAIN user_data /\ user_data[c].is_logged_in

(* A user who is logged in is the one that online_users_ has under that      *)
(* name, so two clients never hold the same name and a private message to it *)
(* goes to nobody else.  It holds for a client that logged in twice as well, *)
(* and when the reactor closes the connection while HandleLogin runs.        *)
SessionsOwnTheirNames ==
    \A c \in Conn : LoggedIn(c) /\ ~Departed(c) =>
        /\ online(user_data[c].username)
        /\ online_users[user_data[c].username] = c

(* No ghosts: a name in online_users_ belongs to a client that is logged in  *)
(* under it and whose disconnection has not been handled.  Clients that      *)
(* logged in twice are excepted: their first name is never released.         *)
NoGhostUsers ==
    \A n \in DOMAIN online_users :
        LET c == online_users[n]
        IN  c \notin renamed => LoggedIn(c) /\ ~Departed(c) /\ user_data[c].username = n

(* rooms_ and the current_room of the sessions tell the same story: a client *)
(* is a member of the room its session names and of no other, no room is     *)
(* empty, and every member is online.                                        *)
RoomsAgree ==
    /\ \A r \in DOMAIN rooms : rooms[r] # {} /\ \A n \in rooms[r] : online(n)
    /\ \A c \in Conn \ renamed : LoggedIn(c) /\ ~Departed(c) =>
           \A r \in Room : user_data[c].username \in Members(r) <=> user_data[c].current_room = r

(* A packet that carries origin_room r, be it chat or a notice of someone    *)
(* coming or going, is sent to nobody outside r, and chat that anyone in r   *)
(* is sent is sent to all in r whose connection is open.                     *)
RoomDelivery ==
    /\ \A s \in sent : s[2].origin_room # Empty /\ s[1] \notin renamed =>
           user_data[s[1]].current_room = s[2].origin_room
    /\ \A r \in Room : (\E c \in Conn : <<c, Packet("room_chat", r)>> \in sent) =>
           \A d \in DOMAIN user_data \ renamed :
               user_data[d].current_room = r /\ ~closed(d) => <<d, Packet("room_chat", r)>> \in sent

(* A client that has departed stays so: its session and the names that are   *)
(* its in online_users_ no longer change, whatever messages of it are still  *)
(* queued.  (That the rooms follow the sessions is RoomsAgree.)              *)
DepartedInert ==
    [][\A c \in Conn : Departed(c) =>
          /\ c \in DOMAIN user_data => user_data'[c] = user_data[c]
          /\ \A n \in Name : (online(n) /\ online_users[n] = c)
                                <=> (n \in DOMAIN online_users' /\ online_users'[n] = c)]_vars
=============================================================================
