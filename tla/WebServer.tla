----------------------------- MODULE WebServer -----------------------------
(* v4/webserver.cpp: the life of a connection between the reactor thread     *)
(* ("net": Run and what it calls) and the logic thread, which pops events    *)
(* and may Close connections.  A Connection lives as long as something       *)
(* points to it; when the last pointer goes its Socket closes the file       *)
(* descriptor, and accept may hand the same number out again.                *)
EXTENDS Naturals, Sequences, FiniteSets

CONSTANTS
    Conn,       \* connections, each one Connection object
    Fd,         \* the numbers the kernel can give to accepted sockets
    Msg,        \* decoded payloads
    None,       \* a null pointer
    MAX_EVENTS, \* the length of the array that epoll_wait fills
    MaxQueue    \* bound: no CONNECT or MESSAGE is pushed on a longer queue

ASSUME WebServerAssumption ==
    None \notin Conn \cup Fd \cup {"net", "logic"} /\ MAX_EVENTS \in Nat \ {0} /\ MaxQueue \in Nat

VARIABLES
    fd,             \* Connection::sock, None before accept returned it
    hung_up,        \* history: what this epoll_wait reported as hung up or failed
    accepted,       \* history: connections accepted since
    connections,    \* the shards' maps from descriptor to connection, None where no entry
    registered,     \* connections whose descriptor is in the epoll set
    closer,         \* the thread whose exchange on Connection::closed won, or None
    event_queue,
    batch,          \* what is left of the array that epoll_wait filled
    net_pc, net_conn,   \* the reactor thread: where it is, and its local ConnPtr
    timers,         \* the descriptors that have entries in the shards' timer_heap
    timed_out,      \* check_timeouts' vector
    logic_pc, evt,  \* the logic thread, and LogicLoop's evt, which outlives the handling
    online,         \* the connections in ChatApp::online_users_, under their session's name
    renamed,        \* those with an entry there under a name they had before
    active          \* shard_active_conns, the copy of a shard that a worker broadcasts to

reported == <<hung_up, accepted>>
vars == <<fd, reported, connections, registered, closer, event_queue, batch,
          net_pc, net_conn, timers, timed_out, logic_pc, evt, online, renamed, active>>

netVars == <<batch, net_pc, net_conn, timers, timed_out>>
logicVars == <<logic_pc, evt, online, renamed, active>>

Event(type, c, payload) == [type |-> type, conn |-> c, payload |-> payload]

closed(c) == closer[c] # None

push(e) == event_queue' = Append(event_queue, e)

Init ==
    /\ fd = [c \in Conn |-> None]
    /\ hung_up = {} /\ accepted = {}
    /\ connections = [f \in Fd |-> None]
    /\ registered = {}
    /\ closer = [c \in Conn |-> None]
    /\ event_queue = <<>>
    /\ batch = {}
    /\ net_pc = "wait" /\ net_conn = None /\ timers = {} /\ timed_out = {}
    /\ logic_pc = "pop" /\ evt = Event("NONE", None, None)
    /\ online = {} /\ renamed = {}
    /\ active = {}

-----------------------------------------------------------------------------
(* std::shared_ptr<Connection> and Socket: c is alive while something points *)
(* to it, and its descriptor is taken for as long.                           *)

InMap(c) == \E f \in Fd : connections[f] = c

Queued(c) == \E i \in 1..Len(event_queue) : event_queue[i].conn = c

InUse(c) == InMap(c) \/ Queued(c) \/ net_conn = c \/ c \in timed_out \cup online \cup active

Alive(c) == InUse(c) \/ evt.conn = c \/ c \in renamed

(* Slip: close_conn closes the descriptor when it has erased it from the map. *)
FreeWhenErased == {f \in Fd : connections[f] = None}

FreeFds == {f \in Fd : \A c \in Conn : fd[c] = f => ~Alive(c)}

-----------------------------------------------------------------------------
(* The reactor thread.                                                       *)

NetGoto(pc) == net_pc' = pc

(* What can be ready: the listening socket when a client waits, the timer,   *)
(* and each registered connection, where failed are those that epoll_wait    *)
(* reports with EPOLLHUP or EPOLLERR.  An entry carries a descriptor, not a  *)
(* connection.                                                               *)
Ready(failed) ==
    {[kind |-> "listen", fd |-> None] : c \in {d \in Conn : fd[d] = None}}
        \cup {[kind |-> "timer", fd |-> None]}
        \cup {[kind |-> IF c \in failed THEN "hup" ELSE "io", fd |-> fd[c]] : c \in registered}

EpollWait ==
    /\ net_pc = "wait"
    /\ \E failed \in SUBSET registered :
        /\ hung_up' = failed /\ accepted' = {}
        /\ batch' \in SUBSET Ready(failed)
        /\ \A c \in failed : [kind |-> "hup", fd |-> fd[c]] \in batch'
    /\ batch' # {} /\ Cardinality(batch') <= MAX_EVENTS
    /\ NetGoto("dispatch")
    /\ UNCHANGED <<fd, connections, registered, closer, event_queue, net_conn, timers, timed_out, logicVars>>

(* Slip: the entry of an active connection is not pushed again.              *)
check_timeouts_forgets ==
    /\ timed_out' \in SUBSET ({connections[f] : f \in timers} \ {None})
    /\ timers' \in SUBSET timers

(* check_timeouts pops entries that are due and looks their numbers up.  An  *)
(* active connection gets a new entry, whomever the old one was made for, an *)
(* idle one is collected, and an entry that meets nobody is dropped.  Where  *)
(* a number has further entries, made for clients before, it keeps those.    *)
check_timeouts ==
    /\ timed_out' \in SUBSET ({connections[f] : f \in timers} \ {None})
    /\ timers' \in SUBSET timers
    /\ \A f \in timers \ timers' : connections[f] \in timed_out' \cup {None}

(* Slip: any event counts as a failure.                                      *)
DispatchAllFailed ==
    /\ net_pc = "dispatch"
    /\ \/ batch = {} /\ NetGoto("wait") /\ UNCHANGED <<batch, net_conn, timers, timed_out>>
       \/ \E e \in batch :
            /\ batch' = batch \ {e}
            /\ \/ e.kind = "listen" /\ NetGoto("accept") /\ UNCHANGED <<net_conn, timers, timed_out>>
               \/ /\ e.fd # None
                  /\ net_conn' = connections[e.fd]
                  /\ NetGoto(IF connections[e.fd] = None THEN "dispatch" ELSE "hup")
                  /\ UNCHANGED <<timers, timed_out>>
    /\ UNCHANGED <<fd, reported, connections, registered, closer, event_queue, logicVars>>

(* One round of Run's loop over the array, which is in any order.            *)
Dispatch ==
    /\ net_pc = "dispatch"
    /\ \/ batch = {} /\ NetGoto("wait") /\ UNCHANGED <<batch, net_conn, timers, timed_out>>
       \/ \E e \in batch :
            /\ batch' = batch \ {e}
            /\ \/ e.kind = "listen" /\ NetGoto("accept") /\ UNCHANGED <<net_conn, timers, timed_out>>
               \/ /\ e.kind = "timer"
                  /\ check_timeouts
                  /\ NetGoto("sweep")
                  /\ UNCHANGED net_conn
               \/ /\ e.fd # None
                  /\ net_conn' = connections[e.fd]
                  /\ NetGoto(IF connections[e.fd] = None THEN "dispatch"
                             ELSE IF e.kind = "hup" THEN "hup" ELSE "read")
                  /\ UNCHANGED <<timers, timed_out>>
    /\ UNCHANGED <<fd, reported, connections, registered, closer, event_queue, logicVars>>

(* accept_loop ends when accept fails: nobody waits, or no descriptor is     *)
(* free.                                                                     *)
AcceptFails ==
    /\ net_pc = "accept"
    /\ NetGoto("dispatch")
    /\ UNCHANGED <<fd, reported, connections, registered, closer, event_queue,
                   batch, net_conn, timers, timed_out, logicVars>>

(* accept returns a descriptor; the connection goes into the map, and an     *)
(* entry for its number into the timer heap, under one lock.                 *)
Accept(c, f) ==
    /\ net_pc = "accept"
    /\ fd[c] = None
    /\ f \in FreeFds
    /\ fd' = [fd EXCEPT ![c] = f]
    /\ connections' = [connections EXCEPT ![f] = c]
    /\ timers' = timers \cup {f}
    /\ net_conn' = c
    /\ NetGoto("register")
    /\ accepted' = accepted \cup {c}
    /\ UNCHANGED <<hung_up, registered, closer, event_queue, batch, timed_out, logicVars>>

Register ==
    /\ net_pc = "register"
    /\ registered' = registered \cup {net_conn}
    /\ NetGoto("announce")
    /\ UNCHANGED <<fd, reported, connections, closer, event_queue, batch, net_conn,
                   timers, timed_out, logicVars>>

Announce ==
    /\ net_pc = "announce"
    /\ Len(event_queue) < MaxQueue
    /\ push(Event("CONNECT", net_conn, None))
    /\ net_conn' = None
    /\ NetGoto("accept")
    /\ UNCHANGED <<fd, reported, connections, registered, closer, batch, timers, timed_out, logicVars>>

(* handle_read decodes one message after the other.                          *)
ReadMessage(m) ==
    /\ net_pc = "read"
    /\ Len(event_queue) < MaxQueue
    /\ push(Event("MESSAGE", net_conn, m))
    /\ UNCHANGED <<fd, reported, connections, registered, closer, netVars, logicVars>>

(* handle_read and handle_write are done and leave the connection open, or   *)
(* call close_conn: end of file, an error, a full buffer.                    *)
ReadDone ==
    /\ net_pc = "read"
    /\ \/ NetGoto("dispatch") /\ net_conn' = None
       \/ NetGoto("close") /\ UNCHANGED net_conn
    /\ UNCHANGED <<fd, reported, connections, registered, closer, event_queue,
                   batch, timers, timed_out, logicVars>>

(* ... and then closes what it collected, one connection at a time.        *)
Sweep ==
    /\ net_pc = "sweep"
    /\ IF timed_out = {}
       THEN NetGoto("dispatch") /\ UNCHANGED <<net_conn, timers, timed_out>>
       ELSE \E c \in timed_out :
              net_conn' = c /\ timed_out' = timed_out \ {c} /\ NetGoto("close") /\ UNCHANGED timers
    /\ UNCHANGED <<fd, reported, connections, registered, closer, event_queue, batch, logicVars>>

-----------------------------------------------------------------------------
(* close_conn, step by step, in the reactor thread ...                       *)

NetReturn == net_conn' = None /\ NetGoto(IF timed_out = {} THEN "dispatch" ELSE "sweep")

(* Slip: store(true) instead of exchange, so nobody returns early.           *)
NetExchangeTwice ==
    /\ net_pc \in {"close", "hup"}
    /\ closer' = [closer EXCEPT ![net_conn] = "net"]
    /\ NetGoto("disconnect")
    /\ UNCHANGED <<fd, reported, connections, registered, event_queue, batch, net_conn,
                   timers, timed_out, logicVars>>

NetExchange ==
    /\ net_pc \in {"close", "hup"}
    /\ IF closed(net_conn)
       THEN NetReturn /\ UNCHANGED closer
       ELSE /\ closer' = [closer EXCEPT ![net_conn] = "net"]
            /\ NetGoto("disconnect")
            /\ UNCHANGED net_conn
    /\ UNCHANGED <<fd, reported, connections, registered, event_queue, batch, timers, timed_out, logicVars>>

NetDisconnect ==
    /\ net_pc = "disconnect"
    /\ push(Event("DISCONNECT", net_conn, None))
    /\ NetGoto("unregister")
    /\ UNCHANGED <<fd, reported, connections, registered, closer, batch, net_conn,
                   timers, timed_out, logicVars>>

NetUnregister ==
    /\ net_pc = "unregister"
    /\ registered' = registered \ {net_conn}
    /\ NetGoto("erase")
    /\ UNCHANGED <<fd, reported, connections, closer, event_queue, batch, net_conn,
                   timers, timed_out, logicVars>>

NetErase ==
    /\ net_pc = "erase"
    /\ connections' = [connections EXCEPT ![fd[net_conn]] = None]
    /\ NetReturn
    /\ UNCHANGED <<fd, reported, registered, closer, event_queue, batch, timers, timed_out, logicVars>>

(* ... and in the logic thread, where evt points to the connection.          *)
LogicExchange ==
    /\ logic_pc = "handle"
    /\ evt.type = "MESSAGE"
    /\ ~closed(evt.conn)
    /\ closer' = [closer EXCEPT ![evt.conn] = "logic"]
    /\ logic_pc' = "disconnect"
    /\ UNCHANGED <<fd, reported, connections, registered, event_queue, netVars, evt, online, renamed, active>>

(* Slip: Close does without the DISCONNECT.                                  *)
LogicUnreported ==
    /\ logic_pc = "disconnect"
    /\ logic_pc' = "unregister"
    /\ UNCHANGED <<fd, reported, connections, registered, closer, event_queue, netVars, evt, online, renamed, active>>

LogicDisconnect ==
    /\ logic_pc = "disconnect"
    /\ push(Event("DISCONNECT", evt.conn, None))
    /\ logic_pc' = "unregister"
    /\ UNCHANGED <<fd, reported, connections, registered, closer, netVars, evt, online, renamed, active>>

(* Slip: EPOLL_CTL_DEL is forgotten.                                         *)
LogicStaysRegistered ==
    /\ logic_pc = "unregister"
    /\ logic_pc' = "erase"
    /\ UNCHANGED <<fd, reported, connections, registered, closer, event_queue, netVars,
                   evt, online, renamed, active>>

LogicUnregister ==
    /\ logic_pc = "unregister"
    /\ registered' = registered \ {evt.conn}
    /\ logic_pc' = "erase"
    /\ UNCHANGED <<fd, reported, connections, closer, event_queue, netVars, evt, online, renamed, active>>

LogicErase ==
    /\ logic_pc = "erase"
    /\ connections' = [connections EXCEPT ![fd[evt.conn]] = None]
    /\ logic_pc' = "pop"
    /\ UNCHANGED <<fd, reported, registered, closer, event_queue, netVars, evt, online, renamed, active>>

-----------------------------------------------------------------------------
(* The logic thread between two closes.                                      *)

PopEvent ==
    /\ logic_pc = "pop"
    /\ event_queue # <<>>
    /\ evt' = Head(event_queue)
    /\ event_queue' = Tail(event_queue)
    /\ logic_pc' = "check"
    /\ UNCHANGED <<fd, reported, connections, registered, closer, netVars, online, renamed, active>>

(* ProcessEvent drops what is not a DISCONNECT if it sees the flag set.      *)
CheckClosed ==
    /\ logic_pc = "check"
    /\ logic_pc' = IF closed(evt.conn) /\ evt.type # "DISCONNECT" THEN "pop" ELSE "handle"
    /\ UNCHANGED <<fd, reported, connections, registered, closer, event_queue, netVars,
                   evt, online, renamed, active>>

(* ProcessEvent returns without closing.  A login puts the connection into   *)
(* online_users_, and another one puts it there under a second name without  *)
(* taking the first one out.  A DISCONNECT erases the session's name only,   *)
(* so that entries under names from before stay, and their pointers.         *)
Handled ==
    /\ logic_pc = "handle"
    /\ logic_pc' = "pop"
    /\ \/ evt.type # "DISCONNECT" /\ UNCHANGED <<online, renamed>>
       \/ /\ evt.type = "MESSAGE"
          /\ online' = online \cup {evt.conn}
          /\ renamed' = renamed \cup ({evt.conn} \cap online)
       \/ evt.type = "DISCONNECT" /\ online' = online \ {evt.conn} /\ UNCHANGED renamed
    /\ UNCHANGED <<fd, reported, connections, registered, closer, event_queue, netVars, evt, active>>

(* A worker of the thread pool runs a broadcast task: it copies the open     *)
(* connections out of the map and lets go of them when it is done.           *)
TakeActive ==
    /\ active = {}
    /\ active' = {c \in Conn : InMap(c) /\ ~closed(c)}
    /\ UNCHANGED <<fd, reported, connections, registered, closer, event_queue, netVars,
                   logic_pc, evt, online, renamed>>

DropActive ==
    /\ active # {}
    /\ active' = {}
    /\ UNCHANGED <<fd, reported, connections, registered, closer, event_queue, netVars,
                   logic_pc, evt, online, renamed>>

-----------------------------------------------------------------------------
NetStep ==
    \/ EpollWait \/ Dispatch \/ AcceptFails \/ Register \/ Announce \/ ReadDone \/ Sweep
    \/ \E c \in Conn, f \in Fd : Accept(c, f)
    \/ NetExchange \/ NetDisconnect \/ NetUnregister \/ NetErase

LogicStep ==
    \/ PopEvent \/ CheckClosed \/ Handled
    \/ LogicExchange \/ LogicDisconnect \/ LogicUnregister \/ LogicErase

Next ==
    \/ NetStep
    \/ \E m \in Msg : ReadMessage(m)
    \/ LogicStep
    \/ TakeActive \/ DropActive

(* The threads run.  That the reactor leaves handle_read assumes a client    *)
(* that does not keep up with it forever: the loop ends at EAGAIN only.      *)
Fairness == WF_vars(NetStep) /\ WF_vars(LogicStep) /\ WF_vars(DropActive)

Safety == Init /\ [][Next]_vars
Spec == Safety /\ Fairness

-----------------------------------------------------------------------------
(* Properties                                                                *)

NetPCs == {"wait", "dispatch", "accept", "register", "announce", "read", "sweep",
           "close", "hup", "disconnect", "unregister", "erase"}
LogicPCs == {"pop", "check", "handle", "disconnect", "unregister", "erase"}

TypeOK ==
    /\ fd \in [Conn -> Fd \cup {None}]
    /\ hung_up \subseteq Conn /\ accepted \subseteq Conn
    /\ connections \in [Fd -> Conn \cup {None}]
    /\ registered \subseteq Conn
    /\ closer \in [Conn -> {"net", "logic", None}]
    /\ event_queue \in Seq([type: {"CONNECT", "DISCONNECT", "MESSAGE"}, conn: Conn, payload: Msg \cup {None}])
    /\ batch \subseteq [kind: {"listen", "timer"}, fd: {None}] \cup [kind: {"io", "hup"}, fd: Fd]
    /\ net_pc \in NetPCs /\ net_conn \in Conn \cup {None}
    /\ timers \subseteq Fd /\ timed_out \subseteq Conn
    /\ logic_pc \in LogicPCs /\ evt.conn \in Conn \cup {None}
    /\ online \subseteq Conn /\ renamed \subseteq Conn /\ active \subseteq Conn

(* Wherever close_conn stands, in whichever thread.                          *)
Closing(c, pcs) ==
    \/ net_conn = c /\ net_pc \in pcs
    \/ evt.conn = c /\ logic_pc \in pcs

(* The maps and the epoll set hold exactly what the reactor serves: a        *)
(* connection that was announced stays in both until close_conn gets to it,  *)
(* and is in neither afterwards.  No entry is overwritten by accept_loop.    *)
MapMatchesOpen ==
    /\ TypeOK
    /\ \A c \in Conn : fd[c] # None =>
        /\ InMap(c) <=> ~closed(c) \/ Closing(c, {"disconnect", "unregister", "erase"})
        /\ c \in registered <=> \/ ~closed(c) /\ ~(net_conn = c /\ net_pc = "register")
                                \/ Closing(c, {"disconnect", "unregister"})

(* Descriptors: close_conn takes its own connection out of the epoll set and *)
(* out of the map, never another one that was accepted on the same number;   *)
(* and no two living connections share one.                                  *)
OwnDescriptor ==
    /\ \A c \in Conn : Closing(c, {"disconnect", "unregister", "erase"}) => connections[fd[c]] = c
    /\ \A c, d \in Conn : c # d /\ fd[c] # None /\ fd[c] = fd[d] => ~(Alive(c) /\ Alive(d))

(* The sweeper never loses sight of a client: whoever had the number before, *)
(* a connection in the map has an entry in the timer heap until it has been  *)
(* found idle, and then it is closed.                                        *)
TimerWatches ==
    \A c \in Conn : InMap(c) =>
        fd[c] \in timers \/ c \in timed_out \/ closed(c) \/ Closing(c, {"close"})

(* The events are the stream that EventStream promises.  What the            *)
(* application has seen of a connection follows from the queue.              *)
Pushed(c) == fd[c] # None /\ ~(net_conn = c /\ net_pc \in {"register", "announce"})
Waiting(e) == \E i \in 1..Len(event_queue) : event_queue[i] = e

announced == {c \in Conn : Pushed(c)}

reporting ==
    [t \in {"net", "logic"} |->
        IF t = "net" THEN IF net_pc = "disconnect" THEN net_conn ELSE None
        ELSE IF logic_pc = "disconnect" THEN evt.conn ELSE None]

handled == IF logic_pc \in {"check", "handle"} THEN evt ELSE [type |-> "NONE"]

seen ==
    [c \in Conn |->
        IF ~Pushed(c) \/ Waiting(Event("CONNECT", c, None)) THEN "unseen"
        ELSE IF ~closed(c) \/ Closing(c, {"disconnect"}) \/ Waiting(Event("DISCONNECT", c, None))
        THEN "open" ELSE "gone"]

Stream == INSTANCE EventStream WITH
    connected <- announced, closing <- reporting, evt <- handled, stage <- seen

ImplementsEventStream == Stream!StreamSafety

(* Whichever thread closes a connection, the application is told, whatever   *)
(* is queued before; and then map, queue, threads and the session's entry in *)
(* online_users_ let go of the connection.  What may still point to it is    *)
(* LogicLoop's evt, of the event that was handled last, and the entries      *)
(* under names from before a second login, which nothing erases.             *)
Reaped ==
    \A c \in Conn :
        Closing(c, {"disconnect"}) ~> evt = Event("DISCONNECT", c, None) /\ <>~InUse(c)

(* A connection that is closed for EPOLLHUP or EPOLLERR is one that          *)
(* epoll_wait reported, or one that was accepted since the call returned, by *)
(* an earlier entry of the array: the only way for an innocent client to be  *)
(* closed is to meet the stale entry of a number's former owner.             *)
HupUnlessReused == net_pc = "hup" => net_conn \in hung_up \cup accepted
=============================================================================
