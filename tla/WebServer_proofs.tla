-------------------------- MODULE WebServer_proofs --------------------------
(* Proofs about WebServer: the descriptors, the maps and the epoll set stay  *)
(* together, and the events are the stream of EventStream, for any number of *)
(* connections and descriptors.                                              *)
EXTENDS WebServer, TLAPS

(* The same instance as Stream, of the module that holds what is proved.     *)
StreamP == INSTANCE EventStream_proofs WITH
    connected <- announced, closing <- reporting, evt <- handled, stage <- seen

(* Who points to whom: an entry of a map is a connection on that number, and *)
(* what is registered or was handed to the logic thread has a descriptor.    *)
Pointers ==
    /\ \A f \in Fd : connections[f] # None => fd[connections[f]] = f
    /\ \A c \in registered \cup timed_out : fd[c] # None
    /\ net_conn # None => fd[net_conn] # None
    /\ evt.conn # None => Pushed(evt.conn)

(* Where the reactor thread is, and what its local variables hold there.     *)
NetStands ==
    /\ net_conn = None <=> net_pc \in {"wait", "dispatch", "accept", "sweep"}
    /\ net_pc = "read" => closer[net_conn] # "net"
    /\ timed_out # {} => net_pc \in {"sweep", "close", "disconnect", "unregister", "erase"}
    /\ net_pc \in {"disconnect", "unregister", "erase"} => closer[net_conn] = "net"

(* Where the logic thread is, and what evt holds there.                      *)
LogicStands ==
    /\ logic_pc # "pop" => evt \in StreamP!Event
    /\ logic_pc \in {"disconnect", "unregister", "erase"} => closer[evt.conn] = "logic"

(* What is left of a batch: an entry for a hang-up names a number whose      *)
(* connection hung up, or was accepted since, or none at all.                *)
HupsNamed ==
    \A e \in batch : e.kind = "hup" /\ connections[e.fd] # None
                        => connections[e.fd] \in hung_up \cup accepted

IInv ==
    /\ Pointers /\ NetStands /\ LogicStands /\ HupsNamed
    /\ MapMatchesOpen /\ OwnDescriptor /\ TimerWatches /\ HupUnlessReused
    /\ StreamP!StreamIInv

-----------------------------------------------------------------------------
(* What push and pop do to a queue, position by position.                    *)
LEMMA QueueFacts ==
    ASSUME NEW E, NEW q \in Seq(E)
    PROVE  /\ Len(q) \in Nat
           /\ \A e \in E : /\ Append(q, e) \in Seq(E)
                          /\ Len(Append(q, e)) = Len(q) + 1
                          /\ \A i \in 1..Len(q) + 1 : Append(q, e)[i] = IF i <= Len(q) THEN q[i] ELSE e
           /\ q # <<>> => /\ Head(q) = q[1] /\ Head(q) \in E /\ Tail(q) \in Seq(E)
                          /\ Len(q) # 0 /\ Len(Tail(q)) = Len(q) - 1
                          /\ \A i \in 1..Len(q) - 1 : Tail(q)[i] = q[i + 1]
<1>1. Len(q) \in Nat
  OBVIOUS
<1>2. ASSUME NEW e \in E
      PROVE  /\ Append(q, e) \in Seq(E)
             /\ Len(Append(q, e)) = Len(q) + 1
             /\ \A i \in 1..Len(q) + 1 : Append(q, e)[i] = IF i <= Len(q) THEN q[i] ELSE e
  OBVIOUS
<1>3. ASSUME q # <<>>
      PROVE  /\ Head(q) = q[1] /\ Head(q) \in E /\ Tail(q) \in Seq(E)
             /\ Len(q) # 0 /\ Len(Tail(q)) = Len(q) - 1
             /\ \A i \in 1..Len(q) - 1 : Tail(q)[i] = q[i + 1]
  BY <1>3
<1> QED
  BY <1>1, <1>2, <1>3

(* Types.  A batch holds descriptors, because what is registered has one.    *)
LEMMA WebServerTypeInit == Init => TypeOK
BY DEF Init, TypeOK, Event, NetPCs, LogicPCs

(* Every step keeps the types.                                               *)
LEMMA WebServerTypeNext ==
    ASSUME TypeOK, Pointers, NetStands, LogicStands, [Next]_vars
    PROVE  TypeOK'
<1> DEFINE E == [type: {"CONNECT", "DISCONNECT", "MESSAGE"}, conn: Conn, payload: Msg \cup {None}]
<1> USE DEF TypeOK, NetPCs, LogicPCs
<1>0. event_queue \in Seq(E)
  OBVIOUS
<1>1. net_pc \notin {"wait", "dispatch", "accept", "sweep"} => net_conn \in Conn
  BY DEF NetStands
<1>2. logic_pc # "pop" => evt.conn \in Conn
  BY DEF LogicStands, StreamP!Event
<1>3. \A c \in Conn : /\ Event("CONNECT", c, None) \in E /\ Event("DISCONNECT", c, None) \in E
                      /\ \A m \in Msg : Event("MESSAGE", c, m) \in E
  BY DEF Event
<1> HIDE DEF E
<1>4. CASE EpollWait
  <2>1. \A c \in registered : fd[c] \in Fd
    BY DEF Pointers
  <2> QED
    BY <1>4, <2>1 DEF EpollWait, Ready, NetGoto, logicVars
<1>5. CASE Dispatch
  BY <1>5 DEF Dispatch, check_timeouts, NetGoto, reported, logicVars
<1>6. ASSUME NEW c \in Conn, NEW f \in Fd, Accept(c, f) PROVE TypeOK'
  BY <1>6 DEF Accept, NetGoto, logicVars
<1>7. CASE AcceptFails \/ ReadDone \/ Sweep
  BY <1>7 DEF AcceptFails, ReadDone, Sweep, NetGoto, reported, logicVars
<1>8. CASE Register
  BY <1>1, <1>8 DEF Register, NetGoto, reported, logicVars
<1>9. CASE Announce
  <2>1. event_queue' \in Seq(E)
    BY <1>0, <1>1, <1>3, <1>9, QueueFacts DEF Announce, push
  <2> QED
    BY <1>1, <1>9, <2>1 DEF E, Announce, NetGoto, reported, logicVars
<1>10. ASSUME NEW m \in Msg, ReadMessage(m) PROVE TypeOK'
  <2>1. event_queue' \in Seq(E)
    BY <1>0, <1>1, <1>3, <1>10, QueueFacts DEF ReadMessage, push
  <2> QED
    BY <1>1, <1>10, <2>1 DEF E, ReadMessage, reported, netVars, logicVars
<1>11. CASE NetExchange
  BY <1>1, <1>11 DEF NetExchange, NetReturn, NetGoto, reported, logicVars
<1>12. CASE NetDisconnect
  <2>1. event_queue' \in Seq(E)
    BY <1>0, <1>1, <1>3, <1>12, QueueFacts DEF NetDisconnect, push
  <2> QED
    BY <1>1, <1>12, <2>1 DEF E, NetDisconnect, NetGoto, reported, logicVars
<1>13. CASE NetUnregister \/ NetErase
  BY <1>1, <1>13 DEF NetUnregister, NetErase, NetReturn, NetGoto, reported, logicVars
<1>14. CASE PopEvent
  <2>1. Head(event_queue) \in E /\ Tail(event_queue) \in Seq(E)
    BY <1>0, <1>14, QueueFacts DEF PopEvent
  <2>2. Head(event_queue).conn \in Conn
    BY <2>1 DEF E
  <2> QED
    BY <1>14, <2>1, <2>2 DEF E, PopEvent, reported, netVars
<1>15. CASE CheckClosed \/ Handled \/ LogicExchange
  BY <1>2, <1>15 DEF CheckClosed, Handled, LogicExchange, reported, netVars
<1>16. CASE LogicDisconnect
  <2>1. event_queue' \in Seq(E)
    BY <1>0, <1>2, <1>3, <1>16, QueueFacts DEF LogicDisconnect, push
  <2> QED
    BY <1>2, <1>16, <2>1 DEF E, LogicDisconnect, reported, netVars
<1>17. CASE LogicUnregister \/ LogicErase
  BY <1>2, <1>17 DEF LogicUnregister, LogicErase, reported, netVars
<1>18. CASE TakeActive \/ DropActive
  BY <1>18 DEF TakeActive, DropActive, reported, netVars
<1>19. CASE UNCHANGED vars
  BY <1>19 DEF vars, reported
<1> QED
  BY <1>4, <1>5, <1>6, <1>7, <1>8, <1>9, <1>10, <1>11, <1>12, <1>13, <1>14, <1>15, <1>16, <1>17,
     <1>18, <1>19 DEF Next, NetStep, LogicStep

(* What push leaves to be popped, and what pop takes away.                   *)
LEMMA PushWaits ==
    ASSUME TypeOK, NEW e, push(e), NEW c \in Conn,
           e \in {Event("CONNECT", c, None), Event("DISCONNECT", c, None)}
                    \cup {Event("MESSAGE", c, m) : m \in Msg}
    PROVE  /\ \A d : Waiting(d)' <=> Waiting(d) \/ d = e
           /\ \A d : Queued(d)' <=> Queued(d) \/ d = c
<1> DEFINE E == [type: {"CONNECT", "DISCONNECT", "MESSAGE"}, conn: Conn, payload: Msg \cup {None}]
<1>1. event_queue \in Seq(E) /\ e \in E /\ e.conn = c
  BY DEF TypeOK, Event
<1> HIDE DEF E
<1>2. /\ Len(event_queue) \in Nat /\ Len(event_queue') = Len(event_queue) + 1
      /\ event_queue'[Len(event_queue) + 1] = e
      /\ \A i \in 1..Len(event_queue) : event_queue'[i] = event_queue[i]
  BY <1>1, QueueFacts DEF push
<1>3. /\ 1..Len(event_queue') = (1..Len(event_queue)) \cup {Len(event_queue) + 1}
  BY <1>2
<1> QED
  BY <1>1, <1>2, <1>3 DEF Waiting, Queued

(* What is queued is what is queued after a pop, and the event popped.       *)
LEMMA PopWaits ==
    ASSUME TypeOK, PopEvent
    PROVE  /\ \A d : Waiting(d) <=> Waiting(d)' \/ d = evt'
           /\ \A d : Queued(d) <=> Queued(d)' \/ d = evt'.conn
<1> DEFINE E == [type: {"CONNECT", "DISCONNECT", "MESSAGE"}, conn: Conn, payload: Msg \cup {None}]
           n == Len(event_queue)
<1>1. event_queue \in Seq(E) /\ event_queue # <<>> /\ event_queue' = Tail(event_queue)
      /\ evt' = Head(event_queue)
  BY DEF TypeOK, PopEvent
<1> HIDE DEF E
<1>2. /\ n \in Nat \ {0} /\ Len(event_queue') = n - 1 /\ evt' = event_queue[1]
      /\ \A i \in 1..n - 1 : event_queue'[i] = event_queue[i + 1]
  BY <1>1, QueueFacts
<1> HIDE DEF n
<1>3. \A i \in 1..n : event_queue[i] = evt' \/ \E j \in 1..n - 1 : event_queue[i] = event_queue'[j]
  <2> SUFFICES ASSUME NEW i \in 1..n, i # 1 PROVE \E j \in 1..n - 1 : event_queue[i] = event_queue'[j]
    BY <1>2
  <2>1. i - 1 \in 1..n - 1 /\ event_queue'[i - 1] = event_queue[(i - 1) + 1] /\ (i - 1) + 1 = i
    BY <1>2
  <2> QED
    BY <2>1
<1>4. \A j \in 1..n - 1 : j + 1 \in 1..n /\ event_queue'[j] = event_queue[j + 1]
  BY <1>2
<1>5. 1 \in 1..n
  BY <1>2
<1>6. /\ \A d : Waiting(d) <=> \E i \in 1..n : event_queue[i] = d
      /\ \A d : Waiting(d)' <=> \E i \in 1..n - 1 : event_queue'[i] = d
      /\ \A d : Queued(d) <=> \E i \in 1..n : event_queue[i].conn = d
      /\ \A d : Queued(d)' <=> \E i \in 1..n - 1 : event_queue'[i].conn = d
  BY <1>2 DEF Waiting, Queued, n
<1>7. evt' = event_queue[1]
  BY <1>2
<1> QED
  BY <1>3, <1>4, <1>5, <1>6, <1>7

(* A thread that lets go of a connection may free it, and only accept_loop   *)
(* brings one to life: every other pointer is copied from a pointer.         *)
LEMMA AliveShrinks ==
    ASSUME TypeOK, NetStands, LogicStands, [Next]_vars,
           NEW d \in Conn, Alive(d)', ~Alive(d)
    PROVE  \E f \in Fd : Accept(d, f)
<1> USE DEF Alive, InUse, InMap
<1>1. net_pc \notin {"wait", "dispatch", "accept", "sweep"} => net_conn \in Conn
  BY DEF NetStands, TypeOK, NetPCs
<1>2. logic_pc # "pop" => evt.conn \in Conn
  BY DEF LogicStands, StreamP!Event
<1>3. d # None
  BY WebServerAssumption
<1>4. CASE EpollWait \/ AcceptFails \/ ReadDone \/ Register
  BY <1>3, <1>4 DEF EpollWait, AcceptFails, ReadDone, Register, reported, logicVars, Queued
<1>5. CASE Dispatch
  BY <1>5, <1>3 DEF Dispatch, check_timeouts, reported, logicVars, Queued, TypeOK
<1>6. ASSUME NEW c \in Conn, NEW f \in Fd, Accept(c, f) PROVE d = c
  BY <1>6 DEF Accept, logicVars, Queued, TypeOK
<1>7. CASE Sweep
  BY <1>7 DEF Sweep, reported, logicVars, Queued, TypeOK
<1>8. CASE Announce
  BY <1>1, <1>3, <1>8, PushWaits DEF Announce, reported, logicVars
<1>9. ASSUME NEW m \in Msg, ReadMessage(m) PROVE FALSE
  BY <1>1, <1>9, PushWaits DEF ReadMessage, reported, netVars, logicVars
<1>10. CASE NetExchange
  BY <1>3, <1>10 DEF NetExchange, NetReturn, reported, logicVars, Queued
<1>11. CASE NetDisconnect
  BY <1>1, <1>11, PushWaits DEF NetDisconnect, reported, logicVars
<1>12. CASE NetUnregister \/ NetErase
  BY <1>3, <1>12 DEF NetUnregister, NetErase, NetReturn, reported, logicVars, Queued, TypeOK
<1>13. CASE PopEvent
  BY <1>13, PopWaits DEF PopEvent, reported, netVars
<1>14. CASE CheckClosed \/ Handled \/ LogicExchange
  BY <1>14 DEF CheckClosed, Handled, LogicExchange, reported, netVars, Queued
<1>15. CASE LogicDisconnect
  BY <1>2, <1>15, PushWaits DEF LogicDisconnect, reported, netVars
<1>16. CASE LogicUnregister \/ LogicErase
  BY <1>3, <1>16 DEF LogicUnregister, LogicErase, reported, netVars, Queued, TypeOK
<1>17. CASE TakeActive \/ DropActive
  BY <1>17 DEF TakeActive, DropActive, reported, netVars, Queued
<1>18. CASE UNCHANGED vars
  BY <1>18 DEF vars, reported, Queued
<1> QED
  BY <1>4, <1>5, <1>6, <1>7, <1>8, <1>9, <1>10, <1>11, <1>12, <1>13, <1>14, <1>15, <1>16, <1>17,
     <1>18 DEF Next, NetStep, LogicStep

-----------------------------------------------------------------------------
(* The inductive invariant, part by part.                                    *)

(* A connection is handed over once, by Announce, and is handed over for     *)
(* good.                                                                     *)
LEMMA AnnouncedGrows ==
    ASSUME TypeOK, Pointers, NetStands, [Next]_vars
    PROVE  announced' = announced \cup (IF Announce THEN {net_conn} ELSE {})
<1> USE DEF announced, Pushed, NetGoto
<1>1. CASE EpollWait \/ Dispatch \/ AcceptFails \/ ReadDone \/ Sweep
  <2>1. /\ fd' = fd /\ net_pc' \notin {"register", "announce"} /\ net_pc \notin {"register", "announce"}
        /\ ~Announce
    BY <1>1 DEF EpollWait, Dispatch, AcceptFails, ReadDone, Sweep, Announce
  <2> QED
    BY <2>1
<1>2. ASSUME NEW c \in Conn, NEW f \in Fd, Accept(c, f)
      PROVE  announced' = announced /\ ~Announce
  BY <1>2 DEF Accept, TypeOK, Announce
<1>3. CASE Register
  <2>1. fd' = fd /\ net_conn' = net_conn /\ net_pc = "register" /\ net_pc' = "announce" /\ ~Announce
    BY <1>3 DEF Register, Announce
  <2> QED
    BY <2>1
<1>4. CASE Announce
  <2>1. fd' = fd /\ net_pc = "announce" /\ net_pc' = "accept"
    BY <1>4 DEF Announce
  <2>2. net_conn \in Conn /\ fd[net_conn] # None
    BY <2>1 DEF NetStands, Pointers, TypeOK
  <2> QED
    BY <1>4, <2>1, <2>2
<1>5. CASE NetExchange \/ NetDisconnect \/ NetUnregister \/ NetErase
  <2>1. /\ fd' = fd /\ net_pc' \notin {"register", "announce"} /\ net_pc \notin {"register", "announce"}
        /\ ~Announce
    BY <1>5 DEF NetExchange, NetDisconnect, NetUnregister, NetErase, NetReturn, Announce
  <2> QED
    BY <2>1
<1>6. CASE LogicStep \/ TakeActive \/ DropActive \/ (\E m \in Msg : ReadMessage(m)) \/ UNCHANGED vars
  <2>1. fd' = fd /\ net_conn' = net_conn /\ net_pc' = net_pc
    BY <1>6 DEF LogicStep, PopEvent, CheckClosed, Handled, LogicExchange, LogicDisconnect,
                LogicUnregister, LogicErase, TakeActive, DropActive, ReadMessage, netVars, vars
  <2>2. ~Announce
    BY <2>1, WebServerAssumption DEF Announce
  <2> QED
    BY <2>1, <2>2
<1> QED
  BY <1>1, <1>2, <1>3, <1>4, <1>5, <1>6 DEF Next, NetStep

(* Every step keeps Pointers,                                                *)
LEMMA PointersKeep ==
    ASSUME TypeOK, Pointers, NetStands, LogicStands, StreamP!OnlyConnected, [Next]_vars
    PROVE  Pointers'
<1> USE DEF Pointers
<1>0. None \notin Conn \cup Fd
  BY WebServerAssumption
<1>1. net_pc \notin {"wait", "dispatch", "accept", "sweep"} => net_conn \in Conn
  BY DEF NetStands, TypeOK, NetPCs
<1>2. \A d \in Conn : Pushed(d) => Pushed(d)'
  BY AnnouncedGrows DEF announced
<1>3. fd \in [Conn -> Fd \cup {None}] /\ connections \in [Fd -> Conn \cup {None}]
      /\ evt.conn \in Conn \cup {None} /\ registered \cup timed_out \subseteq Conn
      /\ net_conn \in Conn \cup {None}
  BY DEF TypeOK
<1>4. CASE EpollWait \/ AcceptFails \/ ReadDone \/ Sweep
  BY <1>0, <1>2, <1>3, <1>4 DEF EpollWait, AcceptFails, ReadDone, Sweep, reported, logicVars
<1>5. CASE Dispatch
  <2>1. /\ UNCHANGED <<fd, connections, registered, evt>>
        /\ timed_out' = timed_out \/ timed_out' \subseteq {connections[f] : f \in timers} \ {None}
        /\ net_conn' = net_conn \/ \E f \in Fd : net_conn' = connections[f]
    BY <1>5 DEF Dispatch, check_timeouts, reported, logicVars, TypeOK
  <2>2. timers \subseteq Fd
    BY DEF TypeOK
  <2> QED
    BY <1>0, <1>2, <1>3, <2>1, <2>2
<1>6. ASSUME NEW c \in Conn, NEW f \in Fd, Accept(c, f) PROVE Pointers'
  BY <1>0, <1>2, <1>3, <1>6 DEF Accept, logicVars
<1>7. CASE Register \/ Announce \/ NetExchange \/ NetDisconnect \/ NetUnregister \/ NetErase
  BY <1>0, <1>1, <1>2, <1>3, <1>7 DEF Register, Announce, NetExchange, NetDisconnect, NetUnregister,
     NetErase, NetReturn, reported, logicVars
<1>8. ASSUME NEW m \in Msg, ReadMessage(m) PROVE Pointers'
  BY <1>0, <1>2, <1>3, <1>8 DEF ReadMessage, netVars, logicVars
<1>9. CASE PopEvent
  <2>1. evt'.conn \in announced
    <3>1. /\ event_queue # <<>> /\ evt' = event_queue[1] /\ 1 \in 1..Len(event_queue)
      BY <1>9, QueueFacts DEF PopEvent, TypeOK
    <3> QED
      BY <3>1 DEF StreamP!OnlyConnected
  <2>2. UNCHANGED <<fd, connections, registered, net_conn, timed_out>>
    BY <1>9 DEF PopEvent, netVars
  <2> QED
    BY <1>2, <1>3, <2>1, <2>2 DEF announced
<1>10. CASE CheckClosed \/ Handled \/ LogicExchange \/ LogicDisconnect \/ LogicUnregister \/ LogicErase
  BY <1>0, <1>2, <1>3, <1>10 DEF CheckClosed, Handled, LogicExchange, LogicDisconnect, LogicUnregister,
     LogicErase, netVars
<1>11. CASE TakeActive \/ DropActive \/ UNCHANGED vars
  BY <1>2, <1>3, <1>11 DEF TakeActive, DropActive, netVars, vars
<1> QED
  BY <1>4, <1>5, <1>6, <1>7, <1>8, <1>9, <1>10, <1>11 DEF Next, NetStep, LogicStep

(* The exchange on closed has one winner, whose name stays.                  *)
LEMMA CloserKept ==
    ASSUME TypeOK, NetStands, LogicStands, [Next]_vars
    PROVE  /\ \A c \in Conn : closed(c) => closer'[c] = closer[c]
           /\ ~NetExchange /\ ~LogicExchange => closer' = closer
           /\ LogicExchange => \A c \in Conn : closer'[c] # closer[c] => closer'[c] = "logic"
<1> USE DEF closed
<1>1. CASE NetExchange
  <2>1. net_conn \in Conn /\ closer \in [Conn -> {"net", "logic", None}]
    BY <1>1 DEF NetExchange, NetStands, TypeOK
  <2> QED
    BY <1>1, <2>1 DEF NetExchange, LogicExchange, netVars
<1>2. CASE LogicExchange
  <2>1. evt.conn \in Conn /\ closer \in [Conn -> {"net", "logic", None}]
    BY <1>2 DEF LogicExchange, LogicStands, TypeOK, StreamP!Event
  <2> QED
    BY <1>2, <2>1 DEF NetExchange, LogicExchange
<1>3. CASE ~NetExchange /\ ~LogicExchange
  BY <1>3 DEF Next, NetStep, LogicStep, EpollWait, Dispatch, AcceptFails, Accept, Register, Announce, ReadDone,
     Sweep, NetDisconnect, NetUnregister, NetErase, ReadMessage, PopEvent, CheckClosed, Handled,
     LogicDisconnect, LogicUnregister, LogicErase, TakeActive, DropActive, netVars, vars
<1> QED
  BY <1>1, <1>2, <1>3

(* what the place of the reactor says,                                       *)
LEMMA NetStandsKeep ==
    ASSUME MapMatchesOpen, Pointers, NetStands, LogicStands, [Next]_vars
    PROVE  NetStands'
<1> USE DEF NetStands, NetGoto
<1>0. TypeOK /\ None \notin Conn \cup Fd \cup {"net", "logic"}
  BY WebServerAssumption DEF MapMatchesOpen
<1>1. net_pc \notin {"wait", "dispatch", "accept", "sweep"} => net_conn \in Conn
  BY <1>0 DEF TypeOK
<1>2. /\ \A c \in Conn : closed(c) => closer'[c] = closer[c]
      /\ ~NetExchange /\ ~LogicExchange => closer' = closer
      /\ LogicExchange => \A c \in Conn : closer'[c] # closer[c] => closer'[c] = "logic"
  BY <1>0, CloserKept
<1>3. CASE EpollWait \/ AcceptFails \/ Register \/ Announce \/ ReadDone \/ Sweep
  BY <1>0, <1>1, <1>3 DEF EpollWait, AcceptFails, Register, Announce, ReadDone, Sweep, TypeOK
<1>4. CASE Dispatch
  <2>1. net_pc = "dispatch" /\ closer' = closer
    BY <1>4 DEF Dispatch
  <2>2. CASE net_pc' = "read"
    <3>1. PICK f \in Fd : net_conn' = connections[f] /\ connections[f] # None
      BY <1>0, <1>4, <2>2 DEF Dispatch, TypeOK
    <3>2. PICK c \in Conn : c = connections[f]
      BY <1>0, <3>1 DEF TypeOK
    <3>3. InMap(c) /\ fd[c] # None
      BY <1>0, <3>1, <3>2 DEF InMap, Pointers
    <3>4. ~closed(c) \/ closer[c] = "logic"
      BY <2>1, <3>3 DEF MapMatchesOpen, Closing, LogicStands
    <3>5. closer[c] # "net"
      BY <1>0, <3>4 DEF closed
    <3>6. net_conn' = c /\ c # None /\ timed_out' = timed_out
      BY <1>0, <1>4, <2>2, <3>1, <3>2 DEF Dispatch
    <3> QED
      BY <2>1, <2>2, <3>5, <3>6
  <2>3. CASE net_pc' # "read"
    BY <1>0, <1>4, <2>1, <2>3 DEF Dispatch, TypeOK
  <2> QED
    BY <2>2, <2>3
<1>5. ASSUME NEW c \in Conn, NEW f \in Fd, Accept(c, f) PROVE NetStands'
  BY <1>0, <1>5 DEF Accept
<1>6. CASE NetExchange
  BY <1>0, <1>1, <1>6 DEF NetExchange, NetReturn, TypeOK
<1>7. CASE NetDisconnect \/ NetUnregister \/ NetErase
  BY <1>1, <1>7 DEF NetDisconnect, NetUnregister, NetErase, NetReturn
<1>8. CASE LogicStep \/ TakeActive \/ DropActive \/ (\E m \in Msg : ReadMessage(m)) \/ UNCHANGED vars
  <2>1. net_conn' = net_conn /\ net_pc' = net_pc /\ timed_out' = timed_out
    BY <1>8 DEF LogicStep, PopEvent, CheckClosed, Handled, LogicExchange, LogicDisconnect,
                LogicUnregister, LogicErase, TakeActive, DropActive, ReadMessage, netVars, vars
  <2>2. net_conn \in Conn /\ closer[net_conn] = "net" => closer'[net_conn] = "net"
    BY <1>0, <1>2 DEF closed
  <2>3. net_conn \in Conn /\ net_pc = "read" => closer'[net_conn] # "net"
    <3>1. ~NetExchange \/ net_pc # "read"
      BY DEF NetExchange
    <3> QED
      BY <1>2, <3>1
  <2> QED
    BY <1>1, <2>1, <2>2, <2>3
<1> QED
  BY <1>3, <1>4, <1>5, <1>6, <1>7, <1>8 DEF Next, NetStep

(* what the place of the logic thread says,                                  *)
LEMMA LogicStandsKeep ==
    ASSUME TypeOK, NetStands, LogicStands, StreamP!StreamTypeOK, [Next]_vars
    PROVE  LogicStands'
<1> USE DEF LogicStands
<1>0. None \notin Conn \cup Fd \cup {"net", "logic"}
  BY WebServerAssumption
<1>1. logic_pc # "pop" => evt.conn \in Conn
  BY DEF StreamP!Event
<1>2. /\ \A c \in Conn : closed(c) => closer'[c] = closer[c]
      /\ ~NetExchange /\ ~LogicExchange => closer' = closer
  BY CloserKept
<1>3. CASE PopEvent
  <2>1. evt' \in StreamP!Event
    BY <1>3, QueueFacts DEF PopEvent, StreamP!StreamTypeOK
  <2> QED
    BY <1>3, <2>1 DEF PopEvent
<1>4. CASE LogicExchange
  BY <1>0, <1>1, <1>4 DEF LogicExchange, TypeOK
<1>5. CASE CheckClosed \/ Handled \/ LogicDisconnect \/ LogicUnregister \/ LogicErase
  BY <1>5 DEF CheckClosed, Handled, LogicDisconnect, LogicUnregister, LogicErase
<1>6. CASE NetStep \/ TakeActive \/ DropActive \/ (\E m \in Msg : ReadMessage(m)) \/ UNCHANGED vars
  <2>1. evt' = evt /\ logic_pc' = logic_pc
    BY <1>6 DEF NetStep, EpollWait, Dispatch, AcceptFails, Accept, Register, Announce, ReadDone, Sweep,
                NetExchange, NetDisconnect, NetUnregister, NetErase, TakeActive, DropActive, ReadMessage,
                logicVars, vars
  <2>2. evt.conn \in Conn /\ closer[evt.conn] = "logic" => closer'[evt.conn] = "logic"
    BY <1>0, <1>2 DEF closed
  <2> QED
    BY <1>1, <2>1, <2>2
<1> QED
  BY <1>3, <1>4, <1>5, <1>6 DEF Next, LogicStep

(* what is known of the hang-ups that were reported,                         *)
LEMMA HupsKeep ==
    ASSUME TypeOK, Pointers, NetStands, LogicStands, MapMatchesOpen, HupsNamed, HupUnlessReused,
           [Next]_vars
    PROVE  HupsNamed' /\ HupUnlessReused'
<1> USE DEF HupsNamed, HupUnlessReused, NetGoto
<1>0. None \notin Conn \cup Fd
  BY WebServerAssumption
<1>1. CASE EpollWait
  <2>1. PICK failed \in SUBSET registered : hung_up' = failed /\ batch' \subseteq Ready(failed)
    BY <1>1 DEF EpollWait
  <2>2. \A e \in batch' : e.kind = "hup" => \E c \in failed : e.fd = fd[c]
    BY <2>1 DEF Ready
  <2>3. ASSUME NEW c \in failed PROVE connections[fd[c]] = c
    <3>1. c \in Conn /\ c \in registered /\ fd[c] # None
      BY <2>1 DEF TypeOK, Pointers
    <3>2. InMap(c)
      BY <3>1 DEF MapMatchesOpen, Closing
    <3> QED
      BY <1>0, <3>1, <3>2 DEF InMap, Pointers
  <2>4. connections' = connections /\ net_pc' = "dispatch"
    BY <1>1 DEF EpollWait
  <2> QED
    BY <2>1, <2>2, <2>3, <2>4
<1>2. CASE Dispatch
  BY <1>2 DEF Dispatch, reported
<1>3. ASSUME NEW c \in Conn, NEW f \in Fd, Accept(c, f) PROVE HupsNamed' /\ HupUnlessReused'
  BY <1>3 DEF Accept, TypeOK
<1>4. CASE AcceptFails \/ Register \/ Announce \/ ReadDone \/ Sweep \/ NetExchange \/ NetDisconnect \/ NetUnregister
  BY <1>4 DEF AcceptFails, Register, Announce, ReadDone, Sweep, NetExchange, NetDisconnect, NetUnregister,
              NetReturn, reported
<1>5. CASE NetErase
  BY <1>5 DEF NetErase, NetReturn, reported, TypeOK
<1>6. CASE PopEvent \/ CheckClosed \/ Handled \/ LogicExchange \/ LogicDisconnect \/ LogicUnregister
           \/ TakeActive \/ DropActive \/ (\E m \in Msg : ReadMessage(m)) \/ UNCHANGED vars
  <2>1. UNCHANGED <<connections, batch, net_pc, net_conn, hung_up, accepted>>
    BY <1>6 DEF PopEvent, CheckClosed, Handled, LogicExchange, LogicDisconnect, LogicUnregister,
                TakeActive, DropActive, ReadMessage, netVars, vars, reported
  <2> QED
    BY <2>1
<1>7. CASE LogicErase
  BY <1>7 DEF LogicErase, netVars, reported, TypeOK
<1> QED
  BY <1>1, <1>2, <1>3, <1>4, <1>5, <1>6, <1>7 DEF Next, NetStep, LogicStep

(* and the entries of the timer heap.                                        *)
LEMMA TimerKeeps ==
    ASSUME TypeOK, Pointers, NetStands, LogicStands, TimerWatches, [Next]_vars
    PROVE  TimerWatches'
<1> USE DEF TimerWatches, InMap, NetGoto, closed
<1>0. None \notin Conn \cup Fd
  BY WebServerAssumption
<1>1. /\ \A c \in Conn : closed(c) => closer'[c] = closer[c]
      /\ ~NetExchange /\ ~LogicExchange => closer' = closer
  BY CloserKept
<1>2. CASE Dispatch
  <2>1. timed_out = {} /\ net_pc = "dispatch" /\ UNCHANGED <<fd, connections, closer, evt, logic_pc>>
    BY <1>2 DEF Dispatch, NetStands, logicVars
  <2>2. CASE UNCHANGED <<timers, timed_out>>
    BY <2>1, <2>2 DEF Closing
  <2>3. CASE check_timeouts
    <3> SUFFICES ASSUME NEW c \in Conn, InMap(c), ~closed(c) PROVE fd[c] \in timers' \/ c \in timed_out'
      BY <2>1 DEF Closing
    <3>1. fd[c] \in Fd /\ connections[fd[c]] = c
      BY <1>0 DEF Pointers
    <3>2. fd[c] \in timers
      BY <2>1 DEF Closing, TypeOK, LogicPCs
    <3> QED
      BY <1>0, <2>3, <3>1, <3>2 DEF check_timeouts
  <2> QED
    BY <1>2, <2>2, <2>3 DEF Dispatch
<1>3. ASSUME NEW c \in Conn, NEW f \in Fd, Accept(c, f) PROVE TimerWatches'
  BY <1>0, <1>3 DEF Accept, Closing, TypeOK, Pointers, logicVars
<1>4. CASE EpollWait \/ AcceptFails \/ Register \/ Announce \/ ReadDone \/ Sweep
  BY <1>4 DEF EpollWait, AcceptFails, Register, Announce, ReadDone, Sweep, Closing, logicVars
<1>5. CASE NetExchange
  <2>1. net_conn \in Conn /\ UNCHANGED <<fd, connections, timers, timed_out, evt, logic_pc>>
    BY <1>5 DEF NetExchange, NetStands, TypeOK, logicVars
  <2>2. ~closed(net_conn) => closer'[net_conn] = "net"
    BY <1>5, <2>1 DEF NetExchange, TypeOK
  <2>3. closer'[net_conn] # None
    BY <1>1, <2>1, <2>2, WebServerAssumption
  <2>4. \A c \in Conn : Closing(c, {"close"}) => c = net_conn
    BY DEF Closing, TypeOK, LogicPCs
  <2>5. \A c \in Conn : closer'[c] # None <=> closer[c] # None \/ c = net_conn
    BY <1>1, <1>5, <2>1, <2>3 DEF NetExchange, TypeOK
  <2> QED
    BY <2>1, <2>4, <2>5
<1>6. CASE NetDisconnect \/ NetUnregister \/ NetErase
  BY <1>0, <1>6 DEF NetDisconnect, NetUnregister, NetErase, NetReturn, Closing, TypeOK, NetStands, logicVars
<1>7. CASE PopEvent \/ CheckClosed \/ Handled \/ LogicDisconnect \/ LogicUnregister
           \/ TakeActive \/ DropActive \/ (\E m \in Msg : ReadMessage(m)) \/ UNCHANGED vars
  BY <1>7 DEF PopEvent, CheckClosed, Handled, LogicDisconnect, LogicUnregister, Closing,
              TakeActive, DropActive, ReadMessage, netVars, logicVars, vars, reported
<1>8. CASE LogicErase \/ LogicExchange
  BY <1>0, <1>8 DEF LogicErase, LogicExchange, netVars, Closing, TypeOK
<1> QED
  BY <1>2, <1>3, <1>4, <1>5, <1>6, <1>7, <1>8 DEF Next, NetStep, LogicStep

(* What close_conn still has to do is what tells the map and the epoll set   *)
(* of a closed connection from empty ones, and accept finds the entry of a   *)
(* free number empty.                                                        *)
LEMMA MapKeeps ==
    ASSUME MapMatchesOpen, Pointers, NetStands, LogicStands, OwnDescriptor, StreamP!OnlyConnected,
           [Next]_vars, TypeOK'
    PROVE  MapMatchesOpen'
<1> DEFINE In(c) == ~closed(c) \/ Closing(c, {"disconnect", "unregister", "erase"})
           Reg(c) == \/ ~closed(c) /\ ~(net_conn = c /\ net_pc = "register")
                     \/ Closing(c, {"disconnect", "unregister"})
<1> SUFFICES ASSUME NEW c \in Conn, fd'[c] # None
             PROVE  (InMap(c) <=> In(c))' /\ (c \in registered <=> Reg(c))'
  BY DEF MapMatchesOpen
<1> USE DEF NetGoto, closed
<1>0. None \notin Conn \cup Fd \cup {"net", "logic"} /\ TypeOK
  BY WebServerAssumption DEF MapMatchesOpen
<1>1. fd[c] # None => (InMap(c) <=> In(c)) /\ (c \in registered <=> Reg(c))
  BY DEF MapMatchesOpen
<1>2. net_pc \notin {"wait", "dispatch", "accept", "sweep"} => net_conn \in Conn /\ fd[net_conn] # None
  BY <1>0 DEF NetStands, Pointers, TypeOK
<1>3. logic_pc # "pop" => evt.conn \in Conn /\ fd[evt.conn] # None
  BY <1>0 DEF LogicStands, StreamP!Event, Pointers, Pushed
<1>4. CASE EpollWait \/ AcceptFails \/ ReadDone \/ Sweep
  <2>1. UNCHANGED <<fd, connections, registered, closer, evt, logic_pc>>
        /\ net_pc \in {"wait", "accept", "read", "sweep"} /\ net_pc' \in {"dispatch", "close"}
    BY <1>4 DEF EpollWait, AcceptFails, ReadDone, Sweep, logicVars
  <2> QED
    BY <1>1, <2>1 DEF InMap, Closing
<1>5. CASE Dispatch
  <2>1. UNCHANGED <<fd, connections, registered, closer, evt, logic_pc>>
        /\ net_pc = "dispatch" /\ net_pc' \in {"wait", "dispatch", "accept", "sweep", "hup", "read"}
    BY <1>5 DEF Dispatch, logicVars
  <2> QED
    BY <1>1, <2>1 DEF InMap, Closing
<1>6. ASSUME NEW d \in Conn, NEW f \in Fd, Accept(d, f)
      PROVE  (InMap(c) <=> In(c))' /\ (c \in registered <=> Reg(c))'
  <2>1. /\ UNCHANGED <<registered, closer, evt, logic_pc>>
        /\ fd[d] = None /\ fd' = [fd EXCEPT ![d] = f] /\ connections' = [connections EXCEPT ![f] = d]
        /\ net_conn' = d /\ net_pc = "accept" /\ net_pc' = "register" /\ f \in FreeFds
    BY <1>6 DEF Accept, logicVars
  <2>2. connections[f] = None
    <3> SUFFICES ASSUME NEW o \in Conn, connections[f] = o PROVE FALSE
      BY <1>0 DEF TypeOK
    <3>1. fd[o] = f /\ Alive(o)
      BY <1>0 DEF Pointers, Alive, InUse, InMap
    <3> QED
      BY <2>1, <3>1 DEF FreeFds
  <2>3. CASE c = d
    <3>1. closer[d] = None /\ d \notin registered /\ evt.conn # d
      <4>1. ~Pushed(d)
        BY <2>1 DEF Pushed
      <4> QED
        BY <1>0, <2>1, <4>1 DEF StreamP!OnlyConnected, announced, Pointers
    <3>2. InMap(c)'
      BY <1>0, <2>1, <2>3 DEF InMap, TypeOK
    <3> QED
      BY <2>1, <2>3, <3>1, <3>2 DEF Closing
  <2>4. CASE c # d
    <3>1. fd[c] # None
      BY <1>0, <2>1, <2>4 DEF TypeOK
    <3>2. InMap(c)' <=> InMap(c)
      BY <1>0, <2>1, <2>2, <2>4 DEF InMap, TypeOK
    <3>3. net_conn \notin Conn
      BY <1>0, <2>1 DEF NetStands
    <3> QED
      BY <1>1, <2>1, <2>4, <3>1, <3>2, <3>3 DEF Closing
  <2> QED
    BY <2>3, <2>4
<1>7. CASE Register
  <2>1. UNCHANGED <<fd, connections, closer, evt, logic_pc, net_conn>>
        /\ net_pc = "register" /\ net_pc' = "announce" /\ registered' = registered \cup {net_conn}
    BY <1>7 DEF Register, logicVars
  <2>2. closer[net_conn] = None
    <3>1. net_conn \in Conn /\ ~Pushed(net_conn)
      BY <1>2, <2>1 DEF Pushed
    <3> QED
      BY <3>1 DEF StreamP!OnlyConnected, announced
  <2> QED
    BY <1>1, <2>1, <2>2 DEF InMap, Closing
<1>8. CASE Announce \/ (\E m \in Msg : ReadMessage(m))
  <2>1. UNCHANGED <<fd, connections, registered, closer, evt, logic_pc>>
        /\ \/ net_pc = "announce" /\ net_pc' = "accept"
           \/ net_pc = "read" /\ net_pc' = "read"
    BY <1>8 DEF Announce, ReadMessage, netVars, logicVars
  <2> QED
    BY <1>1, <2>1 DEF InMap, Closing
<1>9. CASE NetExchange
  <2>1. UNCHANGED <<fd, connections, registered, evt, logic_pc>> /\ net_pc \in {"close", "hup"} /\ net_conn \in Conn
    BY <1>2, <1>9 DEF NetExchange, logicVars
  <2>2. CASE closed(net_conn)
    <3>1. UNCHANGED closer /\ net_pc' \in {"dispatch", "sweep"}
      BY <1>9, <2>2 DEF NetExchange, NetReturn
    <3> QED
      BY <1>1, <2>1, <3>1 DEF InMap, Closing
  <2>3. CASE ~closed(net_conn)
    <3>1. closer' = [closer EXCEPT ![net_conn] = "net"] /\ net_conn' = net_conn /\ net_pc' = "disconnect"
      BY <1>9, <2>3 DEF NetExchange
    <3>2. closer'[c] = IF c = net_conn THEN "net" ELSE closer[c]
      BY <1>0, <3>1 DEF TypeOK
    <3> QED
      BY <1>0, <1>1, <2>1, <2>3, <3>1, <3>2 DEF InMap, Closing
  <2> QED
    BY <2>2, <2>3
<1>10. CASE NetDisconnect \/ NetUnregister
  <2>1. UNCHANGED <<fd, connections, closer, evt, logic_pc, net_conn>> /\ net_conn \in Conn
        /\ \/ net_pc = "disconnect" /\ net_pc' = "unregister" /\ registered' = registered
           \/ net_pc = "unregister" /\ net_pc' = "erase" /\ registered' = registered \ {net_conn}
    BY <1>2, <1>10 DEF NetDisconnect, NetUnregister, logicVars
  <2>2. closer[net_conn] = "net" /\ ~(logic_pc \in {"disconnect", "unregister", "erase"} /\ evt.conn = net_conn)
    BY <2>1 DEF NetStands, LogicStands
  <2> QED
    BY <1>0, <1>1, <2>1, <2>2 DEF InMap, Closing
<1>11. CASE NetErase
  <2>1. UNCHANGED <<fd, registered, closer, evt, logic_pc>> /\ net_conn \in Conn
        /\ net_pc = "erase" /\ net_pc' \in {"dispatch", "sweep"}
        /\ connections' = [connections EXCEPT ![fd[net_conn]] = None]
    BY <1>2, <1>11 DEF NetErase, NetReturn, logicVars
  <2>2. closer[net_conn] = "net" /\ ~(logic_pc \in {"disconnect", "unregister", "erase"} /\ evt.conn = net_conn)
    BY <2>1 DEF NetStands, LogicStands
  <2>3. connections[fd[net_conn]] = net_conn
    BY <2>1 DEF OwnDescriptor, Closing
  <2>4. InMap(c)' <=> InMap(c) /\ c # net_conn
    BY <1>0, <2>1, <2>3 DEF InMap, TypeOK, Pointers
  <2> QED
    BY <1>0, <1>1, <2>1, <2>2, <2>4 DEF Closing
<1>12. CASE PopEvent \/ CheckClosed \/ Handled
  <2>1. UNCHANGED <<fd, connections, registered, closer, net_conn, net_pc>>
        /\ logic_pc \in {"pop", "check", "handle"} /\ logic_pc' \in {"pop", "check", "handle"}
    BY <1>12 DEF PopEvent, CheckClosed, Handled, netVars
  <2> QED
    BY <1>1, <2>1 DEF InMap, Closing
<1>13. CASE LogicExchange
  <2>1. UNCHANGED <<fd, connections, registered, net_conn, net_pc, evt>> /\ evt.conn \in Conn
        /\ closer[evt.conn] = None /\ closer' = [closer EXCEPT ![evt.conn] = "logic"]
        /\ logic_pc = "handle" /\ logic_pc' = "disconnect"
    BY <1>3, <1>13 DEF LogicExchange, netVars
  <2>2. ~(net_pc = "register" /\ net_conn = evt.conn)
    BY <1>0, <2>1 DEF Pointers, Pushed
  <2>3. closer'[c] = IF c = evt.conn THEN "logic" ELSE closer[c]
    BY <1>0, <2>1 DEF TypeOK
  <2> QED
    BY <1>0, <1>1, <2>1, <2>2, <2>3 DEF InMap, Closing
<1>14. CASE LogicDisconnect \/ LogicUnregister
  <2>1. UNCHANGED <<fd, connections, closer, evt, net_pc, net_conn>> /\ evt.conn \in Conn
        /\ \/ logic_pc = "disconnect" /\ logic_pc' = "unregister" /\ registered' = registered
           \/ logic_pc = "unregister" /\ logic_pc' = "erase" /\ registered' = registered \ {evt.conn}
    BY <1>3, <1>14 DEF LogicDisconnect, LogicUnregister, netVars
  <2>2. closer[evt.conn] = "logic" /\ ~(net_pc \in {"disconnect", "unregister", "erase"} /\ net_conn = evt.conn)
    BY <2>1 DEF NetStands, LogicStands
  <2> QED
    BY <1>0, <1>1, <2>1, <2>2 DEF InMap, Closing
<1>15. CASE LogicErase
  <2>1. UNCHANGED <<fd, registered, closer, evt, net_pc, net_conn>> /\ evt.conn \in Conn
        /\ logic_pc = "erase" /\ logic_pc' = "pop"
        /\ connections' = [connections EXCEPT ![fd[evt.conn]] = None]
    BY <1>3, <1>15 DEF LogicErase, netVars
  <2>2. closer[evt.conn] = "logic" /\ ~(net_pc \in {"disconnect", "unregister", "erase"} /\ net_conn = evt.conn)
    BY <2>1 DEF NetStands, LogicStands
  <2>3. connections[fd[evt.conn]] = evt.conn
    BY <2>1 DEF OwnDescriptor, Closing
  <2>4. InMap(c)' <=> InMap(c) /\ c # evt.conn
    BY <1>0, <2>1, <2>3 DEF InMap, TypeOK, Pointers
  <2> QED
    BY <1>0, <1>1, <2>1, <2>2, <2>4 DEF Closing
<1>16. CASE TakeActive \/ DropActive \/ UNCHANGED vars
  BY <1>1, <1>16 DEF TakeActive, DropActive, netVars, vars, InMap, Closing
<1> QED
  BY <1>4, <1>5, <1>6, <1>7, <1>8, <1>9, <1>10, <1>11, <1>12, <1>13, <1>14, <1>15, <1>16
     DEF Next, NetStep, LogicStep

(* And so every step keeps OwnDescriptor.                                    *)
LEMMA OwnDescriptorKeeps ==
    ASSUME OwnDescriptor, NetStands, LogicStands, TypeOK, [Next]_vars,
           MapMatchesOpen', Pointers', NetStands', LogicStands'
    PROVE  OwnDescriptor'
<1>0. None \notin Conn \cup Fd \cup {"net", "logic"} /\ TypeOK'
  BY WebServerAssumption DEF MapMatchesOpen
<1>1. ASSUME NEW c \in Conn, Closing(c, {"disconnect", "unregister", "erase"})'
      PROVE  connections'[fd'[c]] = c
  <2>1. fd'[c] # None
    BY <1>0, <1>1 DEF Closing, Pointers, Pushed
  <2>2. InMap(c)'
    BY <1>1, <2>1 DEF MapMatchesOpen
  <2>3. PICK f \in Fd : connections'[f] = c
    BY <2>2 DEF InMap
  <2>4. fd'[c] = f
    BY <1>0, <2>3 DEF Pointers
  <2> QED
    BY <2>3, <2>4
(* Nobody shares a number after the step who did not before, but the         *)
(* connection that accept_loop gives the number of a dead one.               *)
<1>2. ASSUME NEW c \in Conn, NEW d \in Conn, c # d, fd'[c] # None, fd'[c] = fd'[d], Alive(c)', Alive(d)'
      PROVE  FALSE
  <2>1. ASSUME NEW e \in Conn, NEW f \in Fd, Accept(e, f) PROVE FALSE
    <3>1. f \in FreeFds /\ fd' = [fd EXCEPT ![e] = f] /\ fd \in [Conn -> Fd \cup {None}]
      BY <2>1 DEF Accept, TypeOK
    <3>2. \A g \in Fd : \A o \in Conn \ {e} : ~Accept(o, g)
      BY <2>1, WebServerAssumption DEF Accept
    <3>3. \A o \in Conn : o # e /\ Alive(o)' => Alive(o)
      BY <3>2, AliveShrinks
    <3>4. CASE c = e
      BY <1>2, <3>1, <3>3, <3>4 DEF FreeFds
    <3>5. CASE d = e
      BY <1>2, <3>1, <3>3, <3>5 DEF FreeFds
    <3>6. CASE c # e /\ d # e
      BY <1>2, <3>1, <3>3, <3>6 DEF OwnDescriptor
    <3> QED
      BY <3>4, <3>5, <3>6
  <2>2. CASE \A e \in Conn, f \in Fd : ~Accept(e, f)
    <3>1. fd' = fd
      BY <2>2 DEF Next, NetStep, LogicStep, EpollWait, Dispatch, AcceptFails, Register, Announce, ReadDone,
         Sweep, NetExchange, NetDisconnect, NetUnregister, NetErase, ReadMessage, PopEvent, CheckClosed,
         Handled, LogicExchange, LogicDisconnect, LogicUnregister, LogicErase, TakeActive, DropActive, vars
    <3>2. Alive(c) /\ Alive(d)
      BY <1>2, <2>2, AliveShrinks
    <3> QED
      BY <1>2, <3>1, <3>2 DEF OwnDescriptor
  <2> QED
    BY <2>1, <2>2
<1> QED
  BY <1>1, <1>2 DEF OwnDescriptor

-----------------------------------------------------------------------------
(* The refinement: every step is a step of EventStream or leaves what        *)
(* EventStream sees as it is.                                                *)

(* The stage of a connection in terms of what else EventStream sees.         *)
SeenView ==
    \A c \in Conn : seen[c] =
        IF c \notin announced \/ Waiting(Event("CONNECT", c, None)) THEN "unseen"
        ELSE IF ~closed(c) \/ reporting["net"] = c \/ reporting["logic"] = c
                    \/ Waiting(Event("DISCONNECT", c, None)) THEN "open" ELSE "gone"

(* This is what seen is, now and after a step.                               *)
LEMMA SeenIs == SeenView /\ SeenView'
BY WebServerAssumption DEF SeenView, seen, announced, reporting, Closing

(* What it depends on stays as it is.                                        *)
SameFor(c) ==
    /\ c \in announced' <=> c \in announced
    /\ closed(c)' <=> closed(c)
    /\ \A t \in {"net", "logic"} : reporting'[t] = c <=> reporting[t] = c
    /\ Waiting(Event("CONNECT", c, None))' <=> Waiting(Event("CONNECT", c, None))
    /\ Waiting(Event("DISCONNECT", c, None))' <=> Waiting(Event("DISCONNECT", c, None))

(* Then the stage stays.                                                     *)
LEMMA SeenKept ==
    /\ \A c \in Conn : SameFor(c) => seen'[c] = seen[c]
    /\ (\A c \in Conn : seen'[c] = seen[c]) => seen' = seen
<1>1. seen = [c \in Conn |-> seen[c]] /\ seen' = [c \in Conn |-> seen'[c]]
  BY DEF seen
<1>2. \A c \in Conn : SameFor(c) => seen'[c] = seen[c]
  BY SeenIs DEF SeenView, SameFor
<1> QED
  BY <1>1, <1>2

(* A step that changes nothing of this is a stutter of the stream.           *)
LEMMA QuietStep ==
    ASSUME announced' = announced, reporting' = reporting, handled' = handled,
           UNCHANGED <<closer, event_queue>>
    PROVE  UNCHANGED StreamP!streamVars
<1>1. \A c \in Conn : SameFor(c)
  BY DEF SameFor, Waiting, closed, Event
<1>2. seen' = seen
  BY <1>1, SeenKept
<1> QED
  BY <1>2 DEF StreamP!streamVars

(* The steps that EventStream does not see.                                  *)
LEMMA QuietSteps ==
    ASSUME TypeOK, Pointers, NetStands, LogicStands, [Next]_vars,
           \/ EpollWait \/ Dispatch \/ AcceptFails \/ Register \/ ReadDone \/ Sweep
           \/ \E c \in Conn, f \in Fd : Accept(c, f)
           \/ NetUnregister \/ NetErase \/ LogicUnregister \/ LogicErase \/ TakeActive \/ DropActive
           \/ UNCHANGED vars
    PROVE  UNCHANGED StreamP!streamVars
<1>1. UNCHANGED <<closer, event_queue, evt>>
  BY DEF EpollWait, Dispatch, AcceptFails, Register, ReadDone, Sweep, Accept, NetUnregister, NetErase,
         LogicUnregister, LogicErase, TakeActive, DropActive, netVars, logicVars, vars
<1>2. ~Announce
  BY DEF Announce, EpollWait, Dispatch, AcceptFails, Register, ReadDone, Sweep, Accept, NetUnregister, NetErase,
         LogicUnregister, LogicErase, TakeActive, DropActive, netVars, vars, NetGoto
<1>3. announced' = announced
  BY <1>2, AnnouncedGrows
<1>4. \/ net_pc' = net_pc /\ net_conn' = net_conn
      \/ net_pc # "disconnect" /\ net_pc' # "disconnect"
  BY DEF EpollWait, Dispatch, AcceptFails, Register, ReadDone, Sweep, Accept, NetUnregister, NetErase,
         LogicUnregister, LogicErase, TakeActive, DropActive, netVars, vars, NetGoto, NetReturn
<1>5. \/ logic_pc' = logic_pc
      \/ logic_pc \notin {"check", "handle", "disconnect"} /\ logic_pc' \notin {"check", "handle", "disconnect"}
  BY DEF EpollWait, Dispatch, AcceptFails, Register, ReadDone, Sweep, Accept, NetUnregister, NetErase,
         LogicUnregister, LogicErase, TakeActive, DropActive, logicVars, vars
<1>6. reporting' = reporting
  BY <1>1, <1>4, <1>5 DEF reporting
<1>7. handled' = handled
  BY <1>1, <1>5 DEF handled
<1> QED
  BY <1>1, <1>3, <1>6, <1>7, QuietStep

(* The steps that EventStream sees.                                          *)
LEMMA AnnounceStep ==
    ASSUME TypeOK, Pointers, NetStands, LogicStands, [Next]_vars, Announce
    PROVE  StreamP!StreamNext
<1> PICK c \in Conn : c = net_conn
  BY DEF Announce, NetStands, TypeOK
<1>1. /\ net_pc = "announce" /\ net_pc' = "accept" /\ Len(event_queue) < MaxQueue
      /\ push(Event("CONNECT", c, None)) /\ UNCHANGED <<closer, evt, logic_pc>>
  BY DEF Announce, NetGoto, logicVars
<1>2. c \notin announced /\ announced' = announced \cup {c}
  BY <1>1, AnnouncedGrows DEF announced, Pushed
<1>3. reporting' = reporting /\ reporting["net"] = None /\ handled' = handled
  BY <1>1 DEF reporting, handled
<1>4. \A d : Waiting(d)' <=> Waiting(d) \/ d = Event("CONNECT", c, None)
  BY <1>1, PushWaits
<1>5. seen' = seen
  <2>1. ASSUME NEW d \in Conn, d # c PROVE SameFor(d)
    BY <1>1, <1>2, <1>3, <1>4, <2>1 DEF SameFor, closed, Event
  <2>2. seen[c] = "unseen" /\ seen'[c] = "unseen"
    BY <1>2, <1>4, SeenIs DEF SeenView
  <2> QED
    BY <2>1, <2>2, SeenKept
<1>6. StreamP!PushConnect(c)
  BY <1>1, <1>2, <1>3, <1>5 DEF StreamP!PushConnect, StreamP!push, StreamP!ConnectEvent, push, Event
<1> QED
  BY <1>6 DEF StreamP!StreamNext

(* A message that is read is PushMessage of the stream.                      *)
LEMMA ReadStep ==
    ASSUME TypeOK, Pointers, NetStands, LogicStands, [Next]_vars, NEW m \in Msg, ReadMessage(m)
    PROVE  StreamP!StreamNext
<1> PICK c \in Conn : c = net_conn
  BY DEF ReadMessage, NetStands, TypeOK
<1>1. /\ net_pc = "read" /\ Len(event_queue) < MaxQueue /\ push(Event("MESSAGE", c, m))
      /\ UNCHANGED <<fd, closer, evt, logic_pc, net_pc, net_conn>>
  BY DEF ReadMessage, netVars, logicVars
<1>2. c \in announced /\ announced' = announced
  BY <1>1, WebServerAssumption DEF announced, Pushed, Pointers
<1>3. reporting' = reporting /\ reporting["net"] = None /\ handled' = handled
  BY <1>1 DEF reporting, handled
<1>4. \A d : Waiting(d)' <=> Waiting(d) \/ d = Event("MESSAGE", c, m)
  BY <1>1, PushWaits
<1>5. seen' = seen
  <2>1. ASSUME NEW d \in Conn PROVE SameFor(d)
    BY <1>1, <1>2, <1>3, <1>4 DEF SameFor, closed, Event
  <2> QED
    BY <2>1, SeenKept
<1>6. closer[c] # "net"
  BY <1>1 DEF NetStands
<1>7. StreamP!PushMessage(c, m)
  BY <1>1, <1>2, <1>3, <1>5, <1>6 DEF StreamP!PushMessage, StreamP!push, StreamP!MessageEvent, push, Event
<1> QED
  BY <1>7 DEF StreamP!StreamNext

(* The exchange of close_conn is CloseConn of the stream.                    *)
LEMMA ExchangeStep ==
    ASSUME TypeOK, Pointers, NetStands, LogicStands, [Next]_vars, NetExchange
    PROVE  StreamP!StreamNext \/ UNCHANGED StreamP!streamVars
<1> PICK c \in Conn : c = net_conn
  BY DEF NetExchange, NetStands, TypeOK
<1>1. /\ net_pc \in {"close", "hup"} /\ UNCHANGED <<fd, event_queue, evt, logic_pc>>
  BY DEF NetExchange, NetGoto, logicVars
<1>2. c \in announced /\ announced' = announced /\ handled' = handled
  BY <1>1, AnnouncedGrows, WebServerAssumption DEF announced, Pushed, Pointers, Announce, handled
<1>3. CASE closed(c)
  <2>1. closer' = closer /\ net_pc' \in {"dispatch", "sweep"}
    BY <1>3 DEF NetExchange, NetReturn, NetGoto
  <2>2. reporting' = reporting
    BY <1>1, <2>1 DEF reporting
  <2> QED
    BY <1>1, <1>2, <2>1, <2>2, QuietStep
<1>4. CASE ~closed(c)
  <2>1. closer' = [closer EXCEPT ![c] = "net"] /\ net_conn' = c /\ net_pc' = "disconnect"
    BY <1>4 DEF NetExchange, NetGoto
  <2>2. reporting' = [reporting EXCEPT !["net"] = c] /\ reporting["net"] = None
    BY <1>1, <2>1 DEF reporting
  <2>3. /\ \A d \in Conn : closer'[d] = IF d = c THEN "net" ELSE closer[d]
        /\ reporting'["net"] = c /\ reporting'["logic"] = reporting["logic"]
    BY <2>1, <2>2 DEF TypeOK, reporting
  <2>4. \A e : Waiting(e)' <=> Waiting(e)
    BY <1>1 DEF Waiting
  <2>5. seen' = seen
    <3>1. ASSUME NEW d \in Conn, d # c PROVE SameFor(d)
      BY <1>1, <1>2, <2>2, <2>3, <2>4, <3>1, WebServerAssumption DEF SameFor, closed
    <3>2. seen'[c] = seen[c]
      <4>1. Waiting(Event("CONNECT", c, None))' <=> Waiting(Event("CONNECT", c, None))
        BY <2>4
      <4> QED
        BY <1>2, <1>4, <2>3, <4>1, SeenIs DEF SeenView
    <3> QED
      BY <3>1, <3>2, SeenKept
  <2>6. StreamP!NetClose(c)
    BY <1>1, <1>2, <1>4, <2>1, <2>2, <2>5 DEF StreamP!NetClose, StreamP!CloseConn, StreamP!closed, closed
  <2> QED
    BY <2>6 DEF StreamP!StreamNext
<1> QED
  BY <1>3, <1>4

(* The push of the reactor is PushDisconnect,                                *)
LEMMA NetDisconnectStep ==
    ASSUME TypeOK, Pointers, NetStands, LogicStands, [Next]_vars, NetDisconnect
    PROVE  StreamP!StreamNext
<1> PICK c \in Conn : c = net_conn
  BY DEF NetDisconnect, NetStands, TypeOK
<1>1. /\ net_pc = "disconnect" /\ net_pc' = "unregister" /\ push(Event("DISCONNECT", c, None))
      /\ UNCHANGED <<fd, closer, evt, logic_pc, net_conn>>
  BY DEF NetDisconnect, NetGoto, logicVars
<1>2. announced' = announced /\ handled' = handled
  BY <1>1, AnnouncedGrows DEF Announce, NetGoto, handled
<1>3. reporting["net"] = c /\ reporting' = [reporting EXCEPT !["net"] = None] /\ c # None
  BY <1>1, WebServerAssumption DEF reporting
<1>4. \A d : Waiting(d)' <=> Waiting(d) \/ d = Event("DISCONNECT", c, None)
  BY <1>1, PushWaits
<1>5. seen' = seen
  <2>0. reporting'["net"] = None /\ reporting'["logic"] = reporting["logic"]
    BY <1>3 DEF reporting
  <2>1. ASSUME NEW d \in Conn, d # c PROVE SameFor(d)
    BY <1>1, <1>2, <1>3, <1>4, <2>0, <2>1, WebServerAssumption DEF SameFor, closed, Event
  <2>2. seen'[c] = seen[c]
    <3>1. Waiting(Event("CONNECT", c, None))' <=> Waiting(Event("CONNECT", c, None))
      BY <1>4 DEF Event
    <3>2. Waiting(Event("DISCONNECT", c, None))'
      BY <1>4
    <3> QED
      BY <1>2, <1>3, <3>1, <3>2, SeenIs DEF SeenView
  <2> QED
    BY <2>1, <2>2, SeenKept
<1>6. StreamP!PushDisconnect("net")
  BY <1>1, <1>2, <1>3, <1>5 DEF StreamP!PushDisconnect, StreamP!push, StreamP!DisconnectEvent, push, Event
<1> QED
  BY <1>6 DEF StreamP!StreamNext, StreamP!Thread

(* and that of the logic thread as well.                                     *)
LEMMA LogicDisconnectStep ==
    ASSUME TypeOK, Pointers, NetStands, LogicStands, [Next]_vars, LogicDisconnect
    PROVE  StreamP!StreamNext
<1> PICK c \in Conn : c = evt.conn
  BY DEF LogicDisconnect, LogicStands, StreamP!Event
<1>1. /\ logic_pc = "disconnect" /\ logic_pc' = "unregister" /\ push(Event("DISCONNECT", c, None))
      /\ UNCHANGED <<fd, closer, evt, net_pc, net_conn>>
  BY DEF LogicDisconnect, netVars
<1>2. announced' = announced /\ handled' = handled
  BY <1>1, AnnouncedGrows DEF Announce, NetGoto, handled
<1>3. reporting["logic"] = c /\ reporting' = [reporting EXCEPT !["logic"] = None] /\ c # None
  BY <1>1, WebServerAssumption DEF reporting
<1>4. \A d : Waiting(d)' <=> Waiting(d) \/ d = Event("DISCONNECT", c, None)
  BY <1>1, PushWaits
<1>5. seen' = seen
  <2>0. reporting'["logic"] = None /\ reporting'["net"] = reporting["net"]
    BY <1>3 DEF reporting
  <2>1. ASSUME NEW d \in Conn, d # c PROVE SameFor(d)
    BY <1>1, <1>2, <1>3, <1>4, <2>0, <2>1, WebServerAssumption DEF SameFor, closed, Event
  <2>2. seen'[c] = seen[c]
    <3>1. Waiting(Event("CONNECT", c, None))' <=> Waiting(Event("CONNECT", c, None))
      BY <1>4 DEF Event
    <3>2. Waiting(Event("DISCONNECT", c, None))'
      BY <1>4
    <3> QED
      BY <1>2, <1>3, <3>1, <3>2, SeenIs DEF SeenView
  <2> QED
    BY <2>1, <2>2, SeenKept
<1>6. StreamP!PushDisconnect("logic")
  BY <1>1, <1>2, <1>3, <1>5 DEF StreamP!PushDisconnect, StreamP!push, StreamP!DisconnectEvent, push, Event
<1> QED
  BY <1>6 DEF StreamP!StreamNext, StreamP!Thread

(* What the logic thread has in hand is an event, never the empty one.       *)
LEMMA InHand ==
    ASSUME LogicStands, logic_pc \in {"check", "handle"}
    PROVE  handled = evt /\ handled # StreamP!NoEvent /\ evt.conn \in Conn
<1>1. evt \in StreamP!Event /\ handled = evt
  BY DEF LogicStands, handled
<1>2. StreamP!NoEvent \notin StreamP!Event
  BY Zenon DEF StreamP!NoEvent, StreamP!Event
<1> QED
  BY <1>1, <1>2 DEF StreamP!Event

(* The end of a handler is Handle of the stream, a look at closed nothing.   *)
LEMMA HandledStep ==
    ASSUME TypeOK, Pointers, NetStands, LogicStands, [Next]_vars, CheckClosed \/ Handled
    PROVE  StreamP!StreamNext \/ UNCHANGED StreamP!streamVars
<1>1. /\ UNCHANGED <<fd, closer, evt, net_pc, net_conn, event_queue>>
      /\ logic_pc \in {"check", "handle"} /\ logic_pc' \in {"handle", "pop"}
  BY DEF CheckClosed, Handled, netVars
<1>2. announced' = announced
  BY <1>1, AnnouncedGrows DEF Announce, NetGoto
<1>3. reporting' = reporting
  BY <1>1 DEF reporting
<1>4. CASE logic_pc' = "handle"
  BY <1>1, <1>2, <1>3, <1>4, QuietStep DEF handled
<1>5. CASE logic_pc' = "pop"
  <2>1. handled' = StreamP!NoEvent
    BY <1>5 DEF handled, StreamP!NoEvent
  <2>2. \A e : Waiting(e)' <=> Waiting(e)
    BY <1>1 DEF Waiting
  <2>3. \A d \in Conn : SameFor(d)
    BY <1>1, <1>2, <1>3, <2>2 DEF SameFor, closed
  <2>4. StreamP!Handle
    BY <1>1, <1>2, <1>3, <2>1, <2>3, InHand, SeenKept DEF StreamP!Handle
  <2> QED
    BY <2>4 DEF StreamP!StreamNext
<1> QED
  BY <1>1, <1>4, <1>5

(* The exchange in the logic thread, while it handles an event.              *)
LEMMA LogicExchangeStep ==
    ASSUME TypeOK, Pointers, NetStands, LogicStands, [Next]_vars, LogicExchange
    PROVE  StreamP!StreamNext
<1> PICK c \in Conn : c = evt.conn
  BY DEF LogicExchange, LogicStands, StreamP!Event
<1>1. /\ logic_pc = "handle" /\ logic_pc' = "disconnect" /\ evt.type = "MESSAGE" /\ ~closed(c)
      /\ closer' = [closer EXCEPT ![c] = "logic"] /\ UNCHANGED <<fd, event_queue, evt, net_pc, net_conn>>
  BY DEF LogicExchange, netVars
<1>2. c \in announced /\ announced' = announced
  BY <1>1, AnnouncedGrows, WebServerAssumption DEF announced, Pointers, Announce, NetGoto
<1>3. handled = evt /\ handled # StreamP!NoEvent /\ handled' = StreamP!NoEvent
  BY <1>1, InHand DEF handled, StreamP!NoEvent
<1>4. reporting["logic"] = None /\ reporting' = [reporting EXCEPT !["logic"] = c]
  BY <1>1 DEF reporting
<1>5. seen' = seen
  <2>1. /\ \A d \in Conn : closer'[d] = IF d = c THEN "logic" ELSE closer[d]
        /\ reporting'["logic"] = c /\ reporting'["net"] = reporting["net"]
    BY <1>1, <1>4 DEF TypeOK, reporting
  <2>2. \A e : Waiting(e)' <=> Waiting(e)
    BY <1>1 DEF Waiting
  <2>3. ASSUME NEW d \in Conn, d # c PROVE SameFor(d)
    BY <1>2, <1>4, <2>1, <2>2, <2>3, WebServerAssumption DEF SameFor, closed
  <2>4. seen'[c] = seen[c]
    <3>1. Waiting(Event("CONNECT", c, None))' <=> Waiting(Event("CONNECT", c, None))
      BY <2>2
    <3> QED
      BY <1>1, <1>2, <2>1, <3>1, SeenIs DEF SeenView
  <2> QED
    BY <2>3, <2>4, SeenKept
<1>6. StreamP!CloseConn("logic", c)
  BY <1>1, <1>2, <1>4 DEF StreamP!CloseConn, StreamP!closed, closed
<1>7. StreamP!Handle
  BY <1>1, <1>2, <1>3, <1>5, <1>6 DEF StreamP!Handle
<1> QED
  BY <1>7 DEF StreamP!StreamNext

(* Popping is popping.                                                       *)
LEMMA PopStep ==
    ASSUME TypeOK, Pointers, NetStands, LogicStands, StreamP!StreamIInv, [Next]_vars, PopEvent
    PROVE  StreamP!StreamNext
<1> USE DEF StreamP!StreamIInv
<1>0. event_queue \in Seq(StreamP!Event) /\ event_queue # <<>>
  BY DEF StreamP!StreamTypeOK, PopEvent
<1>h. PICK h \in StreamP!Event : h = Head(event_queue)
  BY <1>0, QueueFacts
<1>c. PICK c \in Conn : c = h.conn
  BY DEF StreamP!Event
<1>1. /\ logic_pc = "pop" /\ logic_pc' = "check" /\ evt' = h /\ event_queue' = Tail(event_queue)
      /\ UNCHANGED <<fd, closer, net_pc, net_conn>>
  BY <1>h DEF PopEvent, netVars
<1>2. announced' = announced
  BY <1>1, AnnouncedGrows DEF Announce, NetGoto
<1>3. reporting' = reporting /\ reporting["logic"] = None /\ handled = StreamP!NoEvent /\ handled' = h
  BY <1>1 DEF reporting, handled, StreamP!NoEvent
<1>4. \A d : Waiting(d) <=> Waiting(d)' \/ d = h
  BY <1>1, PopWaits
<1>5. /\ h.type \in {"CONNECT", "DISCONNECT", "MESSAGE"}
      /\ h.type = "CONNECT" <=> h = Event("CONNECT", c, None)
      /\ h.type = "DISCONNECT" <=> h = Event("DISCONNECT", c, None)
  BY <1>c DEF StreamP!Event, Event
<1>n. /\ Len(event_queue) \in Nat \ {0} /\ event_queue[1] = h /\ Len(event_queue') = Len(event_queue) - 1
      /\ \A i \in 1..Len(event_queue) - 1 : event_queue'[i] = event_queue[i + 1]
  BY <1>0, <1>1, <1>h, QueueFacts
(* What is popped was queued once only.                                      *)
<1>6. ASSUME NEW e, Waiting(e)'
      PROVE  \E i \in 1..Len(event_queue) : 1 < i /\ event_queue[i] = e
  <2>1. PICK i \in 1..Len(event_queue) - 1 : event_queue'[i] = e
    BY <1>6, <1>n DEF Waiting
  <2>2. i + 1 \in 1..Len(event_queue) /\ 1 < i + 1 /\ event_queue[i + 1] = e
    BY <1>n, <2>1
  <2> QED
    BY <2>2
<1>7. ~Waiting(Event("CONNECT", c, None))'
  <2> SUFFICES ASSUME Waiting(Event("CONNECT", c, None))' PROVE FALSE
    OBVIOUS
  <2>1. PICK i \in 1..Len(event_queue) : 1 < i /\ event_queue[i] = Event("CONNECT", c, None)
    BY <1>6
  <2>2. event_queue[i].type = "CONNECT" /\ event_queue[i].conn = event_queue[1].conn /\ 1 \in 1..Len(event_queue)
    BY <1>c, <1>n, <2>1 DEF Event
  <2> QED
    BY <2>1, <2>2 DEF StreamP!ConnectFirst
<1>8. h = Event("DISCONNECT", c, None) => ~Waiting(Event("DISCONNECT", c, None))'
  <2> SUFFICES ASSUME h = Event("DISCONNECT", c, None), Waiting(Event("DISCONNECT", c, None))' PROVE FALSE
    OBVIOUS
  <2>1. PICK i \in 1..Len(event_queue) : 1 < i /\ event_queue[i] = Event("DISCONNECT", c, None)
    BY <1>6
  <2>2. Event("DISCONNECT", c, None) = StreamP!DisconnectEvent(c) /\ 1 \in 1..Len(event_queue)
    BY <1>n DEF StreamP!DisconnectEvent, Event
  <2> QED
    BY <1>n, <2>1, <2>2 DEF StreamP!OneDisconnect
<1>9. c \in announced
  BY <1>c, <1>n DEF StreamP!OnlyConnected
<1>10. /\ closed(c) <=> \/ reporting["net"] = c \/ reporting["logic"] = c
                        \/ Waiting(Event("DISCONNECT", c, None)) \/ seen[c] = "gone"
       /\ ~((reporting["net"] = c \/ reporting["logic"] = c) /\ Waiting(Event("DISCONNECT", c, None)))
  BY DEF StreamP!OneDisconnect, StreamP!closed, closed, StreamP!Pushing, StreamP!Thread, StreamP!Queued,
         Waiting, StreamP!DisconnectEvent, Event
<1>11. /\ closed(c)' <=> closed(c)
       /\ reporting'["net"] = reporting["net"] /\ reporting'["logic"] = reporting["logic"]
  BY <1>1, <1>3 DEF closed
<1>12. seen'[c] = StreamP!StageAfter(h)
  <2>1. seen[c] = "unseen" <=> Waiting(Event("CONNECT", c, None))
    BY <1>9, SeenIs DEF SeenView
  <2>2. CASE h.type = "CONNECT"
    <3>1. h = Event("CONNECT", c, None) /\ h # Event("DISCONNECT", c, None)
      BY <1>5, <2>2 DEF Event
    <3>2. seen[c] = "unseen" /\ (Waiting(Event("DISCONNECT", c, None))' <=> Waiting(Event("DISCONNECT", c, None)))
      BY <1>4, <2>1, <3>1
    <3>3. seen'[c] = "open"
      BY <1>2, <1>7, <1>9, <1>10, <1>11, <3>2, SeenIs DEF SeenView
    <3> QED
      BY <2>2, <3>3 DEF StreamP!StageAfter
  <2>3. CASE h.type = "DISCONNECT"
    <3>1. Waiting(Event("DISCONNECT", c, None)) /\ ~Waiting(Event("DISCONNECT", c, None))'
      BY <1>4, <1>5, <1>8, <2>3
    <3>2. seen'[c] = "gone"
      BY <1>2, <1>7, <1>9, <1>10, <1>11, <3>1, SeenIs DEF SeenView
    <3> QED
      BY <2>3, <3>2 DEF StreamP!StageAfter
  <2>4. CASE h.type = "MESSAGE"
    <3>1. SameFor(c)
      BY <1>2, <1>4, <1>5, <1>11, <2>4 DEF SameFor
    <3> QED
      BY <1>c, <2>4, <3>1, SeenKept DEF StreamP!StageAfter
  <2> QED
    BY <1>5, <2>2, <2>3, <2>4
<1>13. seen' = [seen EXCEPT ![c] = StreamP!StageAfter(h)]
  <2>1. ASSUME NEW d \in Conn, d # c PROVE seen'[d] = seen[d]
    <3>1. h # Event("CONNECT", d, None) /\ h # Event("DISCONNECT", d, None)
      BY <1>c, <2>1 DEF Event
    <3>2. SameFor(d)
      BY <1>1, <1>2, <1>3, <1>4, <3>1 DEF SameFor, closed
    <3> QED
      BY <3>2, SeenKept
  <2>2. seen = [d \in Conn |-> seen[d]] /\ seen' = [d \in Conn |-> seen'[d]]
    BY DEF seen
  <2> QED
    BY <1>12, <2>1, <2>2
<1>14. StreamP!Pop
  BY <1>0, <1>1, <1>2, <1>3, <1>h, <1>c, <1>13 DEF StreamP!Pop
<1> QED
  BY <1>14 DEF StreamP!StreamNext

-----------------------------------------------------------------------------
(* The inductive invariant holds, and with it what the runs check.           *)
LEMMA StepsMap ==
    ASSUME IInv, [Next]_vars
    PROVE  [StreamP!StreamNext]_StreamP!streamVars
<1> USE DEF IInv, MapMatchesOpen
<1>1. CASE Announce \/ (\E m \in Msg : ReadMessage(m))
  BY <1>1, AnnounceStep, ReadStep
<1>2. CASE NetExchange \/ NetDisconnect
  BY <1>2, ExchangeStep, NetDisconnectStep
<1>3. CASE LogicExchange \/ LogicDisconnect \/ CheckClosed \/ Handled \/ PopEvent
  BY <1>3, LogicExchangeStep, LogicDisconnectStep, HandledStep, PopStep
<1> QED
  BY <1>1, <1>2, <1>3, QuietSteps DEF Next, NetStep, LogicStep

(* The invariant holds at the start,                                         *)
LEMMA WebServerIInvInit == Init => IInv /\ StreamP!StreamInit
<1> SUFFICES ASSUME Init PROVE IInv /\ StreamP!StreamInit
  OBVIOUS
<1>1. None \notin Conn \cup Fd \cup {"net", "logic"} /\ TypeOK
  BY WebServerTypeInit, WebServerAssumption
<1>2. ~\E c \in Conn : InMap(c) \/ fd[c] # None
  BY <1>1 DEF Init, InMap
<1>3. evt.conn = None /\ net_conn = None
  BY DEF Init, Event
<1>4. Pointers /\ NetStands /\ LogicStands /\ HupsNamed /\ MapMatchesOpen /\ OwnDescriptor
      /\ TimerWatches /\ HupUnlessReused
  BY <1>1, <1>2, <1>3 DEF Init, Pointers, NetStands, LogicStands, HupsNamed, MapMatchesOpen, OwnDescriptor,
     TimerWatches, HupUnlessReused, Closing
<1>5. StreamP!StreamInit
  <2>1. announced = {}
    BY <1>2 DEF announced, Pushed
  <2>2. seen = [c \in Conn |-> "unseen"]
    BY <1>2 DEF seen, Pushed
  <2>3. reporting = [t \in StreamP!Thread |-> None]
    BY DEF reporting, Init, StreamP!Thread
  <2> QED
    BY <2>1, <2>2, <2>3 DEF StreamP!StreamInit, Init, handled, StreamP!NoEvent
<1> QED
  BY <1>4, <1>5, StreamP!StreamIInvInit, WebServerAssumption DEF IInv, StreamP!Thread

(* is kept by every step,                                                    *)
LEMMA WebServerIInvNext == IInv /\ [Next]_vars => IInv'
<1> SUFFICES ASSUME IInv, [Next]_vars PROVE IInv'
  OBVIOUS
<1> USE DEF IInv
<1>1. TypeOK /\ TypeOK'
  BY WebServerTypeNext DEF MapMatchesOpen
<1>2. Pointers' /\ NetStands' /\ LogicStands'
  BY <1>1, PointersKeep, NetStandsKeep, LogicStandsKeep DEF StreamP!StreamIInv
<1>3. MapMatchesOpen'
  BY <1>1, MapKeeps DEF StreamP!StreamIInv
<1>4. OwnDescriptor'
  BY <1>1, <1>2, <1>3, OwnDescriptorKeeps
<1>5. HupsNamed' /\ HupUnlessReused' /\ TimerWatches'
  BY <1>1, HupsKeep, TimerKeeps
<1>6. StreamP!StreamIInv'
  BY StepsMap, StreamP!StreamIInvNext, WebServerAssumption DEF StreamP!Thread
<1> QED
  BY <1>2, <1>3, <1>4, <1>5, <1>6

(* and so holds always.                                                      *)
LEMMA WebServerIInvInvariant == Safety => []IInv
BY WebServerIInvInit, WebServerIInvNext, PTL DEF Safety

(* The maps and the epoll set hold exactly the connections that the reactor  *)
(* serves, whichever thread is in close_conn.                                *)
THEOREM MapMatchesOpenHolds == Safety => []MapMatchesOpen
<1>1. IInv => MapMatchesOpen
  BY DEF IInv
<1> QED
  BY <1>1, WebServerIInvInvariant, PTL

(* No two living connections have one descriptor, and close_conn only ever   *)
(* takes out its own.                                                        *)
THEOREM OwnDescriptorHolds == Safety => []OwnDescriptor
<1>1. IInv => OwnDescriptor
  BY DEF IInv
<1> QED
  BY <1>1, WebServerIInvInvariant, PTL

(* The timer heap never loses a connection that is open.                     *)
THEOREM TimerWatchesHolds == Safety => []TimerWatches
<1>1. IInv => TimerWatches
  BY DEF IInv
<1> QED
  BY <1>1, WebServerIInvInvariant, PTL

(* A connection that is closed for a hang-up is one that epoll_wait reported *)
(* or one that was accepted since the call returned.                         *)
THEOREM HupUnlessReusedHolds == Safety => []HupUnlessReused
<1>1. IInv => HupUnlessReused
  BY DEF IInv
<1> QED
  BY <1>1, WebServerIInvInvariant, PTL

(* Stream and StreamP are one specification.                                 *)
LEMMA SameInit == StreamP!StreamInit => Stream!StreamInit
BY DEF StreamP!StreamInit, Stream!StreamInit, StreamP!Thread, Stream!Thread, StreamP!NoEvent, Stream!NoEvent

(* The two instances of the stream have the same steps.                      *)
LEMMA SameNext == [StreamP!StreamNext]_StreamP!streamVars => [Stream!StreamNext]_Stream!streamVars
<1>1. ASSUME NEW c \in Conn, StreamP!PushConnect(c) PROVE Stream!PushConnect(c)
  BY <1>1 DEF StreamP!PushConnect, Stream!PushConnect, StreamP!push, Stream!push, StreamP!ConnectEvent,
              Stream!ConnectEvent
<1>2. ASSUME NEW t, NEW c, StreamP!CloseConn(t, c) PROVE Stream!CloseConn(t, c)
  BY <1>2 DEF StreamP!CloseConn, Stream!CloseConn, StreamP!closed, Stream!closed
<1>3. ASSUME NEW c \in Conn, StreamP!NetClose(c) PROVE Stream!NetClose(c)
  BY <1>2, <1>3 DEF StreamP!NetClose, Stream!NetClose
<1>4. ASSUME NEW c \in Conn, NEW m \in Msg, StreamP!PushMessage(c, m) PROVE Stream!PushMessage(c, m)
  BY <1>4 DEF StreamP!PushMessage, Stream!PushMessage, StreamP!push, Stream!push, StreamP!MessageEvent,
              Stream!MessageEvent
<1>5. ASSUME NEW t, StreamP!PushDisconnect(t) PROVE Stream!PushDisconnect(t)
  BY <1>5 DEF StreamP!PushDisconnect, Stream!PushDisconnect, StreamP!push, Stream!push, StreamP!DisconnectEvent,
              Stream!DisconnectEvent
<1>6. ASSUME StreamP!Pop PROVE Stream!Pop
  BY <1>6 DEF StreamP!Pop, Stream!Pop, StreamP!NoEvent, Stream!NoEvent, StreamP!StageAfter, Stream!StageAfter
<1>7. ASSUME StreamP!Handle PROVE Stream!Handle
  BY <1>2, <1>7 DEF StreamP!Handle, Stream!Handle, StreamP!NoEvent, Stream!NoEvent
<1>8. ASSUME UNCHANGED StreamP!streamVars PROVE UNCHANGED Stream!streamVars
  BY <1>8 DEF StreamP!streamVars, Stream!streamVars
<1> QED
  BY <1>1, <1>3, <1>4, <1>5, <1>6, <1>7, <1>8 DEF StreamP!StreamNext, Stream!StreamNext, StreamP!Thread, Stream!Thread

(* What the reactor thread and the logic thread do between them, in the      *)
(* order they happen to take, is the stream of events that the application   *)
(* is promised: each step is one of EventStream, or one it does not see.     *)
THEOREM ImplementsEventStreamHolds == Safety => ImplementsEventStream
<1>1. Init => Stream!StreamInit
  BY WebServerIInvInit, SameInit
<1>2. IInv /\ [Next]_vars => [Stream!StreamNext]_Stream!streamVars
  BY StepsMap, SameNext
<1> QED
  BY <1>1, <1>2, WebServerIInvInvariant, PTL DEF Safety, ImplementsEventStream, Stream!StreamSafety

(* So what EventStream guarantees of the events holds of the reactor: the    *)
(* logic thread pops a CONNECT first, then MESSAGEs, and one DISCONNECT.     *)
THEOREM EventsLegal == Safety => StreamP!PoppedInOrder /\ []StreamP!OneDisconnect
<1>1. Init => StreamP!StreamInit
  BY WebServerIInvInit
<1>2. IInv /\ [Next]_vars => [StreamP!StreamNext]_StreamP!streamVars
  BY StepsMap
<1>3. Safety => StreamP!StreamSafety
  BY <1>1, <1>2, WebServerIInvInvariant, PTL DEF Safety, StreamP!StreamSafety
<1>4. StreamP!StreamSafety => StreamP!PoppedInOrder /\ []StreamP!OneDisconnect
  BY StreamP!PoppedInOrderHolds, StreamP!OneDisconnectHolds, WebServerAssumption DEF StreamP!Thread
<1> QED
  BY <1>3, <1>4
=============================================================================
