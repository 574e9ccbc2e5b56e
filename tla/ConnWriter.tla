----------------------------- MODULE ConnWriter -----------------------------
(* v4/webserver.cpp: what is written to one connection, and when it is read. *)
(* The logic thread sends replies (SendPreEncoded), the workers broadcasts   *)
(* (the task of process_global_queue), the reactor writes the rest when the  *)
(* socket has room (handle_write) or its timer expires (flush_all_queues).   *)
(* Each of them holds conn->mtx throughout, so each is one step; accept_loop *)
(* and close_conn do not hold it.  The kernel's side is an edge-triggered    *)
(* epoll.  in_buf is never full outside handle_read, which closes then.      *)
EXTENDS Naturals, Sequences

CONSTANTS
    Size,                       \* the lengths of packets
    HIGH_WATER_MARK,
    LOW_WATER_MARK,
    BATCH_FLUSH_THRESHOLD,
    MAX_OUTGOING_QUEUE_SIZE,
    MaxPackets                  \* bound: the number of packets that are queued

ASSUME ConnWriterAssumption ==
    /\ Size \subseteq Nat \ {0}
    /\ {HIGH_WATER_MARK, LOW_WATER_MARK, BATCH_FLUSH_THRESHOLD, MAX_OUTGOING_QUEUE_SIZE, MaxPackets} \subseteq Nat

VARIABLES
    outgoing_queue,         \* what is left to write of each packet
    pending_bytes, is_write_armed, is_reading_paused, current_epoll_events,
    closed,                 \* fields of Connection
    accepted,               \* how far accept_loop is with the connection
    todo,                   \* what the reactor has yet to do of the event it got
    interest, registered,   \* the kernel: what epoll watches of the descriptor, if at all
    ready,                  \* the kernel: the descriptor is on the ready list
    readable, writable,     \* the kernel: there is something to read, there is room
    nospace,                \* the kernel: someone found no room and is to be told
    broken,                 \* the kernel: the peer has reset the connection
    queued,                 \* history: the number of packets that were queued
    raced                   \* history: a worker changed the interest while accept_loop set it up

conn == <<outgoing_queue, pending_bytes, is_write_armed, is_reading_paused, current_epoll_events>>
epoll == <<interest, registered, ready>>
socket == <<readable, writable, nospace, broken>>
history == <<queued, raced>>
vars == <<conn, closed, accepted, todo, epoll, socket, history>>

Init ==
    /\ outgoing_queue = <<>> /\ pending_bytes = 0
    /\ is_write_armed = FALSE /\ is_reading_paused = FALSE
    /\ current_epoll_events = {}
    /\ closed = FALSE
    /\ accepted = "inserted"
    /\ todo = {}
    /\ interest = {} /\ registered = FALSE /\ ready = FALSE
    /\ readable \in BOOLEAN /\ writable = TRUE /\ nospace = FALSE /\ broken = FALSE
    /\ queued = 0 /\ raced = FALSE

If(cond, x) == IF cond THEN {x} ELSE {}

Bytes(queue) ==
    LET sum[n \in 0..Len(queue)] == IF n = 0 THEN 0 ELSE sum[n - 1] + queue[n]
    IN  sum[Len(queue)]

-----------------------------------------------------------------------------
(* writev and epoll_ctl                                                      *)

(* What may be left of the queue when writev had room for some of it.        *)
AfterWrite(queue) ==
    {<<>>} \cup UNION {{<<left>> \o SubSeq(queue, i + 1, Len(queue)) : left \in 1..queue[i]} : i \in DOMAIN queue}

(* Slip: the bytes of a packet count as pending until all of it is written.  *)
PendingUntilEmpty(pending, written) == IF written < pending THEN pending ELSE 0

PendingAfter(pending, written) == IF written <= pending THEN pending - written ELSE 0

(* The end of attempt_write's loop, which it reaches with an empty queue.    *)
PausedAfter(paused, pending) == paused /\ pending > LOW_WATER_MARK

(* attempt_write on a queue; it returns at once if that is empty, and before *)
(* the low water mark is looked at if writev fails or finds no more room.    *)
attempt_write(queue, pending, paused) ==
    \/ /\ queue = <<>> \/ broken
       /\ outgoing_queue' = queue /\ pending_bytes' = pending /\ is_reading_paused' = paused
       /\ UNCHANGED writable
    \/ /\ queue # <<>> /\ ~broken
       /\ outgoing_queue' \in IF writable THEN AfterWrite(queue) \ {queue} ELSE {queue}
       /\ pending_bytes' = PendingAfter(pending, Bytes(queue) - Bytes(outgoing_queue'))
       /\ is_reading_paused' =
              IF outgoing_queue' = <<>> THEN PausedAfter(paused, pending_bytes') ELSE paused
       /\ writable' \in IF outgoing_queue' = <<>> THEN BOOLEAN ELSE {FALSE}

(* What the kernel's poll reports of the events that are asked for.          *)
Poll(events) == (If(readable, "IN") \cup If(writable', "OUT")) \cap events

(* update_epoll_events with one set and then with another: EPOLL_CTL_MOD     *)
(* where the set differs from the one that is cached.  It fails on a         *)
(* descriptor that is not registered; otherwise it polls, and a poll or a    *)
(* write that finds no room asks to be told.                                 *)
UpdateTwice(first, second) ==
    LET asked == If(first # current_epoll_events, first) \cup If(second # first, second)
        polled == registered /\ asked # {}
    IN  /\ current_epoll_events' = second
        /\ interest' = IF polled THEN second ELSE interest
        /\ ready' = (ready \/ (registered /\ \E events \in asked : broken \/ Poll(events) # {}))
        /\ nospace' = (nospace \/ (~broken /\ outgoing_queue' # <<>>) \/ (polled /\ ~writable'))

update_epoll_events(events) == UpdateTwice(events, events)

-----------------------------------------------------------------------------
(* The logic thread and the workers.                                         *)

Watermark(pending) == is_reading_paused \/ pending >= HIGH_WATER_MARK

(* Of the interest the connection has: whether it is to be read, and to be   *)
(* told when there is room.                                                  *)
Wanted == If(~is_reading_paused', "IN") \cup If(outgoing_queue' # <<>>, "OUT")

SendPreEncoded(size) ==
    LET queue == Append(outgoing_queue, size)
        pending == pending_bytes + size
        writes == pending > BATCH_FLUSH_THRESHOLD \/ is_write_armed \/ outgoing_queue = <<>>
        armed == IF outgoing_queue' = <<>> THEN current_epoll_events \ If(is_write_armed, "OUT")
                 ELSE current_epoll_events \cup If(~is_write_armed, "OUT")
    IN  /\ accepted = "announced" /\ ~closed
        /\ queued < MaxPackets /\ queued' = queued + 1
        /\ \/ writes /\ attempt_write(queue, pending, Watermark(pending)) /\ UpdateTwice(armed, Wanted)
           \/ /\ ~writes
              /\ outgoing_queue' = queue /\ pending_bytes' = pending
              /\ is_reading_paused' = Watermark(pending)
              /\ UNCHANGED writable
              /\ update_epoll_events(Wanted)
        /\ is_write_armed' = (outgoing_queue' # <<>>)
        /\ UNCHANGED <<closed, accepted, todo, registered, readable, broken, raced>>

(* Slip: the flag is set, but the kernel is not told.                        *)
ArmUntold ==
    /\ is_write_armed' = (is_write_armed \/ outgoing_queue' # <<>>)
    /\ update_epoll_events(current_epoll_events)

(* Nothing is left, or someone armed the connection before, or it is now.    *)
Arm ==
    /\ is_write_armed' = (is_write_armed \/ outgoing_queue' # <<>>)
    /\ update_epoll_events(current_epoll_events \cup If(outgoing_queue' # <<>> /\ ~is_write_armed, "OUT"))

(* A broadcast task with a batch for this connection, less the events it     *)
(* sent itself.  It is in the map already while accept_loop registers it.    *)
BroadcastTo(batch) ==
    LET room == IF Len(outgoing_queue) < MAX_OUTGOING_QUEUE_SIZE
                THEN MAX_OUTGOING_QUEUE_SIZE - Len(outgoing_queue) ELSE 0
        added == SubSeq(batch, 1, IF room < Len(batch) THEN room ELSE Len(batch))
        pending == pending_bytes + Bytes(added)
    IN  /\ ~closed
        /\ added # <<>>
        /\ queued + Len(added) <= MaxPackets /\ queued' = queued + Len(added)
        /\ attempt_write(outgoing_queue \o added, pending, Watermark(pending))
        /\ Arm
        /\ raced' = (raced \/ (accepted # "announced" /\ current_epoll_events' # current_epoll_events))
        /\ UNCHANGED <<closed, accepted, todo, registered, readable, broken>>

-----------------------------------------------------------------------------
(* The reactor: accept_loop after the connection is in the map.              *)

add_fd_to_epoll ==
    /\ accepted = "inserted"
    /\ accepted' = "registered"
    /\ interest' = {"IN"} /\ registered' = TRUE
    /\ ready' = (broken \/ readable)
    /\ nospace' = (nospace \/ ~writable)
    /\ UNCHANGED <<conn, closed, todo, readable, writable, broken, history>>

(* current_epoll_events = EPOLLIN, without the lock: a worker that has read  *)
(* the field before may store its own value over this one.                   *)
SetEvents ==
    /\ accepted = "registered"
    /\ accepted' = "announced"
    /\ current_epoll_events' \in {{"IN"}} \cup If(raced, current_epoll_events)
    /\ UNCHANGED <<outgoing_queue, pending_bytes, is_write_armed, is_reading_paused, closed, todo,
                   epoll, socket, history>>

(* One event of this connection, which is polled again when it is reported.  *)
EpollWait ==
    /\ accepted = "announced" /\ todo = {}
    /\ ready /\ ready' = FALSE
    /\ todo' = IF broken THEN {"close"}
               ELSE (If(readable, "IN") \cup If(writable, "OUT")) \cap interest
    /\ nospace' = (nospace \/ ~writable)
    /\ UNCHANGED <<conn, closed, accepted, interest, registered, readable, writable, broken, history>>

(* It reads until nothing is there; end of file, an error or a full buffer   *)
(* close the connection.                                                     *)
handle_read ==
    /\ "IN" \in todo /\ "close" \notin todo
    /\ readable' = FALSE
    /\ todo' \in {todo \ {"IN"}, (todo \ {"IN"}) \cup {"close"}}
    /\ UNCHANGED <<conn, closed, accepted, epoll, writable, nospace, broken, history>>

(* Slip: EPOLLOUT goes, but EPOLLIN does not come back.                      *)
handle_write_disarms ==
    /\ todo = {"OUT"}
    /\ attempt_write(outgoing_queue, pending_bytes, is_reading_paused)
    /\ is_write_armed' = (outgoing_queue' # <<>>)
    /\ todo' = {}
    /\ update_epoll_events((current_epoll_events \ {"OUT"}) \cup If(outgoing_queue' # <<>>, "OUT"))
    /\ UNCHANGED <<closed, accepted, registered, readable, broken, history>>

handle_write ==
    /\ todo = {"OUT"}
    /\ attempt_write(outgoing_queue, pending_bytes, is_reading_paused)
    /\ is_write_armed' = (outgoing_queue' # <<>>)
    /\ \/ /\ broken /\ outgoing_queue # <<>>
          /\ todo' = {"close"}
          /\ UNCHANGED <<current_epoll_events, interest, ready, nospace>>
       \/ /\ ~(broken /\ outgoing_queue # <<>>)
          /\ todo' = {}
          /\ update_epoll_events(Wanted)
    /\ UNCHANGED <<closed, accepted, registered, readable, broken, history>>

(* Slip: what is armed is left to handle_write.                              *)
FlushUnarmed ==
    /\ accepted = "announced" /\ todo = {}
    /\ ~closed /\ outgoing_queue # <<>>
    /\ ~is_write_armed
    /\ attempt_write(outgoing_queue, pending_bytes, is_reading_paused)
    /\ Arm
    /\ UNCHANGED <<closed, accepted, todo, registered, readable, broken, history>>

(* flush_all_queues gets the lock; it skips the connection if it does not.   *)
Flush ==
    /\ accepted = "announced" /\ todo = {}
    /\ ~closed /\ outgoing_queue # <<>>
    /\ attempt_write(outgoing_queue, pending_bytes, is_reading_paused)
    /\ Arm
    /\ UNCHANGED <<closed, accepted, todo, registered, readable, broken, history>>

(* close_conn, in the reactor or in another thread.  What is asked of epoll  *)
(* between the exchange and EPOLL_CTL_DEL is gone with the latter.           *)
close_conn ==
    /\ closed' = TRUE
    /\ registered' = FALSE /\ ready' = FALSE
    /\ UNCHANGED <<conn, accepted, interest, socket, history>>

NetClose == "close" \in todo /\ close_conn /\ todo' = todo \ {"close"}

Close == accepted = "announced" /\ ~closed /\ close_conn /\ UNCHANGED todo

-----------------------------------------------------------------------------
(* The peer.                                                                 *)

PeerSends ==
    /\ ~broken
    /\ readable' = TRUE
    /\ ready' = (ready \/ (registered /\ "IN" \in interest))
    /\ UNCHANGED <<conn, closed, accepted, todo, interest, registered, writable, nospace, broken, history>>

PeerReads ==
    /\ ~writable /\ ~broken
    /\ writable' = TRUE /\ nospace' = FALSE
    /\ ready' = (ready \/ (registered /\ nospace /\ "OUT" \in interest))
    /\ UNCHANGED <<conn, closed, accepted, todo, interest, registered, readable, broken, history>>

PeerResets ==
    /\ ~broken /\ broken' = TRUE
    /\ ready' = registered
    /\ UNCHANGED <<conn, closed, accepted, todo, interest, registered, readable, writable, nospace, history>>

-----------------------------------------------------------------------------
NetStep ==
    \/ add_fd_to_epoll \/ SetEvents
    \/ EpollWait \/ handle_read \/ handle_write \/ NetClose

Next ==
    \/ \E size \in Size : SendPreEncoded(size)
    \/ \E batch \in {<<size>> : size \in Size} \cup (Size \X Size) : BroadcastTo(batch)
    \/ NetStep \/ Flush \/ Close
    \/ PeerSends \/ PeerReads \/ PeerResets

(* The reactor runs; its timer is not starved by the descriptors that are    *)
(* ready; the peer reads what it is sent.                                    *)
Fairness == WF_vars(NetStep) /\ SF_vars(Flush) /\ WF_vars(PeerReads)

Spec == Init /\ [][Next]_vars /\ Fairness

-----------------------------------------------------------------------------
(* Properties                                                                *)

TypeOK ==
    /\ outgoing_queue \in Seq(Nat \ {0})
    /\ pending_bytes \in Nat
    /\ {is_write_armed, is_reading_paused, closed, registered, ready, readable, writable,
        nospace, broken, raced} \subseteq BOOLEAN
    /\ {current_epoll_events, interest} \subseteq SUBSET {"IN", "OUT"}
    /\ accepted \in {"inserted", "registered", "announced"}
    /\ todo \subseteq {"IN", "OUT", "close"}
    /\ queued \in 0..MaxPackets

(* pending_bytes, which decides over the pauses, is what the queue holds     *)
(* through every partial write, and a pause has data to wait for: when the   *)
(* last byte is written, whoever writes it, reading is resumed.              *)
Accounted ==
    /\ TypeOK
    /\ pending_bytes = Bytes(outgoing_queue)
    /\ is_reading_paused => outgoing_queue # <<>>

(* Data that is left in the queue is armed, so SendPreEncoded always tries   *)
(* to write at once, and unless a worker met accept_loop the kernel watches  *)
(* for room, whichever thread left it there.                                 *)
WatchedWhenQueued ==
    outgoing_queue # <<>> => /\ is_write_armed
                             /\ registered /\ ~raced => "OUT" \in interest

(* Everything that is queued is written, or the connection is closed; the    *)
(* timer sees to it when the interest in EPOLLOUT was lost.                  *)
Drains == outgoing_queue # <<>> ~> (outgoing_queue = <<>> \/ closed)

(* README.md: if a client sends data, EPOLLIN is triggered and the reactor   *)
(* dispatches it to handle_read.  Pauses only delay it.                      *)
DataIsRead == readable ~> (~readable \/ closed)

(* It is, unless a worker wrote to the connection while accept_loop was      *)
(* about to register it or to cache its interest.                            *)
DataIsReadUnlessRaced == readable ~> (~readable \/ closed \/ raced)
=============================================================================
