----------------------------- MODULE ChatClient -----------------------------
(* v4/client.cpp: the login, then three threads: the input loop, which is    *)
(* the main thread, the receiver and the printer.  They share running_, the  *)
(* message queue and ui_mtx_; the receiver alone uses the packet buffer.     *)
EXTENDS PacketBuffer

CONSTANTS
    None,
    MaxPackets      \* bound: packets that the server sends

ASSUME ChatClientAssumption == None \notin Nat /\ None # "main" /\ MaxPackets \in Nat

VARIABLES
    peer,               \* the server's end: "open", "closed", or "reset"
    accepted,           \* the server has logged the client in
    running_,
    message_queue_,     \* places in sent, or Lost
    finished_,          \* SafeQueue::finished_ of the message queue
    ui_mtx_,            \* who holds it
    main,               \* where the main thread is
    receiver, printer,  \* where the two threads are
    msg,                \* the printer's local
    printed,
    events,             \* what poll told the receiver
    due                 \* history: what was received when stop told the printer to end

shared == <<running_, message_queue_, finished_, ui_mtx_>>
network == <<sent, peer, accepted>>
threads == <<main, receiver, printer, msg, printed, events, due>>
vars == <<network, taken, ringVars, discarded, shared, threads>>

Lost == 0       \* "Server connection lost."
(* Texts for the screen, from the first on.                                  *)
Received == printed \o (IF msg = None THEN <<>> ELSE <<msg>>) \o message_queue_

Started == main \notin {"login", "answer", "gone"}

Init ==
    /\ BufferInit
    /\ peer = "open" /\ accepted = FALSE
    /\ running_ = TRUE /\ message_queue_ = <<>> /\ finished_ = FALSE /\ ui_mtx_ = None
    /\ main = "login" /\ receiver = "off" /\ printer = "off"
    /\ msg = None /\ printed = <<>> /\ events = {} /\ due = 0

-----------------------------------------------------------------------------
(* The server and the connection.                                            *)

(* It answers the login, once, and passes on what others say, also to a      *)
(* client that is not logged in.                                             *)
ServerSends(len, kind) ==
    /\ peer = "open" /\ Len(sent) < MaxPackets
    /\ kind # "chat" => main = "answer" /\ \A i \in 1..Len(sent) : sent[i].kind = "chat"
    /\ encode(len, kind)
    /\ accepted' = (accepted \/ kind = "yes")
    /\ UNCHANGED <<peer, taken, ringVars, discarded, shared, threads>>

(* It closes the connection; or the connection breaks, and what was not read *)
(* yet is lost.                                                              *)
ServerLeaves ==
    /\ peer = "open" /\ peer' \in {"closed", "reset"}
    /\ UNCHANGED <<sent, accepted, taken, ringVars, discarded, shared, threads>>

Available == IF peer = "reset" THEN 0 ELSE StreamEnd - taken

-----------------------------------------------------------------------------
(* login, on a blocking socket and without the packet buffer.                *)

(* An empty name is not sent.                                                *)
EnterName ==
    /\ main = "login"
    /\ main' \in {"answer", "gone"}
    /\ UNCHANGED <<network, taken, ringVars, discarded, shared, receiver, printer, msg, printed, events, due>>

(* Slip: whatever comes is taken for the answer.                             *)
LoginTrustful ==
    /\ main = "answer" /\ sent # <<>> /\ Available >= After(sent[1])
    /\ taken' = After(sent[1])
    /\ running_' = TRUE /\ main' = "poll" /\ receiver' = "poll" /\ printer' = "pop"
    /\ UNCHANGED <<network, ringVars, discarded, message_queue_, finished_, ui_mtx_, msg, printed, events, due>>

(* The first packet is taken for the answer; run starts the threads.         *)
LoginAnswer ==
    /\ main = "answer" /\ sent # <<>> /\ Available >= After(sent[1])
    /\ taken' = After(sent[1])
    /\ IF sent[1].kind = "yes"
       THEN running_' = TRUE /\ main' = "poll" /\ receiver' = "poll" /\ printer' = "pop"
       ELSE main' = "gone" /\ UNCHANGED <<running_, receiver, printer>>
    /\ UNCHANGED <<network, ringVars, discarded, message_queue_, finished_, ui_mtx_, msg, printed, events, due>>

LoginFails ==
    /\ main = "answer" /\ peer # "open" /\ (sent # <<>> => Available < After(sent[1]))
    /\ main' = "gone"
    /\ UNCHANGED <<network, taken, ringVars, discarded, shared, receiver, printer, msg, printed, events, due>>

-----------------------------------------------------------------------------
(* input_loop.  Typing a line that is sent changes nothing that the threads  *)
(* share, but waits for ui_mtx_.                                             *)
GoOn(pc) ==
    /\ main' = pc
    /\ due' = IF pc = "join_receiver" THEN Len(Received) ELSE due
    /\ UNCHANGED <<network, taken, ringVars, discarded, message_queue_, receiver, printer, msg, printed, events>>

InputEnds == main = "poll" /\ ~running_ /\ GoOn("over") /\ UNCHANGED shared

(* Ctrl-C, or the end of standard input.                                     *)
Interrupt == main = "poll" /\ running_ /\ GoOn("stop") /\ UNCHANGED shared

Key == main = "poll" /\ running_ /\ GoOn("key") /\ UNCHANGED shared

Type ==
    /\ main = "key" /\ ui_mtx_ = None
    /\ GoOn("poll") /\ UNCHANGED shared

(* exit, /exit or /quit: stop is called with the lock held.                  *)
TypeExit ==
    /\ main = "key" /\ ui_mtx_ = None
    /\ ui_mtx_' = "main"
    /\ GoOn("stop") /\ UNCHANGED <<running_, message_queue_, finished_>>

Unlocked == IF ui_mtx_ = "main" THEN None ELSE ui_mtx_

(* stop: not if running_ is false already.                                   *)
Stop ==
    /\ main = "stop"
    /\ running_' = FALSE
    /\ IF running_ THEN GoOn("finish") /\ UNCHANGED ui_mtx_
                   ELSE GoOn("over") /\ ui_mtx_' = Unlocked
    /\ UNCHANGED <<message_queue_, finished_>>

StopQueue ==
    /\ main = "finish"
    /\ finished_' = TRUE
    /\ GoOn("join_receiver") /\ UNCHANGED <<running_, message_queue_, ui_mtx_>>

JoinReceiver ==
    /\ main = "join_receiver" /\ receiver = "done"
    /\ GoOn("join_printer") /\ UNCHANGED shared

(* Slip: the printer is not waited for.                                      *)
JoinNobody ==
    /\ main = "join_printer"
    /\ ui_mtx_' = Unlocked
    /\ GoOn("over") /\ UNCHANGED <<running_, message_queue_, finished_>>

JoinPrinter ==
    /\ main = "join_printer" /\ printer = "done"
    /\ ui_mtx_' = Unlocked
    /\ GoOn("over") /\ UNCHANGED <<running_, message_queue_, finished_>>

(* main returns, and the destructor calls stop once more, which returns at   *)
(* once; a thread that was never joined then ends the process.               *)

Input ==
    \/ EnterName \/ LoginAnswer \/ LoginFails
    \/ InputEnds \/ Interrupt \/ Key \/ Type \/ TypeExit
    \/ Stop \/ StopQueue \/ JoinReceiver \/ JoinPrinter

-----------------------------------------------------------------------------
(* receive_loop, until the process ends.                                     *)
Receive(from, to) ==
    /\ main # "over" /\ receiver = from /\ receiver' = to
    /\ UNCHANGED <<network, finished_, ui_mtx_, main, printer, msg, printed, due>>

(* The loop's condition and poll, which may time out.                        *)
ReceiverPoll ==
    \/ /\ ~running_ /\ Receive("poll", "done")
       /\ UNCHANGED <<taken, ringVars, discarded, running_, message_queue_, events>>
    \/ /\ running_ /\ Receive("poll", "look")
       /\ events' = (IF Available > 0 THEN {"in"} ELSE {}) \cup (IF peer # "open" THEN {"hup"} ELSE {})
       /\ UNCHANGED <<taken, ringVars, discarded, running_, message_queue_>>

ReceiverIdle ==
    /\ events = {} /\ Receive("look", "poll")
    /\ UNCHANGED <<taken, ringVars, discarded, running_, message_queue_, events>>

(* The end of the connection comes before what is still to be read.          *)
ReceiverHup ==
    /\ "hup" \in events /\ Receive("look", "lost")
    /\ message_queue_' = Append(message_queue_, Lost)
    /\ UNCHANGED <<taken, ringVars, discarded, running_, events>>

(* Slip: only this loop ends.                                                *)
ReceiverQuiet ==
    /\ Receive("lost", "done")
    /\ UNCHANGED <<taken, ringVars, discarded, running_, message_queue_, events>>

ReceiverLost ==
    /\ Receive("lost", "done")
    /\ running_' = FALSE
    /\ UNCHANGED <<taken, ringVars, discarded, message_queue_, events>>

ReceiverFull ==
    /\ events = {"in"} /\ get_writeable_iovecs = <<>> /\ Receive("look", "poll")
    /\ consume(count_) /\ discarded' = TRUE
    /\ UNCHANGED <<taken, buf_, write_pos_, running_, message_queue_, events>>

ReceiverReads(n) ==
    /\ events = {"in"} /\ get_writeable_iovecs # <<>> /\ Receive("look", "decode")
    /\ n \in 1..AtMost(Available, Room(get_writeable_iovecs))
    /\ readv(get_writeable_iovecs, n) /\ commit_write(n)
    /\ UNCHANGED <<read_pos_, discarded, running_, message_queue_, events>>

(* The connection broke after poll: readv fails and the loop ends.           *)
ReceiverFails ==
    /\ events = {"in"} /\ get_writeable_iovecs # <<>> /\ peer = "reset" /\ Receive("look", "done")
    /\ UNCHANGED <<taken, ringVars, discarded, running_, message_queue_, events>>

(* One round of the decode loop.  What is no packet of the server may parse  *)
(* as one that is not shown, or not at all, which ends the loop.             *)
ReceiverDecodes ==
    /\ \/ \E i \in 1..Len(sent) :
            /\ Receive("decode", "decode") /\ DecodePacket(i)
            /\ message_queue_' = Append(message_queue_, i)
       \/ /\ Receive("decode", "decode") \/ Receive("decode", "poll")
          /\ DecodePacket(0) /\ UNCHANGED message_queue_
       \/ /\ Receive("decode", "poll") /\ UNCHANGED message_queue_
          /\ DecodeNothing \/ DecodeTooLong
    /\ UNCHANGED <<taken, running_, events>>

Receiver ==
    \/ ReceiverPoll \/ ReceiverIdle \/ ReceiverHup \/ ReceiverLost
    \/ ReceiverFull \/ ReceiverFails \/ ReceiverDecodes
    \/ \E n \in 1..Capacity : ReceiverReads(n)

-----------------------------------------------------------------------------
(* printer_loop                                                              *)
Printing(from, to) ==
    /\ main # "over" /\ printer = from /\ printer' = to
    /\ UNCHANGED <<network, taken, ringVars, discarded, running_, finished_, ui_mtx_, main, receiver, events, due>>

PrinterPop ==
    \/ /\ message_queue_ # <<>> /\ Printing("pop", "print")
       /\ msg' = Head(message_queue_) /\ message_queue_' = Tail(message_queue_)
       /\ UNCHANGED printed
    \/ /\ message_queue_ = <<>> /\ finished_ /\ Printing("pop", "done")
       /\ UNCHANGED <<msg, message_queue_, printed>>

PrinterPrint ==
    /\ ui_mtx_ = None /\ Printing("print", "pop")
    /\ printed' = Append(printed, msg) /\ msg' = None
    /\ UNCHANGED message_queue_

Printer == PrinterPop \/ PrinterPrint

-----------------------------------------------------------------------------
Next ==
    \/ \E len \in Lengths, kind \in {"yes", "no", "chat"} : ServerSends(len, kind)
    \/ ServerLeaves
    \/ Input \/ Receiver \/ Printer

(* The threads keep running; nothing is asked of the server or the user, but *)
(* that the loop of input comes round to look at running_.                   *)
Fairness ==
    /\ WF_vars(InputEnds \/ LoginAnswer \/ LoginFails \/ Type \/ Stop \/ StopQueue \/ JoinReceiver \/ JoinPrinter)
    /\ WF_vars(Receiver) /\ WF_vars(Printer)

Spec == Init /\ [][Next]_vars /\ Fairness

-----------------------------------------------------------------------------
(* Properties                                                                *)

TypeOK ==
    /\ BufferTypeOK
    /\ Len(sent) <= MaxPackets
    /\ \A i \in 1..Len(sent) : sent[i] \in [first: Nat, len: Lengths, kind: {"yes", "no", "chat"}]
    /\ peer \in {"open", "closed", "reset"} /\ accepted \in BOOLEAN
    /\ running_ \in BOOLEAN /\ finished_ \in BOOLEAN
    /\ message_queue_ \in Seq(0..Len(sent)) /\ printed \in Seq(0..Len(sent))
    /\ ui_mtx_ \in {"main", None} /\ msg \in 0..Len(sent) \cup {None}
    /\ events \subseteq {"in", "hup"} /\ due \in 0..MaxPackets
    /\ main \in {"login", "answer", "gone", "poll", "key", "stop", "finish", "join_receiver", "join_printer", "over"}
    /\ receiver \in {"off", "poll", "look", "lost", "decode", "done"}
    /\ printer \in {"off", "pop", "print", "done"}

(* What the user is shown is what the server sent after the answer to the    *)
(* login, packet by packet in order, however it was cut into reads, and at   *)
(* last that the connection is lost: until bytes are thrown away.            *)
ShownAsSent ==
    /\ TypeOK
    /\ receiver # "off" /\ ~discarded =>
        \E n \in 0..Len(Received) :
            /\ \A i \in 1..n : Received[i] = i + 1
            /\ n < Len(Received) => n + 1 = Len(Received) /\ Received[n + 1] = Lost
            /\ taken - count_ = After(sent[n + 1])

(* The receiver does not wait for more while it holds a whole packet, and    *)
(* throws bytes away only for a packet that the ring cannot hold.            *)
NothingHeldBack ==
    IF discarded THEN \E i \in 1..Len(sent) : Header + sent[i].len > Capacity
    ELSE receiver \in {"poll", "look"} =>
        ~\E i \in 1..Len(sent) : sent[i].first = taken - count_ /\ After(sent[i]) <= taken

(* The client runs only if the server let it in; it gives up on a server     *)
(* that let it in, and stays, only if it took what another said for the      *)
(* answer.                                                                   *)
LoginMeansAccepted ==
    /\ receiver # "off" => accepted
    /\ main = "gone" /\ accepted /\ peer = "open" => sent[1].kind = "chat"

(* When the client ends, the receiver has ended, and all that had come when  *)
(* stop told the printer to end is printed; what the receiver still queues   *)
(* then may be left over.  The exception is a lost connection: running_ is   *)
(* false already, stop joins nobody, and the process ends with the printer   *)
(* at work.                                                                  *)
AllShownAtEnd ==
    main = "over" =>
        /\ receiver = "done"
        /\ \/ \E i \in 1..Len(Received) : Received[i] = Lost
           \/ printer = "done" /\ Len(printed) >= due

(* main holds ui_mtx_ and waits for the printer, which has something to      *)
(* print and waits for ui_mtx_.                                              *)
Stuck == main = "join_printer" /\ ui_mtx_ = "main" /\ (msg # None \/ message_queue_ # <<>>)

(* stop returns, and when the server closes the connection the client ends   *)
(* by itself; but for the deadlock with the printer.                         *)
Stops == (main = "stop" \/ (Started /\ peer = "closed")) ~> (main = "over" \/ Stuck)
=============================================================================
