------------------------- MODULE ConnWriter_proofs -------------------------
(* Queued data is watched, and pending_bytes is what the queue holds, for    *)
(* packets and limits of any size.                                           *)
EXTENDS ConnWriter, WellFoundedInduction, SequenceTheorems, TLAPS

Events == {"IN", "OUT"}

(* What the fields of Connection say of the queue, and the kernel of the     *)
(* fields.  Until accept_loop is done the fields are as they were made, or   *)
(* a worker has changed the interest.                                        *)
WatchTypes ==
    /\ current_epoll_events \subseteq Events
    /\ accepted \in {"inserted", "registered", "announced"}
    /\ is_write_armed \in BOOLEAN /\ raced \in BOOLEAN /\ registered \in BOOLEAN

QueuedIsArmed == outgoing_queue # <<>> => is_write_armed

ArmedIsCached == ~raced /\ accepted = "announced" /\ is_write_armed => "OUT" \in current_epoll_events

CacheIsTrue == ~raced /\ accepted = "announced" /\ registered => interest = current_epoll_events

FreshUntilAnnounced ==
    ~raced /\ accepted # "announced" =>
        /\ current_epoll_events = {}
        /\ ~is_write_armed
        /\ accepted = "registered" /\ registered => interest = {"IN"}

(* What comes after a step of accept_loop.                                   *)
RegisteredLate == registered => accepted # "inserted"
EventsLate == todo # {} => accepted = "announced"

WatchInv ==
    /\ WatchTypes /\ QueuedIsArmed /\ ArmedIsCached /\ CacheIsTrue
    /\ FreshUntilAnnounced /\ RegisteredLate /\ EventsLate

(* The invariant implies the property.                                       *)
LEMMA WatchInvImplies == WatchInv => WatchedWhenQueued
BY DEF WatchInv, WatchTypes, QueuedIsArmed, ArmedIsCached, CacheIsTrue, FreshUntilAnnounced,
       RegisteredLate, WatchedWhenQueued

(* Whatever is asked of update_epoll_events, the kernel then has what the    *)
(* program has cached, if it had it before.                                  *)
LEMMA UpdateKeepsTrue ==
    ASSUME NEW first, NEW second, UpdateTwice(first, second), registered \in BOOLEAN,
           registered => interest = current_epoll_events
    PROVE  current_epoll_events' = second /\ (registered => interest' = current_epoll_events')
BY DEF UpdateTwice, If

(* An update that changes nothing leaves the kernel alone.                   *)
LEMMA UpdateNothing ==
    ASSUME NEW events, update_epoll_events(events), current_epoll_events' = current_epoll_events
    PROVE  interest' = interest
BY DEF update_epoll_events, UpdateTwice, If

(* The invariant holds when the connection is made.                          *)
LEMMA WatchInit == Init => WatchInv
BY DEF Init, WatchInv, WatchTypes, QueuedIsArmed, ArmedIsCached, CacheIsTrue,
       FreshUntilAnnounced, RegisteredLate, EventsLate, Events

(* Arming after a write, for the broadcast task and for the timer.           *)
LEMMA ArmKeeps ==
    ASSUME WatchInv, Arm
    PROVE  /\ current_epoll_events' \subseteq Events
           /\ is_write_armed' \in BOOLEAN
           /\ QueuedIsArmed'
           /\ ~raced /\ accepted = "announced" =>
                 /\ is_write_armed' => "OUT" \in current_epoll_events'
                 /\ registered => interest' = current_epoll_events'
           /\ current_epoll_events' = current_epoll_events => interest' = interest
           /\ is_write_armed' /\ ~is_write_armed => "OUT" \in current_epoll_events'
<1> DEFINE events == current_epoll_events \cup If(outgoing_queue' # <<>> /\ ~is_write_armed, "OUT")
<1>1. update_epoll_events(events)
  BY DEF Arm
<1>2. UpdateTwice(events, events)
  BY <1>1 DEF update_epoll_events
<1>3. current_epoll_events' = events
  BY <1>2 DEF UpdateTwice
<1>4. is_write_armed' = (is_write_armed \/ outgoing_queue' # <<>>)
  BY DEF Arm
<1>5. events \subseteq Events
  BY DEF WatchInv, WatchTypes, Events, If
<1>6. ~raced /\ accepted = "announced" /\ registered => interest' = current_epoll_events'
  BY <1>2, UpdateKeepsTrue DEF WatchInv, WatchTypes, CacheIsTrue
<1>7. current_epoll_events' = current_epoll_events => interest' = interest
  BY <1>1, UpdateNothing
<1>8. ~raced /\ accepted = "announced" /\ is_write_armed' => "OUT" \in current_epoll_events'
  BY <1>3, <1>4 DEF WatchInv, ArmedIsCached, If
<1>9. is_write_armed' /\ ~is_write_armed => "OUT" \in current_epoll_events'
  BY <1>3, <1>4 DEF If
<1>10. is_write_armed' \in BOOLEAN /\ QueuedIsArmed'
  BY <1>4 DEF QueuedIsArmed
<1> QED
  BY <1>3, <1>5, <1>6, <1>7, <1>8, <1>9, <1>10

(* A reply: the interest is computed anew.                                   *)
LEMMA SendKeeps ==
    ASSUME WatchInv, NEW size, SendPreEncoded(size)
    PROVE  WatchInv'
<1>1. PICK first : UpdateTwice(first, Wanted)
  BY DEF SendPreEncoded, update_epoll_events
<1>2. /\ accepted = "announced" /\ accepted' = accepted /\ todo' = todo
      /\ is_write_armed' = (outgoing_queue' # <<>>)
      /\ registered' = registered /\ raced' = raced
  BY DEF SendPreEncoded
<1>3. current_epoll_events' = Wanted
  BY <1>1 DEF UpdateTwice
<1>4. Wanted \subseteq Events /\ (outgoing_queue' # <<>> => "OUT" \in Wanted)
  BY DEF Wanted, If, Events
<1>5. ~raced /\ registered => interest' = current_epoll_events'
  BY <1>1, <1>2, UpdateKeepsTrue DEF WatchInv, WatchTypes, CacheIsTrue
<1> QED
  BY <1>2, <1>3, <1>4, <1>5
  DEF WatchInv, WatchTypes, QueuedIsArmed, ArmedIsCached, CacheIsTrue, FreshUntilAnnounced,
      RegisteredLate, EventsLate

(* A broadcast: what it does before accept_loop is done shows in raced.      *)
LEMMA BroadcastKeeps ==
    ASSUME WatchInv, NEW batch, BroadcastTo(batch)
    PROVE  WatchInv'
<1>1. /\ Arm /\ todo' = todo
      /\ raced' = (raced \/ (accepted # "announced" /\ current_epoll_events' # current_epoll_events))
      /\ accepted' = accepted /\ registered' = registered
  BY DEF BroadcastTo
<1>2. WatchTypes' /\ RegisteredLate' /\ EventsLate'
  BY <1>1, ArmKeeps DEF WatchInv, WatchTypes, RegisteredLate, EventsLate
<1>3. ArmedIsCached' /\ CacheIsTrue'
  BY <1>1, ArmKeeps DEF WatchInv, ArmedIsCached, CacheIsTrue
<1>4. FreshUntilAnnounced'
  <2> SUFFICES ASSUME ~raced', accepted' # "announced"
               PROVE  /\ current_epoll_events' = {}
                      /\ ~is_write_armed'
                      /\ accepted' = "registered" /\ registered' => interest' = {"IN"}
    BY DEF FreshUntilAnnounced
  <2>1. ~raced /\ accepted # "announced" /\ current_epoll_events' = current_epoll_events
    BY <1>1
  <2>2. interest' = interest
    BY <2>1, <1>1, ArmKeeps
  <2> QED
    BY <2>1, <2>2, <1>1, ArmKeeps DEF WatchInv, FreshUntilAnnounced
<1> QED
  BY <1>1, <1>2, <1>3, <1>4, ArmKeeps DEF WatchInv

(* handle_write: a write that fails leaves the queue, and so the flag, alone.*)
LEMMA WriteKeeps ==
    ASSUME WatchInv, handle_write
    PROVE  WatchInv'
<1>0. accepted = "announced"
  BY DEF WatchInv, EventsLate, handle_write
<1>1. /\ is_write_armed' = (outgoing_queue' # <<>>)
      /\ accepted' = accepted /\ registered' = registered /\ raced' = raced
      /\ todo' \in {{"close"}, {}}
  BY DEF handle_write, history
<1>2. CASE broken /\ outgoing_queue # <<>>
  <2>1. outgoing_queue' = outgoing_queue
    BY <1>2 DEF handle_write, attempt_write
  <2>2. UNCHANGED <<current_epoll_events, interest>>
    BY <1>2 DEF handle_write
  <2> QED
    BY <1>0, <1>1, <1>2, <2>1, <2>2
    DEF WatchInv, WatchTypes, QueuedIsArmed, ArmedIsCached, CacheIsTrue, FreshUntilAnnounced,
        RegisteredLate, EventsLate
<1>3. CASE ~(broken /\ outgoing_queue # <<>>)
  <2>1. UpdateTwice(Wanted, Wanted)
    BY <1>3 DEF handle_write, update_epoll_events
  <2>2. current_epoll_events' = Wanted
    BY <2>1 DEF UpdateTwice
  <2>3. Wanted \subseteq Events /\ (outgoing_queue' # <<>> => "OUT" \in Wanted)
    BY DEF Wanted, If, Events
  <2>4. ~raced /\ registered => interest' = current_epoll_events'
    BY <1>0, <2>1, UpdateKeepsTrue DEF WatchInv, WatchTypes, CacheIsTrue
  <2> QED
    BY <1>0, <1>1, <2>2, <2>3, <2>4
    DEF WatchInv, WatchTypes, QueuedIsArmed, ArmedIsCached, CacheIsTrue, FreshUntilAnnounced,
        RegisteredLate, EventsLate
<1> QED
  BY <1>2, <1>3

(* The timer writes as a broadcast does, after accept_loop.                  *)
LEMMA FlushKeeps ==
    ASSUME WatchInv, Flush
    PROVE  WatchInv'
<1>1. /\ Arm /\ accepted = "announced"
      /\ UNCHANGED <<accepted, todo, registered, raced>>
  BY DEF Flush, history
<1> QED
  BY <1>1, ArmKeeps
  DEF WatchInv, WatchTypes, ArmedIsCached, CacheIsTrue, FreshUntilAnnounced, RegisteredLate,
      EventsLate

(* accept_loop makes the kernel watch EPOLLIN, and then says so in the field.*)
LEMMA AcceptKeeps ==
    ASSUME WatchInv, add_fd_to_epoll \/ SetEvents
    PROVE  WatchInv'
<1>1. CASE add_fd_to_epoll
  BY <1>1 DEF add_fd_to_epoll, conn, history, WatchInv, WatchTypes, QueuedIsArmed, ArmedIsCached,
              CacheIsTrue, FreshUntilAnnounced, RegisteredLate, EventsLate
<1>2. CASE SetEvents
  BY <1>2 DEF SetEvents, epoll, history, If, Events, WatchInv, WatchTypes, QueuedIsArmed,
              ArmedIsCached, CacheIsTrue, FreshUntilAnnounced, RegisteredLate, EventsLate
<1> QED
  BY <1>1, <1>2

(* Reading, closing and the peer change neither the queue nor the interest.  *)
LEMMA OthersKeep ==
    ASSUME WatchInv,
           EpollWait \/ handle_read \/ NetClose \/ Close \/ PeerSends \/ PeerReads \/ PeerResets
    PROVE  WatchInv'
<1>1. /\ UNCHANGED <<conn, accepted, interest, history>>
      /\ registered' = registered \/ registered' = FALSE
  BY DEF EpollWait, handle_read, NetClose, Close, close_conn, PeerSends, PeerReads, PeerResets, epoll
<1>2. todo' # {} => accepted = "announced"
  BY DEF EpollWait, handle_read, NetClose, Close, PeerSends, PeerReads, PeerResets, WatchInv, EventsLate
<1>3. /\ outgoing_queue' = outgoing_queue /\ is_write_armed' = is_write_armed
      /\ current_epoll_events' = current_epoll_events /\ accepted' = accepted
      /\ interest' = interest /\ raced' = raced
  BY <1>1 DEF conn, history
<1>4. WatchTypes'
  BY <1>1, <1>3 DEF WatchInv, WatchTypes
<1>5. CacheIsTrue' /\ FreshUntilAnnounced' /\ RegisteredLate'
  BY <1>1, <1>3 DEF WatchInv, CacheIsTrue, FreshUntilAnnounced, RegisteredLate
<1>6. QueuedIsArmed' /\ ArmedIsCached' /\ EventsLate'
  BY <1>2, <1>3 DEF WatchInv, QueuedIsArmed, ArmedIsCached, EventsLate
<1> QED
  BY <1>4, <1>5, <1>6 DEF WatchInv

(* Nothing changes.                                                          *)
LEMMA StutterKeeps ==
    ASSUME WatchInv, UNCHANGED vars
    PROVE  WatchInv'
BY DEF vars, conn, epoll, history, WatchInv, WatchTypes, QueuedIsArmed, ArmedIsCached,
       CacheIsTrue, FreshUntilAnnounced, RegisteredLate, EventsLate

(* Data that is left in the queue is armed, and unless a worker met          *)
(* accept_loop the kernel watches for room.                                  *)
THEOREM WatchedWhenQueuedHolds == Spec => []WatchedWhenQueued
<1>1. WatchInv /\ [Next]_vars => WatchInv'
  BY SendKeeps, BroadcastKeeps, WriteKeeps, FlushKeeps, AcceptKeeps, OthersKeep, StutterKeeps
  DEF Next, NetStep
<1> QED
  BY <1>1, WatchInit, WatchInvImplies, PTL DEF Spec

-----------------------------------------------------------------------------
(* The bytes of a queue.  The library's theorems of induction take an        *)
(* operator as a parameter, but a set of numbers does as well.               *)

(* Every set of numbers has a least one.                                     *)
LEMMA LeastNumber ==
    ASSUME NEW T, T \subseteq Nat, T # {}
    PROVE  \E x \in T : \A y \in T : x <= y
<1> DEFINE R == OpToRel(<, Nat)
<1>1. IsWellFoundedOn(R, Nat)
  BY NatLessThanWellFounded
<1>2. \A x, y \in Nat : x < y => <<x, y>> \in R
  BY DEF OpToRel
<1> HIDE DEF R
<1>3. PICK x \in T : \A y \in T : ~(<<y, x>> \in R)
  BY <1>1, WFMin
<1>4. \A y \in T : ~(y < x)
  BY <1>2, <1>3
<1> QED
  BY <1>3, <1>4

(* Induction over numbers, for a set.                                        *)
LEMMA SetInduction ==
    ASSUME NEW T, 0 \in T, \A n \in Nat : n \in T => n + 1 \in T
    PROVE  Nat \subseteq T
<1> SUFFICES ASSUME Nat \ T # {} PROVE FALSE
  OBVIOUS
<1>1. PICK x \in Nat \ T : \A y \in Nat \ T : x <= y
  BY LeastNumber, Nat \ T \subseteq Nat
<1>2. x - 1 \in Nat /\ x - 1 \notin Nat \ T /\ (x - 1) + 1 = x
  BY <1>1
<1> QED
  BY <1>1, <1>2

(* What the recursion asks of the sums of a queue's beginnings.              *)
SumsOf(f, queue, m) ==
    /\ f \in [0..m -> Nat]
    /\ f[0] = 0
    /\ \A n \in 1..m : f[n] = f[n - 1] + queue[n]

(* There are such sums,                                                      *)
LEMMA SumsExist ==
    ASSUME NEW queue \in Seq(Nat)
    PROVE  \E f : SumsOf(f, queue, Len(queue))
<1> DEFINE T == {m \in Nat : m <= Len(queue) => \E f : SumsOf(f, queue, m)}
<1>1. 0 \in T
  <2>1. SumsOf([n \in 0..0 |-> 0], queue, 0)
    BY DEF SumsOf
  <2> QED
    BY <2>1
<1>2. ASSUME NEW m \in Nat, m \in T PROVE m + 1 \in T
  <2> SUFFICES ASSUME m + 1 <= Len(queue) PROVE \E f : SumsOf(f, queue, m + 1)
    OBVIOUS
  <2>1. PICK f : SumsOf(f, queue, m)
    BY <1>2
  <2> DEFINE g == [n \in 0..(m + 1) |-> IF n <= m THEN f[n] ELSE f[m] + queue[m + 1]]
  <2>2. queue[m + 1] \in Nat /\ f[m] \in Nat
    BY <2>1, ElementOfSeq DEF SumsOf
  <2>3. g \in [0..(m + 1) -> Nat] /\ g[0] = 0
    BY <2>1, <2>2 DEF SumsOf
  <2>4. \A n \in 1..(m + 1) : g[n] = g[n - 1] + queue[n]
    <3> TAKE n \in 1..(m + 1)
    <3>1. CASE n <= m
      BY <3>1, <2>1 DEF SumsOf
    <3>2. CASE n = m + 1
      BY <3>2
    <3> QED
      BY <3>1, <3>2
  <2> QED
    BY <2>3, <2>4 DEF SumsOf
<1>3. Nat \subseteq T
  <2> HIDE DEF T
  <2> QED
    BY <1>1, <1>2, SetInduction
<1>4. Len(queue) \in Nat
  BY LenProperties
<1> QED
  BY <1>3, <1>4

(* and only one.                                                             *)
LEMMA SumsUnique ==
    ASSUME NEW queue, NEW k \in Nat, NEW f, NEW g, SumsOf(f, queue, k), SumsOf(g, queue, k)
    PROVE  f = g
<1> DEFINE T == {m \in Nat : m <= k => f[m] = g[m]}
<1>1. 0 \in T
  BY DEF SumsOf
<1>2. ASSUME NEW m \in Nat, m \in T PROVE m + 1 \in T
  <2> SUFFICES ASSUME m + 1 <= k PROVE f[m + 1] = g[m + 1]
    OBVIOUS
  <2>1. f[m] = g[m] /\ m + 1 \in 1..k /\ (m + 1) - 1 = m
    BY <1>2
  <2> QED
    BY <2>1 DEF SumsOf
<1>3. Nat \subseteq T
  <2> HIDE DEF T
  <2> QED
    BY <1>1, <1>2, SetInduction
<1>4. \A m \in 0..k : f[m] = g[m]
  BY <1>3
<1> QED
  BY <1>4 DEF SumsOf

(* Bytes is the last of them.                                                *)
LEMMA BytesIs ==
    ASSUME NEW queue \in Seq(Nat), NEW f, SumsOf(f, queue, Len(queue))
    PROVE  Bytes(queue) = f[Len(queue)]
<1> DEFINE Is(sum) == sum = [n \in 0..Len(queue) |-> IF n = 0 THEN 0 ELSE sum[n - 1] + queue[n]]
<1>0. Len(queue) \in Nat
  BY LenProperties
<1>1. Is(f)
  BY <1>0 DEF SumsOf
<1>2. ASSUME NEW g, Is(g) PROVE g = f
  <2> DEFINE T == {m \in Nat : m <= Len(queue) => f[m] = g[m]}
  <2>1. 0 \in T
    BY <1>0, <1>2 DEF SumsOf
  <2>2. ASSUME NEW m \in Nat, m \in T PROVE m + 1 \in T
    <3> SUFFICES ASSUME m + 1 <= Len(queue) PROVE f[m + 1] = g[m + 1]
      OBVIOUS
    <3>1. f[m] = g[m] /\ m + 1 \in 0..Len(queue) /\ (m + 1) - 1 = m /\ m + 1 # 0
      BY <2>2, <1>0
    <3> QED
      BY <3>1, <1>1, <1>2
  <2>3. Nat \subseteq T
    <3> HIDE DEF T
    <3> QED
      BY <2>1, <2>2, SetInduction
  <2>4. \A m \in 0..Len(queue) : f[m] = g[m]
    BY <2>3, <1>0
  <2> QED
    BY <2>4, <1>1, <1>2
<1>3. (CHOOSE sum : Is(sum)) = f
  BY <1>1, <1>2
<1>4. Bytes(queue) = (CHOOSE sum : Is(sum))[Len(queue)]
  BY DEF Bytes
<1> QED
  BY <1>3, <1>4

(* The sums of a queue are its own, up to its bytes.                         *)
LEMMA SumsFacts ==
    ASSUME NEW queue \in Seq(Nat)
    PROVE  \E f : /\ SumsOf(f, queue, Len(queue))
                  /\ f[Len(queue)] = Bytes(queue)
                  /\ \A n \in 0..Len(queue) : f[n] \in Nat
                  /\ Bytes(queue) \in Nat
<1>0. Len(queue) \in Nat
  BY LenProperties
<1>1. PICK f : SumsOf(f, queue, Len(queue))
  BY SumsExist
<1>2. f[Len(queue)] = Bytes(queue)
  BY <1>1, BytesIs
<1>3. \A n \in 0..Len(queue) : f[n] \in Nat
  BY <1>1 DEF SumsOf
<1>4. Bytes(queue) \in Nat
  BY <1>0, <1>2, <1>3
<1> QED
  BY <1>1, <1>2, <1>3, <1>4

(* Nothing is no bytes.                                                      *)
LEMMA BytesOfNone == Bytes(<<>>) = 0
<1>1. PICK f : SumsOf(f, <<>>, Len(<<>>)) /\ f[Len(<<>>)] = Bytes(<<>>)
  BY SumsFacts, EmptySeq
<1> QED
  BY <1>1, EmptySeq DEF SumsOf

(* One queue after another is the bytes of both.                             *)
LEMMA BytesOfConcat ==
    ASSUME NEW queue \in Seq(Nat), NEW added \in Seq(Nat)
    PROVE  Bytes(queue \o added) = Bytes(queue) + Bytes(added)
<1> DEFINE a == Len(queue)
           b == Len(added)
           both == queue \o added
<1>1. PICK f : SumsOf(f, queue, a) /\ f[a] = Bytes(queue) /\ Bytes(queue) \in Nat
  BY SumsFacts
<1>2. PICK g : SumsOf(g, added, b) /\ g[b] = Bytes(added) /\ Bytes(added) \in Nat
  BY SumsFacts
<1>3. /\ a \in Nat /\ b \in Nat
      /\ both \in Seq(Nat) /\ Len(both) = a + b
      /\ \A i \in 1..(a + b) : both[i] = IF i <= a THEN queue[i] ELSE added[i - a]
  BY LenProperties, ConcatProperties
<1> HIDE DEF a, b, both
<1> DEFINE h == [n \in 0..(a + b) |-> IF n <= a THEN f[n] ELSE f[a] + g[n - a]]
<1>4. (\A n \in 0..a : f[n] \in Nat) /\ (\A n \in 0..b : g[n] \in Nat) /\ f[0] = 0 /\ g[0] = 0
  BY <1>1, <1>2, <1>3 DEF SumsOf
<1>5. h \in [0..(a + b) -> Nat] /\ h[0] = 0
  <2>1. ASSUME NEW n \in 0..(a + b) PROVE h[n] \in Nat
    <3>1. CASE n <= a
      BY <3>1, <1>4, <1>3
    <3>2. CASE ~(n <= a)
      <4>1. n - a \in 0..b /\ a \in 0..a
        BY <3>2, <1>3
      <4>2. f[a] \in Nat /\ g[n - a] \in Nat
        BY <4>1, <1>4
      <4> QED
        BY <3>2, <4>2
    <3> QED
      BY <3>1, <3>2
  <2>2. 0 \in 0..(a + b) /\ 0 <= a
    BY <1>3
  <2>3. h[0] = 0
    BY <2>2, <1>4
  <2> QED
    BY <2>1, <2>3
<1>6. \A n \in 1..(a + b) : h[n] = h[n - 1] + both[n]
  <2> TAKE n \in 1..(a + b)
  <2>0. n - 1 \in 0..(a + b) /\ n \in 0..(a + b)
    BY <1>3
  <2>1. CASE n <= a
    <3>1. n - 1 <= a /\ n \in 1..a
      BY <2>1, <1>3
    <3>2. h[n] = f[n] /\ h[n - 1] = f[n - 1] /\ both[n] = queue[n]
      BY <2>0, <2>1, <3>1, <1>3
    <3>3. f[n] = f[n - 1] + queue[n]
      BY <3>1, <1>1 DEF SumsOf
    <3> QED
      BY <3>2, <3>3
  <2>2. CASE ~(n <= a)
    <3>1. n - a \in 1..b /\ (n - a) - 1 = (n - 1) - a /\ (n - a) - 1 \in 0..b /\ a \in 0..a
      BY <2>2, <1>3
    <3>2. g[n - a] = g[(n - a) - 1] + added[n - a]
      BY <3>1, <1>2 DEF SumsOf
    <3>3. added[n - a] \in Nat
      BY <3>1, ElementOfSeq DEF b
    <3>4. f[a] \in Nat /\ g[n - a] \in Nat /\ g[(n - 1) - a] \in Nat
      BY <3>1, <1>4
    <3>5. h[n] = f[a] + g[n - a] /\ both[n] = added[n - a]
      BY <2>0, <2>2, <1>3
    <3>6. h[n - 1] = f[a] + g[(n - 1) - a]
      <4>1. CASE n - 1 <= a
        <5>1. n - 1 = a /\ (n - 1) - a = 0
          BY <4>1, <2>2, <1>3
        <5> QED
          BY <5>1, <2>0, <1>4, <3>4
      <4>2. CASE ~(n - 1 <= a)
        BY <4>2, <2>0
      <4> QED
        BY <4>1, <4>2
    <3>7. g[n - a] = g[(n - 1) - a] + added[n - a]
      BY <3>1, <3>2
    <3> DEFINE u == f[a]
               v == g[(n - 1) - a]
               w == added[n - a]
    <3>8. h[n] = u + (v + w) /\ h[n - 1] = u + v /\ both[n] = w /\ {u, v, w} \subseteq Nat
      BY <3>3, <3>4, <3>5, <3>6, <3>7
    <3> HIDE DEF u, v, w, h
    <3> QED
      BY <3>8
  <2> QED
    BY <2>1, <2>2
<1>7. SumsOf(h, both, a + b)
  BY <1>5, <1>6 DEF SumsOf
<1>8. Bytes(both) = h[a + b]
  BY <1>7, <1>3, BytesIs
<1>9. h[a + b] = f[a] + g[b]
  <2>1. CASE b = 0
    BY <2>1, <1>3, <1>4, <1>1
  <2>2. CASE b # 0
    BY <2>2, <1>3
  <2> QED
    BY <2>1, <2>2
<1> QED
  BY <1>1, <1>2, <1>8, <1>9 DEF a, b, both

(* A packet that is queued adds its length.                                  *)
LEMMA BytesOfAppend ==
    ASSUME NEW queue \in Seq(Nat), NEW size \in Nat
    PROVE  Bytes(Append(queue, size)) = Bytes(queue) + size
<1>1. Append(queue, size) = queue \o <<size>>
  BY AppendIsConcat
<1>2. <<size>> \in Seq(Nat) /\ Len(<<size>>) = 1 /\ <<size>>[1] = size
  OBVIOUS
<1>3. PICK f : SumsOf(f, <<size>>, Len(<<size>>)) /\ f[Len(<<size>>)] = Bytes(<<size>>)
  BY <1>2, SumsFacts
<1>4. Bytes(<<size>>) = size
  <2>1. f[0] = 0 /\ f[1] = f[1 - 1] + <<size>>[1] /\ 1 - 1 = 0
    BY <1>2, <1>3 DEF SumsOf
  <2> QED
    BY <1>2, <1>3, <2>1
<1> QED
  BY <1>1, <1>2, <1>4, BytesOfConcat

-----------------------------------------------------------------------------
(* The books: pending_bytes and is_reading_paused.                           *)

Sizes == Nat \ {0}

(* What a write leaves is a queue of packets, shorter in bytes or not.       *)
LEMMA AfterWriteType ==
    ASSUME NEW queue \in Seq(Sizes)
    PROVE  AfterWrite(queue) \subseteq Seq(Sizes)
<1>1. <<>> \in Seq(Sizes)
  OBVIOUS
<1>2. ASSUME NEW i \in DOMAIN queue, NEW left \in 1..queue[i]
      PROVE  <<left>> \o SubSeq(queue, i + 1, Len(queue)) \in Seq(Sizes)
  <2>1. queue[i] \in Sizes /\ left \in Sizes
    BY ElementOfSeq DEF Sizes
  <2>2. SubSeq(queue, i + 1, Len(queue)) \in Seq(Sizes)
    BY LenProperties, SubSeqProperties
  <2>3. <<left>> \in Seq(Sizes)
    BY <2>1
  <2> QED
    BY <2>2, <2>3, ConcatProperties
<1>3. ASSUME NEW after \in AfterWrite(queue) PROVE after \in Seq(Sizes)
  <2>1. after = <<>> \/ \E i \in DOMAIN queue : \E left \in 1..queue[i] :
                           after = <<left>> \o SubSeq(queue, i + 1, Len(queue))
    BY DEF AfterWrite
  <2> QED
    BY <2>1, <1>1, <1>2
<1> QED
  BY <1>3

(* Packets have lengths, and lengths add up to a number.                     *)
LEMMA PacketsAreBytes ==
    ASSUME NEW queue \in Seq(Sizes)
    PROVE  queue \in Seq(Nat) /\ Bytes(queue) \in Nat
<1>1. queue \in Seq(Nat)
  BY SeqMonotonic DEF Sizes
<1> QED
  BY <1>1, SumsFacts

(* The books of a connection.                                                *)
Books ==
    /\ outgoing_queue \in Seq(Sizes)
    /\ pending_bytes = Bytes(outgoing_queue)
    /\ is_reading_paused \in BOOLEAN
    /\ is_reading_paused => outgoing_queue # <<>>

(* attempt_write keeps them, if it is given a queue with its bytes: what is  *)
(* written is what the queue has lost.                                       *)
LEMMA WriteKeepsBooks ==
    ASSUME ConnWriterAssumption, NEW queue \in Seq(Sizes), NEW paused \in BOOLEAN,
           paused => queue # <<>>,
           attempt_write(queue, Bytes(queue), paused)
    PROVE  Books' /\ (writable \in BOOLEAN => writable' \in BOOLEAN)
<1>0. Bytes(queue) \in Nat
  BY PacketsAreBytes
<1>1. CASE queue = <<>> \/ broken
  <2>1. /\ outgoing_queue' = queue /\ pending_bytes' = Bytes(queue)
        /\ is_reading_paused' = paused /\ writable' = writable
    BY <1>1 DEF attempt_write
  <2> QED
    BY <2>1 DEF Books
<1>2. CASE ~(queue = <<>> \/ broken)
  <2>1. /\ outgoing_queue' \in IF writable THEN AfterWrite(queue) \ {queue} ELSE {queue}
        /\ pending_bytes' = PendingAfter(Bytes(queue), Bytes(queue) - Bytes(outgoing_queue'))
        /\ is_reading_paused' =
               IF outgoing_queue' = <<>> THEN PausedAfter(paused, pending_bytes') ELSE paused
        /\ writable' \in IF outgoing_queue' = <<>> THEN BOOLEAN ELSE {FALSE}
    BY <1>2 DEF attempt_write
  <2>2. outgoing_queue' \in Seq(Sizes)
    BY <2>1, AfterWriteType
  <2>3. Bytes(outgoing_queue') \in Nat
    BY <2>2, PacketsAreBytes
  <2>4. pending_bytes' = Bytes(outgoing_queue')
    BY <1>0, <2>1, <2>3 DEF PendingAfter
  <2>5. outgoing_queue' = <<>> => ~PausedAfter(paused, pending_bytes')
    BY <2>4, BytesOfNone, ConnWriterAssumption DEF PausedAfter
  <2>6. is_reading_paused' \in BOOLEAN /\ (is_reading_paused' => outgoing_queue' # <<>>)
    <3>1. CASE outgoing_queue' = <<>>
      <4>1. PausedAfter(paused, pending_bytes') = FALSE
        BY <3>1, <2>5 DEF PausedAfter
      <4> QED
        BY <3>1, <2>1, <4>1
    <3>2. CASE outgoing_queue' # <<>>
      BY <3>2, <2>1
    <3> QED
      BY <3>1, <3>2
  <2>7. writable' \in BOOLEAN
    BY <2>1
  <2> QED
    BY <2>2, <2>4, <2>6, <2>7 DEF Books
<1> QED
  BY <1>1, <1>2

(* The flag stays one.                                                       *)
LEMMA WatermarkIs ==
    ASSUME Books, NEW pending PROVE Watermark(pending) \in BOOLEAN
BY DEF Books, Watermark

(* A reply.                                                                  *)
LEMMA SendKeepsBooks ==
    ASSUME ConnWriterAssumption, Books, NEW size \in Size, SendPreEncoded(size)
    PROVE  Books' /\ (writable \in BOOLEAN => writable' \in BOOLEAN)
<1> DEFINE queue == Append(outgoing_queue, size)
           pending == pending_bytes + size
<1>1. size \in Sizes /\ size \in Nat
  BY DEF ConnWriterAssumption, Sizes
<1>2. queue \in Seq(Sizes) /\ queue # <<>>
  BY <1>1, AppendProperties DEF Books
<1>3. pending = Bytes(queue)
  BY <1>1, PacketsAreBytes, BytesOfAppend DEF Books
<1>4. Watermark(pending) \in BOOLEAN
  BY WatermarkIs
<1>5. \/ attempt_write(queue, pending, Watermark(pending))
      \/ /\ outgoing_queue' = queue /\ pending_bytes' = pending
         /\ is_reading_paused' = Watermark(pending)
         /\ UNCHANGED writable
  BY DEF SendPreEncoded
<1> HIDE DEF queue, pending
<1>6. CASE attempt_write(queue, pending, Watermark(pending))
  BY <1>2, <1>3, <1>4, <1>6, WriteKeepsBooks
<1> QED
  BY <1>2, <1>3, <1>4, <1>5, <1>6 DEF Books

(* A broadcast.                                                              *)
LEMMA BroadcastKeepsBooks ==
    ASSUME ConnWriterAssumption, Books, NEW batch \in Seq(Size), BroadcastTo(batch)
    PROVE  Books' /\ (writable \in BOOLEAN => writable' \in BOOLEAN)
<1> DEFINE room == IF Len(outgoing_queue) < MAX_OUTGOING_QUEUE_SIZE
                   THEN MAX_OUTGOING_QUEUE_SIZE - Len(outgoing_queue) ELSE 0
           added == SubSeq(batch, 1, IF room < Len(batch) THEN room ELSE Len(batch))
           queue == outgoing_queue \o added
           pending == pending_bytes + Bytes(added)
<1>1. Len(batch) \in Nat /\ Len(outgoing_queue) \in Nat /\ room \in Nat
  BY LenProperties DEF ConnWriterAssumption, Books
<1>2. batch \in Seq(Sizes)
  BY SeqMonotonic DEF ConnWriterAssumption, Sizes
<1>3. added \in Seq(Sizes)
  BY <1>1, <1>2, SubSeqProperties, ElementOfSeq
<1>4. added # <<>> /\ attempt_write(queue, pending, Watermark(pending))
  BY DEF BroadcastTo
<1> HIDE DEF added
<1>5. queue \in Seq(Sizes) /\ queue # <<>>
  BY <1>3, <1>4, ConcatProperties, EmptySeq, LenProperties DEF Books
<1>6. pending = Bytes(queue)
  BY <1>3, PacketsAreBytes, BytesOfConcat DEF Books
<1>7. Watermark(pending) \in BOOLEAN
  BY WatermarkIs
<1> HIDE DEF queue, pending
<1> QED
  BY <1>4, <1>5, <1>6, <1>7, WriteKeepsBooks

(* What is left of the queue is written, by the reactor or by its timer.     *)
LEMMA RestKeepsBooks ==
    ASSUME ConnWriterAssumption, Books, handle_write \/ Flush
    PROVE  Books' /\ (writable \in BOOLEAN => writable' \in BOOLEAN)
<1>1. attempt_write(outgoing_queue, pending_bytes, is_reading_paused)
  BY DEF handle_write, Flush
<1> QED
  BY <1>1, WriteKeepsBooks DEF Books

(* The rest of TypeOK.                                                       *)
FieldTypes ==
    /\ {is_write_armed, closed, registered, ready, readable, writable,
        nospace, broken, raced} \subseteq BOOLEAN
    /\ {current_epoll_events, interest} \subseteq SUBSET {"IN", "OUT"}
    /\ accepted \in {"inserted", "registered", "announced"}
    /\ todo \subseteq {"IN", "OUT", "close"}
    /\ queued \in 0..MaxPackets

(* An update asks for no other events than it is given.                      *)
LEMMA UpdateTypes ==
    ASSUME FieldTypes, NEW first, NEW second \in SUBSET {"IN", "OUT"}, UpdateTwice(first, second)
    PROVE  /\ {current_epoll_events', interest'} \subseteq SUBSET {"IN", "OUT"}
           /\ {ready', nospace'} \subseteq BOOLEAN
<1>1. ready' \in BOOLEAN /\ nospace' \in BOOLEAN
  BY DEF UpdateTwice
<1>2. current_epoll_events' = second /\ interest' \in {second, interest}
  BY DEF UpdateTwice
<1> QED
  BY <1>1, <1>2 DEF FieldTypes

(* Arming asks for nothing but EPOLLOUT.                                     *)
LEMMA ArmTypes ==
    ASSUME FieldTypes, Arm
    PROVE  /\ {current_epoll_events', interest'} \subseteq SUBSET {"IN", "OUT"}
           /\ {ready', nospace', is_write_armed'} \subseteq BOOLEAN
<1> DEFINE events == current_epoll_events \cup If(outgoing_queue' # <<>> /\ ~is_write_armed, "OUT")
<1>1. UpdateTwice(events, events)
  BY DEF Arm, update_epoll_events
<1>2. events \in SUBSET {"IN", "OUT"}
  BY DEF FieldTypes, If
<1>3. is_write_armed' \in BOOLEAN
  BY DEF Arm
<1> QED
  BY <1>1, <1>2, <1>3, UpdateTypes

(* The batches of Next are batches.                                          *)
LEMMA BatchesAreSequences ==
    ASSUME NEW batch \in {<<size>> : size \in Size} \cup (Size \X Size)
    PROVE  batch \in Seq(Size)
<1>1. ASSUME NEW size \in Size, batch = <<size>> PROVE batch \in Seq(Size)
  BY <1>1
<1>2. ASSUME NEW first \in Size, NEW second \in Size, batch = <<first, second>> PROVE batch \in Seq(Size)
  BY <1>2
<1>3. \/ \E size \in Size : batch = <<size>>
      \/ \E first \in Size, second \in Size : batch = <<first, second>>
  OBVIOUS
<1> QED
  BY <1>1, <1>2, <1>3

(* An action keeps the types.                                                *)
LEMMA TypesKeep ==
    ASSUME ConnWriterAssumption, Books, FieldTypes, [Next]_vars
    PROVE  FieldTypes'
<1>1. ASSUME NEW size \in Size, SendPreEncoded(size) PROVE FieldTypes'
  <2>1. PICK first : UpdateTwice(first, Wanted)
    BY <1>1 DEF SendPreEncoded, update_epoll_events
  <2>2. Wanted \in SUBSET {"IN", "OUT"}
    BY DEF Wanted, If
  <2>3. writable' \in BOOLEAN
    BY <1>1, SendKeepsBooks DEF FieldTypes
  <2>4. queued' \in 0..MaxPackets
    BY <1>1 DEF SendPreEncoded, FieldTypes, ConnWriterAssumption
  <2>5. /\ is_write_armed' \in BOOLEAN
        /\ UNCHANGED <<closed, accepted, todo, registered, readable, broken, raced>>
    BY <1>1 DEF SendPreEncoded
  <2> QED
    BY <2>1, <2>2, <2>3, <2>4, <2>5, UpdateTypes DEF FieldTypes
<1>2. ASSUME NEW batch \in Seq(Size), BroadcastTo(batch) PROVE FieldTypes'
  <2>1. Arm /\ writable' \in BOOLEAN
    BY <1>2, BroadcastKeepsBooks DEF FieldTypes, BroadcastTo
  <2>2. queued' \in 0..MaxPackets
    <3> DEFINE room == IF Len(outgoing_queue) < MAX_OUTGOING_QUEUE_SIZE
                       THEN MAX_OUTGOING_QUEUE_SIZE - Len(outgoing_queue) ELSE 0
               added == SubSeq(batch, 1, IF room < Len(batch) THEN room ELSE Len(batch))
    <3>1. queued + Len(added) <= MaxPackets /\ queued' = queued + Len(added)
      BY <1>2 DEF BroadcastTo
    <3>2. Len(batch) \in Nat /\ Len(outgoing_queue) \in Nat /\ room \in Nat
      BY LenProperties DEF ConnWriterAssumption, Books
    <3>3. added \in Seq(Size)
      BY <3>2, SubSeqProperties, ElementOfSeq
    <3>4. Len(added) \in Nat
      BY <3>3, LenProperties
    <3> QED
      BY <3>1, <3>4 DEF FieldTypes, ConnWriterAssumption
  <2>3. raced' \in BOOLEAN /\ UNCHANGED <<closed, accepted, todo, registered, readable, broken>>
    BY <1>2 DEF BroadcastTo
  <2> QED
    BY <2>1, <2>2, <2>3, ArmTypes DEF FieldTypes
<1>3. ASSUME NEW batch \in {<<size>> : size \in Size} \cup (Size \X Size), BroadcastTo(batch)
      PROVE  FieldTypes'
  <2>1. batch \in Seq(Size)
    BY BatchesAreSequences
  <2> QED
    BY <2>1, <1>2, <1>3
<1>4. CASE add_fd_to_epoll
  BY <1>4 DEF add_fd_to_epoll, conn, history, FieldTypes
<1>5. CASE SetEvents
  BY <1>5 DEF SetEvents, epoll, socket, history, If, FieldTypes
<1>6. CASE handle_write
  <2>1. writable' \in BOOLEAN
    BY <1>6, RestKeepsBooks DEF FieldTypes
  <2>2. /\ is_write_armed' \in BOOLEAN
        /\ todo' \in {{"close"}, {}}
        /\ UNCHANGED <<closed, accepted, registered, readable, broken, history>>
    BY <1>6 DEF handle_write
  <2>3. UNCHANGED <<current_epoll_events, interest, ready, nospace>> \/ UpdateTwice(Wanted, Wanted)
    BY <1>6 DEF handle_write, update_epoll_events
  <2>4. Wanted \in SUBSET {"IN", "OUT"}
    BY DEF Wanted, If
  <2>5. /\ {current_epoll_events', interest'} \subseteq SUBSET {"IN", "OUT"}
        /\ {ready', nospace'} \subseteq BOOLEAN
    BY <2>3, <2>4, UpdateTypes DEF FieldTypes
  <2> QED
    BY <2>1, <2>2, <2>5 DEF FieldTypes, history
<1>7. CASE Flush
  <2>1. Arm /\ writable' \in BOOLEAN
    BY <1>7, RestKeepsBooks DEF FieldTypes, Flush
  <2>2. UNCHANGED <<closed, accepted, todo, registered, readable, broken, history>>
    BY <1>7 DEF Flush
  <2> QED
    BY <2>1, <2>2, ArmTypes DEF FieldTypes, history
<1>8. CASE EpollWait
  BY <1>8 DEF EpollWait, If, conn, history, FieldTypes
<1>9. CASE handle_read \/ NetClose \/ Close
  BY <1>9 DEF handle_read, NetClose, Close, close_conn, conn, epoll, socket, history, FieldTypes
<1>10. CASE PeerSends \/ PeerReads \/ PeerResets
  BY <1>10 DEF PeerSends, PeerReads, PeerResets, conn, history, FieldTypes
<1>11. CASE UNCHANGED vars
  BY <1>11 DEF vars, conn, epoll, socket, history, FieldTypes
<1> QED
  BY <1>1, <1>3, <1>4, <1>5, <1>6, <1>7, <1>8, <1>9, <1>10, <1>11 DEF Next, NetStep

(* The other actions leave the books alone.                                  *)
LEMMA OthersKeepBooks ==
    ASSUME Books, UNCHANGED <<outgoing_queue, pending_bytes, is_reading_paused>>
    PROVE  Books'
BY DEF Books

(* pending_bytes is what the queue holds through every partial write, and a  *)
(* connection whose reading is paused has data to wait for, for packets,     *)
(* batches, marks and limits of any size.                                    *)
THEOREM AccountedHolds == Spec => []Accounted
<1>1. Init => Books /\ FieldTypes
  <2> SUFFICES ASSUME Init PROVE Books /\ FieldTypes
    OBVIOUS
  <2>1. Books
    <3>1. outgoing_queue = <<>> /\ pending_bytes = 0 /\ is_reading_paused = FALSE
      BY DEF Init
    <3>2. <<>> \in Seq(Sizes)
      OBVIOUS
    <3> QED
      BY <3>1, <3>2, BytesOfNone DEF Books
  <2>2. 0 \in 0..MaxPackets
    BY ConnWriterAssumption DEF ConnWriterAssumption
  <2> QED
    BY <2>1, <2>2 DEF Init, FieldTypes
<1>2. Books /\ FieldTypes /\ [Next]_vars => (Books /\ FieldTypes)'
  <2> SUFFICES ASSUME Books, FieldTypes, [Next]_vars PROVE Books' /\ FieldTypes'
    OBVIOUS
  <2>1. FieldTypes'
    BY TypesKeep, ConnWriterAssumption
  <2>2. ASSUME NEW size \in Size, SendPreEncoded(size) PROVE Books'
    BY <2>2, SendKeepsBooks, ConnWriterAssumption
  <2>3. ASSUME NEW batch \in {<<size>> : size \in Size} \cup (Size \X Size), BroadcastTo(batch)
        PROVE  Books'
    <3>1. batch \in Seq(Size)
      BY BatchesAreSequences
    <3> QED
      BY <3>1, <2>3, BroadcastKeepsBooks, ConnWriterAssumption
  <2>4. CASE handle_write \/ Flush
    BY <2>1, <2>4, RestKeepsBooks, ConnWriterAssumption
  <2>5. CASE \/ add_fd_to_epoll \/ SetEvents \/ EpollWait \/ handle_read \/ NetClose \/ Close
             \/ PeerSends \/ PeerReads \/ PeerResets \/ UNCHANGED vars
    <3>1. UNCHANGED <<outgoing_queue, pending_bytes, is_reading_paused>>
      BY <2>5 DEF add_fd_to_epoll, SetEvents, EpollWait, handle_read, NetClose, Close, close_conn,
                  PeerSends, PeerReads, PeerResets, vars, conn
    <3> QED
      BY <2>1, <3>1, OthersKeepBooks
  <2> QED
    BY <2>1, <2>2, <2>3, <2>4, <2>5 DEF Next, NetStep
<1>3. Books /\ FieldTypes => Accounted
  <2> SUFFICES ASSUME Books, FieldTypes PROVE Accounted
    OBVIOUS
  <2>1. pending_bytes \in Nat
    BY PacketsAreBytes DEF Books
  <2> QED
    BY <2>1 DEF Books, FieldTypes, Sizes, Accounted, TypeOK
<1> QED
  BY <1>1, <1>2, <1>3, PTL DEF Spec
=============================================================================
