------------------------ MODULE ChatServerV3_proofs ------------------------
(* Version 3 keeps names, descriptors and broadcasts right, for any number   *)
(* of connections, descriptors, shards, workers and messages.                *)
EXTENDS ChatServerV3, FiniteSetTheorems, SequenceTheorems, WellFoundedInduction, TLAPS

(* Every set of numbers has a least one.                                     *)
LEMMA LeastNumber ==
    ASSUME NEW T, T \subseteq Nat, T # {}
    PROVE  \E x \in T : \A y \in T : x <= y
<1> DEFINE R == OpToRel(<, Nat)
<1>1. IsWellFoundedOn(R, Nat)
  BY NatLessThanWellFounded
<1>2. \A x, y \in Nat : x < y => <<x, y>> \in R
  BY DEF OpToRel
<1> HIDE DEF R
<1>3. PICK x \in T : \A y \in T : ~(<<y, x>> \in R)
  BY <1>1, WFMin
<1>4. \A y \in T : ~(y < x)
  BY <1>2, <1>3
<1> QED
  BY <1>3, <1>4

(* Induction over numbers, for a set.                                        *)
LEMMA SetInduction ==
    ASSUME NEW T, 0 \in T, \A n \in Nat : n \in T => n + 1 \in T
    PROVE  Nat \subseteq T
<1> SUFFICES ASSUME Nat \ T # {} PROVE FALSE
  OBVIOUS
<1>1. PICK x \in Nat \ T : \A y \in Nat \ T : x <= y
  BY LeastNumber, Nat \ T \subseteq Nat
<1>2. x - 1 \in Nat /\ x - 1 \notin Nat \ T /\ (x - 1) + 1 = x
  BY <1>1
<1> QED
  BY <1>1, <1>2

-----------------------------------------------------------------------------
(* Filtering the events of a batch.                                          *)

(* A choice of the first m events of a batch, as the loop makes it.          *)
ChoiceOf(f, c, events, m) ==
    /\ f = [n \in 0..m |-> f[n]]
    /\ f[0] = <<>>
    /\ \A n \in 1..m : f[n] = IF sent[events[n]].sender_fd # fd[c] THEN Append(f[n - 1], events[n])
                              ELSE f[n - 1]

(* What is chosen is of the batch, all of it that is not the client's own,   *)
(* and nothing twice unless the batch has it twice.                          *)
Chosen(chosen, c, events, m) ==
    /\ chosen \in Seq(Nat)
    /\ \A e : Within(e, chosen) <=> \E i \in 1..m : events[i] = e /\ sent[e].sender_fd # fd[c]
    /\ IsInjective(events) => IsInjective(chosen)

(* An event that is appended is the last one.                                *)
LEMMA WithinAppend ==
    ASSUME NEW S, NEW q \in Seq(S), NEW x \in S
    PROVE  /\ Append(q, x) \in Seq(S)
           /\ \A e : Within(e, Append(q, x)) <=> Within(e, q) \/ e = x
           /\ IsInjective(q) /\ ~Within(x, q) => IsInjective(Append(q, x))
<1>1. /\ Append(q, x) \in Seq(S) /\ Len(Append(q, x)) = Len(q) + 1 /\ Len(q) \in Nat
      /\ \A i \in 1..Len(q) : Append(q, x)[i] = q[i]
      /\ Append(q, x)[Len(q) + 1] = x
  BY AppendProperties, LenProperties
<1>2. DOMAIN q = 1..Len(q) /\ DOMAIN Append(q, x) = 1..Len(Append(q, x))
  BY <1>1, LenProperties
<1> DEFINE p == Append(q, x)  k == Len(q)
<1>3. /\ p \in Seq(S) /\ Len(p) = k + 1 /\ k \in Nat /\ p[k + 1] = x
      /\ \A i \in 1..k : p[i] = q[i]
      /\ DOMAIN q = 1..k /\ DOMAIN p = 1..(k + 1)
  BY <1>1, <1>2
<1> HIDE DEF p
<1>4. \A e : Within(e, p) <=> Within(e, q) \/ e = x
  BY <1>3 DEF Within
<1>5. IsInjective(q) /\ ~Within(x, q) => IsInjective(p)
  BY <1>3 DEF Within, IsInjective
<1> QED
  BY <1>3, <1>4, <1>5 DEF p

(* NotOwn is such a choice.                                                  *)
LEMMA ChoicesGood ==
    ASSUME NEW c, NEW events \in Seq(Nat), NEW f, ChoiceOf(f, c, events, Len(events))
    PROVE  Chosen(f[Len(events)], c, events, Len(events))
<1> DEFINE k == Len(events)
           T == {m \in Nat : m <= k => Chosen(f[m], c, events, m)}
<1>0. k \in Nat
  BY LenProperties
<1>1. 0 \in T
  <2>1. f[0] = <<>>
    BY DEF ChoiceOf
  <2>2. <<>> \in Seq(Nat) /\ Len(<<>>) = 0 /\ DOMAIN <<>> = {}
    OBVIOUS
  <2>3. \A e : ~Within(e, <<>>)
    BY <2>2 DEF Within
  <2>4. IsInjective(<<>>)
    BY <2>2 DEF IsInjective
  <2>5. \A e : ~\E i \in 1..0 : events[i] = e /\ sent[e].sender_fd # fd[c]
    OBVIOUS
  <2>6. Chosen(<<>>, c, events, 0)
    BY <2>2, <2>3, <2>4, <2>5 DEF Chosen
  <2> QED
    BY <2>1, <2>6
<1>2. ASSUME NEW m \in Nat, m \in T PROVE m + 1 \in T
  <2> SUFFICES ASSUME m + 1 <= k PROVE Chosen(f[m + 1], c, events, m + 1)
    OBVIOUS
  <2>1. Chosen(f[m], c, events, m) /\ m + 1 \in 1..k /\ (m + 1) - 1 = m
    BY <1>0, <1>2
  <2> DEFINE x == events[m + 1]
  <2>2. x \in Nat
    BY <2>1, ElementOfSeq
  <2>3. f[m + 1] = IF sent[x].sender_fd # fd[c] THEN Append(f[m], x) ELSE f[m]
    BY <2>1 DEF ChoiceOf
  <2>4. \A e : (\E i \in 1..(m + 1) : events[i] = e /\ sent[e].sender_fd # fd[c])
               <=> \/ \E i \in 1..m : events[i] = e /\ sent[e].sender_fd # fd[c]
                   \/ x = e /\ sent[e].sender_fd # fd[c]
    <3>1. 1..(m + 1) = 1..m \cup {m + 1}
      OBVIOUS
    <3> QED
      BY <3>1
  <2>5. IsInjective(events) => \A i \in 1..m : events[i] # x
    BY <2>1, <1>0, LenProperties DEF IsInjective
  <2> HIDE DEF x
  <2>6. CASE sent[x].sender_fd # fd[c]
    <3>1. f[m] \in Seq(Nat)
      BY <2>1 DEF Chosen
    <3>2. /\ Append(f[m], x) \in Seq(Nat)
          /\ \A e : Within(e, Append(f[m], x)) <=> Within(e, f[m]) \/ e = x
          /\ IsInjective(f[m]) /\ ~Within(x, f[m]) => IsInjective(Append(f[m], x))
      BY <3>1, <2>2, WithinAppend
    <3>3. f[m + 1] = Append(f[m], x)
      BY <2>3, <2>6
    <3>4. IsInjective(events) => ~Within(x, f[m])
      BY <2>1, <2>5 DEF Chosen
    <3>5. \A e : Within(e, f[m + 1]) <=> \E i \in 1..(m + 1) : events[i] = e /\ sent[e].sender_fd # fd[c]
      <4>1. \A e : Within(e, f[m]) <=> \E i \in 1..m : events[i] = e /\ sent[e].sender_fd # fd[c]
        BY <2>1 DEF Chosen
      <4> QED
        BY <2>4, <2>6, <3>2, <3>3, <4>1
    <3>6. IsInjective(events) => IsInjective(f[m + 1])
      BY <2>1, <3>2, <3>3, <3>4 DEF Chosen
    <3> QED
      BY <3>2, <3>3, <3>5, <3>6 DEF Chosen
  <2>7. CASE ~(sent[x].sender_fd # fd[c])
    BY <2>1, <2>3, <2>4, <2>7 DEF Chosen
  <2> QED
    BY <2>6, <2>7
<1>3. Nat \subseteq T
  <2> HIDE DEF T
  <2> QED
    BY <1>1, <1>2, SetInduction
<1> QED
  BY <1>0, <1>3

(* NotOwn, that Deliver hands to the client, is a choice of its batch.       *)
LEMMA NotOwnChosen ==
    ASSUME NEW c, NEW events \in Seq(Nat)
    PROVE  Chosen(NotOwn(c, events), c, events, Len(events))
<1> DEFINE k == Len(events)
           Step(f, n) == IF sent[events[n]].sender_fd # fd[c] THEN Append(f[n - 1], events[n]) ELSE f[n - 1]
           Is(f) == f = [n \in 0..k |-> IF n = 0 THEN <<>>
                                        ELSE IF sent[events[n]].sender_fd # fd[c]
                                             THEN Append(f[n - 1], events[n]) ELSE f[n - 1]]
           T == {m \in Nat : m <= k => \E f : ChoiceOf(f, c, events, m)}
<1>0. k \in Nat
  BY LenProperties
<1>1. 0 \in T
  <2>1. ChoiceOf([n \in 0..0 |-> <<>>], c, events, 0)
    BY DEF ChoiceOf
  <2> QED
    BY <2>1
<1>2. ASSUME NEW m \in Nat, m \in T PROVE m + 1 \in T
  <2> SUFFICES ASSUME m + 1 <= k PROVE \E f : ChoiceOf(f, c, events, m + 1)
    OBVIOUS
  <2>1. PICK f : ChoiceOf(f, c, events, m)
    BY <1>0, <1>2
  <2> DEFINE next == IF sent[events[m + 1]].sender_fd # fd[c] THEN Append(f[m], events[m + 1]) ELSE f[m]
             g == [n \in 0..(m + 1) |-> IF n <= m THEN f[n] ELSE next]
  <2>2. g = [n \in 0..(m + 1) |-> g[n]] /\ g[0] = <<>>
    BY <2>1 DEF ChoiceOf
  <2>3. \A n \in 1..(m + 1) : g[n] = IF sent[events[n]].sender_fd # fd[c]
                                     THEN Append(g[n - 1], events[n]) ELSE g[n - 1]
    <3> TAKE n \in 1..(m + 1)
    <3>1. CASE n <= m
      <4>1. n \in 1..m /\ n - 1 \in 0..(m + 1) /\ n - 1 <= m /\ n \in 0..(m + 1)
        BY <3>1
      <4>2. g[n] = f[n] /\ g[n - 1] = f[n - 1]
        BY <3>1, <4>1
      <4> HIDE DEF g
      <4> QED
        BY <4>1, <4>2, <2>1 DEF ChoiceOf
    <3>2. CASE n = m + 1
      <4>1. g[m + 1] = next /\ g[m] = f[m] /\ (m + 1) - 1 = m
        OBVIOUS
      <4> HIDE DEF g
      <4> QED
        BY <3>2, <4>1
    <3> QED
      BY <3>1, <3>2
  <2> HIDE DEF g
  <2> QED
    BY <2>2, <2>3 DEF ChoiceOf
<1>3. Nat \subseteq T
  <2> HIDE DEF T
  <2> QED
    BY <1>1, <1>2, SetInduction
<1>4. PICK f : ChoiceOf(f, c, events, k)
  BY <1>0, <1>3
<1>5. Is(f)
  <2>1. f = [n \in 0..k |-> f[n]]
    BY <1>4 DEF ChoiceOf
  <2>2. \A n \in 0..k : n # 0 => n \in 1..k
    BY <1>0
  <2> HIDE DEF k
  <2> QED
    BY <1>4, <2>1, <2>2 DEF ChoiceOf
<1>6. \E g : Is(g)
  BY <1>5
<1>7. Is(CHOOSE g : Is(g))
  <2> HIDE DEF Is
  <2> QED
    BY <1>6
<1>8. NotOwn(c, events) = (CHOOSE g : Is(g))[k]
  BY DEF NotOwn
<1> DEFINE h == CHOOSE g : Is(g)
<1>9. ChoiceOf(h, c, events, k)
  <2>1. Is(h)
    BY <1>7
  <2> HIDE DEF h
  <2>2. h = [n \in 0..k |-> h[n]] /\ h[0] = <<>>
    BY <2>1, <1>0
  <2>3. ASSUME NEW n \in 1..k
        PROVE  h[n] = IF sent[events[n]].sender_fd # fd[c] THEN Append(h[n - 1], events[n]) ELSE h[n - 1]
    <3>1. n \in 0..k /\ n # 0
      BY <1>0
    <3> QED
      BY <2>1, <3>1
  <2> QED
    BY <2>2, <2>3 DEF ChoiceOf
<1> QED
  BY <1>8, <1>9, ChoicesGood

-----------------------------------------------------------------------------
(* The tasks of process_global_queue.                                        *)

(* A finite set, as a sequence, has each of its elements once.               *)
LEMMA SetToSeqIs ==
    ASSUME NEW S, IsFiniteSet(S)
    PROVE  /\ SetToSeq(S) \in Seq(S)
           /\ IsInjective(SetToSeq(S))
           /\ \A x \in S : Within(x, SetToSeq(S))
<1> DEFINE k == Cardinality(S)
           q == SetToSeq(S)
<1>1. k \in Nat /\ Bijection(1..k, S) # {}
  BY FS_CardinalityType DEF ExistsBijection
<1>2. \E f \in [1..k -> S] : IsInjective(f)
  BY <1>1 DEF Bijection, Injection
<1>3. q \in [1..k -> S] /\ IsInjective(q)
  <2>1. q = CHOOSE f \in [1..k -> S] : IsInjective(f)
    BY DEF SetToSeq
  <2> HIDE DEF q, k
  <2> QED
    BY <2>1, <1>2
<1> HIDE DEF q
<1>4. IsFiniteSet(1..k) /\ Cardinality(1..k) = k
  BY <1>1, FS_Interval
<1>5. q \in Injection(1..k, S)
  BY <1>3 DEF Injection
<1>6. q \in Surjection(1..k, S)
  BY <1>4, <1>5, FS_Injection
<1>7. q \in Seq(S) /\ Len(q) = k
  BY <1>1, <1>3
<1>8. \A x \in S : Within(x, q)
  BY <1>6, <1>7 DEF Surjection, Within
<1> QED
  BY <1>3, <1>7, <1>8 DEF q

-----------------------------------------------------------------------------
(* The inductive invariant.                                                  *)

(* What a thread holds at each of its places.                                *)
ClosePlace == [pc: ClosePlaces, conn: Conn]
MessagePlace == [pc: MessagePlaces, conn: Conn, text: Text \cup {Empty}]
SnapshotPlace == [pc: {"snapshot"}, shard: Shard, events: Seq(Nat)]
DeliverPlace == [pc: {"deliver"}, events: Seq(Nat), todo: SUBSET Conn]
Place == {Idle, [pc |-> "process"]} \cup ClosePlace \cup MessagePlace \cup SnapshotPlace \cup DeliverPlace

Post == [from: Conn, sender_fd: Fd \cup {None}, due: SUBSET Conn]

Types == TypeOK /\ at \in [Thread -> Place] /\ sent \in Seq(Post)

(* A name that is about to be set is one.                                    *)
Naming(w, c) == In(w, {"named"}, c)
Leaving(t, c) == In(t, {"hook", "left", "wakeLeft", "erase"}, c)

(* Who points to whom.  An entry of a map is a connection on that number,    *)
(* what is alive or closed was accepted, what is open is in its map, and     *)
(* close_conn runs once for a connection, which is in its map until the end. *)
Pointers ==
    /\ \A f \in Fd : connections[f] # None => fd[connections[f]] = f
    /\ \A c \in Conn : Alive(c) \/ c \in closed => fd[c] # None
    /\ \A c \in Conn : fd[c] # None /\ c \notin closed => InMap(c)
    /\ \A c \in Conn, t \in Thread : Leaving(t, c) => c \in closed /\ InMap(c)
    /\ \A c \in Conn, t, u \in Thread : Leaving(t, c) /\ Leaving(u, c) => t = u

OneOwner == \A c, d \in Conn : c # d /\ fd[c] # None /\ fd[c] = fd[d] => ~(Alive(c) /\ Alive(d))

(* A name is held by the client that has it until its disconnect hook has    *)
(* looked, or ever after if it came later, and by a login under way.         *)
Holder(c, n) ==
    \/ username[c] = n /\ (c \notin closed \/ HookPending(c) \/ c \in raced)
    \/ \E w \in Worker : Naming(w, c) /\ at[w].text = n

Names ==
    /\ \A w \in Worker, c \in Conn : Naming(w, c) => ~Active(c) /\ at[w].text # Empty
    /\ \A w, v \in Worker, c \in Conn : Naming(w, c) /\ Naming(v, c) => w = v
    /\ \A c \in raced : c \in closed /\ ~HookPending(c)
    /\ \A c \in Conn, n \in Text : Holder(c, n) => n \in usernames_
    /\ \A c, d \in Conn, n \in Text : Holder(c, n) /\ Holder(d, n) => c = d
    /\ \A n \in usernames_ : \E c \in Conn : Holder(c, n)

(* Where an event is: in the reactor's queue, in a task of a shard, with a   *)
(* worker that has that task, with one that delivers to c, or with c.        *)
Queued(e) == Within(e, global_queue_)
InTask(i, e, s) ==
    /\ i \in 1..Len(task_queue_) /\ task_queue_[i].pc = "snapshot"
    /\ task_queue_[i].shard = s /\ Within(e, task_queue_[i].events)
InHand(w, e, s) == at[w].pc = "snapshot" /\ at[w].shard = s /\ Within(e, at[w].events)
InDelivery(w, e, c) == at[w].pc = "deliver" /\ c \in at[w].todo /\ Within(e, at[w].events)
Given(e, c) == Within(e, given[c])

(* Nobody has one before it is sent, or before he is accepted.               *)
Known ==
    /\ \A w \in Worker : \A e, s : InHand(w, e, s) => e \in Events
    /\ \A w \in Worker : \A e : \A c \in Conn : InDelivery(w, e, c) => e \in Events /\ fd[c] # None
    /\ \A e : \A c \in Conn : Given(e, c) => fd[c] # None

(* Who is logged in was accepted.                                            *)
Accepted == \A c \in Conn : Active(c) => fd[c] # None

(* No batch has an event twice.                                              *)
Injective ==
    /\ IsInjective(global_queue_)
    /\ \A i \in 1..Len(task_queue_) : task_queue_[i].pc = "snapshot" => IsInjective(task_queue_[i].events)
    /\ \A w \in Worker : at[w].pc \in {"snapshot", "deliver"} => IsInjective(at[w].events)
    /\ \A c \in Conn : IsInjective(given[c])

(* An event is in one place only, for each shard, ...                        *)
OnceForShard ==
    /\ \A e, s, i : Queued(e) => ~InTask(i, e, s)
    /\ \A e, s : \A w \in Worker : Queued(e) => ~InHand(w, e, s)
    /\ \A e, s, i, j : InTask(i, e, s) /\ InTask(j, e, s) => i = j
    /\ \A e, s, i : \A w \in Worker : InTask(i, e, s) => ~InHand(w, e, s)
    /\ \A e, s : \A w, v \in Worker : InHand(w, e, s) /\ InHand(v, e, s) => w = v

(* ... and for each client of the shard.                                     *)
Elsewhere(e, c) ==
    \/ Queued(e)
    \/ \E i : InTask(i, e, shard[fd[c]])
    \/ \E w \in Worker : InHand(w, e, shard[fd[c]])

OnceForClient ==
    /\ \A e : \A c \in Conn, w \in Worker : InDelivery(w, e, c) => ~Elsewhere(e, c) /\ ~Given(e, c)
    /\ \A e : \A c \in Conn, w, v \in Worker : InDelivery(w, e, c) /\ InDelivery(v, e, c) => w = v
    /\ \A e : \A c \in Conn : Given(e, c) => ~Elsewhere(e, c)

(* What a full queue refused is in no place at all.                          *)
Refused(e, c) == <<c, e>> \in lost

RefusedOnce ==
    \A c \in Conn : \A e : Refused(e, c) =>
        /\ fd[c] # None /\ ~Elsewhere(e, c) /\ ~Given(e, c)
        /\ \A w \in Worker : ~InDelivery(w, e, c)

(* A post names a sender that was accepted, by its own number unless it has  *)
(* left, and nobody it is due to has that number.                            *)
Posts ==
    \A e \in Events :
        /\ fd[sent[e].from] # None
        /\ sent[e].sender_fd \in {None, fd[sent[e].from]}
        /\ sent[e].sender_fd = None => sent[e].from \in closed
        /\ \A d \in sent[e].due : /\ Active(d) /\ fd[d] # None /\ d # sent[e].from
                                  /\ sent[e].sender_fd # fd[d]

NotOwnGiven == \A c \in Conn, e \in Events : Given(e, c) => sent[e].from # c

(* What is queued has a wake-up, or whoever queued it is about to give one.  *)
Wakeup == \A e \in Events : Within(e, global_queue_) => WakeupDue(e)

(* What is due to an open client is somewhere.                               *)
Somewhere(e, c) == Elsewhere(e, c) \/ (\E w \in Worker : InDelivery(w, e, c)) \/ Given(e, c) \/ <<c, e>> \in lost

NothingLost == \A e \in Events : \A c \in sent[e].due \ closed : Somewhere(e, c)

Watched == backlog \ closed \subseteq armed

BusInv ==
    /\ Known /\ Injective /\ OnceForShard /\ OnceForClient /\ RefusedOnce
    /\ Posts /\ NotOwnGiven /\ NothingLost

V3Inv ==
    /\ Types /\ Pointers /\ OneOwner /\ Names
    /\ Accepted /\ BusInv /\ Wakeup /\ Watched

-----------------------------------------------------------------------------
(* Types.                                                                    *)

(* What a thread holds is told by the place where it is.                     *)
LEMMA PlaceFacts ==
    ASSUME Types, NEW t \in Thread
    PROVE  /\ at[t] \in Place
           /\ at[t].pc \in ClosePlaces => at[t] \in ClosePlace
           /\ at[t].pc \in MessagePlaces => at[t] \in MessagePlace
           /\ at[t].pc = "snapshot" => at[t] \in SnapshotPlace
           /\ at[t].pc = "deliver" => at[t] \in DeliverPlace
           /\ at[t] = Idle <=> at[t].pc = "idle"
<1>1. at[t] \in Place
  BY DEF Types
<1> DEFINE p == at[t]
<1> HIDE DEF p
<1>2. p \in Place => /\ p.pc \in ClosePlaces => p \in ClosePlace
                     /\ p.pc \in MessagePlaces => p \in MessagePlace
                     /\ p.pc = "snapshot" => p \in SnapshotPlace
                     /\ p.pc = "deliver" => p \in DeliverPlace
                     /\ p = Idle <=> p.pc = "idle"
  BY DEF Place, ClosePlace, MessagePlace, SnapshotPlace, DeliverPlace, Idle, ClosePlaces, MessagePlaces
<1> QED
  BY <1>1, <1>2 DEF p

(* One thread moves.                                                         *)
Moved(t, p) ==
    /\ at' \in [Thread -> Place]
    /\ at'[t] = p
    /\ \A u \in Thread : u # t => at'[u] = at[u]

(* What an action writes to at is such a move.                               *)
LEMMA Moves ==
    ASSUME Types, NEW t \in Thread, NEW p \in Place, at' = [at EXCEPT ![t] = p]
    PROVE  Moved(t, p)
BY DEF Types, Moved

(* It returns, or goes on with what it holds.                                *)
LEMMA Returns ==
    ASSUME Types, NEW t \in Thread, Return(t)
    PROVE  Moved(t, Idle)
<1>1. Idle \in Place
  BY DEF Place
<1> QED
  BY <1>1, Moves DEF Return

(* In close_conn a thread goes on with the connection it closes.             *)
LEMMA GoesOnClosing ==
    ASSUME Types, NEW t \in Thread, at[t].pc \in ClosePlaces, NEW place \in ClosePlaces, Goto(t, place)
    PROVE  Moved(t, [pc |-> place, conn |-> at[t].conn])
<1>1. at[t] \in ClosePlace
  BY PlaceFacts
<1>2. [at[t] EXCEPT !.pc = place] = [pc |-> place, conn |-> at[t].conn]
  BY <1>1 DEF ClosePlace
<1>3. [pc |-> place, conn |-> at[t].conn] \in Place
  BY <1>1 DEF ClosePlace, Place
<1>4. at' = [at EXCEPT ![t] = [at[t] EXCEPT !.pc = place]]
  BY DEF Goto, Types
<1> QED
  BY <1>2, <1>3, <1>4, Moves

(* In the message hook a worker goes on with its connection and its          *)
(* message.                                                                  *)
LEMMA GoesOnWithMessage ==
    ASSUME Types, NEW t \in Thread, at[t].pc \in MessagePlaces, NEW place \in MessagePlaces, Goto(t, place)
    PROVE  Moved(t, [pc |-> place, conn |-> at[t].conn, text |-> at[t].text])
<1>1. at[t] \in MessagePlace
  BY PlaceFacts
<1>2. [at[t] EXCEPT !.pc = place] = [pc |-> place, conn |-> at[t].conn, text |-> at[t].text]
  BY <1>1 DEF MessagePlace
<1>3. [pc |-> place, conn |-> at[t].conn, text |-> at[t].text] \in Place
  BY <1>1 DEF MessagePlace, Place
<1>4. at' = [at EXCEPT ![t] = [at[t] EXCEPT !.pc = place]]
  BY DEF Goto, Types
<1> QED
  BY <1>2, <1>3, <1>4, Moves

-----------------------------------------------------------------------------
(* Where the actions take their threads.                                     *)

(* Where the steps of close_conn take their thread.                          *)
LEMMA CloseConnMoves ==
    ASSUME Types, NEW t \in Thread, NEW c \in Conn
    PROVE  /\ Exchange(t, c) => IF c \in closed THEN Moved(t, Idle) ELSE Moved(t, [pc |-> "hook", conn |-> c])
           /\ OnClientDisconnect(t, c) =>
                  Moved(t, [pc |-> IF Active(c) THEN "left" ELSE "erase", conn |-> c])
           /\ BroadcastLeft(t, c) =>
                  Moved(t, [pc |-> IF at[t].pc = "left" THEN "wakeLeft" ELSE "erase", conn |-> c])
           /\ EraseConn(t, c) => Moved(t, Idle)
<1> USE DEF In, ClosePlaces
<1>1. ASSUME Exchange(t, c)
      PROVE  IF c \in closed THEN Moved(t, Idle) ELSE Moved(t, [pc |-> "hook", conn |-> c])
  BY <1>1, Returns, GoesOnClosing DEF Exchange
<1>2. ASSUME OnClientDisconnect(t, c)
      PROVE  Moved(t, [pc |-> IF Active(c) THEN "left" ELSE "erase", conn |-> c])
  BY <1>2, GoesOnClosing DEF OnClientDisconnect
<1>3. ASSUME BroadcastLeft(t, c)
      PROVE  Moved(t, [pc |-> IF at[t].pc = "left" THEN "wakeLeft" ELSE "erase", conn |-> c])
  BY <1>3, GoesOnClosing DEF BroadcastLeft
<1>4. ASSUME EraseConn(t, c) PROVE Moved(t, Idle)
  BY <1>4, Returns DEF EraseConn
<1> QED
  BY <1>1, <1>2, <1>3, <1>4

(* Where the steps of the reactor take it.                                   *)
LEMMA NetMoves ==
    ASSUME Types
    PROVE  /\ \A c \in Conn : StartClose(c) => Moved("net", [pc |-> "close", conn |-> c])
           /\ ReadNotify => Moved("net", [pc |-> "process"])
           /\ process_global_queue => Moved("net", Idle)
<1>0. "net" \in Thread
  BY DEF Thread
<1>1. ASSUME NEW c \in Conn, StartClose(c) PROVE Moved("net", [pc |-> "close", conn |-> c])
  <2>1. [pc |-> "close", conn |-> c] \in Place
    BY DEF Place, ClosePlace, ClosePlaces
  <2> QED
    BY <1>0, <1>1, <2>1, Moves DEF StartClose
<1>2. ASSUME ReadNotify PROVE Moved("net", [pc |-> "process"])
  <2>1. [pc |-> "process"] \in Place
    BY DEF Place
  <2> QED
    BY <1>0, <1>2, <2>1, Moves DEF ReadNotify
<1>3. ASSUME process_global_queue PROVE Moved("net", Idle)
  BY <1>0, <1>3, Returns DEF process_global_queue
<1> QED
  BY <1>1, <1>2, <1>3

(* A worker takes the first task as it is.                                   *)
LEMMA TakeTaskMoves ==
    ASSUME Types, NEW w \in Worker, TakeTask(w)
    PROVE  Moved(w, task_queue_[1]) /\ 1 \in 1..Len(task_queue_)
<1>1. task_queue_ \in Seq(Task) /\ task_queue_ # <<>> /\ at' = [at EXCEPT ![w] = Head(task_queue_)]
  BY DEF Types, TypeOK, TakeTask
<1>2. Head(task_queue_) = task_queue_[1] /\ task_queue_[1] \in Task /\ 1 \in 1..Len(task_queue_)
  BY <1>1, HeadTailProperties, LenProperties, ElementOfSeq, EmptySeq
<1>3. Task \subseteq Place
  <2>1. Seq(Events) \subseteq Seq(Nat)
    <3>1. Events \subseteq Nat
      BY DEF Events
    <3> QED
      BY <3>1, SeqMonotonic
  <2> QED
    BY <2>1 DEF Task, Place, MessagePlace, SnapshotPlace, MessagePlaces
<1> QED
  BY <1>1, <1>2, <1>3, Moves DEF Thread

(* Where the steps of the message hook take their worker.                    *)
LEMMA MessageMoves ==
    ASSUME Types, NEW w \in Worker, NEW c \in Conn
    PROVE  /\ OnMessageRecv(w, c) =>
                  \/ Moved(w, Idle)
                  \/ \E place \in {"spam", "chat", "named", "refuse"} :
                        Moved(w, [pc |-> place, conn |-> c, text |-> at[w].text])
           /\ SetUsername(w, c) => Moved(w, [pc |-> "accepted", conn |-> c, text |-> at[w].text])
           /\ Reply(w, c) => \/ Moved(w, Idle)
                             \/ Moved(w, [pc |-> "chat", conn |-> c, text |-> at[w].text])
                             \/ Moved(w, [pc |-> "close", conn |-> c])
           /\ BroadcastMessage(w, c) =>
                  IF at[w].pc = "chat" THEN Moved(w, [pc |-> "wake", conn |-> c, text |-> at[w].text])
                  ELSE Moved(w, Idle)
<1>0. w \in Thread
  BY DEF Thread
<1> USE DEF In, MessagePlaces
<1>1. ASSUME OnMessageRecv(w, c)
      PROVE  \/ Moved(w, Idle)
             \/ \E place \in {"spam", "chat", "named", "refuse"} :
                   Moved(w, [pc |-> place, conn |-> c, text |-> at[w].text])
  <2>1. Return(w) \/ \E place \in {"spam", "chat", "named", "refuse"} : Goto(w, place)
    BY <1>1 DEF OnMessageRecv
  <2> QED
    BY <1>0, <1>1, <2>1, Returns, GoesOnWithMessage DEF OnMessageRecv
<1>2. ASSUME SetUsername(w, c) PROVE Moved(w, [pc |-> "accepted", conn |-> c, text |-> at[w].text])
  BY <1>0, <1>2, GoesOnWithMessage DEF SetUsername
<1>3. ASSUME Reply(w, c)
      PROVE  \/ Moved(w, Idle)
             \/ Moved(w, [pc |-> "chat", conn |-> c, text |-> at[w].text])
             \/ Moved(w, [pc |-> "close", conn |-> c])
  <2>1. at[w].conn = c /\ at[w].pc \in {"accepted", "refuse", "spam"}
    BY <1>3 DEF Reply
  <2>2. CASE at[w].pc = "accepted"
    BY <1>0, <1>3, <2>1, <2>2, GoesOnWithMessage DEF Reply
  <2>3. CASE at[w].pc = "refuse"
    BY <1>0, <1>3, <2>1, <2>3, Returns DEF Reply
  <2>4. CASE at[w].pc = "spam"
    <3>1. [pc |-> "close", conn |-> c] \in Place
      BY DEF Place, ClosePlace, ClosePlaces
    <3> QED
      BY <1>0, <1>3, <2>1, <2>4, <3>1, Moves DEF Reply
  <2> QED
    BY <2>1, <2>2, <2>3, <2>4
<1>4. ASSUME BroadcastMessage(w, c)
      PROVE  IF at[w].pc = "chat" THEN Moved(w, [pc |-> "wake", conn |-> c, text |-> at[w].text])
             ELSE Moved(w, Idle)
  BY <1>0, <1>4, Returns, GoesOnWithMessage DEF BroadcastMessage
<1> QED
  BY <1>1, <1>2, <1>3, <1>4

(* What is left to do changes, nothing else.                                 *)
LEMMA DeliverRecord ==
    ASSUME NEW p \in DeliverPlace, NEW left
    PROVE  [p EXCEPT !.todo = left] = [pc |-> "deliver", events |-> p.events, todo |-> left]
BY DEF DeliverPlace

(* Where the steps of a broadcast task take their worker.                    *)
LEMMA DeliveryMoves ==
    ASSUME Types, NEW w \in Worker
    PROVE  /\ Snapshot(w) =>
                  LET recipients == {c \in Conn \ closed : InMap(c) /\ shard[fd[c]] = at[w].shard /\ Active(c)}
                  IN  Moved(w, IF recipients = {} THEN Idle
                               ELSE [pc |-> "deliver", events |-> at[w].events, todo |-> recipients])
           /\ \A c \in Conn : Deliver(w, c) =>
                  Moved(w, IF at[w].todo = {c} THEN Idle
                           ELSE [pc |-> "deliver", events |-> at[w].events, todo |-> at[w].todo \ {c}])
<1>0. w \in Thread /\ Idle \in Place
  BY DEF Thread, Place
<1>1. ASSUME Snapshot(w)
      PROVE  LET recipients == {c \in Conn \ closed : InMap(c) /\ shard[fd[c]] = at[w].shard /\ Active(c)}
             IN  Moved(w, IF recipients = {} THEN Idle
                          ELSE [pc |-> "deliver", events |-> at[w].events, todo |-> recipients])
  <2> DEFINE recipients == {c \in Conn \ closed : InMap(c) /\ shard[fd[c]] = at[w].shard /\ Active(c)}
             next == IF recipients = {} THEN Idle
                     ELSE [pc |-> "deliver", events |-> at[w].events, todo |-> recipients]
  <2>1. at' = [at EXCEPT ![w] = next]
    BY <1>1 DEF Snapshot
  <2>2. at[w].events \in Seq(Nat)
    BY <1>0, <1>1, PlaceFacts DEF Snapshot, SnapshotPlace
  <2>3. recipients \in SUBSET Conn
    OBVIOUS
  <2> HIDE DEF recipients
  <2>4. next \in Place
    BY <1>0, <2>2, <2>3 DEF Place, DeliverPlace
  <2> HIDE DEF next
  <2>5. Moved(w, next)
    BY <1>0, <2>1, <2>4, Moves
  <2> QED
    BY <2>5 DEF next, recipients
<1>2. ASSUME NEW c \in Conn, Deliver(w, c)
      PROVE  Moved(w, IF at[w].todo = {c} THEN Idle
                      ELSE [pc |-> "deliver", events |-> at[w].events, todo |-> at[w].todo \ {c}])
  <2> DEFINE next == IF at[w].todo = {c} THEN Idle
                     ELSE [pc |-> "deliver", events |-> at[w].events, todo |-> at[w].todo \ {c}]
  <2>1. at[w] \in DeliverPlace
    BY <1>0, <1>2, PlaceFacts DEF Deliver
  <2>2. [at[w] EXCEPT !.todo = at[w].todo \ {c}]
        = [pc |-> "deliver", events |-> at[w].events, todo |-> at[w].todo \ {c}]
    BY <2>1, DeliverRecord
  <2>3. at' = [at EXCEPT ![w] = IF at[w].todo = {c} THEN Idle ELSE [at[w] EXCEPT !.todo = at[w].todo \ {c}]]
    BY <1>2 DEF Deliver
  <2>4. at' = [at EXCEPT ![w] = next]
    BY <2>2, <2>3
  <2>5. next \in Place
    BY <1>0, <2>1 DEF Place, DeliverPlace
  <2> QED
    BY <1>0, <2>4, <2>5, Moves
<1> QED
  BY <1>1, <1>2

-----------------------------------------------------------------------------
(* The types are kept.                                                       *)

Core ==
    /\ fd \in [Conn -> Fd \cup {None}] /\ connections \in [Fd -> Conn \cup {None}]
    /\ closed \subseteq Conn /\ raced \subseteq Conn
    /\ username \in [Conn -> Text \cup {Empty}] /\ usernames_ \subseteq Text
    /\ backlog \subseteq Conn /\ armed \subseteq Conn
    /\ notified \in BOOLEAN
    /\ reads \in 0..MaxReads

EventTypes ==
    /\ sent \in Seq(Post)
    /\ global_queue_ \in Seq(Events)
    /\ task_queue_ \in Seq(Task)
    /\ given \in [Conn -> Seq(Events)] /\ lost \subseteq Conn \X Events

(* The types in three parts: that of the threads needs another argument      *)
(* than those of the events.                                                 *)
LEMMA TypesParts == Types <=> Core /\ EventTypes /\ at \in [Thread -> Place]
<1>1. \A p \in Place : p.pc \in MessagePlaces \cup ClosePlaces \cup {"idle", "process", "snapshot", "deliver"}
  BY DEF Place, ClosePlace, MessagePlace, SnapshotPlace, DeliverPlace, Idle
<1>2. at \in [Thread -> Place] =>
          \A t \in Thread : at[t].pc \in MessagePlaces \cup ClosePlaces \cup {"idle", "process", "snapshot", "deliver"}
  BY <1>1
<1> QED
  BY <1>2 DEF Types, TypeOK, Core, EventTypes

(* Every step moves one thread, or none.                                     *)
LEMMA SomeoneMoves ==
    ASSUME Types, [Next]_vars
    PROVE  at' \in [Thread -> Place]
<1>0. "net" \in Thread /\ \A w \in Worker : w \in Thread
  BY DEF Thread
<1>1. \A t, p : Moved(t, p) => at' \in [Thread -> Place]
  BY DEF Moved
<1>2. at' = at => at' \in [Thread -> Place]
  BY DEF Types
<1>3. ASSUME NEW t \in Thread, NEW c \in Conn, CloseConn(t, c) PROVE at' \in [Thread -> Place]
  BY <1>1, <1>3, CloseConnMoves DEF CloseConn
<1>4. ASSUME Net PROVE at' \in [Thread -> Place]
  <2>1. ASSUME NEW c \in Conn, NEW f \in Fd, accept_loop(c, f) PROVE at' = at
    BY <2>1 DEF accept_loop
  <2>2. ASSUME NEW c \in Conn, NEW text, handle_read(c, text) PROVE at' = at
    BY <2>2 DEF handle_read
  <2>3. ASSUME NEW c \in Conn, handle_write(c) \/ flush_queue(c) PROVE at' = at
    BY <2>3 DEF handle_write, flush_queue
  <2> QED
    BY <1>0, <1>1, <1>2, <1>3, <1>4, <2>1, <2>2, <2>3, NetMoves DEF Net
<1>5. ASSUME NEW w \in Worker, Work(w) PROVE at' \in [Thread -> Place]
  <2>1. CASE TakeTask(w)
    BY <1>1, <2>1, TakeTaskMoves
  <2>2. CASE Snapshot(w)
    BY <1>1, <2>2, DeliveryMoves
  <2>3. ASSUME NEW c \in Conn, OnMessageRecv(w, c) \/ SetUsername(w, c) \/ Reply(w, c) \/ BroadcastMessage(w, c)
        PROVE  at' \in [Thread -> Place]
    BY <1>1, <2>3, MessageMoves
  <2>4. ASSUME NEW c \in Conn, Deliver(w, c) PROVE at' \in [Thread -> Place]
    BY <1>1, <2>4, DeliveryMoves
  <2> QED
    BY <1>0, <1>3, <1>5, <2>1, <2>2, <2>3, <2>4 DEF Work
<1> QED
  BY <1>2, <1>4, <1>5 DEF Next, vars

(* The sets of connections, names and numbers keep their types.              *)
LEMMA CoreKept ==
    ASSUME Types, [Next]_vars
    PROVE  Core'
<1>0. Core /\ "net" \in Thread /\ \A w \in Worker : w \in Thread
  BY TypesParts DEF Thread
<1>1. ASSUME NEW t \in Thread, NEW c \in Conn, CloseConn(t, c) PROVE Core'
  <2>1. CASE Exchange(t, c)
    BY <1>0, <2>1 DEF Exchange, Core, sockVars, nameVars, writeVars, busVars, fateVars
  <2>2. CASE OnClientDisconnect(t, c)
    BY <1>0, <2>2 DEF OnClientDisconnect, Core, sockVars, writeVars, busVars, fateVars
  <2>3. CASE BroadcastLeft(t, c)
    BY <1>0, <2>3 DEF BroadcastLeft, QueueEvent, WakeReactor, Core, sockVars, nameVars, writeVars, fateVars
  <2>4. CASE EraseConn(t, c)
    BY <1>0, <2>4 DEF EraseConn, Core, nameVars, writeVars, busVars, fateVars
  <2> QED
    BY <1>1, <2>1, <2>2, <2>3, <2>4 DEF CloseConn
<1>2. ASSUME Net PROVE Core'
  <2>1. ASSUME NEW c \in Conn, NEW f \in Fd, accept_loop(c, f) PROVE Core'
    BY <1>0, <2>1 DEF accept_loop, SendPreEncoded, Core, nameVars, busVars, fateVars
  <2>2. ASSUME NEW c \in Conn, NEW text, handle_read(c, text) PROVE Core'
    <3>1. reads' \in 0..MaxReads
      BY <1>0, <2>2, ChatServerV3Assumption DEF handle_read, Core
    <3> QED
      BY <1>0, <2>2, <3>1 DEF handle_read, Core, sockVars, nameVars, writeVars, busVars, fateVars
  <2>3. ASSUME NEW c \in Conn, handle_write(c) \/ flush_queue(c) PROVE Core'
    BY <1>0, <2>3 DEF handle_write, flush_queue, attempt_write, arm_if_left, Core, sockVars, nameVars, busVars,
                      fateVars
  <2>4. ASSUME NEW c \in Conn, StartClose(c) PROVE Core'
    BY <1>0, <2>4 DEF StartClose, Core, sockVars, nameVars, writeVars, busVars, fateVars
  <2>5. CASE ReadNotify
    BY <1>0, <2>5 DEF ReadNotify, Core, sockVars, nameVars, writeVars, fateVars
  <2>6. CASE process_global_queue
    BY <1>0, <2>6 DEF process_global_queue, Core, sockVars, nameVars, writeVars, fateVars
  <2> QED
    BY <1>0, <1>1, <1>2, <2>1, <2>2, <2>3, <2>4, <2>5, <2>6 DEF Net
<1>3. ASSUME NEW w \in Worker, Work(w) PROVE Core'
  <2>1. CASE TakeTask(w)
    BY <1>0, <2>1 DEF TakeTask, Core, sockVars, nameVars, writeVars, busVars, fateVars
  <2>2. CASE Snapshot(w)
    BY <1>0, <2>2 DEF Snapshot, Core, sockVars, nameVars, writeVars, busVars, fateVars
  <2>3. ASSUME NEW c \in Conn, OnMessageRecv(w, c) PROVE Core'
    <3>1. usernames_' \subseteq Text
      <4>1. at[w] \in MessagePlace
        BY <1>0, <2>3, PlaceFacts DEF OnMessageRecv, In, MessagePlaces
      <4>2. at[w].text # Empty => at[w].text \in Text
        BY <4>1 DEF MessagePlace
      <4> QED
        BY <1>0, <2>3, <4>2 DEF OnMessageRecv, Acceptable, Core
    <3> QED
      BY <1>0, <2>3, <3>1 DEF OnMessageRecv, Core, sockVars, writeVars, busVars, fateVars
  <2>4. ASSUME NEW c \in Conn, SetUsername(w, c) PROVE Core'
    <3>1. at[w] \in MessagePlace
      BY <1>0, <2>4, PlaceFacts DEF SetUsername, In, MessagePlaces
    <3>2. at[w].text \in Text \cup {Empty}
      BY <3>1 DEF MessagePlace
    <3> QED
      BY <1>0, <2>4, <3>2 DEF SetUsername, Core, sockVars, writeVars, busVars, fateVars
  <2>5. ASSUME NEW c \in Conn, Reply(w, c) PROVE Core'
    BY <1>0, <2>5 DEF Reply, SendPreEncoded, Core, sockVars, nameVars, writeVars, busVars, fateVars
  <2>6. ASSUME NEW c \in Conn, BroadcastMessage(w, c) PROVE Core'
    BY <1>0, <2>6 DEF BroadcastMessage, QueueEvent, WakeReactor, Core, sockVars, nameVars, writeVars,
                      fateVars
  <2>7. ASSUME NEW c \in Conn, Deliver(w, c) PROVE Core'
    <3>1. \/ UNCHANGED writeVars
          \/ backlog' \in {backlog \cup {c}, backlog \ {c}} /\ arm_if_left(c)
      BY <2>7 DEF Deliver
    <3>2. backlog' \subseteq Conn /\ armed' \subseteq Conn
      BY <1>0, <3>1 DEF Core, arm_if_left, writeVars
    <3> QED
      BY <1>0, <2>7, <3>2 DEF Deliver, Core, sockVars, nameVars, busVars
  <2> QED
    BY <1>0, <1>1, <1>3, <2>1, <2>2, <2>3, <2>4, <2>5, <2>6, <2>7 DEF Work
<1>4. CASE UNCHANGED vars
  BY <1>0, <1>4 DEF vars, Core, sockVars, nameVars, writeVars, busVars, fateVars
<1> QED
  BY <1>2, <1>3, <1>4 DEF Next

-----------------------------------------------------------------------------
(* Sequences of events.                                                      *)

(* One after the other.                                                      *)
LEMMA WithinConcat ==
    ASSUME NEW S, NEW p \in Seq(S), NEW q \in Seq(S)
    PROVE  /\ p \o q \in Seq(S)
           /\ \A e : Within(e, p \o q) <=> Within(e, p) \/ Within(e, q)
           /\ IsInjective(p) /\ IsInjective(q) /\ (\A e : Within(e, p) => ~Within(e, q)) => IsInjective(p \o q)
<1> DEFINE a == Len(p)  b == Len(q)  r == p \o q
<1>1. /\ a \in Nat /\ b \in Nat /\ r \in Seq(S) /\ Len(r) = a + b
      /\ DOMAIN p = 1..a /\ DOMAIN q = 1..b /\ DOMAIN r = 1..(a + b)
      /\ \A i \in 1..(a + b) : r[i] = IF i <= a THEN p[i] ELSE q[i - a]
  BY ConcatProperties, LenProperties
<1> HIDE DEF r
<1>2. /\ \A i \in 1..a : i \in 1..(a + b) /\ r[i] = p[i]
      /\ \A i \in 1..b : a + i \in 1..(a + b) /\ r[a + i] = q[i]
      /\ \A i \in 1..(a + b) : i \in 1..a \/ (i - a \in 1..b /\ r[i] = q[i - a])
  <2>1. ASSUME NEW i \in 1..b PROVE a + i \in 1..(a + b) /\ r[a + i] = q[i]
    <3>1. a + i \in 1..(a + b) /\ ~(a + i <= a) /\ (a + i) - a = i
      BY <1>1
    <3> QED
      BY <1>1, <3>1
  <2>2. ASSUME NEW i \in 1..a PROVE i \in 1..(a + b) /\ r[i] = p[i]
    BY <1>1
  <2>3. ASSUME NEW i \in 1..(a + b), i \notin 1..a PROVE i - a \in 1..b /\ r[i] = q[i - a]
    BY <1>1, <2>3
  <2> QED
    BY <2>1, <2>2, <2>3
<1>3. \A e : Within(e, r) <=> Within(e, p) \/ Within(e, q)
  <2> TAKE e
  <2>1. ASSUME NEW i \in 1..(a + b), r[i] = e PROVE Within(e, p) \/ Within(e, q)
    BY <1>2, <2>1 DEF Within
  <2>2. ASSUME NEW i \in 1..a, p[i] = e PROVE \E j \in 1..(a + b) : r[j] = e
    BY <1>2, <2>2
  <2>3. ASSUME NEW i \in 1..b, q[i] = e PROVE \E j \in 1..(a + b) : r[j] = e
    BY <1>2, <2>3
  <2> QED
    BY <1>1, <2>1, <2>2, <2>3 DEF Within
<1>4. ASSUME IsInjective(p), IsInjective(q), \A e : Within(e, p) => ~Within(e, q)
      PROVE  IsInjective(r)
  <2> SUFFICES ASSUME NEW i \in 1..(a + b), NEW j \in 1..(a + b), r[i] = r[j] PROVE i = j
    BY <1>1 DEF IsInjective
  <2>1. CASE i \in 1..a /\ j \in 1..a
    BY <1>1, <1>2, <1>4, <2>1 DEF IsInjective
  <2>2. CASE i \notin 1..a /\ j \notin 1..a
    <3>1. i - a \in 1..b /\ j - a \in 1..b /\ q[i - a] = q[j - a]
      BY <1>2, <2>2
    <3>2. i - a = j - a
      BY <1>1, <1>4, <3>1 DEF IsInjective
    <3> QED
      BY <1>1, <3>2
  <2>3. CASE i \in 1..a /\ j \notin 1..a
    <3>1. p[i] = q[j - a] /\ j - a \in 1..b
      BY <1>2, <2>3
    <3> QED
      BY <1>4, <2>3, <3>1 DEF Within
  <2>4. CASE i \notin 1..a /\ j \in 1..a
    <3>1. q[i - a] = p[j] /\ i - a \in 1..b
      BY <1>2, <2>4
    <3> QED
      BY <1>4, <2>4, <3>1 DEF Within
  <2> QED
    BY <2>1, <2>2, <2>3, <2>4
<1> QED
  BY <1>1, <1>3, <1>4 DEF r

(* The first of a sequence.                                                  *)
LEMMA WithinFirst ==
    ASSUME NEW S, NEW q \in Seq(S), NEW room \in 0..Len(q)
    PROVE  /\ SubSeq(q, 1, room) \in Seq(S)
           /\ \A e : Within(e, SubSeq(q, 1, room)) <=> \E i \in 1..room : q[i] = e
           /\ IsInjective(q) => IsInjective(SubSeq(q, 1, room))
<1> DEFINE p == SubSeq(q, 1, room)
<1>0. Len(q) \in Nat /\ DOMAIN q = 1..Len(q)
  BY LenProperties
<1>1. p \in Seq(S) /\ Len(p) = room /\ \A i \in 1..room : p[i] = q[i]
  <2>1. \A i \in 1..room : q[i] \in S
    BY <1>0, ElementOfSeq
  <2>2. /\ p \in Seq(S) /\ Len(p) = (IF 1 <= room THEN room - 1 + 1 ELSE 0)
        /\ \A i \in 1..(room - 1 + 1) : p[i] = q[1 + i - 1]
    BY <1>0, <2>1, SubSeqProperties
  <2> HIDE DEF p
  <2> QED
    BY <1>0, <2>2
<1>2. DOMAIN p = 1..room
  BY <1>1, LenProperties
<1> HIDE DEF p
<1>3. \A e : Within(e, p) <=> \E i \in 1..room : q[i] = e
  BY <1>1 DEF Within
<1>4. IsInjective(q) => IsInjective(p)
  BY <1>0, <1>1, <1>2 DEF IsInjective
<1> QED
  BY <1>1, <1>3, <1>4 DEF p

(* A sequence of what is in S.                                               *)
LEMMA SeqByMembers ==
    ASSUME NEW q \in Seq(Nat), NEW S, \A e : Within(e, q) => e \in S
    PROVE  q \in Seq(S)
<1>1. Len(q) \in Nat /\ DOMAIN q = 1..Len(q) /\ q = [i \in 1..Len(q) |-> q[i]]
  BY LenProperties
<1>2. \A i \in 1..Len(q) : q[i] \in S
  BY DEF Within
<1> QED
  BY <1>1, <1>2

-----------------------------------------------------------------------------
(* What the tasks do with the events.                                        *)

(* The tasks of one batch, one per shard.                                    *)
BatchTasks == {[pc |-> "snapshot", shard |-> s, events |-> global_queue_] : s \in Shard}

(* They are finitely many, since the shards are, and tasks of the pool.      *)
LEMMA BatchTasksAre ==
    ASSUME EventTypes
    PROVE  IsFiniteSet(BatchTasks) /\ BatchTasks \subseteq Task
<1> DEFINE f == [s \in Shard |-> [pc |-> "snapshot", shard |-> s, events |-> global_queue_]]
<1>1. f \in Bijection(Shard, BatchTasks)
  <2>1. f \in [Shard -> BatchTasks]
    BY DEF BatchTasks
  <2>2. \A s, r \in Shard : f[s] = f[r] => s = r
    <3> TAKE s, r \in Shard
    <3>1. f[s].shard = s /\ f[r].shard = r
      OBVIOUS
    <3> HIDE DEF f
    <3> QED
      BY <3>1
  <2>3. \A b \in BatchTasks : \E s \in Shard : f[s] = b
    BY DEF BatchTasks
  <2>4. DOMAIN f = Shard
    OBVIOUS
  <2> HIDE DEF f
  <2> QED
    BY <2>1, <2>2, <2>3, <2>4 DEF Bijection, Injection, Surjection, IsInjective
<1>2. ExistsBijection(Shard, BatchTasks)
  BY <1>1 DEF ExistsBijection
<1>3. IsFiniteSet(BatchTasks)
  BY <1>2, FS_Bijection, ChatServerV3Assumption
<1>4. BatchTasks \subseteq Task
  BY DEF BatchTasks, EventTypes, Task
<1> QED
  BY <1>3, <1>4

(* A worker that delivers to c gives c what it has for c, or loses it, and   *)
(* nothing else; unless c is closed.                                         *)
LEMMA DeliverIs ==
    ASSUME Types, Known, NEW w \in Worker, NEW c \in Conn, Deliver(w, c)
    PROVE  /\ given' \in [Conn -> Seq(Events)] /\ lost' \subseteq Conn \X Events /\ lost \subseteq lost'
           /\ \A d \in Conn : d # c => given'[d] = given[d]
           /\ \A e : Given(e, c) => Given(e, c)'
           /\ \A e : Given(e, c)' =>
                 \/ Given(e, c)
                 \/ InDelivery(w, e, c) /\ sent[e].sender_fd # fd[c] /\ c \notin closed
           /\ \A e : InDelivery(w, e, c) /\ sent[e].sender_fd # fd[c] /\ c \notin closed =>
                 Given(e, c)' \/ <<c, e>> \in lost'
           /\ Injective /\ (\A e : InDelivery(w, e, c) => ~Given(e, c)) =>
                 IsInjective(given'[c]) /\ \A e : Refused(e, c)' => Refused(e, c) \/ ~Given(e, c)'
           /\ \A d \in Conn : Len(given[d]) <= Len(given'[d]) /\ \A i \in 1..Len(given[d]) : given'[d][i] = given[d][i]
           /\ \A d \in Conn : \A e : Refused(e, d)' =>
                 Refused(e, d) \/ (d = c /\ c \notin closed /\ InDelivery(w, e, c))
<1> DEFINE events == at[w].events
           q == NotOwn(c, events)
<1>1. at[w].pc = "deliver" /\ c \in at[w].todo /\ w \in Thread
  BY DEF Deliver, Thread
<1>2. events \in Seq(Nat)
  BY <1>1, PlaceFacts DEF DeliverPlace
<1>3. Chosen(q, c, events, Len(events))
  BY <1>2, NotOwnChosen
<1>4. \A e : InDelivery(w, e, c) <=> Within(e, events)
  BY <1>1 DEF InDelivery
<1>5. /\ given \in [Conn -> Seq(Events)] /\ lost \subseteq Conn \X Events
      /\ \A e : InDelivery(w, e, c) => e \in Events
  BY TypesParts DEF EventTypes, Known
<1>6. \/ (c \in closed \/ q = <<>>) /\ given' = given /\ lost' = lost
      \/ /\ c \notin closed
         /\ \E room \in 0..Len(q) : /\ given' = [given EXCEPT ![c] = given[c] \o SubSeq(q, 1, room)]
                                    /\ lost' = lost \cup {<<c, q[i]>> : i \in room + 1..Len(q)}
  BY DEF Deliver, fateVars
<1> HIDE DEF q, events
<1>7. /\ q \in Seq(Nat) /\ Len(q) \in Nat
      /\ \A e : Within(e, q) <=> Within(e, events) /\ sent[e].sender_fd # fd[c]
      /\ IsInjective(events) => IsInjective(q)
  BY <1>3, LenProperties DEF Chosen, Within
<1>8. q \in Seq(Events)
  BY <1>4, <1>5, <1>7, SeqByMembers
<1>9. Injective => IsInjective(events) /\ IsInjective(given[c])
  BY <1>1 DEF Injective, events
<1>10. CASE (c \in closed \/ q = <<>>) /\ given' = given /\ lost' = lost
  <2>1. q = <<>> => \A e : ~Within(e, q)
    BY EmptySeq DEF Within
  <2>2. \A d, e : Given(e, d)' <=> Given(e, d)
    BY <1>10 DEF Given, Within
  <2>3. \A d \in Conn : Len(given[d]) \in Nat
    BY <1>5, LenProperties
  <2> QED
    BY <1>4, <1>5, <1>7, <1>9, <1>10, <2>1, <2>2, <2>3 DEF Refused
<1>11. CASE /\ c \notin closed
            /\ \E room \in 0..Len(q) : /\ given' = [given EXCEPT ![c] = given[c] \o SubSeq(q, 1, room)]
                                       /\ lost' = lost \cup {<<c, q[i]>> : i \in room + 1..Len(q)}
  <2> PICK room \in 0..Len(q) : /\ given' = [given EXCEPT ![c] = given[c] \o SubSeq(q, 1, room)]
                                /\ lost' = lost \cup {<<c, q[i]>> : i \in room + 1..Len(q)}
    BY <1>11
  <2> DEFINE p == SubSeq(q, 1, room)
  <2>1. /\ p \in Seq(Events)
        /\ \A e : Within(e, p) <=> \E i \in 1..room : q[i] = e
        /\ IsInjective(q) => IsInjective(p)
    BY <1>8, WithinFirst
  <2>2. given' = [given EXCEPT ![c] = given[c] \o p]
    OBVIOUS
  <2> HIDE DEF p
  <2>3. given[c] \in Seq(Events)
    BY <1>5
  <2>4. /\ given[c] \o p \in Seq(Events)
        /\ \A e : Within(e, given[c] \o p) <=> Within(e, given[c]) \/ Within(e, p)
        /\ IsInjective(given[c]) /\ IsInjective(p) /\ (\A e : Within(e, given[c]) => ~Within(e, p))
              => IsInjective(given[c] \o p)
    BY <2>1, <2>3, WithinConcat
  <2>5. given' \in [Conn -> Seq(Events)] /\ given'[c] = given[c] \o p /\ \A d \in Conn : d # c => given'[d] = given[d]
    BY <1>5, <2>2, <2>4
  <2>6. \A e : Given(e, c)' <=> Given(e, c) \/ Within(e, p)
    <3>1. \A e : Given(e, c)' <=> Within(e, given'[c])
      BY DEF Given, Within
    <3> QED
      BY <2>4, <2>5, <3>1 DEF Given
  <2>7. \A e : Within(e, p) => Within(e, q)
    <3>1. \A i \in 1..room : i \in 1..Len(q)
      BY <1>7
    <3>2. \A e : Within(e, q) <=> \E i \in 1..Len(q) : q[i] = e
      BY DEF Within
    <3> QED
      BY <2>1, <3>1, <3>2
  <2>8. ASSUME NEW e, Within(e, q) PROVE Within(e, p) \/ <<c, e>> \in lost'
    <3>1. PICK i \in 1..Len(q) : q[i] = e
      BY <2>8 DEF Within
    <3>2. i \in 1..room \/ i \in room + 1..Len(q)
      BY <1>7
    <3> QED
      BY <2>1, <3>1, <3>2
  <2>9. lost' \subseteq Conn \X Events /\ lost \subseteq lost'
    <3>1. \A i \in room + 1..Len(q) : q[i] \in Events
      BY <1>7, <1>8, ElementOfSeq
    <3> QED
      BY <1>5, <3>1
  <2>10. Injective /\ (\A e : InDelivery(w, e, c) => ~Given(e, c)) => IsInjective(given'[c])
    BY <1>4, <1>7, <1>9, <2>1, <2>4, <2>5, <2>7 DEF Given
  <2>11. \A d \in Conn : Len(given[d]) <= Len(given'[d]) /\ \A i \in 1..Len(given[d]) : given'[d][i] = given[d][i]
    <3> TAKE d \in Conn
    <3>1. given[d] \in Seq(Events) /\ Len(given[d]) \in Nat /\ Len(p) \in Nat
      BY <1>5, <2>1, LenProperties
    <3>2. CASE d = c
      BY <2>1, <2>5, <3>1, <3>2, ConcatProperties
    <3>3. CASE d # c
      BY <2>5, <3>1, <3>3
    <3> QED
      BY <3>2, <3>3
  <2>12. ASSUME NEW d \in Conn, NEW e, Refused(e, d)', ~Refused(e, d)
         PROVE  d = c /\ \E i \in room + 1..Len(q) : q[i] = e
    BY <2>12 DEF Refused
  <2>13. \A d \in Conn : \A e : Refused(e, d)' => Refused(e, d) \/ (d = c /\ InDelivery(w, e, c))
    <3>1. \A i \in room + 1..Len(q) : Within(q[i], q)
      BY <1>7 DEF Within
    <3> QED
      BY <1>4, <1>7, <2>12, <3>1
  <2>14. ASSUME Injective, \A e : InDelivery(w, e, c) => ~Given(e, c), NEW e, Refused(e, c)', ~Refused(e, c)
         PROVE  ~Given(e, c)'
    <3>1. PICK i \in room + 1..Len(q) : q[i] = e
      BY <2>12, <2>14
    <3>2. ~Within(e, p)
      <4>1. IsInjective(q) /\ DOMAIN q = 1..Len(q)
        BY <1>7, <1>9, <2>14, LenProperties
      <4>2. i \in 1..Len(q) /\ \A j \in 1..room : j \in 1..Len(q) /\ j # i
        BY <1>7
      <4> QED
        BY <2>1, <3>1, <4>1, <4>2 DEF IsInjective
    <3>3. ~Given(e, c)
      BY <2>13, <2>14
    <3> QED
      BY <2>6, <3>2, <3>3
  <2> QED
    BY <1>4, <1>7, <1>11, <2>5, <2>6, <2>7, <2>8, <2>9, <2>10, <2>11, <2>13, <2>14
<1> QED
  BY <1>6, <1>10, <1>11

(* A broadcast adds an event, the last one.                                  *)
LEMMA BroadcastIs ==
    ASSUME Types, NEW c \in Conn, NEW number \in {None, fd[c]}, QueueEvent(c, number)
    PROVE  \E n : /\ n \notin Events /\ Events' = Events \cup {n}
                  /\ sent' \in Seq(Post)
                  /\ \A e \in Events : sent'[e] = sent[e]
                  /\ sent'[n] = [from |-> c, sender_fd |-> number,
                                 due |-> {d \in Conn \ {c} : Active(d) /\ d \notin closed}]
                  /\ global_queue_' \in Seq(Events')
                  /\ global_queue_' # <<>>
                  /\ \A e : Within(e, global_queue_') <=> Within(e, global_queue_) \/ e = n
                  /\ IsInjective(global_queue_) => IsInjective(global_queue_')
<1> DEFINE n == Len(sent) + 1
           p == [from |-> c, sender_fd |-> number, due |-> {d \in Conn \ {c} : Active(d) /\ d \notin closed}]
<1>0. sent \in Seq(Post) /\ global_queue_ \in Seq(Events) /\ fd[c] \in Fd \cup {None} /\ Len(sent) \in Nat
  BY TypesParts, LenProperties DEF EventTypes, Core
<1>1. p \in Post
  BY <1>0 DEF Post
<1>2. sent' = Append(sent, p) /\ global_queue_' = Append(global_queue_, n)
  BY DEF QueueEvent
<1> HIDE DEF p
<1>3. /\ sent' \in Seq(Post) /\ Len(sent') = n /\ sent'[n] = p
      /\ \A e \in Events : sent'[e] = sent[e]
  BY <1>0, <1>1, <1>2, AppendProperties DEF Events
<1>4. n \notin Events /\ Events' = Events \cup {n}
  BY <1>0, <1>3 DEF Events
<1>5. global_queue_ \in Seq(Events')
  BY <1>0, <1>4, SeqMonotonic
<1>6. /\ global_queue_' \in Seq(Events')
      /\ \A e : Within(e, global_queue_') <=> Within(e, global_queue_) \/ e = n
      /\ IsInjective(global_queue_) /\ ~Within(n, global_queue_) => IsInjective(global_queue_')
  BY <1>2, <1>4, <1>5, WithinAppend
<1>7. ~Within(n, global_queue_)
  BY <1>0, <1>4, ElementOfSeq DEF Within
<1>8. global_queue_' # <<>>
  BY <1>0, <1>2, AppendProperties
<1> QED
  BY <1>2, <1>3, <1>4, <1>6, <1>7, <1>8 DEF p

(* A step that queues at most a message leaves the events of the right       *)
(* type.                                                                     *)
LEMMA EventTypesStay ==
    ASSUME EventTypes, UNCHANGED <<sent, global_queue_, given, lost>>,
           task_queue_' = task_queue_ \/ \E c \in Conn, text \in Text \cup {Empty} :
               task_queue_' = Append(task_queue_, [pc |-> "message", conn |-> c, text |-> text])
    PROVE  EventTypes'
<1>1. Events' = Events /\ Task' = Task
  BY DEF Events, Task
<1>2. task_queue_' \in Seq(Task)
  <2>1. ASSUME NEW c \in Conn, NEW text \in Text \cup {Empty},
               task_queue_' = Append(task_queue_, [pc |-> "message", conn |-> c, text |-> text])
        PROVE  task_queue_' \in Seq(Task)
    <3>1. [pc |-> "message", conn |-> c, text |-> text] \in Task
      BY DEF Task
    <3> QED
      BY <2>1, <3>1, AppendProperties DEF EventTypes
  <2> QED
    BY <2>1 DEF EventTypes
<1> QED
  BY <1>1, <1>2 DEF EventTypes

(* Every index of an event, wherever it is carried, is that of a post.       *)
LEMMA EventTypesKept ==
    ASSUME Types, Known, [Next]_vars
    PROVE  EventTypes'
<1>0. EventTypes /\ Core /\ "net" \in Thread /\ \A w \in Worker : w \in Thread
  BY TypesParts DEF Thread
<1>1. ASSUME NEW c \in Conn, NEW number \in {None, fd[c]}, QueueEvent(c, number), UNCHANGED <<fateVars, task_queue_>>
      PROVE  EventTypes'
  <2>1. PICK n : Events' = Events \cup {n} /\ sent' \in Seq(Post) /\ global_queue_' \in Seq(Events')
    BY <1>1, BroadcastIs
  <2>2. Events \subseteq Events'
    BY <2>1
  <2>3. Seq(Events) \subseteq Seq(Events')
    BY <2>2, SeqMonotonic
  <2>4. Task \subseteq Task'
    BY <2>3 DEF Task
  <2>5. task_queue_ \in Seq(Task')
    BY <1>0, <2>4, SeqMonotonic DEF EventTypes
  <2> QED
    BY <1>0, <1>1, <2>1, <2>2, <2>3, <2>5 DEF EventTypes, fateVars
<1>2. ASSUME NEW t \in Thread, NEW c \in Conn, CloseConn(t, c) PROVE EventTypes'
  <2>1. CASE Exchange(t, c) \/ OnClientDisconnect(t, c) \/ EraseConn(t, c)
    BY <1>0, <2>1, EventTypesStay DEF Exchange, OnClientDisconnect, EraseConn, busVars, fateVars
  <2>2. CASE BroadcastLeft(t, c)
    BY <1>0, <1>1, <2>2, EventTypesStay DEF BroadcastLeft, WakeReactor, fateVars
  <2> QED
    BY <1>2, <2>1, <2>2 DEF CloseConn
<1>3. ASSUME Net PROVE EventTypes'
  <2>1. ASSUME NEW c \in Conn, NEW f \in Fd, accept_loop(c, f) PROVE EventTypes'
    BY <1>0, <2>1, EventTypesStay DEF accept_loop, busVars, fateVars
  <2>2. ASSUME NEW c \in Conn, NEW text \in Text \cup {Empty}, handle_read(c, text) PROVE EventTypes'
    BY <1>0, <2>2, EventTypesStay DEF handle_read, busVars, fateVars
  <2>3. ASSUME NEW c \in Conn, StartClose(c) \/ handle_write(c) \/ flush_queue(c) PROVE EventTypes'
    BY <1>0, <2>3, EventTypesStay DEF StartClose, handle_write, flush_queue, busVars, fateVars
  <2>4. CASE ReadNotify
    BY <1>0, <2>4, EventTypesStay DEF ReadNotify, fateVars
  <2>5. CASE process_global_queue
    <3>1. IsFiniteSet(BatchTasks) /\ BatchTasks \subseteq Task
      BY <1>0, BatchTasksAre
    <3>2. SetToSeq(BatchTasks) \in Seq(Task)
      BY <3>1, SetToSeqIs, SeqMonotonic
    <3>3. task_queue_' = IF global_queue_ = <<>> THEN task_queue_ ELSE task_queue_ \o SetToSeq(BatchTasks)
      BY <2>5 DEF process_global_queue, BatchTasks
    <3>4. task_queue_' \in Seq(Task)
      BY <1>0, <3>2, <3>3, ConcatProperties DEF EventTypes
    <3>5. Events' = Events /\ Task' = Task
      BY <2>5 DEF process_global_queue, Events, Task
    <3>6. global_queue_' \in Seq(Events)
      BY <2>5 DEF process_global_queue
    <3> QED
      BY <1>0, <2>5, <3>4, <3>5, <3>6 DEF process_global_queue, EventTypes, fateVars
  <2> QED
    BY <1>0, <1>2, <1>3, <2>1, <2>2, <2>3, <2>4, <2>5 DEF Net
<1>4. ASSUME NEW w \in Worker, Work(w) PROVE EventTypes'
  <2>1. CASE TakeTask(w)
    <3>1. task_queue_' \in Seq(Task)
      BY <1>0, <2>1, HeadTailProperties DEF TakeTask, EventTypes
    <3>2. Events' = Events /\ Task' = Task
      BY <2>1 DEF TakeTask, busVars, Events, Task
    <3> QED
      BY <1>0, <2>1, <3>1, <3>2 DEF TakeTask, EventTypes, busVars, fateVars
  <2>2. CASE Snapshot(w)
    BY <1>0, <2>2, EventTypesStay DEF Snapshot, busVars, fateVars
  <2>3. ASSUME NEW c \in Conn, OnMessageRecv(w, c) \/ SetUsername(w, c) \/ Reply(w, c) PROVE EventTypes'
    BY <1>0, <2>3, EventTypesStay DEF OnMessageRecv, SetUsername, Reply, busVars, fateVars
  <2>4. ASSUME NEW c \in Conn, BroadcastMessage(w, c) PROVE EventTypes'
    BY <1>0, <1>1, <2>4, EventTypesStay DEF BroadcastMessage, WakeReactor, fateVars
  <2>5. ASSUME NEW c \in Conn, Deliver(w, c) PROVE EventTypes'
    <3>1. Events' = Events /\ Task' = Task
      BY <2>5 DEF Deliver, busVars, Events, Task
    <3> QED
      BY <1>0, <2>5, <3>1, DeliverIs DEF Deliver, EventTypes, busVars
  <2> QED
    BY <1>0, <1>2, <1>4, <2>1, <2>2, <2>3, <2>4, <2>5 DEF Work
<1>5. CASE UNCHANGED vars
  BY <1>0, <1>5, EventTypesStay DEF vars, busVars, fateVars
<1> QED
  BY <1>3, <1>4, <1>5 DEF Next

(* So every step keeps the types.                                            *)
LEMMA TypesKept ==
    ASSUME Types, Known, [Next]_vars
    PROVE  Types'
<1>1. Core' /\ EventTypes' /\ at' \in [Thread -> Place]
  BY CoreKept, EventTypesKept, SomeoneMoves
<1>2. Types' <=> Core' /\ EventTypes' /\ at' \in [Thread -> Place]
  <2>1. \A p \in Place : p.pc \in MessagePlaces \cup ClosePlaces \cup {"idle", "process", "snapshot", "deliver"}
    BY DEF Place, ClosePlace, MessagePlace, SnapshotPlace, DeliverPlace, Idle
  <2>2. at' \in [Thread -> Place] => \A t \in Thread :
            at'[t].pc \in MessagePlaces \cup ClosePlaces \cup {"idle", "process", "snapshot", "deliver"}
    BY <2>1
  <2> QED
    BY <2>2 DEF Types, TypeOK, Core, EventTypes
<1> QED
  BY <1>1, <1>2

-----------------------------------------------------------------------------
(* Who points to whom.                                                       *)

(* A place that points to a connection, and one in the middle of close_conn. *)
Points(p, c) ==
    \/ p.pc \in MessagePlaces \cup ClosePlaces /\ p.conn = c
    \/ p.pc = "deliver" /\ c \in p.todo
Leaves(p, c) == p.pc \in {"hook", "left", "wakeLeft", "erase"} /\ p.conn = c

(* Messages wait in the queue of tasks.                                      *)
Waits(c) == \E i \in 1..Len(task_queue_) : task_queue_[i].pc = "message" /\ task_queue_[i].conn = c

(* What keeps a Connection alive, by the places of the threads, before and   *)
(* after a step.                                                             *)
LEMMA AliveIs ==
    ASSUME NEW c
    PROVE  /\ Alive(c) <=> InMap(c) \/ (\E t \in Thread : Points(at[t], c)) \/ Waits(c)
           /\ Alive(c)' <=> InMap(c)' \/ (\E t \in Thread : Points(at'[t], c)) \/ Waits(c)'
BY DEF Alive, In, Points, Waits

(* The step of a thread, where its next place points to nothing new.         *)
LEMMA AliveMoves ==
    ASSUME NEW t \in Thread, NEW p, Moved(t, p), NEW c,
           Points(p, c) => Alive(c), InMap(c)' => InMap(c), Waits(c)' => Alive(c)
    PROVE  Alive(c)' => Alive(c)
<1>1. \A u \in Thread : Points(at'[u], c) => Alive(c)
  <2> TAKE u \in Thread
  <2>1. CASE u = t
    BY <2>1 DEF Moved
  <2>2. CASE u # t
    BY <2>2, AliveIs DEF Moved
  <2> QED
    BY <2>1, <2>2
<1> QED
  BY <1>1, AliveIs

(* A step that keeps the maps and starts no close_conn.                      *)
LEMMA PointersStill ==
    ASSUME Pointers, OneOwner, UNCHANGED <<fd, connections, closed>>,
           \A c \in Conn : Alive(c)' => Alive(c),
           \A c \in Conn, t \in Thread : Leaving(t, c)' => Leaving(t, c)
    PROVE  Pointers' /\ OneOwner'
<1>1. \A c : InMap(c)' <=> InMap(c)
  BY DEF InMap
<1> QED
  BY <1>1 DEF Pointers, OneOwner

(* Neither does a thread that goes where it points to nothing new.           *)
LEMMA PointersMove ==
    ASSUME Pointers, OneOwner, UNCHANGED <<fd, connections, closed>>,
           NEW t \in Thread, NEW p, Moved(t, p),
           \A c \in Conn : Waits(c)' => Alive(c),
           \A c \in Conn : Points(p, c) => Alive(c),
           \A c \in Conn : Leaves(p, c) => Leaving(t, c)
    PROVE  Pointers' /\ OneOwner'
<1>1. \A c \in Conn : InMap(c)' => InMap(c)
  BY DEF InMap
<1>2. \A c \in Conn : Alive(c)' => Alive(c)
  BY <1>1, AliveMoves
<1>3. ASSUME NEW c \in Conn, NEW u \in Thread, Leaving(u, c)' PROVE Leaving(u, c)
  <2>1. CASE u = t
    BY <1>3, <2>1 DEF Leaving, Leaves, In, Moved
  <2>2. CASE u # t
    BY <1>3, <2>2 DEF Leaving, In, Moved
  <2> QED
    BY <2>1, <2>2
<1> QED
  BY <1>2, <1>3, PointersStill

(* Tasks that are kept, taken or added to the queue.                         *)
LEMMA WaitsAlive ==
    ASSUME Types, NEW c \in Conn, Waits(c)',
           \/ task_queue_' = task_queue_
           \/ task_queue_ # <<>> /\ task_queue_' = Tail(task_queue_)
           \/ \E tasks \in Seq(Task) : /\ task_queue_' = task_queue_ \o tasks
                                       /\ \A i \in 1..Len(tasks) : tasks[i].pc = "snapshot"
           \/ \E task \in Task : /\ task_queue_' = Append(task_queue_, task)
                                 /\ task.pc = "message" => Alive(task.conn)
    PROVE  Alive(c)
<1>0. task_queue_ \in Seq(Task) /\ Len(task_queue_) \in Nat
  BY TypesParts, LenProperties DEF EventTypes
<1>1. PICK i \in 1..Len(task_queue_') : task_queue_'[i].pc = "message" /\ task_queue_'[i].conn = c
  BY DEF Waits
<1>2. ASSUME NEW j \in 1..Len(task_queue_), task_queue_'[i] = task_queue_[j] PROVE Alive(c)
  BY <1>1, <1>2, AliveIs DEF Waits
<1>3. CASE task_queue_' = task_queue_
  BY <1>1, <1>2, <1>3
<1>4. CASE task_queue_ # <<>> /\ task_queue_' = Tail(task_queue_)
  <2>1. i + 1 \in 1..Len(task_queue_) /\ task_queue_'[i] = task_queue_[i + 1]
    BY <1>0, <1>1, <1>4, HeadTailProperties
  <2> QED
    BY <1>2, <2>1
<1>5. ASSUME NEW tasks \in Seq(Task), task_queue_' = task_queue_ \o tasks,
             \A j \in 1..Len(tasks) : tasks[j].pc = "snapshot"
      PROVE  Alive(c)
  <2>1. /\ Len(task_queue_') = Len(task_queue_) + Len(tasks) /\ Len(tasks) \in Nat
        /\ task_queue_'[i] = IF i <= Len(task_queue_) THEN task_queue_[i] ELSE tasks[i - Len(task_queue_)]
    BY <1>0, <1>1, <1>5, ConcatProperties, LenProperties
  <2>2. CASE i <= Len(task_queue_)
    BY <1>0, <1>1, <1>2, <2>1, <2>2
  <2>3. CASE ~(i <= Len(task_queue_))
    <3>1. i - Len(task_queue_) \in 1..Len(tasks)
      BY <1>0, <1>1, <2>1, <2>3
    <3> QED
      BY <1>1, <1>5, <2>1, <2>3, <3>1
  <2> QED
    BY <2>2, <2>3
<1>6. ASSUME NEW task \in Task, task_queue_' = Append(task_queue_, task), task.pc = "message" => Alive(task.conn)
      PROVE  Alive(c)
  <2>1. /\ Len(task_queue_') = Len(task_queue_) + 1
        /\ \A j \in 1..Len(task_queue_) : task_queue_'[j] = task_queue_[j]
        /\ task_queue_'[Len(task_queue_) + 1] = task
    BY <1>0, <1>6, AppendProperties
  <2>2. i \in 1..Len(task_queue_) \/ i = Len(task_queue_) + 1
    BY <1>0, <1>1, <2>1
  <2> QED
    BY <1>1, <1>2, <1>6, <2>1, <2>2
<1> QED
  BY <1>3, <1>4, <1>5, <1>6

(* The steps of close_conn: the flag is taken once, and the entry erased is  *)
(* its own.                                                                  *)
LEMMA ClosePointers ==
    ASSUME Types, Pointers, OneOwner, NEW t \in Thread, NEW c \in Conn, CloseConn(t, c)
    PROVE  Pointers' /\ OneOwner'
<1>0. at[t].conn = c /\ at[t].pc \in ClosePlaces /\ Alive(c) /\ fd[c] # None
  <2>1. In(t, ClosePlaces, c)
    BY DEF CloseConn, Exchange, OnClientDisconnect, BroadcastLeft, EraseConn, In, ClosePlaces
  <2> QED
    BY <2>1, AliveIs DEF In, Points, Pointers
<1>1. task_queue_' = task_queue_
  BY DEF CloseConn, Exchange, OnClientDisconnect, BroadcastLeft, EraseConn
<1>2. \A d \in Conn : Waits(d)' => Alive(d)
  BY <1>1, WaitsAlive
<1>3. \A d \in Conn : ~Points(Idle, d) /\ ~Leaves(Idle, d)
  BY DEF Points, Leaves, Idle, MessagePlaces, ClosePlaces
<1>4. \A place \in ClosePlaces, d \in Conn : Points([pc |-> place, conn |-> c], d) => Alive(d)
  BY <1>0 DEF Points, ClosePlaces
<1>5. CASE Exchange(t, c) /\ c \in closed
  <2>1. UNCHANGED <<fd, connections, closed>> /\ Moved(t, Idle)
    BY <1>5, CloseConnMoves DEF Exchange, sockVars
  <2> QED
    BY <1>2, <1>3, <2>1, PointersMove
<1>6. CASE Exchange(t, c) /\ c \notin closed
  <2>1. UNCHANGED <<fd, connections>> /\ closed' = closed \cup {c} /\ Moved(t, [pc |-> "hook", conn |-> c])
    BY <1>6, CloseConnMoves DEF Exchange, sockVars
  <2>2. \A d : InMap(d)' <=> InMap(d)
    BY <2>1 DEF InMap
  <2>3. \A d \in Conn : Alive(d)' => Alive(d)
    <3>1. "hook" \in ClosePlaces
      BY DEF ClosePlaces
    <3> QED
      BY <1>2, <1>4, <2>1, <2>2, <3>1, AliveMoves
  <2>4. ASSUME NEW d \in Conn, NEW u \in Thread, Leaving(u, d)'
        PROVE  (u = t /\ d = c) \/ (u # t /\ Leaving(u, d) /\ d # c)
    <3>1. CASE u = t
      <4>1. at'[t].conn = c
        BY <2>1 DEF Moved
      <4> QED
        BY <2>4, <3>1, <4>1 DEF Leaving, In
    <3>2. CASE u # t
      BY <1>6, <2>1, <2>4, <3>2 DEF Leaving, In, Moved, Pointers
    <3> QED
      BY <3>1, <3>2
  <2>5. InMap(c)
    BY <1>0, <1>6 DEF Pointers
  <2>6. OneOwner'
    BY <2>1, <2>3 DEF OneOwner
  <2> QED
    BY <1>0, <2>1, <2>2, <2>3, <2>4, <2>5, <2>6 DEF Pointers
<1>7. CASE OnClientDisconnect(t, c) \/ BroadcastLeft(t, c)
  <2>1. UNCHANGED <<fd, connections, closed>> /\ Leaving(t, c)
    BY <1>7 DEF OnClientDisconnect, BroadcastLeft, sockVars, Leaving, In
  <2>2. PICK place \in {"left", "wakeLeft", "erase"} : Moved(t, [pc |-> place, conn |-> c])
    BY <1>7, CloseConnMoves
  <2>3. \A d \in Conn : Points([pc |-> place, conn |-> c], d) => Alive(d)
    BY <1>4 DEF ClosePlaces
  <2>4. \A d \in Conn : Leaves([pc |-> place, conn |-> c], d) => Leaving(t, d)
    BY <2>1 DEF Leaves
  <2> QED
    BY <1>2, <2>1, <2>2, <2>3, <2>4, PointersMove
<1>8. CASE EraseConn(t, c)
  <2>1. /\ UNCHANGED <<fd, closed>> /\ Moved(t, Idle) /\ connections' = [connections EXCEPT ![fd[c]] = None]
        /\ Leaving(t, c)
    BY <1>8, CloseConnMoves DEF EraseConn, Leaving, In
  <2>2. InMap(c) /\ c \in closed
    BY <2>1 DEF Pointers
  <2>3. connections \in [Fd -> Conn \cup {None}] /\ fd \in [Conn -> Fd \cup {None}]
    BY DEF Types, TypeOK
  <2>4. \A f \in Fd : connections'[f] = IF f = fd[c] THEN None ELSE connections[f]
    BY <2>1, <2>3
  <2>5. \A d \in Conn : d # c => (InMap(d)' <=> InMap(d))
    BY <2>1, <2>2, <2>3, <2>4, ChatServerV3Assumption DEF InMap
  <2>6. ~InMap(c)'
    <3>1. connections'[fd[c]] = None
      BY <1>0, <2>3, <2>4
    <3> QED
      BY <2>1, <3>1, ChatServerV3Assumption DEF InMap
  <2>7. \A d \in Conn : Alive(d)' => Alive(d)
    BY <1>2, <1>3, <2>1, <2>5, <2>6, AliveMoves
  <2>8. ASSUME NEW d \in Conn, NEW u \in Thread, Leaving(u, d)'
        PROVE  u # t /\ Leaving(u, d) /\ d # c
    <3>1. CASE u = t
      BY <1>3, <2>1, <2>8, <3>1 DEF Leaving, Leaves, In, Moved
    <3>2. CASE u # t
      BY <2>1, <2>8, <3>2 DEF Leaving, In, Moved, Pointers
    <3> QED
      BY <3>1, <3>2
  <2>9. OneOwner'
    BY <2>1, <2>7 DEF OneOwner
  <2>10. \A f \in Fd : connections'[f] # None => fd'[connections'[f]] = f
    BY <2>1, <2>4 DEF Pointers
  <2>11. \A d \in Conn : fd'[d] # None /\ d \notin closed' => InMap(d)'
    BY <2>1, <2>2, <2>5 DEF Pointers
  <2> QED
    BY <2>1, <2>5, <2>7, <2>8, <2>9, <2>10, <2>11 DEF Pointers
<1> QED
  BY <1>5, <1>6, <1>7, <1>8 DEF CloseConn

(* The steps of the reactor; accept_loop gets a number that nobody alive     *)
(* has.                                                                      *)
LEMMA NetPointers ==
    ASSUME Types, Pointers, OneOwner, Net
    PROVE  Pointers' /\ OneOwner'
<1>0. "net" \in Thread
  BY DEF Thread
<1>1. ASSUME NEW c \in Conn, NEW f \in Fd, accept_loop(c, f) PROVE Pointers' /\ OneOwner'
  <2>1. /\ fd[c] = None /\ f \in FreeFds
        /\ fd' = [fd EXCEPT ![c] = f] /\ connections' = [connections EXCEPT ![f] = c]
        /\ UNCHANGED <<closed, task_queue_, at>>
    BY <1>1 DEF accept_loop
  <2>2. ~Alive(c) /\ c \notin closed
    BY <2>1 DEF Pointers
  <2>3. \A d \in Conn : fd[d] = f => ~Alive(d)
    BY <2>1 DEF FreeFds
  <2>4. connections \in [Fd -> Conn \cup {None}] /\ fd \in [Conn -> Fd \cup {None}]
    BY DEF Types, TypeOK
  <2>5. /\ \A d \in Conn : fd'[d] = IF d = c THEN f ELSE fd[d]
        /\ \A g \in Fd : connections'[g] = IF g = f THEN c ELSE connections[g]
    BY <2>1, <2>4
  <2>6. \A d \in Conn : InMap(d) => Alive(d)
    BY DEF Alive
  <2>7. \A d \in Conn : d # c => (InMap(d)' <=> InMap(d))
    BY <2>3, <2>4, <2>5, <2>6 DEF InMap
  <2>8. InMap(c)'
    BY <2>5, ChatServerV3Assumption DEF InMap
  <2>9. \A d \in Conn : d # c => (Alive(d)' => Alive(d))
    <3> SUFFICES ASSUME NEW d \in Conn, d # c PROVE Alive(d)' => Alive(d)
      OBVIOUS
    <3>1. (\E t \in Thread : Points(at'[t], d)) <=> \E t \in Thread : Points(at[t], d)
      BY <2>1
    <3>2. Waits(d)' <=> Waits(d)
      BY <2>1 DEF Waits
    <3> QED
      BY <2>7, <3>1, <3>2, AliveIs
  <2>10. \A d, t : Leaving(t, d)' <=> Leaving(t, d)
    BY <2>1 DEF Leaving, In
  <2>11. OneOwner'
    <3> SUFFICES ASSUME NEW d \in Conn, NEW e \in Conn, d # e, fd'[d] # None, fd'[d] = fd'[e], Alive(d)', Alive(e)'
                 PROVE  FALSE
      BY DEF OneOwner
    <3>1. CASE d # c /\ e # c
      BY <2>5, <2>9, <3>1 DEF OneOwner
    <3>2. CASE d = c
      BY <2>3, <2>5, <2>9, <3>2
    <3>3. CASE e = c
      BY <2>3, <2>5, <2>9, <3>3
    <3> QED
      BY <3>1, <3>2, <3>3
  <2>12. ASSUME NEW g \in Fd, connections'[g] # None PROVE fd'[connections'[g]] = g
    <3>1. CASE g = f
      BY <2>5, <3>1
    <3>2. CASE g # f
      BY <2>1, <2>4, <2>5, <2>12, <3>2, ChatServerV3Assumption DEF Pointers
    <3> QED
      BY <3>1, <3>2
  <2>13. \A d \in Conn : Alive(d)' \/ d \in closed' => fd'[d] # None
    BY <2>1, <2>5, <2>9, ChatServerV3Assumption DEF Pointers
  <2>14. \A d \in Conn : fd'[d] # None /\ d \notin closed' => InMap(d)'
    BY <2>1, <2>5, <2>7, <2>8 DEF Pointers
  <2>15. \A d \in Conn, t \in Thread : Leaving(t, d)' => d \in closed' /\ InMap(d)'
    BY <2>1, <2>7, <2>8, <2>10 DEF Pointers
  <2> QED
    BY <2>10, <2>11, <2>12, <2>13, <2>14, <2>15 DEF Pointers
<1>2. ASSUME at' = at, UNCHANGED <<fd, connections, closed>>, \A c \in Conn : Waits(c)' => Alive(c)
      PROVE  Pointers' /\ OneOwner'
  <2>1. \A c \in Conn : Alive(c)' => Alive(c)
    <3> TAKE c \in Conn
    <3>1. InMap(c)' => InMap(c)
      BY <1>2 DEF InMap
    <3> QED
      BY <1>2, <3>1, AliveIs
  <2>2. \A c \in Conn, t \in Thread : Leaving(t, c)' => Leaving(t, c)
    BY <1>2 DEF Leaving, In
  <2> QED
    BY <1>2, <2>1, <2>2, PointersStill
<1>3. ASSUME NEW c \in Conn, NEW text \in Text \cup {Empty}, handle_read(c, text) PROVE Pointers' /\ OneOwner'
  <2> DEFINE task == [pc |-> "message", conn |-> c, text |-> text]
  <2>1. task \in Task /\ Alive(c)
    BY <1>3, AliveIs DEF Task, handle_read
  <2>2. task_queue_' = Append(task_queue_, task) /\ task.conn = c
    BY <1>3 DEF handle_read
  <2> HIDE DEF task
  <2>3. \A d \in Conn : Waits(d)' => Alive(d)
    BY <2>1, <2>2, WaitsAlive
  <2> QED
    BY <1>2, <1>3, <2>3 DEF handle_read, sockVars
<1>4. ASSUME NEW c \in Conn, StartClose(c) PROVE Pointers' /\ OneOwner'
  <2> DEFINE p == [pc |-> "close", conn |-> c]
  <2>1. UNCHANGED <<fd, connections, closed, task_queue_>> /\ Moved("net", p) /\ Alive(c)
    BY <1>4, NetMoves, AliveIs DEF StartClose, sockVars
  <2>2. \A d \in Conn : Waits(d)' => Alive(d)
    BY <2>1, WaitsAlive
  <2>3. \A d \in Conn : Points(p, d) => Alive(d)
    BY <2>1 DEF Points
  <2>4. \A d \in Conn : ~Leaves(p, d)
    BY DEF Leaves
  <2> HIDE DEF p
  <2> QED
    BY <1>0, <2>1, <2>2, <2>3, <2>4, PointersMove
<1>5. ASSUME NEW c \in Conn, handle_write(c) \/ flush_queue(c) PROVE Pointers' /\ OneOwner'
  <2>1. UNCHANGED <<fd, connections, closed, task_queue_, at>>
    BY <1>5 DEF handle_write, flush_queue, sockVars
  <2> QED
    BY <1>2, <2>1, WaitsAlive
<1>6. CASE ReadNotify
  <2> DEFINE p == [pc |-> "process"]
  <2>1. UNCHANGED <<fd, connections, closed, task_queue_>> /\ Moved("net", p)
    BY <1>6, NetMoves DEF ReadNotify, sockVars
  <2>2. \A d \in Conn : Waits(d)' => Alive(d)
    BY <2>1, WaitsAlive
  <2>3. \A d \in Conn : ~Points(p, d) /\ ~Leaves(p, d)
    BY DEF Points, Leaves, MessagePlaces, ClosePlaces
  <2> HIDE DEF p
  <2> QED
    BY <1>0, <2>1, <2>2, <2>3, PointersMove
<1>7. CASE process_global_queue
  <2>1. UNCHANGED <<fd, connections, closed>> /\ Moved("net", Idle)
    BY <1>7, NetMoves DEF process_global_queue, sockVars
  <2>2. /\ SetToSeq(BatchTasks) \in Seq(Task)
        /\ \A i \in 1..Len(SetToSeq(BatchTasks)) : SetToSeq(BatchTasks)[i] \in BatchTasks
    <3>1. IsFiniteSet(BatchTasks) /\ BatchTasks \subseteq Task
      BY TypesParts, BatchTasksAre
    <3>2. SetToSeq(BatchTasks) \in Seq(BatchTasks)
      BY <3>1, SetToSeqIs
    <3> QED
      BY <3>1, <3>2, SeqMonotonic, ElementOfSeq
  <2>3. \A task \in BatchTasks : task.pc = "snapshot"
    BY DEF BatchTasks
  <2>4. task_queue_' = task_queue_ \/ task_queue_' = task_queue_ \o SetToSeq(BatchTasks)
    BY <1>7 DEF process_global_queue, BatchTasks
  <2>5. \A d \in Conn : Waits(d)' => Alive(d)
    BY <2>2, <2>3, <2>4, WaitsAlive
  <2>6. \A d \in Conn : ~Points(Idle, d) /\ ~Leaves(Idle, d)
    BY DEF Points, Leaves, Idle, MessagePlaces, ClosePlaces
  <2> QED
    BY <1>0, <2>1, <2>5, <2>6, PointersMove
<1> QED
  BY <1>0, <1>1, <1>3, <1>4, <1>5, <1>6, <1>7, ClosePointers DEF Net

(* The steps of a worker, who takes the pointers of a task from the queue    *)
(* with it.                                                                  *)
LEMMA WorkPointers ==
    ASSUME Types, Pointers, OneOwner, NEW w \in Worker, Work(w)
    PROVE  Pointers' /\ OneOwner'
<1>0. w \in Thread
  BY DEF Thread
<1>1. \A c \in Conn : ~Points(Idle, c) /\ ~Leaves(Idle, c)
  BY DEF Points, Leaves, Idle, MessagePlaces, ClosePlaces
<1>2. CASE TakeTask(w)
  <2>1. /\ UNCHANGED <<fd, connections, closed>> /\ Moved(w, task_queue_[1]) /\ 1 \in 1..Len(task_queue_)
        /\ task_queue_ # <<>> /\ task_queue_' = Tail(task_queue_)
    BY <1>2, TakeTaskMoves DEF TakeTask, sockVars
  <2>2. \A c \in Conn : Waits(c)' => Alive(c)
    BY <2>1, WaitsAlive
  <2>3. task_queue_[1] \in Task
    BY <2>1, TypesParts, ElementOfSeq DEF EventTypes
  <2>4. task_queue_[1].pc = "message" \/ task_queue_[1].pc = "snapshot"
    BY <2>3 DEF Task
  <2>5. \A c \in Conn : Points(task_queue_[1], c) => Alive(c)
    BY <2>1, <2>4, AliveIs DEF Points, Waits, MessagePlaces, ClosePlaces
  <2>6. \A c \in Conn : ~Leaves(task_queue_[1], c)
    BY <2>4 DEF Leaves
  <2> QED
    BY <1>0, <2>1, <2>2, <2>5, <2>6, PointersMove
<1>3. CASE Snapshot(w)
  <2>1. UNCHANGED <<fd, connections, closed, task_queue_>>
    BY <1>3 DEF Snapshot, sockVars
  <2>2. \A c \in Conn : Waits(c)' => Alive(c)
    BY <2>1, WaitsAlive
  <2> DEFINE recipients == {c \in Conn \ closed : InMap(c) /\ shard[fd[c]] = at[w].shard /\ Active(c)}
             p == IF recipients = {} THEN Idle ELSE [pc |-> "deliver", events |-> at[w].events, todo |-> recipients]
  <2>3. Moved(w, p)
    BY <1>3, DeliveryMoves
  <2>4. \A c \in recipients : Alive(c)
    BY DEF Alive
  <2> HIDE DEF recipients
  <2>5. \A c \in Conn : Points(p, c) => Alive(c)
    BY <1>1, <2>4 DEF Points, MessagePlaces, ClosePlaces
  <2>6. \A c \in Conn : ~Leaves(p, c)
    BY <1>1 DEF Leaves
  <2> HIDE DEF p
  <2> QED
    BY <1>0, <2>1, <2>2, <2>3, <2>5, <2>6, PointersMove
<1>4. ASSUME NEW c \in Conn, Deliver(w, c) PROVE Pointers' /\ OneOwner'
  <2>1. UNCHANGED <<fd, connections, closed, task_queue_>> /\ at[w].pc = "deliver"
    BY <1>4 DEF Deliver, sockVars
  <2>2. \A d \in Conn : Waits(d)' => Alive(d)
    BY <2>1, WaitsAlive
  <2> DEFINE p == IF at[w].todo = {c} THEN Idle
                  ELSE [pc |-> "deliver", events |-> at[w].events, todo |-> at[w].todo \ {c}]
  <2>3. Moved(w, p)
    BY <1>4, DeliveryMoves
  <2>4. \A d \in at[w].todo : Alive(d)
    BY <1>0, <2>1 DEF Alive
  <2>5. \A d \in Conn : Points(p, d) => Alive(d)
    BY <1>1, <2>4 DEF Points, MessagePlaces, ClosePlaces
  <2>6. \A d \in Conn : ~Leaves(p, d)
    BY <1>1 DEF Leaves
  <2> HIDE DEF p
  <2> QED
    BY <1>0, <2>1, <2>2, <2>3, <2>5, <2>6, PointersMove
<1>5. ASSUME NEW c \in Conn, OnMessageRecv(w, c) \/ SetUsername(w, c) \/ Reply(w, c) \/ BroadcastMessage(w, c)
      PROVE  Pointers' /\ OneOwner'
  <2>1. UNCHANGED <<fd, connections, closed, task_queue_>>
    BY <1>5 DEF OnMessageRecv, SetUsername, Reply, BroadcastMessage, sockVars
  <2>2. \A d \in Conn : Waits(d)' => Alive(d)
    BY <2>1, WaitsAlive
  <2>3. Alive(c)
    <3>1. Points(at[w], c)
      BY <1>5 DEF OnMessageRecv, SetUsername, Reply, BroadcastMessage, In, Points, MessagePlaces
    <3> QED
      BY <1>0, <3>1, AliveIs
  <2>4. \E p : /\ Moved(w, p) /\ \A d \in Conn : Points(p, d) => d = c
               /\ \A d \in Conn : ~Leaves(p, d)
    <3>1. \A place \in {"spam", "chat", "wake", "named", "refuse", "accepted"}, d \in Conn :
              LET p == [pc |-> place, conn |-> c, text |-> at[w].text] IN (Points(p, d) => d = c) /\ ~Leaves(p, d)
      BY DEF Points, Leaves
    <3>2. \A d \in Conn : LET p == [pc |-> "close", conn |-> c] IN (Points(p, d) => d = c) /\ ~Leaves(p, d)
      BY DEF Points, Leaves
    <3>3. CASE Moved(w, Idle)
      BY <1>1, <3>3
    <3>4. ASSUME NEW place \in {"spam", "chat", "wake", "named", "refuse", "accepted"},
                 Moved(w, [pc |-> place, conn |-> c, text |-> at[w].text])
          PROVE  \E p : Moved(w, p) /\ (\A d \in Conn : Points(p, d) => d = c) /\ \A d \in Conn : ~Leaves(p, d)
      BY <3>1, <3>4
    <3>5. CASE Moved(w, [pc |-> "close", conn |-> c])
      BY <3>2, <3>5
    <3> QED
      BY <1>5, <3>3, <3>4, <3>5, MessageMoves
  <2> QED
    BY <1>0, <2>1, <2>2, <2>3, <2>4, PointersMove
<1> QED
  BY <1>0, <1>2, <1>3, <1>4, <1>5, ClosePointers DEF Work

(* So every step keeps who points to whom, and each number its one owner.    *)
LEMMA PointersKept ==
    ASSUME Types, Pointers, OneOwner, [Next]_vars
    PROVE  Pointers' /\ OneOwner'
<1>1. CASE UNCHANGED vars
  <2>1. UNCHANGED <<fd, connections, closed, task_queue_, at>>
    BY <1>1 DEF vars, sockVars
  <2>2. \A c \in Conn : Alive(c)' <=> Alive(c)
    BY <2>1 DEF Alive, InMap, In
  <2>3. \A c \in Conn, t \in Thread : Leaving(t, c)' => Leaving(t, c)
    BY <2>1 DEF Leaving, In
  <2> QED
    BY <2>1, <2>2, <2>3, PointersStill
<1> QED
  BY <1>1, NetPointers, WorkPointers DEF Next

-----------------------------------------------------------------------------
(* Names.                                                                    *)

(* A step that changes no name, no flag, and nobody's place among those that *)
(* matter for names.                                                         *)
LEMMA NamesStill ==
    ASSUME Types, Names, UNCHANGED <<closed, username, usernames_, raced>>,
           \A c \in Conn : HookPending(c)' <=> HookPending(c),
           \A w \in Worker, c \in Conn :
               (Naming(w, c)' <=> Naming(w, c)) /\ (Naming(w, c) => at'[w].text = at[w].text)
    PROVE  Names'
<1>1. \A c \in Conn, n \in Text : Holder(c, n)' <=> Holder(c, n)
  BY DEF Holder
<1>2. \A c \in Conn : Active(c)' <=> Active(c)
  BY DEF Active
<1>3. \A n \in usernames_ : (\E c \in Conn : Holder(c, n)) => \E c \in Conn : Holder(c, n)'
  BY DEF Holder
<1> QED
  BY <1>1, <1>2, <1>3 DEF Names, Types, TypeOK

(* A thread moves between places that do not matter for names.               *)
Plain(p) == p.pc \notin {"hook", "named"}

(* Such a move leaves the names alone.                                       *)
LEMMA NamesMove ==
    ASSUME Types, Names, UNCHANGED <<closed, username, usernames_, raced>>,
           NEW t \in Thread, NEW p, Moved(t, p), Plain(p), Plain(at[t])
    PROVE  Names'
<1>1. \A c \in Conn : HookPending(c)' <=> HookPending(c)
  BY DEF HookPending, In, Moved, Plain
<1>2. \A w \in Worker : w \in Thread
  BY DEF Thread
<1>3. \A w \in Worker, c \in Conn :
          (Naming(w, c)' <=> Naming(w, c)) /\ (Naming(w, c) => at'[w].text = at[w].text)
  BY <1>2 DEF Naming, In, Moved, Plain
<1> QED
  BY <1>1, <1>3, NamesStill

(* So does a step in which no thread moves.                                  *)
LEMMA NamesNobodyMoves ==
    ASSUME Types, Names, UNCHANGED <<closed, username, usernames_, raced, at>>
    PROVE  Names'
<1>1. \A c \in Conn : HookPending(c)' <=> HookPending(c)
  BY DEF HookPending, In
<1>2. \A w \in Worker, c \in Conn :
          (Naming(w, c)' <=> Naming(w, c)) /\ (Naming(w, c) => at'[w].text = at[w].text)
  BY DEF Naming, In
<1> QED
  BY <1>1, <1>2, NamesStill

(* Taking the flag opens the time in which the disconnect hook is still to   *)
(* look.                                                                     *)
LEMMA ExchangeNames ==
    ASSUME Types, Pointers, Names, NEW t \in Thread, NEW c \in Conn, Exchange(t, c)
    PROVE  Names'
<1>0. at[t].conn = c /\ at[t].pc = "close" /\ UNCHANGED <<username, usernames_, raced>>
  BY DEF Exchange, In, nameVars
<1>1. CASE c \in closed
  <2>1. closed' = closed /\ Moved(t, Idle)
    BY <1>1, CloseConnMoves DEF Exchange, Types, TypeOK
  <2> QED
    BY <1>0, <2>1, NamesMove DEF Plain, Idle
<1>2. CASE c \notin closed
  <2>1. closed' = closed \cup {c} /\ Moved(t, [pc |-> "hook", conn |-> c])
    BY <1>2, CloseConnMoves DEF Exchange
  <2>2. HookPending(c)'
    BY <2>1 DEF HookPending, In, Moved
  <2>3. \A d \in Conn : d # c => (HookPending(d)' <=> HookPending(d))
    BY <1>0, <2>1 DEF HookPending, In, Moved
  <2>4. \A w \in Worker, d \in Conn :
            (Naming(w, d)' <=> Naming(w, d)) /\ (Naming(w, d) => at'[w].text = at[w].text)
    BY <1>0, <2>1 DEF Naming, In, Moved, Thread
  <2>5. \A d \in Conn, n \in Text : Holder(d, n)' <=> Holder(d, n)
    <3> TAKE d \in Conn, n \in Text
    <3>1. (\E w \in Worker : Naming(w, d)' /\ at'[w].text = n) <=> \E w \in Worker : Naming(w, d) /\ at[w].text = n
      BY <2>4
    <3>2. CASE d = c
      BY <1>0, <1>2, <2>1, <2>2, <3>1, <3>2 DEF Holder
    <3>3. CASE d # c
      BY <1>0, <2>1, <2>3, <3>1, <3>3 DEF Holder
    <3> QED
      BY <3>2, <3>3
  <2>6. \A d \in raced' : d \in closed' /\ ~HookPending(d)'
    BY <1>0, <1>2, <2>1, <2>3 DEF Names, Types, TypeOK
  <2>7. \A d \in Conn : Active(d)' <=> Active(d)
    BY <1>0 DEF Active
  <2>8. \A n \in usernames_' : \E d \in Conn : Holder(d, n)'
    BY <1>0, <2>5 DEF Names, Types, TypeOK
  <2> QED
    BY <1>0, <2>4, <2>5, <2>6, <2>7, <2>8 DEF Names
<1> QED
  BY <1>1, <1>2

(* The disconnect hook frees the name, if it sees one, and nobody holds it   *)
(* then.                                                                     *)
LEMMA HookNames ==
    ASSUME Types, Pointers, Names, NEW t \in Thread, NEW c \in Conn, OnClientDisconnect(t, c)
    PROVE  Names'
<1>0. /\ at[t].conn = c /\ at[t].pc = "hook" /\ UNCHANGED <<closed, username, raced>>
      /\ usernames_' = usernames_ \ {username[c]}
  BY DEF OnClientDisconnect, In
<1>1. PICK place \in {"left", "erase"} : Moved(t, [pc |-> place, conn |-> c])
  BY CloseConnMoves
<1>2. c \in closed /\ HookPending(c) /\ \A u \in Thread : In(u, {"hook"}, c) => u = t
  BY <1>0 DEF Pointers, Leaving, In, HookPending
<1>3. ~HookPending(c)'
  BY <1>1, <1>2 DEF HookPending, In, Moved
<1>4. \A d \in Conn : d # c => (HookPending(d)' <=> HookPending(d))
  BY <1>0, <1>1 DEF HookPending, In, Moved
<1>5. \A w \in Worker, d \in Conn :
          (Naming(w, d)' <=> Naming(w, d)) /\ (Naming(w, d) => at'[w].text = at[w].text)
  BY <1>0, <1>1 DEF Naming, In, Moved, Thread
<1>6. c \notin raced
  BY <1>2 DEF Names
<1>7. \A d \in Conn, n \in Text : Holder(d, n)' <=> Holder(d, n) /\ ~(d = c /\ n = username[c])
  <2> TAKE d \in Conn, n \in Text
  <2>1. (\E w \in Worker : Naming(w, d)' /\ at'[w].text = n) <=> \E w \in Worker : Naming(w, d) /\ at[w].text = n
    BY <1>5
  <2>2. CASE d # c
    BY <1>0, <1>4, <2>1, <2>2 DEF Holder
  <2>3. CASE d = c
    <3>1. n = username[c] => \A w \in Worker : ~Naming(w, c)
      BY ChatServerV3Assumption DEF Names, Active
    <3> QED
      BY <1>0, <1>2, <1>3, <1>6, <2>1, <2>3, <3>1 DEF Holder
  <2> QED
    BY <2>2, <2>3
<1>8. ASSUME NEW d \in Conn, NEW n \in Text, Holder(d, n)' PROVE n \in usernames_'
  <2>1. Holder(d, n) /\ n \in usernames_ /\ ~(d = c /\ n = username[c])
    BY <1>7, <1>8 DEF Names
  <2>2. n = username[c] => Holder(c, n)
    BY <1>2 DEF Holder
  <2> QED
    BY <1>0, <2>1, <2>2 DEF Names
<1>9. ASSUME NEW n \in usernames_' PROVE \E d \in Conn : Holder(d, n)'
  <2>1. n \in usernames_ /\ n # username[c] /\ n \in Text
    BY <1>0 DEF Types, TypeOK
  <2> QED
    BY <1>7, <2>1 DEF Names
<1>10. \A d \in Conn : Active(d)' <=> Active(d)
  BY <1>0 DEF Active
<1>11. \A d \in raced' : d \in closed' /\ ~HookPending(d)'
  BY <1>0, <1>3, <1>4 DEF Names, Types, TypeOK
<1>12. \A d, e \in Conn, n \in Text : Holder(d, n)' /\ Holder(e, n)' => d = e
  BY <1>7 DEF Names
<1>13. /\ \A w \in Worker, d \in Conn : Naming(w, d)' => ~Active(d)' /\ at'[w].text # Empty
       /\ \A w, v \in Worker, d \in Conn : Naming(w, d)' /\ Naming(v, d)' => w = v
  BY <1>5, <1>10 DEF Names
<1> QED
  BY <1>8, <1>9, <1>11, <1>12, <1>13 DEF Names

(* A login takes a name that nobody holds.                                   *)
LEMMA LoginNames ==
    ASSUME Types, Names, NEW w \in Worker, NEW c \in Conn, OnMessageRecv(w, c)
    PROVE  Names'
<1>0. /\ w \in Thread /\ at[w].conn = c /\ at[w].pc = "message" /\ UNCHANGED <<closed, username, raced>>
      /\ ~Locked(c) /\ Plain(at[w])
  BY DEF OnMessageRecv, In, Thread, Plain
<1>1. CASE UNCHANGED usernames_ /\ (Return(w) \/ \E place \in {"spam", "chat", "refuse"} : Goto(w, place))
  <2>1. CASE Return(w)
    <3>1. Moved(w, Idle)
      BY <1>0, <2>1, Returns
    <3> QED
      BY <1>0, <1>1, <3>1, NamesMove DEF Plain, Idle
  <2>2. ASSUME NEW place \in {"spam", "chat", "refuse"}, Goto(w, place) PROVE Names'
    <3>1. Moved(w, [pc |-> place, conn |-> c, text |-> at[w].text])
      BY <1>0, <2>2, GoesOnWithMessage DEF MessagePlaces
    <3> QED
      BY <1>0, <1>1, <3>1, NamesMove DEF Plain
  <2> QED
    BY <1>1, <2>1, <2>2
<1>2. CASE /\ c \notin closed /\ ~Active(c) /\ Acceptable(at[w].text)
           /\ Goto(w, "named") /\ usernames_' = usernames_ \cup {at[w].text}
  <2> DEFINE name == at[w].text
  <2>1. Moved(w, [pc |-> "named", conn |-> c, text |-> name])
    BY <1>0, <1>2, GoesOnWithMessage DEF MessagePlaces
  <2>2. name \notin usernames_ /\ name # Empty /\ usernames_' = usernames_ \cup {name}
    BY <1>2 DEF Acceptable
  <2>3. at'[w].pc = "named" /\ at'[w].conn = c /\ at'[w].text = name
    BY <2>1 DEF Moved
  <2>4. name \in Text
    <3>1. at[w] \in MessagePlace
      BY <1>0, PlaceFacts DEF MessagePlaces
    <3> QED
      BY <2>2, <3>1 DEF MessagePlace
  <2> HIDE DEF name
  <2>5. \A u \in Thread : u # w => at'[u] = at[u]
    BY <2>1 DEF Moved
  <2>6. \A d \in Conn : HookPending(d)' <=> HookPending(d)
    BY <1>0, <2>3, <2>5 DEF HookPending, In
  <2>7. \A v \in Worker, d \in Conn :
            /\ v # w => (Naming(v, d)' <=> Naming(v, d)) /\ at'[v].text = at[v].text
            /\ ~Naming(w, d) /\ (Naming(w, d)' <=> d = c)
    BY <1>0, <2>3, <2>5 DEF Naming, In, Thread
  <2>8. \A v \in Worker : ~Naming(v, c)
    BY <1>0 DEF Locked, Naming
  <2>9. \A d \in Conn, n \in Text : Holder(d, n)' <=> Holder(d, n) \/ (d = c /\ n = name)
    <3> TAKE d \in Conn, n \in Text
    <3>1. (\E v \in Worker : Naming(v, d)' /\ at'[v].text = n)
          <=> (\E v \in Worker : Naming(v, d) /\ at[v].text = n) \/ (d = c /\ n = name)
      BY <2>3, <2>7
    <3> QED
      BY <1>0, <2>6, <3>1 DEF Holder
  <2>10. \A d \in Conn : ~Holder(d, name)
    BY <2>2, <2>4 DEF Names
  <2>11. \A d \in Conn : Active(d)' <=> Active(d)
    BY <1>0 DEF Active
  <2>12. \A d, e \in Conn, n \in Text : Holder(d, n)' /\ Holder(e, n)' => d = e
    BY <2>9, <2>10 DEF Names
  <2>13. \A n \in usernames_' : \E d \in Conn : Holder(d, n)'
    BY <2>2, <2>4, <2>9 DEF Names, Types, TypeOK
  <2>14. \A v \in Worker, d \in Conn : Naming(v, d)' => ~Active(d)' /\ at'[v].text # Empty
    BY <1>2, <2>2, <2>3, <2>7, <2>11 DEF Names
  <2>15. \A v, u \in Worker, d \in Conn : Naming(v, d)' /\ Naming(u, d)' => v = u
    BY <2>7, <2>8 DEF Names
  <2>16. \A d \in Conn, n \in Text : Holder(d, n)' => n \in usernames_'
    BY <2>2, <2>9 DEF Names
  <2>17. \A d \in raced' : d \in closed' /\ ~HookPending(d)'
    BY <1>0, <2>6 DEF Names, Types, TypeOK
  <2> QED
    BY <2>12, <2>13, <2>14, <2>15, <2>16, <2>17 DEF Names
<1> QED
  BY <1>1, <1>2 DEF OnMessageRecv

(* Completing a login turns the name under way into that of the client,      *)
(* closed or not.                                                            *)
LEMMA NamedNames ==
    ASSUME Types, Names, NEW w \in Worker, NEW c \in Conn, SetUsername(w, c)
    PROVE  Names'
<1> DEFINE name == at[w].text
<1>0. /\ w \in Thread /\ Naming(w, c) /\ UNCHANGED <<closed, usernames_>>
      /\ at[w].pc = "named" /\ at[w].conn = c
      /\ username' = [username EXCEPT ![c] = name]
      /\ raced' = IF c \in closed /\ ~HookPending(c) THEN raced \cup {c} ELSE raced
  BY DEF SetUsername, Naming, In, Thread
<1>1. Moved(w, [pc |-> "accepted", conn |-> c, text |-> name])
  BY MessageMoves
<1>2. at'[w].pc = "accepted" /\ \A u \in Thread : u # w => at'[u] = at[u]
  BY <1>1 DEF Moved
<1>3. name # Empty /\ ~Active(c) /\ name \in Text
  <2>1. at[w] \in MessagePlace
    BY <1>0, PlaceFacts DEF MessagePlaces
  <2> QED
    BY <1>0, <2>1 DEF Names, MessagePlace
<1> HIDE DEF name
<1>4. username'[c] = name /\ \A d \in Conn : d # c => username'[d] = username[d]
  BY <1>0 DEF Types, TypeOK
<1>5. \A d \in Conn : HookPending(d)' <=> HookPending(d)
  BY <1>0, <1>2 DEF HookPending, In
<1>6. \A v \in Worker, d \in Conn :
          /\ Naming(v, d)' <=> Naming(v, d) /\ v # w
          /\ v # w => at'[v].text = at[v].text
  BY <1>0, <1>2 DEF Naming, In, Thread
<1>7. \A v \in Worker : Naming(v, c) => v = w
  BY <1>0 DEF Names
<1>8. \A d \in Conn, n \in Text : Holder(d, n)' <=> Holder(d, n)
  <2> TAKE d \in Conn, n \in Text
  <2>1. CASE d = c
    <3>1. Holder(c, n)' <=> name = n
      <4>1. ~\E v \in Worker : Naming(v, c)' /\ at'[v].text = n
        BY <1>6, <1>7
      <4>2. c \notin closed' \/ HookPending(c)' \/ c \in raced'
        BY <1>0, <1>5
      <4> QED
        BY <1>4, <4>1, <4>2 DEF Holder
    <3>2. Holder(c, n) <=> name = n
      <4>1. (\E v \in Worker : Naming(v, c) /\ at[v].text = n) <=> name = n
        BY <1>0, <1>7 DEF name
      <4>2. username[c] # n
        BY <1>3, ChatServerV3Assumption DEF Active
      <4> QED
        BY <4>1, <4>2 DEF Holder
    <3> QED
      BY <2>1, <3>1, <3>2
  <2>2. CASE d # c
    <3>1. (\E v \in Worker : Naming(v, d)' /\ at'[v].text = n) <=> \E v \in Worker : Naming(v, d) /\ at[v].text = n
      BY <1>0, <1>6, <2>2 DEF Naming, In
    <3>2. username'[d] = username[d] /\ (d \in raced' <=> d \in raced)
      BY <1>0, <1>4, <2>2
    <3> QED
      BY <1>0, <1>5, <3>1, <3>2 DEF Holder
  <2> QED
    BY <2>1, <2>2
<1>9. \A v \in Worker, d \in Conn : Naming(v, d)' => ~Active(d)' /\ at'[v].text # Empty
  BY <1>4, <1>6, <1>7 DEF Names, Active
<1>10. \A v, u \in Worker, d \in Conn : Naming(v, d)' /\ Naming(u, d)' => v = u
  BY <1>6 DEF Names
<1>11. \A d \in raced' : d \in closed' /\ ~HookPending(d)'
  BY <1>0, <1>5 DEF Names, Types, TypeOK
<1>12. \A n \in usernames_' : \E d \in Conn : Holder(d, n)'
  BY <1>0, <1>8 DEF Names, Types, TypeOK
<1> QED
  BY <1>0, <1>8, <1>9, <1>10, <1>11, <1>12 DEF Names

(* So every step keeps who holds which name.                                 *)
LEMMA NamesKept ==
    ASSUME Types, Pointers, Names, [Next]_vars
    PROVE  Names'
<1>0. "net" \in Thread /\ \A w \in Worker : w \in Thread
  BY DEF Thread
<1>1. ASSUME NEW t \in Thread, NEW c \in Conn, CloseConn(t, c) PROVE Names'
  <2>1. CASE BroadcastLeft(t, c)
    BY <2>1, CloseConnMoves, NamesMove DEF BroadcastLeft, In, Plain, nameVars
  <2>2. CASE EraseConn(t, c)
    BY <2>2, CloseConnMoves, NamesMove DEF EraseConn, In, Plain, nameVars, Idle
  <2> QED
    BY <1>1, <2>1, <2>2, ExchangeNames, HookNames DEF CloseConn
<1>2. ASSUME Net PROVE Names'
  <2>1. ASSUME NEW c \in Conn, NEW f \in Fd, accept_loop(c, f) PROVE Names'
    BY <2>1, NamesNobodyMoves DEF accept_loop, nameVars
  <2>2. ASSUME NEW c \in Conn, NEW text, handle_read(c, text) PROVE Names'
    BY <2>2, NamesNobodyMoves DEF handle_read, nameVars
  <2>3. ASSUME NEW c \in Conn, handle_write(c) \/ flush_queue(c) PROVE Names'
    BY <2>3, NamesNobodyMoves DEF handle_write, flush_queue, nameVars
  <2>4. ASSUME NEW c \in Conn, StartClose(c) PROVE Names'
    <3>1. /\ UNCHANGED <<closed, username, usernames_, raced>> /\ at["net"] = Idle
          /\ Moved("net", [pc |-> "close", conn |-> c])
      BY <2>4, NetMoves DEF StartClose, NetIdle, nameVars
    <3>2. Plain(Idle) /\ Plain([pc |-> "close", conn |-> c])
      BY DEF Plain, Idle
    <3> QED
      BY <1>0, <3>1, <3>2, NamesMove
  <2>5. CASE ReadNotify
    <3>1. UNCHANGED <<closed, username, usernames_, raced>> /\ at["net"] = Idle /\ Moved("net", [pc |-> "process"])
      BY <2>5, NetMoves DEF ReadNotify, NetIdle, nameVars
    <3>2. Plain(Idle) /\ Plain([pc |-> "process"])
      BY DEF Plain, Idle
    <3> QED
      BY <1>0, <3>1, <3>2, NamesMove
  <2>6. CASE process_global_queue
    BY <1>0, <2>6, NetMoves, NamesMove DEF process_global_queue, Idle, Plain, nameVars
  <2> QED
    BY <1>0, <1>1, <1>2, <2>1, <2>2, <2>3, <2>4, <2>5, <2>6 DEF Net
<1>3. ASSUME NEW w \in Worker, Work(w) PROVE Names'
  <2>1. CASE TakeTask(w)
    <3>1. UNCHANGED <<closed, username, usernames_, raced>> /\ Plain(at[w])
      BY <2>1 DEF TakeTask, nameVars, Plain, Idle
    <3>2. Moved(w, task_queue_[1]) /\ 1 \in 1..Len(task_queue_)
      BY <2>1, TakeTaskMoves
    <3>3. task_queue_[1] \in Task
      BY <3>2, TypesParts, ElementOfSeq DEF EventTypes
    <3>4. Plain(task_queue_[1])
      BY <3>3 DEF Task, Plain
    <3> QED
      BY <1>0, <3>1, <3>2, <3>4, NamesMove
  <2>2. CASE Snapshot(w)
    <3>1. \E p : Moved(w, p) /\ Plain(p)
      <4> DEFINE recipients == {c \in Conn \ closed : InMap(c) /\ shard[fd[c]] = at[w].shard /\ Active(c)}
                 p == IF recipients = {} THEN Idle
                      ELSE [pc |-> "deliver", events |-> at[w].events, todo |-> recipients]
      <4>1. Moved(w, p)
        BY <2>2, DeliveryMoves
      <4> HIDE DEF recipients
      <4>2. Plain(p)
        BY DEF Plain, Idle
      <4> QED
        BY <4>1, <4>2
    <3> QED
      BY <1>0, <2>2, <3>1, NamesMove DEF Snapshot, Plain, nameVars
  <2>3. ASSUME NEW c \in Conn, Deliver(w, c) PROVE Names'
    <3>1. \E p : Moved(w, p) /\ Plain(p)
      <4> DEFINE p == IF at[w].todo = {c} THEN Idle
                      ELSE [pc |-> "deliver", events |-> at[w].events, todo |-> at[w].todo \ {c}]
      <4>1. Moved(w, p)
        BY <2>3, DeliveryMoves
      <4>2. Plain(p)
        BY DEF Plain, Idle
      <4> QED
        BY <4>1, <4>2
    <3> QED
      BY <1>0, <2>3, <3>1, NamesMove DEF Deliver, Plain, nameVars
  <2>4. ASSUME NEW c \in Conn, Reply(w, c) \/ BroadcastMessage(w, c) PROVE Names'
    <3>1. \E p : Moved(w, p) /\ Plain(p)
      <4>1. \/ Moved(w, Idle) \/ Moved(w, [pc |-> "close", conn |-> c])
            \/ \E place \in {"chat", "wake"} : Moved(w, [pc |-> place, conn |-> c, text |-> at[w].text])
        BY <2>4, MessageMoves
      <4>2. /\ Plain(Idle) /\ Plain([pc |-> "close", conn |-> c])
            /\ \A place \in {"chat", "wake"} : Plain([pc |-> place, conn |-> c, text |-> at[w].text])
        BY DEF Plain, Idle
      <4> QED
        BY <4>1, <4>2
    <3> QED
      BY <1>0, <2>4, <3>1, NamesMove DEF Reply, BroadcastMessage, In, Plain, nameVars
  <2> QED
    BY <1>0, <1>1, <1>3, <2>1, <2>2, <2>3, <2>4, LoginNames, NamedNames DEF Work
<1>4. CASE UNCHANGED vars
  BY <1>4, NamesNobodyMoves DEF vars, nameVars
<1> QED
  BY <1>2, <1>3, <1>4 DEF Next

-----------------------------------------------------------------------------
(* The way of the broadcasts: what holds in every step.                      *)

(* A connection keeps its number, stays closed and stays logged in.          *)
Steady ==
    /\ \A c \in Conn : fd[c] # None => fd'[c] = fd[c]
    /\ closed \subseteq closed'
    /\ \A c \in Conn : Active(c) => Active(c)'

(* Every step does: a descriptor is set once, a flag and a name are never    *)
(* taken back.                                                               *)
LEMMA StepsSteady ==
    ASSUME Types, Names, [Next]_vars
    PROVE  Steady
<1>0. fd \in [Conn -> Fd \cup {None}] /\ username \in [Conn -> Text \cup {Empty}]
  BY DEF Types, TypeOK
<1>1. ASSUME UNCHANGED <<fd, username>>, closed \subseteq closed' PROVE Steady
  BY <1>1 DEF Steady, Active
<1>2. ASSUME NEW t \in Thread, NEW c \in Conn, CloseConn(t, c) PROVE Steady
  BY <1>1, <1>2 DEF CloseConn, Exchange, OnClientDisconnect, BroadcastLeft, EraseConn, sockVars, nameVars
<1>3. ASSUME Net PROVE Steady
  <2>1. ASSUME NEW c \in Conn, NEW f \in Fd, accept_loop(c, f) PROVE Steady
    <3>1. \A d \in Conn : fd[d] # None => fd'[d] = fd[d]
      BY <1>0, <2>1 DEF accept_loop
    <3> QED
      BY <2>1, <3>1 DEF accept_loop, nameVars, Steady, Active
  <2>2. ASSUME NEW c \in Conn, NEW text, handle_read(c, text) PROVE Steady
    BY <1>1, <2>2 DEF handle_read, sockVars, nameVars
  <2>3. ASSUME NEW c \in Conn, StartClose(c) \/ handle_write(c) \/ flush_queue(c) PROVE Steady
    BY <1>1, <2>3 DEF StartClose, handle_write, flush_queue, sockVars, nameVars
  <2>4. CASE ReadNotify \/ process_global_queue
    BY <1>1, <2>4 DEF ReadNotify, process_global_queue, sockVars, nameVars
  <2>5. "net" \in Thread
    BY DEF Thread
  <2> QED
    BY <1>2, <1>3, <2>1, <2>2, <2>3, <2>4, <2>5 DEF Net
<1>4. ASSUME NEW w \in Worker, Work(w) PROVE Steady
  <2>1. ASSUME NEW c \in Conn, SetUsername(w, c) PROVE Steady
    <3>1. at[w].text # Empty
      BY <2>1 DEF SetUsername, Names, Naming
    <3>2. \A d \in Conn : username'[d] = IF d = c THEN at[w].text ELSE username[d]
      BY <1>0, <2>1 DEF SetUsername
    <3> QED
      BY <2>1, <3>1, <3>2 DEF SetUsername, sockVars, Steady, Active
  <2>2. CASE TakeTask(w) \/ Snapshot(w)
    BY <1>1, <2>2 DEF TakeTask, Snapshot, sockVars, nameVars
  <2>3. ASSUME NEW c \in Conn, OnMessageRecv(w, c) \/ Reply(w, c) \/ BroadcastMessage(w, c) \/ Deliver(w, c)
        PROVE  Steady
    BY <1>1, <2>3 DEF OnMessageRecv, Reply, BroadcastMessage, Deliver, sockVars, nameVars
  <2>4. w \in Thread
    BY DEF Thread
  <2> QED
    BY <1>2, <1>4, <2>1, <2>2, <2>3, <2>4 DEF Work
<1> QED
  BY <1>1, <1>3, <1>4 DEF Next, vars, sockVars, nameVars

(* A login is completed for a connection that was accepted.                  *)
LEMMA AcceptedKept ==
    ASSUME Types, Pointers, Names, Accepted, [Next]_vars
    PROVE  Accepted'
<1>1. Steady
  BY StepsSteady
<1>2. fd' \in [Conn -> Fd \cup {None}]
  BY CoreKept DEF Core
<1>3. ASSUME UNCHANGED username PROVE Accepted'
  BY <1>1, <1>3 DEF Accepted, Steady, Active
<1>4. ASSUME NEW w \in Worker, NEW c \in Conn, SetUsername(w, c) PROVE Accepted'
  <2>1. fd[c] # None
    <3>1. Alive(c)
      BY <1>4 DEF SetUsername, Alive, In, Thread, MessagePlaces
    <3> QED
      BY <3>1 DEF Pointers
  <2>2. \A d \in Conn : d # c => (Active(d)' <=> Active(d))
    BY <1>4 DEF SetUsername, Active, Types, TypeOK
  <2> QED
    BY <1>1, <2>1, <2>2 DEF Accepted, Steady
<1>5. ASSUME Net PROVE UNCHANGED username
  BY <1>5 DEF Net, CloseConn, Exchange, OnClientDisconnect, BroadcastLeft, EraseConn, accept_loop, handle_read,
              StartClose, handle_write, flush_queue, ReadNotify, process_global_queue, nameVars
<1>6. ASSUME NEW w \in Worker, Work(w), ~\E c \in Conn : SetUsername(w, c) PROVE UNCHANGED username
  BY <1>6 DEF Work, CloseConn, Exchange, OnClientDisconnect, BroadcastLeft, EraseConn, TakeTask, Snapshot,
              OnMessageRecv, Reply, BroadcastMessage, Deliver, nameVars
<1> QED
  BY <1>3, <1>4, <1>5, <1>6 DEF Next, vars, nameVars

(* The reactor is notified, or about to take the queue, until it has; and a  *)
(* thread between the two steps of Broadcast stays there until it notifies.  *)
LEMMA WakeupKept ==
    ASSUME Types, Wakeup, [Next]_vars
    PROVE  Wakeup'
<1>0. "net" \in Thread /\ (\A w \in Worker : w \in Thread) /\ global_queue_ \in Seq(Events)
  BY TypesParts DEF Thread, EventTypes
<1> DEFINE Stays == \A u \in Thread : at[u].pc \in {"process", "wake", "wakeLeft"} => at'[u] = at[u]
<1>1. ASSUME UNCHANGED <<global_queue_, notified, sent>>, Stays PROVE Wakeup'
  BY <1>0, <1>1 DEF Wakeup, WakeupDue, In, Events
<1>2. ASSUME NEW t \in Thread, NEW c \in Conn, NEW number \in {None, fd[c]}, QueueEvent(c, number),
             Stays, In(t, {"wake", "wakeLeft"}, c)'
      PROVE  Wakeup'
  <2>1. PICK n : /\ Events' = Events \cup {n} /\ \A e \in Events : sent'[e] = sent[e]
                 /\ sent'[n] = [from |-> c, sender_fd |-> number,
                                due |-> {d \in Conn \ {c} : Active(d) /\ d \notin closed}]
                 /\ \A e : Within(e, global_queue_') <=> Within(e, global_queue_) \/ e = n
    BY <1>2, BroadcastIs
  <2>2. sent'[n].from = c
    BY <2>1
  <2>3. WakeupDue(n)'
    BY <1>2, <2>2 DEF WakeupDue
  <2>4. ASSUME NEW e \in Events, WakeupDue(e) PROVE WakeupDue(e)'
    <3>1. sent'[e].from = sent[e].from /\ notified' = notified
      BY <1>2, <2>1 DEF QueueEvent
    <3> QED
      BY <1>0, <1>2, <2>4, <3>1 DEF WakeupDue, In
  <2>5. ASSUME NEW e \in Events', Within(e, global_queue_)' PROVE WakeupDue(e)'
    <3>1. Within(e, global_queue_') /\ (e \in Events \/ e = n)
      BY <2>1, <2>5 DEF Within
    <3>2. CASE e = n
      BY <2>3, <3>2
    <3>3. CASE e # n
      BY <2>1, <2>4, <3>1, <3>3 DEF Wakeup
    <3> QED
      BY <3>2, <3>3
  <2> QED
    BY <2>5 DEF Wakeup
<1>3. ASSUME notified' PROVE Wakeup'
  BY <1>3 DEF Wakeup, WakeupDue
<1>4. ASSUME NEW t \in Thread, NEW p, Moved(t, p), at[t].pc \notin {"process", "wake", "wakeLeft"} PROVE Stays
  BY <1>4 DEF Moved
<1> HIDE DEF Stays
<1>5. ASSUME NEW t \in Thread, NEW c \in Conn, CloseConn(t, c) PROVE Wakeup'
  <2>1. CASE BroadcastLeft(t, c) /\ at[t].pc = "left"
    <3>1. Moved(t, [pc |-> "wakeLeft", conn |-> c]) /\ QueueEvent(c, None)
      BY <2>1, CloseConnMoves DEF BroadcastLeft, In
    <3>2. In(t, {"wake", "wakeLeft"}, c)'
      BY <3>1 DEF Moved, In
    <3> QED
      BY <1>2, <1>4, <2>1, <3>1, <3>2
  <2>2. CASE BroadcastLeft(t, c) /\ at[t].pc # "left"
    BY <1>3, <2>2 DEF BroadcastLeft, WakeReactor, In
  <2>3. CASE Exchange(t, c) \/ OnClientDisconnect(t, c) \/ EraseConn(t, c)
    <3>1. UNCHANGED <<global_queue_, notified, sent>> /\ at[t].pc \notin {"process", "wake", "wakeLeft"}
      BY <2>3 DEF Exchange, OnClientDisconnect, EraseConn, In, busVars
    <3>2. \E p : Moved(t, p)
      BY <2>3, CloseConnMoves
    <3> QED
      BY <1>1, <1>4, <3>1, <3>2
  <2> QED
    BY <1>5, <2>1, <2>2, <2>3 DEF CloseConn
<1>6. ASSUME Net PROVE Wakeup'
  <2>1. CASE ReadNotify
    <3>1. at'["net"].pc = "process"
      BY <1>0, <2>1, NetMoves DEF Moved
    <3> QED
      BY <3>1 DEF Wakeup, WakeupDue
  <2>2. CASE process_global_queue
    <3>1. \A e : ~Within(e, <<>>)
      BY EmptySeq DEF Within
    <3> QED
      BY <2>2, <3>1 DEF process_global_queue, Wakeup, Within
  <2>3. ASSUME UNCHANGED <<global_queue_, notified, sent, at>> PROVE Wakeup'
    BY <1>1, <2>3 DEF Stays
  <2>4. ASSUME NEW c \in Conn, NEW f \in Fd, accept_loop(c, f) PROVE Wakeup'
    BY <2>3, <2>4 DEF accept_loop, busVars
  <2>5. ASSUME NEW c \in Conn, NEW text, handle_read(c, text) PROVE Wakeup'
    BY <2>3, <2>5 DEF handle_read, busVars
  <2>6. ASSUME NEW c \in Conn, handle_write(c) \/ flush_queue(c) PROVE Wakeup'
    BY <2>3, <2>6 DEF handle_write, flush_queue, busVars
  <2>7. ASSUME NEW c \in Conn, StartClose(c) PROVE Wakeup'
    <3>1. at["net"].pc = "idle"
      BY <2>7 DEF StartClose, NetIdle, Idle
    <3>2. \E p : Moved("net", p)
      BY <2>7, NetMoves
    <3> QED
      BY <1>0, <1>1, <1>4, <2>7, <3>1, <3>2 DEF StartClose, busVars
  <2> QED
    BY <1>0, <1>5, <1>6, <2>1, <2>2, <2>4, <2>5, <2>6, <2>7 DEF Net
<1>7. ASSUME NEW w \in Worker, Work(w) PROVE Wakeup'
  <2>1. ASSUME UNCHANGED <<global_queue_, notified, sent>>, at[w].pc \notin {"process", "wake", "wakeLeft"},
               \E p : Moved(w, p)
        PROVE  Wakeup'
    BY <1>0, <1>1, <1>4, <2>1
  <2>2. CASE TakeTask(w)
    <3>1. at[w].pc = "idle"
      BY <2>2 DEF TakeTask, Idle
    <3> QED
      BY <2>1, <2>2, <3>1, TakeTaskMoves DEF TakeTask, busVars
  <2>3. CASE Snapshot(w)
    <3>1. \E p : Moved(w, p)
      BY <2>3, DeliveryMoves
    <3> QED
      BY <2>1, <2>3, <3>1 DEF Snapshot, busVars
  <2>4. ASSUME NEW c \in Conn, Deliver(w, c) PROVE Wakeup'
    <3>1. \E p : Moved(w, p)
      BY <2>4, DeliveryMoves
    <3> QED
      BY <2>1, <2>4, <3>1 DEF Deliver, busVars
  <2>5. ASSUME NEW c \in Conn, OnMessageRecv(w, c) \/ SetUsername(w, c) \/ Reply(w, c) PROVE Wakeup'
    <3>1. \E p : Moved(w, p)
      BY <2>5, MessageMoves
    <3> QED
      BY <2>1, <2>5, <3>1 DEF OnMessageRecv, SetUsername, Reply, In, busVars
  <2>6. ASSUME NEW c \in Conn, BroadcastMessage(w, c), at[w].pc = "chat" PROVE Wakeup'
    <3>1. Moved(w, [pc |-> "wake", conn |-> c, text |-> at[w].text]) /\ QueueEvent(c, fd[c])
      BY <2>6, MessageMoves DEF BroadcastMessage, In
    <3>2. In(w, {"wake", "wakeLeft"}, c)'
      BY <3>1 DEF Moved, In
    <3> QED
      BY <1>0, <1>2, <1>4, <2>6, <3>1, <3>2
  <2>7. ASSUME NEW c \in Conn, BroadcastMessage(w, c), at[w].pc # "chat" PROVE Wakeup'
    BY <1>3, <2>7 DEF BroadcastMessage, WakeReactor, In
  <2> QED
    BY <1>0, <1>5, <1>7, <2>2, <2>3, <2>4, <2>5, <2>6, <2>7 DEF Work
<1>8. CASE UNCHANGED vars
  BY <1>1, <1>8 DEF vars, busVars, Stays
<1> QED
  BY <1>6, <1>7, <1>8 DEF Next

-----------------------------------------------------------------------------
(* The way of the broadcasts: where they are after a step.                   *)

(* What a place has for a shard, and for a client.                           *)
Hand(p, e, s) == p.pc = "snapshot" /\ p.shard = s /\ Within(e, p.events)
Delivers(p, e, c) == p.pc = "deliver" /\ c \in p.todo /\ Within(e, p.events)

(* The places of the workers say who has an event, before and after a step.  *)
LEMMA HandsAre ==
    ASSUME NEW w, NEW e
    PROVE  /\ \A s : (InHand(w, e, s) <=> Hand(at[w], e, s)) /\ (InHand(w, e, s)' <=> Hand(at'[w], e, s))
           /\ \A c : (InDelivery(w, e, c) <=> Delivers(at[w], e, c))
                     /\ (InDelivery(w, e, c)' <=> Delivers(at'[w], e, c))
BY DEF InHand, Hand, InDelivery, Delivers, Within

(* The posts do not change, nor what they say of those that were accepted.   *)
LEMMA PostsStill ==
    ASSUME Types, Posts, Steady, sent' = sent
    PROVE  Posts'
<1>1. Events' = Events
  BY DEF Events
<1>2. ASSUME NEW e \in Events PROVE sent[e].from \in Conn /\ sent[e].due \subseteq Conn
  <2>1. sent[e] \in Post
    BY TypesParts, ElementOfSeq DEF EventTypes, Events
  <2> QED
    BY <2>1 DEF Post
<1> QED
  BY <1>1, <1>2 DEF Posts, Steady

(* A step after which all of it is where it was.                             *)
LEMMA BusStill ==
    ASSUME Types, BusInv, Steady, UNCHANGED <<sent, global_queue_, given, lost>>, Injective',
           \A i, e, s : InTask(i, e, s)' <=> InTask(i, e, s),
           \A w \in Worker : \A e, s : InHand(w, e, s)' <=> InHand(w, e, s),
           \A w \in Worker, c \in Conn : \A e : InDelivery(w, e, c)' <=> InDelivery(w, e, c)
    PROVE  BusInv'
<1>0. Events' = Events
  BY DEF Events
<1>1. \A e : Queued(e)' <=> Queued(e)
  BY DEF Queued, Within
<1>2. \A e, c : Given(e, c)' <=> Given(e, c)
  BY DEF Given, Within
<1>3. Known'
  BY <1>0, <1>2 DEF BusInv, Known, Steady
<1>4. OnceForShard'
  BY <1>1 DEF BusInv, OnceForShard
<1>5. \A e : \A c \in Conn : fd[c] # None => (Elsewhere(e, c)' <=> Elsewhere(e, c))
  BY <1>1 DEF Elsewhere, Steady
<1>6. OnceForClient'
  BY <1>2, <1>5 DEF BusInv, OnceForClient, Known
<1>10. RefusedOnce'
  BY <1>2, <1>5 DEF BusInv, RefusedOnce, Refused, Steady
<1>7. Posts'
  BY PostsStill DEF BusInv
<1>8. NotOwnGiven'
  BY <1>0, <1>2 DEF BusInv, NotOwnGiven
<1>9. NothingLost'
  <2> SUFFICES ASSUME NEW e \in Events, NEW c \in sent[e].due, c \notin closed' PROVE Somewhere(e, c)'
    BY <1>0 DEF NothingLost
  <2>1. c \in Conn
    <3>1. sent[e] \in Post
      BY TypesParts, ElementOfSeq DEF EventTypes, Events
    <3> QED
      BY <3>1 DEF Post
  <2>2. fd[c] # None /\ c \notin closed
    BY DEF BusInv, Posts, Steady
  <2>3. Somewhere(e, c)
    BY <2>2 DEF BusInv, NothingLost
  <2> QED
    BY <1>2, <1>5, <2>1, <2>2, <2>3 DEF Somewhere
<1> QED
  BY <1>3, <1>4, <1>6, <1>7, <1>8, <1>9, <1>10 DEF BusInv

(* A thread moves between places that have nothing to do with broadcasts.    *)
Apart(p) == p.pc \notin {"snapshot", "deliver"}

(* Such a move leaves the broadcasts where they are.                         *)
LEMMA BusMove ==
    ASSUME Types, BusInv, Steady, UNCHANGED <<sent, global_queue_, given, lost, task_queue_>>,
           NEW t \in Thread, NEW p, Moved(t, p), Apart(p), Apart(at[t])
    PROVE  BusInv'
<1>0. \A w \in Worker : w \in Thread
  BY DEF Thread
<1>1. \A i, e, s : InTask(i, e, s)' <=> InTask(i, e, s)
  BY DEF InTask, Within
<1>2. \A w \in Worker : w = t \/ at'[w] = at[w]
  BY <1>0 DEF Moved
<1>3. at'[t] = p /\ p.pc # "snapshot" /\ p.pc # "deliver" /\ at[t].pc # "snapshot" /\ at[t].pc # "deliver"
  BY DEF Moved, Apart
<1>4. \A w \in Worker : \A e, s : InHand(w, e, s)' <=> InHand(w, e, s)
  BY <1>2, <1>3, HandsAre DEF Hand
<1>5. \A w \in Worker, c \in Conn : \A e : InDelivery(w, e, c)' <=> InDelivery(w, e, c)
  BY <1>2, <1>3, HandsAre DEF Delivers
<1>6. Injective'
  <2>1. Injective
    BY DEF BusInv
  <2>2. \A w \in Worker : at'[w].pc \in {"snapshot", "deliver"} => IsInjective(at'[w].events)
    BY <1>2, <1>3, <2>1 DEF Injective
  <2> QED
    BY <2>1, <2>2 DEF Injective
<1> QED
  BY <1>1, <1>4, <1>5, <1>6, BusStill

(* Nobody moves, and no task of a broadcast comes or goes.                   *)
LEMMA BusNobodyMoves ==
    ASSUME Types, BusInv, Steady, UNCHANGED <<sent, global_queue_, given, lost, at>>,
           \/ task_queue_' = task_queue_
           \/ \E task \in Task : task_queue_' = Append(task_queue_, task) /\ task.pc # "snapshot"
    PROVE  BusInv'
<1> DEFINE SameBatches ==
        \A i : /\ i \in 1..Len(task_queue_) /\ task_queue_[i].pc = "snapshot" =>
                      i \in 1..Len(task_queue_') /\ task_queue_'[i] = task_queue_[i]
               /\ i \in 1..Len(task_queue_') /\ task_queue_'[i].pc = "snapshot" =>
                      i \in 1..Len(task_queue_) /\ task_queue_'[i] = task_queue_[i]
<1>1. SameBatches
  <2>1. CASE task_queue_' = task_queue_
    BY <2>1
  <2>2. ASSUME NEW task \in Task, task_queue_' = Append(task_queue_, task), task.pc # "snapshot"
        PROVE  SameBatches
    <3>1. /\ task_queue_ \in Seq(Task) /\ Len(task_queue_) \in Nat
      BY TypesParts, LenProperties DEF EventTypes
    <3>2. /\ Len(task_queue_') = Len(task_queue_) + 1
          /\ \A i \in 1..Len(task_queue_) : task_queue_'[i] = task_queue_[i]
          /\ task_queue_'[Len(task_queue_) + 1] = task
      BY <2>2, <3>1, AppendProperties
    <3>3. \A i \in 1..Len(task_queue_') : i \in 1..Len(task_queue_) \/ i = Len(task_queue_) + 1
      BY <3>1, <3>2
    <3>4. \A i \in 1..Len(task_queue_) : i \in 1..Len(task_queue_')
      BY <3>1, <3>2
    <3> QED
      BY <2>2, <3>2, <3>3, <3>4
  <2> QED
    BY <2>1, <2>2
<1>2. \A i, e, s : InTask(i, e, s)' <=> InTask(i, e, s)
  BY <1>1 DEF InTask, Within
<1>3. \A w \in Worker : \A e, s : InHand(w, e, s)' <=> InHand(w, e, s)
  BY HandsAre
<1>4. \A w \in Worker, c \in Conn : \A e : InDelivery(w, e, c)' <=> InDelivery(w, e, c)
  BY HandsAre
<1>5. Injective'
  BY <1>1 DEF BusInv, Injective
<1> QED
  BY <1>2, <1>3, <1>4, <1>5, BusStill

(* What was not sent is nowhere.                                             *)
LEMMA UnsentNowhere ==
    ASSUME Types, Known, NEW e, e \notin Events
    PROVE  /\ ~Queued(e) /\ \A i, s : ~InTask(i, e, s)
           /\ \A w \in Worker : \A s : ~InHand(w, e, s)
           /\ \A w \in Worker, c \in Conn : ~InDelivery(w, e, c)
           /\ \A c \in Conn : ~Given(e, c) /\ ~Refused(e, c)
<1>0. EventTypes
  BY TypesParts
<1>1. \A q \in Seq(Events) : ~Within(e, q)
  BY ElementOfSeq DEF Within
<1>2. ASSUME NEW i, NEW s, InTask(i, e, s) PROVE FALSE
  <2>1. task_queue_[i] \in Task
    BY <1>0, <1>2, ElementOfSeq DEF InTask, EventTypes
  <2>2. task_queue_[i].events \in Seq(Events)
    BY <1>2, <2>1 DEF InTask, Task
  <2> QED
    BY <1>1, <1>2, <2>2 DEF InTask
<1> QED
  BY <1>0, <1>1, <1>2 DEF EventTypes, Queued, Given, Refused, Known

(* Whoever broadcasts adds an event to the queue.                            *)
LEMMA BroadcastBus ==
    ASSUME Types, BusInv, Steady, Accepted, NEW c \in Conn, NEW number \in {None, fd[c]}, QueueEvent(c, number),
           UNCHANGED <<fd, closed, username, given, lost, task_queue_>>,
           NEW t \in Thread, NEW p, Moved(t, p), Apart(p), Apart(at[t]),
           fd[c] # None, number = None => c \in closed,
           \A d \in Conn \ {c} : Active(d) /\ d \notin closed => fd[d] # number
    PROVE  BusInv'
<1>0. \A w \in Worker : w \in Thread
  BY DEF Thread
<1>1. \A i, e, s : InTask(i, e, s)' <=> InTask(i, e, s)
  BY DEF InTask, Within
<1>2. \A w \in Worker : w = t \/ at'[w] = at[w]
  BY <1>0 DEF Moved
<1>3. at'[t] = p /\ p.pc # "snapshot" /\ p.pc # "deliver" /\ at[t].pc # "snapshot" /\ at[t].pc # "deliver"
  BY DEF Moved, Apart
<1>4. \A w \in Worker : \A e, s : InHand(w, e, s)' <=> InHand(w, e, s)
  BY <1>2, <1>3, HandsAre DEF Hand
<1>5. \A w \in Worker, d \in Conn : \A e : InDelivery(w, e, d)' <=> InDelivery(w, e, d)
  BY <1>2, <1>3, HandsAre DEF Delivers
<1>6. \A e, d : Given(e, d)' <=> Given(e, d)
  BY DEF Given, Within
<1>7. PICK n : /\ n \notin Events /\ Events' = Events \cup {n}
               /\ \A e \in Events : sent'[e] = sent[e]
               /\ sent'[n] = [from |-> c, sender_fd |-> number,
                              due |-> {d \in Conn \ {c} : Active(d) /\ d \notin closed}]
               /\ \A e : Within(e, global_queue_') <=> Within(e, global_queue_) \/ e = n
               /\ IsInjective(global_queue_) => IsInjective(global_queue_')
  BY BroadcastIs
<1>8. /\ ~Queued(n) /\ \A i, s : ~InTask(i, n, s)
      /\ \A w \in Worker : \A s : ~InHand(w, n, s)
      /\ \A w \in Worker, d \in Conn : ~InDelivery(w, n, d)
      /\ \A d \in Conn : ~Given(n, d) /\ ~Refused(n, d)
  BY <1>7, UnsentNowhere DEF BusInv
<1>9. \A e : Queued(e)' <=> Queued(e) \/ e = n
  <2>1. \A e : Queued(e)' <=> Within(e, global_queue_')
    BY DEF Queued, Within
  <2> QED
    BY <1>7, <2>1 DEF Queued
<1>10. Known'
  BY <1>4, <1>5, <1>6, <1>7 DEF BusInv, Known
<1>11. Injective'
  <2>1. Injective
    BY DEF BusInv
  <2>2. \A w \in Worker : at'[w].pc \in {"snapshot", "deliver"} => IsInjective(at'[w].events)
    BY <1>2, <1>3, <2>1 DEF Injective
  <2> QED
    BY <1>7, <2>1, <2>2 DEF Injective
<1>12. OnceForShard'
  BY <1>1, <1>4, <1>8, <1>9 DEF BusInv, OnceForShard
<1>13. \A e, d : Elsewhere(e, d)' <=> Elsewhere(e, d) \/ e = n
  BY <1>1, <1>4, <1>9 DEF Elsewhere
<1>14. OnceForClient'
  BY <1>5, <1>6, <1>8, <1>13 DEF BusInv, OnceForClient
<1>19. RefusedOnce'
  <2>1. \A e, d : Refused(e, d)' <=> Refused(e, d)
    BY DEF Refused
  <2> QED
    BY <1>5, <1>6, <1>8, <1>13, <2>1 DEF BusInv, RefusedOnce
<1>15. ASSUME NEW e \in Events PROVE sent[e] \in Post
  BY TypesParts, ElementOfSeq DEF EventTypes, Events
<1>16. Posts'
  <2>1. ASSUME NEW e \in Events
        PROVE  /\ fd'[sent'[e].from] # None
               /\ sent'[e].sender_fd \in {None, fd'[sent'[e].from]}
               /\ sent'[e].sender_fd = None => sent'[e].from \in closed'
               /\ \A d \in sent'[e].due : /\ Active(d)' /\ fd'[d] # None /\ d # sent'[e].from
                                          /\ sent'[e].sender_fd # fd'[d]
    <3>1. sent'[e] = sent[e]
      BY <1>7
    <3>2. \A d : Active(d)' <=> Active(d)
      BY DEF Active
    <3> QED
      BY <3>1, <3>2 DEF BusInv, Posts
  <2>2. /\ fd'[sent'[n].from] # None
        /\ sent'[n].sender_fd \in {None, fd'[sent'[n].from]}
        /\ sent'[n].sender_fd = None => sent'[n].from \in closed'
        /\ \A d \in sent'[n].due : /\ Active(d)' /\ fd'[d] # None /\ d # sent'[n].from
                                   /\ sent'[n].sender_fd # fd'[d]
    <3>1. /\ sent'[n].from = c /\ sent'[n].sender_fd = number
          /\ sent'[n].due = {d \in Conn \ {c} : Active(d) /\ d \notin closed}
      BY <1>7
    <3>2. \A d : Active(d)' <=> Active(d)
      BY DEF Active
    <3> QED
      BY <3>1, <3>2 DEF Accepted
  <2> QED
    BY <1>7, <2>1, <2>2 DEF Posts
<1>17. NotOwnGiven'
  BY <1>6, <1>7, <1>8 DEF BusInv, NotOwnGiven
<1>18. NothingLost'
  <2> SUFFICES ASSUME NEW e \in Events', NEW d \in sent'[e].due, d \notin closed' PROVE Somewhere(e, d)'
    BY DEF NothingLost
  <2>1. CASE e = n
    BY <1>13, <2>1 DEF Somewhere
  <2>2. CASE e # n
    <3>1. e \in Events /\ d \in sent[e].due \ closed
      BY <1>7, <2>2
    <3>2. d \in Conn
      BY <1>15, <3>1 DEF Post
    <3>3. Somewhere(e, d)
      BY <3>1 DEF BusInv, NothingLost
    <3> QED
      BY <1>5, <1>6, <1>13, <3>2, <3>3 DEF Somewhere
  <2> QED
    BY <2>1, <2>2
<1> QED
  BY <1>10, <1>11, <1>12, <1>14, <1>16, <1>17, <1>18, <1>19 DEF BusInv

(* What is due is due to somebody who was accepted and is logged in.         *)
LEMMA DueIs ==
    ASSUME Types, Posts, NEW e \in Events, NEW c \in sent[e].due
    PROVE  c \in Conn /\ fd[c] # None /\ fd[c] \in Fd /\ Active(c) /\ sent[e].sender_fd # fd[c]
<1>1. sent[e] \in Post
  BY TypesParts, ElementOfSeq DEF EventTypes, Events
<1>2. c \in Conn
  BY <1>1 DEF Post
<1>3. fd[c] \in Fd \cup {None}
  BY <1>2 DEF Types, TypeOK
<1> QED
  BY <1>2, <1>3 DEF Posts

(* The whole queue becomes one task per shard.                               *)
LEMMA ProcessBus ==
    ASSUME Types, BusInv, Steady, process_global_queue
    PROVE  BusInv'
<1> DEFINE tasks == SetToSeq(BatchTasks)
           k == Len(task_queue_)
<1>0. EventTypes /\ "net" \in Thread /\ \A w \in Worker : w \in Thread /\ w # "net"
  BY TypesParts, ChatServerV3Assumption DEF Thread
<1>1. UNCHANGED <<sent, given, lost, fd>> /\ global_queue_' = <<>> /\ Moved("net", Idle)
  BY NetMoves DEF process_global_queue, fateVars, sockVars
<1>2. \A w \in Worker : at'[w] = at[w]
  BY <1>0, <1>1 DEF Moved
<1>3. CASE global_queue_ = <<>>
  <2>1. task_queue_' = task_queue_ /\ global_queue_' = global_queue_
    BY <1>1, <1>3 DEF process_global_queue
  <2>2. Apart(Idle) /\ Apart(at["net"])
    BY DEF Apart, Idle, process_global_queue
  <2> QED
    BY <1>0, <1>1, <2>1, <2>2, BusMove
<1>4. CASE global_queue_ # <<>>
  <2>1. task_queue_' = task_queue_ \o tasks
    BY <1>4 DEF process_global_queue, BatchTasks
  <2>2. tasks \in Seq(BatchTasks) /\ tasks \in Seq(Task) /\ IsInjective(tasks)
        /\ \A b \in BatchTasks : Within(b, tasks)
    <3>1. IsFiniteSet(BatchTasks) /\ BatchTasks \subseteq Task
      BY <1>0, BatchTasksAre
    <3> QED
      BY <3>1, SetToSeqIs, SeqMonotonic
  <2> HIDE DEF tasks
  <2>3. /\ k \in Nat /\ Len(tasks) \in Nat /\ DOMAIN tasks = 1..Len(tasks)
        /\ Len(task_queue_') = k + Len(tasks)
        /\ \A i \in 1..(k + Len(tasks)) : task_queue_'[i] = IF i <= k THEN task_queue_[i] ELSE tasks[i - k]
    BY <1>0, <2>1, <2>2, ConcatProperties, LenProperties DEF EventTypes
  <2>4. \A i \in 1..Len(tasks) : \E s \in Shard :
            tasks[i] = [pc |-> "snapshot", shard |-> s, events |-> global_queue_]
    <3>1. \A i \in 1..Len(tasks) : tasks[i] \in BatchTasks
      BY <2>2, ElementOfSeq
    <3> QED
      BY <3>1 DEF BatchTasks
  <2>5. \A i \in 1..Len(tasks) :
            /\ tasks[i].pc = "snapshot" /\ tasks[i].events = global_queue_
            /\ tasks[i] = [pc |-> "snapshot", shard |-> tasks[i].shard, events |-> global_queue_]
    <3> TAKE i \in 1..Len(tasks)
    <3>1. PICK s \in Shard : tasks[i] = [pc |-> "snapshot", shard |-> s, events |-> global_queue_]
      BY <2>4
    <3>2. tasks[i].shard = s
      BY <3>1
    <3> QED
      BY <3>1, <3>2
  <2>6. \A i, j \in 1..Len(tasks) : tasks[i].shard = tasks[j].shard => i = j
    BY <2>2, <2>3, <2>5 DEF IsInjective
  <2>7. \A s \in Shard : \E i \in 1..Len(tasks) : tasks[i].shard = s
    <3> TAKE s \in Shard
    <3>1. Within([pc |-> "snapshot", shard |-> s, events |-> global_queue_], tasks)
      BY <2>2 DEF BatchTasks
    <3> QED
      BY <3>1 DEF Within
  <2>8. \A e : Queued(e) <=> Within(e, global_queue_)
    BY DEF Queued
  <2>9. \A e : ~Queued(e)'
    BY <1>1, EmptySeq DEF Queued, Within
  <2>10. \A i, e, s : InTask(i, e, s)' <=>
              InTask(i, e, s) \/ (i \in (k + 1)..(k + Len(tasks)) /\ tasks[i - k].shard = s /\ Queued(e))
    <3> TAKE i, e, s
    <3>1. CASE i \in 1..k
      <4>1. i \in 1..Len(task_queue_') /\ task_queue_'[i] = task_queue_[i] /\ i \notin (k + 1)..(k + Len(tasks))
        BY <2>3, <3>1
      <4> QED
        BY <3>1, <4>1 DEF InTask, Within
    <3>2. CASE i \in (k + 1)..(k + Len(tasks))
      <4>1. i \in 1..Len(task_queue_') /\ i \notin 1..k /\ i - k \in 1..Len(tasks) /\ task_queue_'[i] = tasks[i - k]
        BY <2>3, <3>2
      <4>2. task_queue_'[i].pc = "snapshot" /\ task_queue_'[i].events = global_queue_
            /\ task_queue_'[i].shard = tasks[i - k].shard
        BY <2>5, <4>1
      <4>3. InTask(i, e, s)' <=> tasks[i - k].shard = s /\ Within(e, global_queue_)
        BY <4>1, <4>2 DEF InTask, Within
      <4>4. ~InTask(i, e, s)
        BY <4>1 DEF InTask
      <4> QED
        BY <2>8, <3>2, <4>3, <4>4
    <3>3. CASE i \notin 1..k /\ i \notin (k + 1)..(k + Len(tasks))
      <4>1. i \notin 1..Len(task_queue_')
        BY <2>3, <3>3
      <4> QED
        BY <3>3, <4>1 DEF InTask
    <3> QED
      BY <3>1, <3>2, <3>3
  <2>11. \A w \in Worker : \A e, s : InHand(w, e, s)' <=> InHand(w, e, s)
    BY <1>2, HandsAre
  <2>12. \A w \in Worker, c \in Conn : \A e : InDelivery(w, e, c)' <=> InDelivery(w, e, c)
    BY <1>2, HandsAre
  <2>13. \A e, c : Given(e, c)' <=> Given(e, c)
    BY <1>1 DEF Given, Within
  <2>14. Events' = Events
    BY <1>1 DEF Events
  <2>15. Known'
    BY <1>1, <2>11, <2>12, <2>13, <2>14 DEF BusInv, Known
  <2>16. Injective'
    <3>1. Injective
      BY DEF BusInv
    <3>2. IsInjective(global_queue_')
      BY <1>1, EmptySeq DEF IsInjective
    <3>3. ASSUME NEW i \in 1..Len(task_queue_'), task_queue_'[i].pc = "snapshot"
          PROVE  IsInjective(task_queue_'[i].events)
      <4>1. CASE i <= k
        <5>1. i \in 1..k /\ task_queue_'[i] = task_queue_[i]
          BY <2>3, <4>1
        <5> QED
          BY <3>1, <3>3, <5>1 DEF Injective
      <4>2. CASE ~(i <= k)
        <5>1. i - k \in 1..Len(tasks) /\ task_queue_'[i] = tasks[i - k]
          BY <2>3, <4>2
        <5> QED
          BY <2>5, <3>1, <5>1 DEF Injective
      <4> QED
        BY <4>1, <4>2
    <3> QED
      BY <1>1, <1>2, <3>1, <3>2, <3>3 DEF Injective
  <2>17. OnceForShard'
    <3>1. ASSUME NEW e, NEW s, NEW i, NEW j, InTask(i, e, s)', InTask(j, e, s)' PROVE i = j
      <4>1. CASE InTask(i, e, s) /\ InTask(j, e, s)
        BY <4>1 DEF BusInv, OnceForShard
      <4>2. CASE ~InTask(i, e, s) /\ ~InTask(j, e, s)
        <5>1. /\ i \in (k + 1)..(k + Len(tasks)) /\ j \in (k + 1)..(k + Len(tasks))
              /\ tasks[i - k].shard = tasks[j - k].shard
          BY <2>10, <3>1, <4>2
        <5>2. i - k \in 1..Len(tasks) /\ j - k \in 1..Len(tasks)
          BY <2>3, <5>1
        <5>3. i - k = j - k
          BY <2>6, <5>1, <5>2
        <5> QED
          BY <2>3, <5>1, <5>3
      <4>3. CASE InTask(i, e, s) /\ ~InTask(j, e, s)
        BY <2>10, <3>1, <4>3 DEF BusInv, OnceForShard
      <4>4. CASE ~InTask(i, e, s) /\ InTask(j, e, s)
        BY <2>10, <3>1, <4>4 DEF BusInv, OnceForShard
      <4> QED
        BY <4>1, <4>2, <4>3, <4>4
    <3>2. ASSUME NEW e, NEW s, NEW i, NEW w \in Worker, InTask(i, e, s)' PROVE ~InHand(w, e, s)'
      BY <2>10, <2>11, <3>2 DEF BusInv, OnceForShard
    <3> QED
      BY <2>9, <2>11, <3>1, <3>2 DEF BusInv, OnceForShard
  <2>18. \A e, c : Elsewhere(e, c)' => Elsewhere(e, c)
    BY <1>1, <2>9, <2>10, <2>11 DEF Elsewhere
  <2>19. ASSUME NEW e, NEW c \in Conn, fd[c] \in Fd, Elsewhere(e, c) PROVE Elsewhere(e, c)'
    <3>1. CASE Queued(e)
      <4>1. shard[fd[c]] \in Shard
        BY <2>19, ChatServerV3Assumption
      <4>2. PICK i \in 1..Len(tasks) : tasks[i].shard = shard[fd[c]]
        BY <2>7, <4>1
      <4>3. PICK j \in (k + 1)..(k + Len(tasks)) : j - k = i
        <5>1. k + i \in (k + 1)..(k + Len(tasks)) /\ (k + i) - k = i
          BY <2>3
        <5> QED
          BY <5>1
      <4>4. InTask(j, e, shard[fd[c]])'
        BY <1>1, <2>10, <3>1, <4>2, <4>3
      <4> QED
        BY <1>1, <4>4 DEF Elsewhere
    <3>2. CASE ~Queued(e)
      BY <1>1, <2>10, <2>11, <2>19, <3>2 DEF Elsewhere
    <3> QED
      BY <3>1, <3>2
  <2>20. OnceForClient'
    BY <2>12, <2>13, <2>18 DEF BusInv, OnceForClient
  <2>23. RefusedOnce'
    BY <1>1, <2>12, <2>13, <2>18 DEF BusInv, RefusedOnce, Refused
  <2>21. NotOwnGiven'
    BY <1>1, <2>13, <2>14 DEF BusInv, NotOwnGiven
  <2>22. NothingLost'
    <3> SUFFICES ASSUME NEW e \in Events, NEW c \in sent[e].due, c \notin closed' PROVE Somewhere(e, c)'
      BY <1>1, <2>14 DEF NothingLost
    <3>1. c \in Conn /\ fd[c] \in Fd
      BY DueIs DEF BusInv
    <3>2. Somewhere(e, c)
      BY DEF BusInv, NothingLost, Steady
    <3> QED
      BY <1>1, <2>12, <2>13, <2>19, <3>1, <3>2 DEF Somewhere
  <2> QED
    BY <1>1, <2>15, <2>16, <2>17, <2>20, <2>21, <2>22, <2>23, PostsStill DEF BusInv
<1> QED
  BY <1>3, <1>4

(* A worker takes the first task.                                            *)
LEMMA TakeTaskBus ==
    ASSUME Types, BusInv, Steady, NEW w \in Worker, TakeTask(w)
    PROVE  BusInv'
<1> DEFINE first == task_queue_[1]
           k == Len(task_queue_)
<1>0. EventTypes /\ \A v \in Worker : v \in Thread
  BY TypesParts DEF Thread
<1>1. /\ UNCHANGED <<sent, given, lost, fd, global_queue_>>
      /\ task_queue_ # <<>> /\ task_queue_' = Tail(task_queue_)
      /\ at[w] = Idle /\ Moved(w, first) /\ 1 \in 1..k
  BY TakeTaskMoves DEF TakeTask, fateVars, sockVars, busVars
<1>2. /\ k \in Nat /\ Len(task_queue_') = k - 1
      /\ \A i \in 1..(k - 1) : task_queue_'[i] = task_queue_[i + 1]
  BY <1>0, <1>1, HeadTailProperties, LenProperties DEF EventTypes
<1>3. at'[w] = first /\ \A v \in Worker : v # w => at'[v] = at[v]
  BY <1>0, <1>1 DEF Moved
<1>4. first.pc \in {"message", "snapshot"}
  <2>1. first \in Task
    BY <1>0, <1>1, ElementOfSeq DEF EventTypes
  <2> HIDE DEF first
  <2> QED
    BY <2>1 DEF Task
<1>5. \A e, s : InTask(1, e, s) <=> Hand(first, e, s)
  BY <1>1 DEF InTask, Hand
<1> HIDE DEF first
<1>6. \A i, e, s : InTask(i, e, s)' <=> i \in 1..(k - 1) /\ InTask(i + 1, e, s)
  <2> TAKE i, e, s
  <2>1. CASE i \in 1..(k - 1)
    <3>1. i \in 1..Len(task_queue_') /\ i + 1 \in 1..Len(task_queue_) /\ task_queue_'[i] = task_queue_[i + 1]
      BY <1>2, <2>1
    <3> QED
      BY <2>1, <3>1 DEF InTask, Within
  <2>2. CASE i \notin 1..(k - 1)
    BY <1>2, <2>2 DEF InTask
  <2> QED
    BY <2>1, <2>2
<1>7. /\ \A e, s : InHand(w, e, s)' <=> InTask(1, e, s)
      /\ \A e, s : ~InHand(w, e, s)
      /\ \A v \in Worker : \A e, s : v # w => (InHand(v, e, s)' <=> InHand(v, e, s))
  <2>1. \A e, s : InHand(w, e, s)' <=> InTask(1, e, s)
    BY <1>3, <1>5, HandsAre
  <2>2. \A e, s : ~Hand(Idle, e, s)
    BY DEF Hand, Idle
  <2>3. \A e, s : ~InHand(w, e, s)
    BY <1>1, <2>2, HandsAre
  <2>4. ASSUME NEW v \in Worker, v # w PROVE \A e, s : InHand(v, e, s)' <=> InHand(v, e, s)
    BY <1>3, <2>4, HandsAre
  <2> QED
    BY <2>1, <2>3, <2>4
<1>8. \A v \in Worker, c \in Conn : \A e : InDelivery(v, e, c)' <=> InDelivery(v, e, c)
  <2>1. \A e, c : ~Delivers(first, e, c) /\ ~Delivers(Idle, e, c)
    BY <1>4 DEF Delivers, Idle
  <2>2. \A e, c : ~InDelivery(w, e, c)' /\ ~InDelivery(w, e, c)
    BY <1>1, <1>3, <2>1, HandsAre
  <2>3. ASSUME NEW v \in Worker, v # w PROVE \A e, c : InDelivery(v, e, c)' <=> InDelivery(v, e, c)
    BY <1>3, <2>3, HandsAre
  <2> QED
    BY <2>2, <2>3
<1>9. \A e, c : Given(e, c)' <=> Given(e, c)
  BY <1>1 DEF Given, Within
<1>10. \A e : Queued(e)' <=> Queued(e)
  BY <1>1 DEF Queued, Within
<1>11. Events' = Events
  BY <1>1 DEF Events
<1>12. \A i, e, s : InTask(i, e, s) => i \in 1..k /\ (i = 1 \/ (i - 1 \in 1..(k - 1) /\ (i - 1) + 1 = i))
  BY <1>2 DEF InTask
<1>13. \A e, s, i : InTask(i, e, s) => e \in Events
  BY UnsentNowhere DEF BusInv
<1>14. Known'
  BY <1>1, <1>7, <1>8, <1>9, <1>11, <1>13 DEF BusInv, Known
<1>15. Injective'
  <2>1. Injective
    BY DEF BusInv
  <2>2. ASSUME NEW i \in 1..Len(task_queue_'), task_queue_'[i].pc = "snapshot"
        PROVE  IsInjective(task_queue_'[i].events)
    <3>1. i + 1 \in 1..k /\ task_queue_'[i] = task_queue_[i + 1]
      BY <1>2
    <3> QED
      BY <2>1, <2>2, <3>1 DEF Injective
  <2>3. first.pc = "snapshot" => IsInjective(first.events)
    BY <1>1, <2>1 DEF Injective, first
  <2>4. \A v \in Worker : at'[v].pc \in {"snapshot", "deliver"} => IsInjective(at'[v].events)
    BY <1>3, <1>4, <2>1, <2>3 DEF Injective
  <2> QED
    BY <1>1, <2>1, <2>2, <2>4 DEF Injective
<1>16. OnceForShard'
  <2>1. ASSUME NEW e, NEW s, NEW i, NEW j, InTask(i, e, s)', InTask(j, e, s)' PROVE i = j
    <3>1. i \in 1..(k - 1) /\ j \in 1..(k - 1) /\ i + 1 = j + 1
      BY <1>6, <2>1 DEF BusInv, OnceForShard
    <3> QED
      BY <1>2, <3>1
  <2>2. ASSUME NEW e, NEW s, NEW i, InTask(i, e, s)' PROVE ~InTask(1, e, s)
    <3>1. i \in 1..(k - 1) /\ InTask(i + 1, e, s) /\ i + 1 # 1
      BY <1>2, <1>6, <2>2
    <3> QED
      BY <3>1 DEF BusInv, OnceForShard
  <2>3. ASSUME NEW e, NEW s, NEW i, NEW v \in Worker, InTask(i, e, s)' PROVE ~InHand(v, e, s)'
    BY <1>6, <1>7, <2>2, <2>3 DEF BusInv, OnceForShard
  <2>4. ASSUME NEW e, NEW s, NEW v \in Worker, NEW u \in Worker, InHand(v, e, s)', InHand(u, e, s)' PROVE v = u
    BY <1>7, <2>4 DEF BusInv, OnceForShard
  <2>5. ASSUME NEW e, Queued(e)'
        PROVE  /\ \A s, i : ~InTask(i, e, s)'
              /\ \A s : \A v \in Worker : ~InHand(v, e, s)'
    BY <1>6, <1>7, <1>10, <2>5 DEF BusInv, OnceForShard
  <2> QED
    BY <2>1, <2>3, <2>4, <2>5 DEF OnceForShard
<1>17. \A e, c : Elsewhere(e, c)' <=> Elsewhere(e, c)
  <2> TAKE e, c
  <2>1. Elsewhere(e, c)' => Elsewhere(e, c)
    BY <1>1, <1>6, <1>7, <1>10 DEF Elsewhere
  <2>2. ASSUME NEW s, NEW i, InTask(i, e, s) PROVE (\E j : InTask(j, e, s)') \/ InHand(w, e, s)'
    BY <1>6, <1>7, <1>12, <2>2
  <2>3. Elsewhere(e, c) => Elsewhere(e, c)'
    BY <1>1, <1>7, <1>10, <2>2 DEF Elsewhere
  <2> QED
    BY <2>1, <2>3
<1>18. OnceForClient'
  BY <1>8, <1>9, <1>17 DEF BusInv, OnceForClient
<1>21. RefusedOnce'
  BY <1>1, <1>8, <1>9, <1>17 DEF BusInv, RefusedOnce, Refused
<1>19. NotOwnGiven'
  BY <1>1, <1>9, <1>11 DEF BusInv, NotOwnGiven
<1>20. NothingLost'
  <2> SUFFICES ASSUME NEW e \in Events, NEW c \in sent[e].due, c \notin closed' PROVE Somewhere(e, c)'
    BY <1>1, <1>11 DEF NothingLost
  <2>1. c \in Conn
    BY DueIs DEF BusInv
  <2>2. Somewhere(e, c)
    BY DEF BusInv, NothingLost, Steady
  <2> QED
    BY <1>1, <1>8, <1>9, <1>17, <2>1, <2>2 DEF Somewhere
<1> QED
  BY <1>1, <1>14, <1>15, <1>16, <1>18, <1>19, <1>20, <1>21, PostsStill DEF BusInv

(* It turns into deliveries to those of the shard who are logged in.         *)
LEMMA SnapshotBus ==
    ASSUME Types, Pointers, BusInv, Steady, NEW w \in Worker, Snapshot(w)
    PROVE  BusInv'
<1> DEFINE recipients == {c \in Conn \ closed : InMap(c) /\ shard[fd[c]] = at[w].shard /\ Active(c)}
           p == IF recipients = {} THEN Idle ELSE [pc |-> "deliver", events |-> at[w].events, todo |-> recipients]
<1>0. at[w].pc = "snapshot" /\ \A v \in Worker : v \in Thread
  BY DEF Thread, Snapshot
<1>1. /\ UNCHANGED <<sent, given, lost, fd, global_queue_, task_queue_, closed>> /\ Moved(w, p)
  BY DeliveryMoves DEF Snapshot, fateVars, sockVars, busVars
<1>2. at'[w] = p /\ \A v \in Worker : v # w => at'[v] = at[v]
  BY <1>0, <1>1 DEF Moved
<1>3. \A c \in recipients : c \in Conn /\ c \notin closed /\ fd[c] # None /\ shard[fd[c]] = at[w].shard
  BY DEF InMap
<1>4. \A c \in Conn : c \notin closed /\ fd[c] # None /\ shard[fd[c]] = at[w].shard /\ Active(c) => c \in recipients
  BY DEF Pointers
<1> HIDE DEF recipients
<1>5. /\ p.pc = "deliver" => p.events = at[w].events /\ p.todo = recipients
      /\ p.pc # "deliver" => p.pc = "idle" /\ recipients = {}
  BY DEF Idle
<1> HIDE DEF p
<1>6. /\ \A e, s : ~InHand(w, e, s)'
      /\ \A v \in Worker : \A e, s : v # w => (InHand(v, e, s)' <=> InHand(v, e, s))
  <2>1. \A e, s : ~Hand(p, e, s)
    BY <1>5 DEF Hand
  <2>2. \A e, s : ~InHand(w, e, s)'
    BY <1>2, <2>1, HandsAre
  <2>3. ASSUME NEW v \in Worker, v # w PROVE \A e, s : InHand(v, e, s)' <=> InHand(v, e, s)
    BY <1>2, <2>3, HandsAre
  <2> QED
    BY <2>2, <2>3
<1>7. /\ \A e, c : InDelivery(w, e, c)' <=> c \in recipients /\ InHand(w, e, at[w].shard)
      /\ \A e, c : ~InDelivery(w, e, c)
      /\ \A v \in Worker : \A e, c : v # w => (InDelivery(v, e, c)' <=> InDelivery(v, e, c))
  <2>1. \A e, c : Delivers(p, e, c) <=> c \in recipients /\ Within(e, at[w].events)
    BY <1>5 DEF Delivers
  <2>2. \A e : InHand(w, e, at[w].shard) <=> Within(e, at[w].events)
    BY <1>0 DEF InHand
  <2>3. \A e, c : InDelivery(w, e, c)' <=> Delivers(p, e, c)
    BY <1>2, HandsAre
  <2>4. \A e, c : ~InDelivery(w, e, c)
    BY <1>0 DEF InDelivery
  <2>5. ASSUME NEW v \in Worker, v # w PROVE \A e, c : InDelivery(v, e, c)' <=> InDelivery(v, e, c)
    BY <1>2, <2>5, HandsAre
  <2> QED
    BY <2>1, <2>2, <2>3, <2>4, <2>5
<1>8. /\ \A e, c : Given(e, c)' <=> Given(e, c)
      /\ \A e : Queued(e)' <=> Queued(e)
      /\ \A i, e, s : InTask(i, e, s)' <=> InTask(i, e, s)
  BY <1>1 DEF Given, Queued, InTask, Within
<1>9. Events' = Events
  BY <1>1 DEF Events
<1>10. \A c \in recipients : \A e : InHand(w, e, at[w].shard) => InHand(w, e, shard[fd[c]])
  BY <1>3
<1>11. Known'
  <2>1. \A v \in Worker : \A e : \A c \in Conn : InDelivery(v, e, c)' => e \in Events /\ fd[c] # None
    BY <1>3, <1>7 DEF BusInv, Known
  <2> QED
    BY <1>1, <1>6, <1>8, <1>9, <2>1 DEF BusInv, Known
<1>12. Injective'
  <2>1. Injective
    BY DEF BusInv
  <2>2. \A v \in Worker : at'[v].pc \in {"snapshot", "deliver"} => IsInjective(at'[v].events)
    BY <1>0, <1>2, <1>5, <2>1 DEF Injective
  <2> QED
    BY <1>1, <2>1, <2>2 DEF Injective
<1>13. OnceForShard'
  BY <1>6, <1>8 DEF BusInv, OnceForShard
<1>14. \A e, c : Elsewhere(e, c)' => Elsewhere(e, c)
  BY <1>1, <1>6, <1>8 DEF Elsewhere
<1>15. \A e, c : Elsewhere(e, c) => Elsewhere(e, c)' \/ InHand(w, e, shard[fd[c]])
  BY <1>1, <1>6, <1>8 DEF Elsewhere
<1>16. \A e : \A c \in recipients : InHand(w, e, at[w].shard) =>
           Elsewhere(e, c) /\ ~Elsewhere(e, c)'
  <2> SUFFICES ASSUME NEW e, NEW c \in recipients, InHand(w, e, at[w].shard)
               PROVE  Elsewhere(e, c) /\ ~Elsewhere(e, c)'
    OBVIOUS
  <2>1. InHand(w, e, shard[fd[c]])
    BY <1>10
  <2>2. /\ ~Queued(e) /\ \A i : ~InTask(i, e, shard[fd[c]])
        /\ \A v \in Worker : v # w => ~InHand(v, e, shard[fd[c]])
    BY <2>1 DEF BusInv, OnceForShard
  <2> QED
    BY <1>1, <1>6, <1>8, <2>1, <2>2 DEF Elsewhere
<1>17. OnceForClient'
  <2>1. ASSUME NEW e, NEW c \in Conn, NEW v \in Worker, InDelivery(v, e, c)'
        PROVE  ~Elsewhere(e, c)' /\ ~Given(e, c)'
    <3>1. CASE v = w
      BY <1>7, <1>8, <1>16, <2>1, <3>1 DEF BusInv, OnceForClient
    <3>2. CASE v # w
      BY <1>7, <1>8, <1>14, <2>1, <3>2 DEF BusInv, OnceForClient
    <3> QED
      BY <3>1, <3>2
  <2>2. ASSUME NEW e, NEW c \in Conn, NEW v \in Worker, NEW u \in Worker, InDelivery(v, e, c)', InDelivery(u, e, c)'
        PROVE  v = u
    <3>1. \A x \in Worker : x # w /\ InDelivery(x, e, c) => ~Elsewhere(e, c)
      BY DEF BusInv, OnceForClient
    <3> QED
      BY <1>7, <1>16, <2>2, <3>1 DEF BusInv, OnceForClient
  <2>3. \A e : \A c \in Conn : Given(e, c)' => ~Elsewhere(e, c)'
    BY <1>8, <1>14 DEF BusInv, OnceForClient
  <2> QED
    BY <2>1, <2>2, <2>3 DEF OnceForClient
<1>20. RefusedOnce'
  <2> SUFFICES ASSUME NEW c \in Conn, NEW e, Refused(e, c)'
               PROVE  /\ fd'[c] # None /\ ~Elsewhere(e, c)' /\ ~Given(e, c)'
                      /\ \A v \in Worker : ~InDelivery(v, e, c)'
    BY DEF RefusedOnce
  <2>1. /\ fd[c] # None /\ ~Elsewhere(e, c) /\ ~Given(e, c)
        /\ \A v \in Worker : ~InDelivery(v, e, c)
    BY <1>1 DEF BusInv, RefusedOnce, Refused
  <2>2. \A v \in Worker : ~InDelivery(v, e, c)'
    BY <1>7, <1>16, <2>1
  <2> QED
    BY <1>1, <1>8, <1>14, <2>1, <2>2
<1>18. NotOwnGiven'
  BY <1>1, <1>8, <1>9 DEF BusInv, NotOwnGiven
<1>19. NothingLost'
  <2> SUFFICES ASSUME NEW e \in Events, NEW c \in sent[e].due, c \notin closed' PROVE Somewhere(e, c)'
    BY <1>1, <1>9 DEF NothingLost
  <2>1. c \in Conn /\ fd[c] # None /\ Active(c) /\ c \notin closed
    BY <1>1, DueIs DEF BusInv
  <2>2. Somewhere(e, c)
    BY <2>1 DEF BusInv, NothingLost
  <2>3. ASSUME InHand(w, e, shard[fd[c]]) PROVE InDelivery(w, e, c)'
    <3>1. shard[fd[c]] = at[w].shard
      BY <2>3 DEF InHand
    <3>2. c \in recipients
      BY <1>4, <2>1, <3>1
    <3> QED
      BY <1>7, <2>3, <3>1, <3>2
  <2>4. \A v \in Worker : InDelivery(v, e, c) => InDelivery(v, e, c)'
    BY <1>7
  <2> QED
    BY <1>1, <1>8, <1>15, <2>2, <2>3, <2>4 DEF Somewhere
<1> QED
  BY <1>1, <1>11, <1>12, <1>13, <1>17, <1>18, <1>19, <1>20, PostsStill DEF BusInv

(* A delivery ends with the client, or with its full queue.                  *)
LEMMA DeliverBus ==
    ASSUME Types, BusInv, Steady, NEW w \in Worker, NEW c \in Conn, Deliver(w, c)
    PROVE  BusInv'
<1> DEFINE p == IF at[w].todo = {c} THEN Idle
                ELSE [pc |-> "deliver", events |-> at[w].events, todo |-> at[w].todo \ {c}]
<1>0. at[w].pc = "deliver" /\ c \in at[w].todo /\ \A v \in Worker : v \in Thread
  BY DEF Thread, Deliver
<1>1. /\ UNCHANGED <<sent, fd, global_queue_, task_queue_, closed>> /\ Moved(w, p)
  BY DeliveryMoves DEF Deliver, sockVars, busVars
<1>2. at'[w] = p /\ \A v \in Worker : v # w => at'[v] = at[v]
  BY <1>0, <1>1 DEF Moved
<1>3. /\ p.pc = "deliver" => p.events = at[w].events /\ p.todo = at[w].todo \ {c}
      /\ p.pc # "deliver" => p.pc = "idle" /\ at[w].todo \ {c} = {}
  BY DEF Idle
<1> HIDE DEF p
<1>4. Known /\ Injective /\ OnceForShard /\ OnceForClient /\ RefusedOnce /\ Posts /\ NotOwnGiven /\ NothingLost
  BY DEF BusInv
<1>5. /\ given' \in [Conn -> Seq(Events)] /\ lost \subseteq lost'
      /\ \A d \in Conn : d # c => given'[d] = given[d]
      /\ \A e : Given(e, c) => Given(e, c)'
      /\ \A e : Given(e, c)' =>
            \/ Given(e, c)
            \/ InDelivery(w, e, c) /\ sent[e].sender_fd # fd[c] /\ c \notin closed
      /\ \A e : InDelivery(w, e, c) /\ sent[e].sender_fd # fd[c] /\ c \notin closed =>
            Given(e, c)' \/ <<c, e>> \in lost'
      /\ Injective /\ (\A e : InDelivery(w, e, c) => ~Given(e, c)) =>
            IsInjective(given'[c]) /\ \A e : Refused(e, c)' => Refused(e, c) \/ ~Given(e, c)'
      /\ \A d \in Conn : \A e : Refused(e, d)' =>
            Refused(e, d) \/ (d = c /\ c \notin closed /\ InDelivery(w, e, c))
  BY <1>4, DeliverIs
<1>6. \A e : \A d \in Conn : d # c => (Given(e, d)' <=> Given(e, d))
  BY <1>5 DEF Given, Within
<1>7. \A v \in Worker : \A e, s : InHand(v, e, s)' <=> InHand(v, e, s)
  <2>1. \A e, s : ~Hand(p, e, s) /\ ~Hand(at[w], e, s)
    BY <1>0, <1>3 DEF Hand
  <2>2. \A e, s : ~InHand(w, e, s)' /\ ~InHand(w, e, s)
    BY <1>2, <2>1, HandsAre
  <2>3. ASSUME NEW v \in Worker, v # w PROVE \A e, s : InHand(v, e, s)' <=> InHand(v, e, s)
    BY <1>2, <2>3, HandsAre
  <2> QED
    BY <2>2, <2>3
<1>8. /\ \A e, d : InDelivery(w, e, d)' <=> InDelivery(w, e, d) /\ d # c
      /\ \A v \in Worker : \A e, d : v # w => (InDelivery(v, e, d)' <=> InDelivery(v, e, d))
  <2>1. \A e, d : Delivers(p, e, d) <=> Delivers(at[w], e, d) /\ d # c
    BY <1>0, <1>3 DEF Delivers
  <2>2. \A e, d : InDelivery(w, e, d)' <=> InDelivery(w, e, d) /\ d # c
    BY <1>2, <2>1, HandsAre
  <2>3. ASSUME NEW v \in Worker, v # w PROVE \A e, d : InDelivery(v, e, d)' <=> InDelivery(v, e, d)
    BY <1>2, <2>3, HandsAre
  <2> QED
    BY <2>2, <2>3
<1>9. /\ \A e : Queued(e)' <=> Queued(e)
      /\ \A i, e, s : InTask(i, e, s)' <=> InTask(i, e, s)
  BY <1>1 DEF Queued, InTask, Within
<1>10. Events' = Events
  BY <1>1 DEF Events
<1>11. \A e, d : Elsewhere(e, d)' <=> Elsewhere(e, d)
  BY <1>1, <1>7, <1>9 DEF Elsewhere
<1>12. \A e : \A v \in Worker, d \in Conn : InDelivery(v, e, d)' => InDelivery(v, e, d)
  BY <1>8
<1>13. Known'
  <2>1. \A e : \A d \in Conn : Given(e, d)' => fd[d] # None
    BY <1>4, <1>5, <1>6 DEF Known
  <2> QED
    BY <1>1, <1>4, <1>7, <1>10, <1>12, <2>1 DEF Known
<1>14. Injective'
  <2>1. \A v \in Worker : at'[v].pc \in {"snapshot", "deliver"} => IsInjective(at'[v].events)
    BY <1>0, <1>2, <1>3, <1>4 DEF Injective
  <2>2. \A d \in Conn : IsInjective(given'[d])
    BY <1>4, <1>5 DEF Injective, OnceForClient
  <2> QED
    BY <1>1, <1>4, <2>1, <2>2 DEF Injective
<1>15. OnceForShard'
  BY <1>4, <1>7, <1>9 DEF OnceForShard
<1>16. OnceForClient'
  <2>1. ASSUME NEW e, NEW d \in Conn, NEW v \in Worker, InDelivery(v, e, d)'
        PROVE  ~Elsewhere(e, d)' /\ ~Given(e, d)'
    <3>1. InDelivery(v, e, d) /\ ~Elsewhere(e, d) /\ ~Given(e, d)
      BY <1>4, <1>12, <2>1 DEF OnceForClient
    <3>2. ~Given(e, d)'
      <4>1. CASE d = c
        <5>1. v # w
          BY <1>8, <2>1, <4>1
        <5>2. ~InDelivery(w, e, c)
          BY <1>4, <3>1, <4>1, <5>1 DEF OnceForClient
        <5> QED
          BY <1>5, <3>1, <4>1, <5>2
      <4>2. CASE d # c
        BY <1>6, <3>1, <4>2
      <4> QED
        BY <4>1, <4>2
    <3> QED
      BY <1>11, <3>1, <3>2
  <2>2. \A e : \A d \in Conn, v, u \in Worker : InDelivery(v, e, d)' /\ InDelivery(u, e, d)' => v = u
    BY <1>4, <1>12 DEF OnceForClient
  <2>3. ASSUME NEW e, NEW d \in Conn, Given(e, d)' PROVE ~Elsewhere(e, d)'
    <3>1. Given(e, d) \/ InDelivery(w, e, d)
      BY <1>5, <1>6, <2>3
    <3> QED
      BY <1>4, <1>11, <3>1 DEF OnceForClient
  <2> QED
    BY <2>1, <2>2, <2>3 DEF OnceForClient
<1>19. RefusedOnce'
  <2> SUFFICES ASSUME NEW d \in Conn, NEW e, Refused(e, d)'
               PROVE  /\ fd'[d] # None /\ ~Elsewhere(e, d)' /\ ~Given(e, d)'
                      /\ \A v \in Worker : ~InDelivery(v, e, d)'
    BY DEF RefusedOnce
  <2>1. CASE Refused(e, d)
    <3>1. /\ fd[d] # None /\ ~Elsewhere(e, d) /\ ~Given(e, d)
          /\ \A v \in Worker : ~InDelivery(v, e, d)
      BY <1>4, <2>1 DEF RefusedOnce
    <3>2. ~Given(e, d)'
      BY <1>5, <1>6, <3>1
    <3> QED
      BY <1>1, <1>11, <1>12, <3>1, <3>2
  <2>2. CASE ~Refused(e, d)
    <3>1. d = c /\ InDelivery(w, e, c)
      BY <1>5, <2>2
    <3>2. fd[c] # None /\ ~Elsewhere(e, c) /\ \A v \in Worker : v # w => ~InDelivery(v, e, c)
      BY <1>4, <3>1 DEF Known, OnceForClient
    <3>3. ~Given(e, c)'
      BY <1>4, <1>5, <2>2, <3>1 DEF OnceForClient
    <3> QED
      BY <1>1, <1>8, <1>11, <3>1, <3>2, <3>3
  <2> QED
    BY <2>1, <2>2
<1>17. NotOwnGiven'
  <2> SUFFICES ASSUME NEW d \in Conn, NEW e \in Events, Given(e, d)' PROVE sent[e].from # d
    BY <1>1, <1>10 DEF NotOwnGiven
  <2>1. CASE Given(e, d)
    BY <1>4, <2>1 DEF NotOwnGiven
  <2>2. CASE d = c /\ sent[e].sender_fd # fd[c] /\ c \notin closed
    BY <1>4, <2>2 DEF Posts
  <2> QED
    BY <1>5, <1>6, <2>1, <2>2
<1>18. NothingLost'
  <2> SUFFICES ASSUME NEW e \in Events, NEW d \in sent[e].due, d \notin closed' PROVE Somewhere(e, d)'
    BY <1>1, <1>10 DEF NothingLost
  <2>1. d \in Conn /\ sent[e].sender_fd # fd[d] /\ d \notin closed
    BY <1>1, <1>4, DueIs
  <2>2. Somewhere(e, d)
    BY <1>4, <2>1 DEF NothingLost
  <2>3. Given(e, d) => Given(e, d)'
    BY <1>5, <1>6, <2>1
  <2>4. ASSUME NEW v \in Worker, InDelivery(v, e, d)
        PROVE  InDelivery(v, e, d)' \/ Given(e, d)' \/ <<d, e>> \in lost'
    BY <1>5, <1>8, <2>1, <2>4
  <2> QED
    BY <1>5, <1>11, <2>2, <2>3, <2>4 DEF Somewhere
<1> QED
  BY <1>1, <1>4, <1>13, <1>14, <1>15, <1>16, <1>17, <1>18, <1>19, PostsStill DEF BusInv

(* So every step keeps each broadcast in one place, and none is lost.        *)
LEMMA BusKept ==
    ASSUME Types, Pointers, OneOwner, Names, Accepted, BusInv, [Next]_vars
    PROVE  BusInv'
<1>0. Steady /\ "net" \in Thread /\ \A w \in Worker : w \in Thread
  BY StepsSteady DEF Thread
<1>1. ASSUME NEW t \in Thread, NEW c \in Conn, CloseConn(t, c) PROVE BusInv'
  <2>1. at[t].pc \in ClosePlaces /\ at[t].conn = c /\ Apart(at[t])
    BY <1>1 DEF CloseConn, Exchange, OnClientDisconnect, BroadcastLeft, EraseConn, In, ClosePlaces, Apart
  <2>2. \E p : Moved(t, p) /\ Apart(p)
    <3>1. Apart(Idle) /\ \A place \in ClosePlaces : Apart([pc |-> place, conn |-> c])
      BY DEF Apart, Idle, ClosePlaces
    <3>2. Moved(t, Idle) \/ \E place \in ClosePlaces : Moved(t, [pc |-> place, conn |-> c])
      BY <1>1, CloseConnMoves DEF CloseConn, ClosePlaces
    <3> QED
      BY <3>1, <3>2
  <2>3. CASE Exchange(t, c) \/ OnClientDisconnect(t, c) \/ EraseConn(t, c)
    BY <1>0, <2>1, <2>2, <2>3, BusMove DEF Exchange, OnClientDisconnect, EraseConn, busVars, fateVars
  <2>4. CASE BroadcastLeft(t, c) /\ at[t].pc = "left"
    <3>1. c \in closed /\ fd[c] # None
      BY <2>4 DEF BroadcastLeft, Pointers, Leaving, In
    <3>2. \A d \in Conn \ {c} : Active(d) /\ d \notin closed => fd[d] # None
      BY DEF Accepted
    <3>3. QueueEvent(c, None)
      BY <2>4 DEF BroadcastLeft, In
    <3> QED
      BY <1>0, <2>1, <2>2, <2>4, <3>1, <3>2, <3>3, BroadcastBus DEF BroadcastLeft, sockVars, nameVars, fateVars
  <2>5. CASE BroadcastLeft(t, c) /\ at[t].pc # "left"
    BY <1>0, <2>1, <2>2, <2>5, BusMove DEF BroadcastLeft, WakeReactor, In, fateVars
  <2> QED
    BY <1>1, <2>3, <2>4, <2>5 DEF CloseConn
<1>2. ASSUME Net PROVE BusInv'
  <2>1. ASSUME NEW c \in Conn, NEW f \in Fd, accept_loop(c, f) PROVE BusInv'
    BY <1>0, <2>1, BusNobodyMoves DEF accept_loop, busVars, fateVars
  <2>2. ASSUME NEW c \in Conn, NEW text \in Text \cup {Empty}, handle_read(c, text) PROVE BusInv'
    <3> DEFINE task == [pc |-> "message", conn |-> c, text |-> text]
    <3>1. task \in Task /\ task.pc # "snapshot"
      BY DEF Task
    <3>2. task_queue_' = Append(task_queue_, task)
      BY <2>2 DEF handle_read
    <3> HIDE DEF task
    <3> QED
      BY <1>0, <2>2, <3>1, <3>2, BusNobodyMoves DEF handle_read, busVars, fateVars
  <2>3. ASSUME NEW c \in Conn, handle_write(c) \/ flush_queue(c) PROVE BusInv'
    BY <1>0, <2>3, BusNobodyMoves DEF handle_write, flush_queue, busVars, fateVars
  <2>4. ASSUME NEW c \in Conn, StartClose(c) PROVE BusInv'
    <3>1. Apart([pc |-> "close", conn |-> c]) /\ Apart(Idle)
      BY DEF Apart, Idle
    <3>2. Moved("net", [pc |-> "close", conn |-> c]) /\ at["net"] = Idle
      BY <2>4, NetMoves DEF StartClose, NetIdle
    <3> QED
      BY <1>0, <2>4, <3>1, <3>2, BusMove DEF StartClose, busVars, fateVars
  <2>5. CASE ReadNotify
    <3>1. Apart([pc |-> "process"]) /\ Apart(Idle)
      BY DEF Apart, Idle
    <3>2. Moved("net", [pc |-> "process"]) /\ at["net"] = Idle
      BY <2>5, NetMoves DEF ReadNotify, NetIdle
    <3> QED
      BY <1>0, <2>5, <3>1, <3>2, BusMove DEF ReadNotify, fateVars
  <2> QED
    BY <1>0, <1>1, <1>2, <2>1, <2>2, <2>3, <2>4, <2>5, ProcessBus DEF Net
<1>3. ASSUME NEW w \in Worker, Work(w) PROVE BusInv'
  <2>1. ASSUME NEW c \in Conn, OnMessageRecv(w, c) \/ SetUsername(w, c) \/ Reply(w, c) PROVE BusInv'
    <3>1. Apart(at[w])
      BY <2>1 DEF OnMessageRecv, SetUsername, Reply, In, Apart
    <3>2. \E p : Moved(w, p) /\ Apart(p)
      <4>1. /\ Apart(Idle) /\ Apart([pc |-> "close", conn |-> c])
            /\ \A place \in MessagePlaces : Apart([pc |-> place, conn |-> c, text |-> at[w].text])
        BY DEF Apart, Idle, MessagePlaces
      <4>2. \/ Moved(w, Idle) \/ Moved(w, [pc |-> "close", conn |-> c])
            \/ \E place \in MessagePlaces : Moved(w, [pc |-> place, conn |-> c, text |-> at[w].text])
        BY <2>1, MessageMoves DEF MessagePlaces
      <4> QED
        BY <4>1, <4>2
    <3> QED
      BY <1>0, <2>1, <3>1, <3>2, BusMove DEF OnMessageRecv, SetUsername, Reply, busVars, fateVars
  <2>2. ASSUME NEW c \in Conn, BroadcastMessage(w, c), at[w].pc = "chat" PROVE BusInv'
    <3> DEFINE p == [pc |-> "wake", conn |-> c, text |-> at[w].text]
    <3>1. at[w].conn = c /\ Apart(at[w]) /\ Apart(p) /\ Moved(w, p) /\ QueueEvent(c, fd[c])
      BY <2>2, MessageMoves DEF BroadcastMessage, In, Apart
    <3> HIDE DEF p
    <3>2. Alive(c)
      BY <1>0, <2>2, <3>1 DEF Alive, In, MessagePlaces
    <3>3. fd[c] # None
      BY <3>2 DEF Pointers
    <3>4. ASSUME NEW d \in Conn \ {c}, Active(d), d \notin closed PROVE fd[d] # fd[c]
      <4>1. InMap(d)
        BY <3>4 DEF Pointers, Accepted
      <4>2. Alive(d)
        BY <4>1 DEF Alive
      <4> QED
        BY <3>2, <3>3, <4>2 DEF OneOwner
    <3> QED
      BY <1>0, <2>2, <3>1, <3>3, <3>4, BroadcastBus DEF BroadcastMessage, sockVars, nameVars, fateVars
  <2>3. ASSUME NEW c \in Conn, BroadcastMessage(w, c), at[w].pc # "chat" PROVE BusInv'
    <3>1. Apart(at[w]) /\ Apart(Idle) /\ Moved(w, Idle)
      BY <2>3, MessageMoves DEF BroadcastMessage, In, Apart, Idle
    <3> QED
      BY <1>0, <2>3, <3>1, BusMove DEF BroadcastMessage, WakeReactor, In, fateVars
  <2> QED
    BY <1>0, <1>1, <1>3, <2>1, <2>2, <2>3, TakeTaskBus, SnapshotBus, DeliverBus DEF Work
<1>4. CASE UNCHANGED vars
  BY <1>0, <1>4, BusNobodyMoves DEF vars, busVars, fateVars
<1> QED
  BY <1>2, <1>3, <1>4 DEF Next

(* Whoever leaves something behind asks for EPOLLOUT.                        *)
LEMMA WatchedKept ==
    ASSUME Watched, [Next]_vars
    PROVE  Watched'
<1>1. ASSUME UNCHANGED writeVars, closed \subseteq closed' PROVE Watched'
  BY <1>1 DEF Watched, writeVars
<1>2. ASSUME NEW c, SendPreEncoded(c), closed' = closed PROVE Watched'
  BY <1>2 DEF Watched, SendPreEncoded
<1>3. ASSUME NEW c, backlog' \in {backlog \cup {c}, backlog \ {c}, backlog}, closed' = closed,
             armed' = IF c \in backlog' THEN armed \cup {c} ELSE armed
      PROVE  Watched'
  BY <1>3 DEF Watched
<1>4. ASSUME NEW t, NEW c \in Conn, CloseConn(t, c) PROVE Watched'
  BY <1>1, <1>4 DEF CloseConn, Exchange, OnClientDisconnect, BroadcastLeft, EraseConn
<1>5. ASSUME Net PROVE Watched'
  <2>1. ASSUME NEW c \in Conn, NEW f \in Fd, accept_loop(c, f) PROVE Watched'
    BY <1>2, <2>1 DEF accept_loop
  <2>2. ASSUME NEW c \in Conn, handle_write(c) PROVE Watched'
    BY <2>2 DEF handle_write, attempt_write, Watched
  <2>3. ASSUME NEW c \in Conn, flush_queue(c) PROVE Watched'
    BY <1>3, <2>3 DEF flush_queue, attempt_write, arm_if_left
  <2>4. ASSUME NEW c \in Conn, NEW text, handle_read(c, text) PROVE Watched'
    BY <1>1, <2>4 DEF handle_read
  <2>5. ASSUME NEW c \in Conn, StartClose(c) PROVE Watched'
    BY <1>1, <2>5 DEF StartClose
  <2>6. CASE ReadNotify \/ process_global_queue
    BY <1>1, <2>6 DEF ReadNotify, process_global_queue
  <2> QED
    BY <1>4, <1>5, <2>1, <2>2, <2>3, <2>4, <2>5, <2>6 DEF Net
<1>6. ASSUME NEW w \in Worker, Work(w) PROVE Watched'
  <2>1. CASE TakeTask(w) \/ Snapshot(w)
    BY <1>1, <2>1 DEF TakeTask, Snapshot
  <2>2. ASSUME NEW c \in Conn, OnMessageRecv(w, c) \/ SetUsername(w, c) \/ BroadcastMessage(w, c) PROVE Watched'
    BY <1>1, <2>2 DEF OnMessageRecv, SetUsername, BroadcastMessage
  <2>3. ASSUME NEW c \in Conn, Reply(w, c) PROVE Watched'
    BY <1>1, <1>2, <2>3 DEF Reply
  <2>4. ASSUME NEW c \in Conn, Deliver(w, c) PROVE Watched'
    <3>1. UNCHANGED writeVars \/ (backlog' \in {backlog \cup {c}, backlog \ {c}} /\ arm_if_left(c))
      BY <2>4 DEF Deliver
    <3>2. closed' = closed
      BY <2>4 DEF Deliver
    <3> QED
      BY <1>1, <1>3, <3>1, <3>2 DEF arm_if_left
  <2> QED
    BY <1>4, <1>6, <2>1, <2>2, <2>3, <2>4 DEF Work
<1>7. CASE UNCHANGED vars
  BY <1>1, <1>7 DEF vars
<1> QED
  BY <1>5, <1>6, <1>7 DEF Next

-----------------------------------------------------------------------------
(* The theorems.                                                             *)

(* Nothing is accepted, sent or queued at first.                             *)
LEMMA InitV3Inv == Init => V3Inv
<1> SUFFICES ASSUME Init PROVE V3Inv
  OBVIOUS
<1> USE ChatServerV3Assumption
<1>1. \A t \in Thread : at[t] = Idle
  BY DEF Init
<1>2. \A t \in Thread : at[t].pc = "idle"
  BY <1>1 DEF Idle
<1>3. Len(task_queue_) = 0 /\ Len(global_queue_) = 0 /\ Len(sent) = 0 /\ \A c \in Conn : Len(given[c]) = 0
  BY DEF Init
<1>4. Events = {} /\ <<>> \in Seq(Events) /\ <<>> \in Seq(Task) /\ <<>> \in Seq(Post)
  BY <1>3 DEF Events
<1>5. Types
  <2>1. at \in [Thread -> Place]
    BY DEF Init, Place
  <2>2. Core
    <3>1. notified \in BOOLEAN
      BY DEF Init
    <3>2. reads \in 0..MaxReads
      BY DEF Init
    <3>3. [c \in Conn |-> None] \in [Conn -> Fd \cup {None}] /\ [f \in Fd |-> None] \in [Fd -> Conn \cup {None}]
      OBVIOUS
    <3>4. [c \in Conn |-> Empty] \in [Conn -> Text \cup {Empty}]
      OBVIOUS
    <3>5. /\ fd = [c \in Conn |-> None] /\ connections = [f \in Fd |-> None] /\ username = [c \in Conn |-> Empty]
          /\ closed = {} /\ raced = {} /\ usernames_ = {} /\ backlog = {} /\ armed = {}
      BY DEF Init
    <3> QED
      BY <3>1, <3>2, <3>3, <3>4, <3>5 DEF Core
  <2>3. given = [c \in Conn |-> <<>>] /\ lost = {} /\ sent = <<>> /\ global_queue_ = <<>> /\ task_queue_ = <<>>
    BY DEF Init
  <2>4. [c \in Conn |-> <<>>] \in [Conn -> Seq(Events)]
    BY <1>4
  <2>5. EventTypes
    BY <1>4, <2>3, <2>4 DEF EventTypes
  <2> QED
    BY <2>1, <2>2, <2>5, TypesParts
<1>6. \A w \in Worker : w \in Thread
  BY DEF Thread
<1>7. \A c \in Conn : ~InMap(c) /\ ~Alive(c) /\ fd[c] = None /\ c \notin closed /\ username[c] = Empty
  <2>1. \A c \in Conn : fd[c] = None /\ c \notin closed /\ username[c] = Empty
    BY DEF Init
  <2>2. \A c \in Conn, t \in Thread : ~Points(at[t], c)
    BY <1>2 DEF Points, MessagePlaces, ClosePlaces
  <2>3. \A c \in Conn : ~Waits(c) /\ ~InMap(c)
    BY <1>3, <2>1 DEF Waits, InMap
  <2> QED
    BY <2>1, <2>2, <2>3, AliveIs
<1>8. \A c \in Conn, t \in Thread : ~Leaving(t, c) /\ ~Naming(t, c)
  BY <1>2 DEF Leaving, Naming, In
<1>9. Pointers /\ OneOwner
  BY <1>7, <1>8 DEF Pointers, OneOwner, Init
<1>10. Names
  <2>1. \A c \in Conn, n \in Text : ~Holder(c, n)
    BY <1>6, <1>7, <1>8 DEF Holder
  <2> QED
    BY <1>6, <1>8, <2>1 DEF Names, Init
<1>11. Accepted
  BY <1>7 DEF Accepted, Active
<1>12. \A e : ~Within(e, <<>>)
  BY <1>3 DEF Within
<1>13. /\ \A e, c : c \in Conn => ~Given(e, c)
       /\ \A e : ~Queued(e)
       /\ \A i, e, s : ~InTask(i, e, s)
       /\ \A w \in Worker : \A e, s : ~InHand(w, e, s)
       /\ \A w \in Worker : \A e, c : ~InDelivery(w, e, c)
  BY <1>2, <1>3, <1>6 DEF Given, Queued, InTask, InHand, InDelivery, Within
<1>14. Known /\ OnceForShard /\ OnceForClient /\ RefusedOnce /\ Posts /\ NotOwnGiven /\ NothingLost
  <2>1. \A e, c : ~Refused(e, c)
    BY DEF Init, Refused
  <2> QED
    BY <1>4, <1>13, <2>1 DEF Known, OnceForShard, OnceForClient, RefusedOnce, Posts, NotOwnGiven, NothingLost
<1>15. Injective
  <2>1. IsInjective(<<>>)
    BY DEF IsInjective
  <2>2. global_queue_ = <<>> /\ \A c \in Conn : given[c] = <<>>
    BY DEF Init
  <2> QED
    BY <1>2, <1>3, <1>6, <2>1, <2>2 DEF Injective
<1>16. Wakeup /\ Watched
  <2>1. \A e : ~Within(e, global_queue_)
    BY EmptySeq DEF Init, Within
  <2> QED
    BY <2>1 DEF Init, Wakeup, Watched
<1> QED
  BY <1>5, <1>9, <1>10, <1>11, <1>14, <1>15, <1>16 DEF V3Inv, BusInv

(* The invariant: who points to whom, who holds which name, and where each   *)
(* broadcast is.                                                             *)
THEOREM V3Invariant == Spec => []V3Inv
<1>1. V3Inv /\ [Next]_vars => V3Inv'
  <2> SUFFICES ASSUME V3Inv, [Next]_vars PROVE V3Inv'
    OBVIOUS
  <2>1. /\ Types /\ Pointers /\ OneOwner /\ Names /\ Accepted /\ BusInv /\ Wakeup /\ Watched /\ Known
    BY DEF V3Inv, BusInv
  <2>2. Types'
    BY <2>1, TypesKept
  <2>3. Pointers' /\ OneOwner'
    BY <2>1, PointersKept
  <2>4. Names'
    BY <2>1, NamesKept
  <2>5. Accepted'
    BY <2>1, AcceptedKept
  <2>6. BusInv'
    BY <2>1, BusKept
  <2>7. Wakeup' /\ Watched'
    BY <2>1, WakeupKept, WatchedKept
  <2> QED
    BY <2>2, <2>3, <2>4, <2>5, <2>6, <2>7 DEF V3Inv
<1> QED
  BY InitV3Inv, <1>1, PTL DEF Spec

(* close_conn is in the middle of a connection that is in its map.           *)
LEMMA OwnDescriptorFollows == V3Inv => OwnDescriptor
<1> SUFFICES ASSUME V3Inv PROVE OwnDescriptor
  OBVIOUS
<1>1. \A c \in Conn, t \in Thread : In(t, ClosePlaces \ {"close"}, c) => Leaving(t, c)
  BY DEF In, ClosePlaces, Leaving
<1> QED
  BY <1>1 DEF V3Inv, Pointers, OneOwner, OwnDescriptor, InMap

(* close_conn erases its own entry, and no two living connections share a    *)
(* descriptor, although numbers are reused and workers close too.            *)
THEOREM OwnDescriptorHolds == Spec => []OwnDescriptor
BY V3Invariant, OwnDescriptorFollows, PTL

(* An open client that is logged in is the one holder of its name.           *)
LEMMA NamesFollow == V3Inv => NamesFreedUnlessRaced
<1> SUFFICES ASSUME V3Inv PROVE NamesFreedUnlessRaced
  OBVIOUS
<1>1. TypeOK /\ Names
  BY DEF V3Inv, Types
<1>2. LoggedInHoldsName
  <2> SUFFICES ASSUME NEW c \in Conn, c \notin closed, Active(c)
               PROVE  /\ username[c] \in usernames_
                      /\ \A d \in Conn \ (closed \cup {c}) : username[d] # username[c]
    BY DEF LoggedInHoldsName
  <2>1. username[c] \in Text
    BY <1>1 DEF TypeOK, Active
  <2>2. \A d \in Conn : d \notin closed /\ username[d] = username[c] => Holder(d, username[c])
    BY DEF Holder
  <2> QED
    BY <1>1, <2>1, <2>2 DEF Names
<1> QED
  BY <1>1, <1>2 DEF Names, Holder, Naming, NamesFreedUnlessRaced

(* A name that is taken is that of a client whose disconnect hook is to      *)
(* come, or of a login under way, or was set after the hook had looked; no   *)
(* two open clients share one.                                               *)
THEOREM NamesFreedUnlessRacedHolds == Spec => []NamesFreedUnlessRaced
BY V3Invariant, NamesFollow, PTL

(* What was given once is in no other place.                                 *)
LEMMA GivenOnceFollows == V3Inv => GivenOnce
<1> SUFFICES ASSUME V3Inv, NEW c \in Conn
             PROVE  IsInjective(given[c]) /\ \A i \in 1..Len(given[c]) : sent[given[c][i]].from # c
  BY DEF GivenOnce
<1>1. given[c] \in Seq(Events)
  BY DEF V3Inv, Types, TypeOK
<1>2. IsInjective(given[c])
  BY DEF V3Inv, BusInv, Injective
<1>3. ASSUME NEW i \in 1..Len(given[c]) PROVE sent[given[c][i]].from # c
  <2>1. given[c][i] \in Events
    BY <1>1, ElementOfSeq
  <2>2. Given(given[c][i], c)
    BY DEF Given, Within
  <2> QED
    BY <2>1, <2>2 DEF V3Inv, BusInv, NotOwnGiven
<1> QED
  BY <1>2, <1>3

(* Deliver gives a client each broadcast at most once, and none of its own.  *)
THEOREM GivenOnceHolds == Spec => []GivenOnce
BY V3Invariant, GivenOnceFollows, PTL

(* A place that still has it is on the way.                                  *)
LEMMA NoBroadcastLostFollows == V3Inv => NoBroadcastLost
<1> SUFFICES ASSUME V3Inv PROVE NoBroadcastLost
  OBVIOUS
<1>1. ASSUME NEW e \in Events, NEW c \in sent[e].due \ closed
      PROVE  Within(e, given[c]) \/ <<c, e>> \in lost \/ OnItsWay(e, c)
  <2>1. Somewhere(e, c)
    BY DEF V3Inv, BusInv, NothingLost
  <2>2. CASE Queued(e)
    <3>1. Within(e, global_queue_)
      BY <2>2 DEF Queued, Within
    <3>2. WakeupDue(e)
      BY <3>1 DEF V3Inv, Wakeup
    <3> QED
      BY <3>1, <3>2 DEF OnItsWay
  <2>3. ASSUME NEW i, InTask(i, e, shard[fd[c]]) PROVE OnItsWay(e, c)
    BY <2>3 DEF InTask, OnItsWay
  <2>4. ASSUME NEW w \in Worker, InHand(w, e, shard[fd[c]]) \/ InDelivery(w, e, c) PROVE OnItsWay(e, c)
    BY <2>4 DEF InHand, InDelivery, OnItsWay
  <2> QED
    BY <2>1, <2>2, <2>3, <2>4 DEF Somewhere, Elsewhere, Given
<1> QED
  BY <1>1 DEF NoBroadcastLost, V3Inv, Watched

(* A broadcast that is due to an open client is on its way, given, or        *)
(* refused by a full queue, and what a connection has queued has EPOLLOUT    *)
(* armed.                                                                    *)
THEOREM NoBroadcastLostHolds == Spec => []NoBroadcastLost
BY V3Invariant, NoBroadcastLostFollows, PTL
-----------------------------------------------------------------------------
(* Version 3 implements the broadcasts of Broadcast.                         *)

Unsettled ==
    {p \in Conn \X Events : p[1] \in sent[p[2]].due \ closed /\ ~Given(p[2], p[1]) /\ ~Refused(p[2], p[1])}
PostsMap == [e \in Events |-> [due |-> sent[e].due, barred |-> {sent[e].from}]]
OnWayMap == {p \in Conn \X Events : p[1] \in sent[p[2]].due \ closed /\ OnItsWay(p[2], p[1])}

(* What is due to an open client is on its way exactly as long as it is      *)
(* neither given nor refused.                                                *)
LEMMA OnWayIs == V3Inv => OnWayMap = Unsettled
<1> SUFFICES ASSUME V3Inv PROVE OnWayMap = Unsettled
  OBVIOUS
<1>1. \A e \in Events : \A c \in sent[e].due \ closed : Given(e, c) \/ Refused(e, c) \/ OnItsWay(e, c)
  BY NoBroadcastLostFollows DEF NoBroadcastLost, Given, Refused
<1>2. ASSUME NEW e \in Events, NEW c \in Conn, OnItsWay(e, c) PROVE ~Given(e, c) /\ ~Refused(e, c)
  <2>1. Elsewhere(e, c) \/ \E w \in Worker : InDelivery(w, e, c)
    BY <1>2 DEF OnItsWay, Elsewhere, Queued, InTask, InHand, InDelivery
  <2> QED
    BY <2>1 DEF V3Inv, BusInv, OnceForClient, RefusedOnce
<1> QED
  BY <1>1, <1>2 DEF OnWayMap, Unsettled

(* And after a step.                                                         *)
LEMMA OnWayIsThen == V3Inv' => OnWayMap' = Unsettled'
<1> DEFINE Agree == OnWayMap = Unsettled
<1>1. V3Inv => Agree
  BY OnWayIs
<1>2. V3Inv' => Agree'
  <2> HIDE DEF Agree
  <2> QED
    BY <1>1, PTL
<1> QED
  BY <1>2

(* Where nobody speaks, leaves, or is given or refused anything, nothing of  *)
(* it changes.                                                               *)
LEMMA NothingHappens ==
    ASSUME V3Inv, V3Inv', UNCHANGED <<sent, closed, given, lost>>
    PROVE  UNCHANGED B!broadcastVars
<1>1. Events' = Events
  BY DEF Events
<1>2. PostsMap' = PostsMap
  BY <1>1 DEF PostsMap
<1>3. Unsettled' = Unsettled
  BY <1>1 DEF Unsettled, Given, Refused, Within
<1>4. OnWayMap' = OnWayMap
  BY <1>3, OnWayIs, OnWayIsThen
<1> QED
  BY <1>2, <1>4 DEF B!broadcastVars, PostsMap, OnWayMap

(* Broadcast speaks.                                                         *)
LEMMA BroadcastSpeaks ==
    ASSUME V3Inv, V3Inv', NEW c \in Conn, NEW number \in {None, fd[c]}, QueueEvent(c, number),
           UNCHANGED <<closed, given, lost>>
    PROVE  B!Speak
<1> DEFINE k == Len(sent)
           p == [from |-> c, sender_fd |-> number, due |-> {d \in Conn \ {c} : Active(d) /\ d \notin closed}]
<1>0. sent \in Seq(Post) /\ Types
  BY TypesParts DEF V3Inv, EventTypes
<1>1. k \in Nat /\ fd[c] \in Fd \cup {None}
  BY <1>0, LenProperties, TypesParts DEF Core
<1>2. p \in Post /\ sent' = Append(sent, p)
  BY <1>1 DEF Post, QueueEvent
<1> HIDE DEF p
<1>3. /\ Len(sent') = k + 1 /\ sent'[k + 1] = p /\ \A e \in 1..k : sent'[e] = sent[e]
  BY <1>0, <1>2, AppendProperties
<1> HIDE DEF k
<1>4. Events = 1..k /\ Events' = 1..(k + 1) /\ k + 1 \in Events' /\ k + 1 \notin Events
  BY <1>1, <1>3 DEF Events, k
<1>5. /\ Len(PostsMap) = k /\ Len(PostsMap') = k + 1
      /\ \A e \in 1..k : PostsMap'[e] = PostsMap[e]
      /\ PostsMap'[k + 1] = [due |-> p.due, barred |-> {c}]
  <2>1. PostsMap = [e \in 1..k |-> [due |-> sent[e].due, barred |-> {sent[e].from}]]
    BY <1>4 DEF PostsMap
  <2>2. PostsMap' = [e \in 1..(k + 1) |-> [due |-> sent'[e].due, barred |-> {sent'[e].from}]]
    BY <1>4 DEF PostsMap
  <2>3. PostsMap'[k + 1] = [due |-> p.due, barred |-> {p.from}] /\ p.from = c
    BY <1>3, <1>4, <2>2 DEF p
  <2> HIDE DEF p
  <2>4. Len(PostsMap) = k /\ Len(PostsMap') = k + 1
    BY <1>1, <2>1, <2>2
  <2>5. ASSUME NEW e \in 1..k PROVE PostsMap'[e] = PostsMap[e]
    <3>1. e \in 1..(k + 1) /\ sent'[e] = sent[e]
      BY <1>1, <1>3
    <3> QED
      BY <2>1, <2>2, <3>1
  <2> QED
    BY <2>3, <2>4, <2>5
<1>6. p.due \subseteq Conn \ (closed \cup {c})
  BY DEF p
<1>7. \A d \in Conn : ~Given(k + 1, d) /\ ~Refused(k + 1, d)
  BY <1>0, <1>4, UnsentNowhere DEF V3Inv, BusInv
<1>8. \A e, d : (Given(e, d)' <=> Given(e, d)) /\ (Refused(e, d)' <=> Refused(e, d))
  BY DEF Given, Refused, Within
<1>9. Unsettled' = Unsettled \cup (p.due \X {k + 1})
  <2>1. ASSUME NEW d \in Conn, NEW e \in 1..(k + 1)
        PROVE  <<d, e>> \in Unsettled' <=> <<d, e>> \in Unsettled \/ <<d, e>> \in p.due \X {k + 1}
    <3>1. CASE e = k + 1
      <4>1. <<d, e>> \in Unsettled' <=> d \in p.due
        BY <1>3, <1>4, <1>6, <1>7, <1>8, <3>1 DEF Unsettled
      <4>2. <<d, e>> \notin Unsettled
        BY <1>4, <3>1 DEF Unsettled
      <4> QED
        BY <3>1, <4>1, <4>2
    <3>2. CASE e # k + 1
      <4>1. e \in 1..k
        BY <1>1, <3>2
      <4>2. <<d, e>> \in Unsettled' <=> <<d, e>> \in Unsettled
        BY <1>3, <1>4, <1>8, <4>1 DEF Unsettled
      <4> QED
        BY <3>2, <4>2
    <3> QED
      BY <3>1, <3>2
  <2>2. Unsettled' \subseteq Conn \X (1..(k + 1))
    BY <1>4 DEF Unsettled
  <2>3. Unsettled \cup (p.due \X {k + 1}) \subseteq Conn \X (1..(k + 1))
    BY <1>1, <1>4, <1>6 DEF Unsettled
  <2> QED
    BY <2>1, <2>2, <2>3
<1>10. OnWayMap' = OnWayMap \cup (p.due \X {k + 1})
  BY <1>9, OnWayIs, OnWayIsThen
<1>11. B!Speak <=>
          /\ Len(PostsMap') = Len(PostsMap) + 1
          /\ \A i \in 1..Len(PostsMap) : PostsMap'[i] = PostsMap[i]
          /\ PostsMap'[Len(PostsMap) + 1].due \subseteq Conn \ (closed \cup PostsMap'[Len(PostsMap) + 1].barred)
          /\ OnWayMap' = OnWayMap \cup (PostsMap'[Len(PostsMap) + 1].due \X {Len(PostsMap) + 1})
          /\ UNCHANGED <<given, lost, closed>>
  BY DEF B!Speak, PostsMap, OnWayMap
<1> QED
  BY <1>5, <1>6, <1>10, <1>11

(* The exchange of the flag is the leaving.                                  *)
LEMMA ExchangeLeaves ==
    ASSUME V3Inv, V3Inv', NEW t \in Thread, NEW c \in Conn, Exchange(t, c)
    PROVE  B!Leave(c)
<1>1. UNCHANGED <<sent, given, lost>> /\ closed' = closed \cup {c}
  BY DEF Exchange, busVars, fateVars
<1>2. Events' = Events
  BY <1>1 DEF Events
<1>3. PostsMap' = PostsMap
  BY <1>1, <1>2 DEF PostsMap
<1>4. Unsettled' = {p \in Unsettled : p[1] # c}
  BY <1>1, <1>2 DEF Unsettled, Given, Refused, Within
<1>5. OnWayMap' = {p \in OnWayMap : p[1] # c}
  BY <1>4, OnWayIs, OnWayIsThen
<1> QED
  BY <1>1, <1>3, <1>5 DEF B!Leave, PostsMap, OnWayMap

(* A delivery gives.                                                         *)
LEMMA DeliverGives ==
    ASSUME V3Inv, V3Inv', NEW w \in Worker, NEW c \in Conn, Deliver(w, c)
    PROVE  B!Give
<1>1. UNCHANGED <<sent, closed>>
  BY DEF Deliver, busVars
<1>2. Events' = Events /\ PostsMap' = PostsMap
  BY <1>1 DEF Events, PostsMap
<1>3. /\ Types /\ Known /\ Injective /\ OnceForClient /\ RefusedOnce /\ Types' /\ Injective' /\ RefusedOnce' /\ NotOwnGiven'
  BY DEF V3Inv, BusInv
<1>4. /\ given' \in [Conn -> Seq(Events)] /\ lost' \subseteq Conn \X Events /\ lost \subseteq lost'
      /\ \A d \in Conn : d # c => given'[d] = given[d]
      /\ \A e : Given(e, c) => Given(e, c)'
      /\ \A e : Given(e, c)' => Given(e, c) \/ (InDelivery(w, e, c) /\ c \notin closed)
      /\ \A d \in Conn : Len(given[d]) <= Len(given'[d]) /\ \A i \in 1..Len(given[d]) : given'[d][i] = given[d][i]
      /\ \A d \in Conn : \A e : Refused(e, d)' => Refused(e, d) \/ (d = c /\ c \notin closed /\ InDelivery(w, e, c))
  BY <1>3, DeliverIs
<1>5. \A d \in Conn : Len(given[d]) \in Nat /\ Len(given'[d]) \in Nat
  BY <1>3, <1>4, LenProperties, TypesParts DEF EventTypes
<1>6. ASSUME NEW d \in Conn, NEW i \in Len(given[d]) + 1..Len(given'[d])
      PROVE  /\ d \notin closed
             /\ given'[d][i] \in Events /\ d # sent[given'[d][i]].from
             /\ \A j \in 1..i - 1 : given'[d][j] # given'[d][i]
             /\ <<d, given'[d][i]>> \notin lost'
  <2> PICK e : e = given'[d][i]
    OBVIOUS
  <2>1. i \in 1..Len(given'[d]) /\ \A j \in 1..i - 1 : j \in 1..Len(given'[d]) /\ j # i
    BY <1>5
  <2>2. DOMAIN given'[d] = 1..Len(given'[d]) /\ IsInjective(given'[d])
    BY <1>3, <1>4, LenProperties DEF Injective
  <2>3. \A j \in 1..i - 1 : given'[d][j] # e
    BY <2>1, <2>2 DEF IsInjective
  <2>4. e \in Events /\ Given(e, d)'
    BY <1>4, <2>1, ElementOfSeq DEF Given, Within
  <2>5. ~Given(e, d)
    <3>1. \A j \in 1..Len(given[d]) : j \in 1..i - 1 /\ given[d][j] = given'[d][j]
      BY <1>4, <1>5
    <3> QED
      BY <2>3, <3>1 DEF Given, Within
  <2>6. d = c
    <3>1. d # c => (Given(e, d)' <=> Given(e, d))
      BY <1>4 DEF Given, Within
    <3> QED
      BY <2>4, <2>5, <3>1
  <2>7. d \notin closed
    BY <1>4, <2>4, <2>5, <2>6
  <2>8. sent[e].from # d
    BY <1>1, <1>2, <1>3, <2>4 DEF NotOwnGiven
  <2>9. <<d, e>> \notin lost'
    BY <1>3, <2>4 DEF RefusedOnce, Refused
  <2> QED
    BY <2>3, <2>4, <2>7, <2>8, <2>9
<1>7. ASSUME NEW p \in lost' \ lost
      PROVE  p \in (Conn \ closed) \X Events /\ ~Given(p[2], p[1])
  <2>1. PICK d \in Conn, e \in Events : p = <<d, e>>
    BY <1>4
  <2>2. Refused(e, d)' /\ ~Refused(e, d)
    BY <2>1 DEF Refused
  <2>3. d = c /\ c \notin closed /\ InDelivery(w, e, c)
    BY <1>4, <2>2
  <2>4. ~Given(e, d)
    BY <1>3, <2>3 DEF OnceForClient
  <2> QED
    BY <2>1, <2>3, <2>4
<1>8. \A d \in Conn : \A e : Given(e, d) \/ Refused(e, d) => Given(e, d)' \/ Refused(e, d)'
  <2>1. \A d \in Conn : \A e : d # c => (Given(e, d)' <=> Given(e, d))
    BY <1>4 DEF Given, Within
  <2> QED
    BY <1>4, <2>1 DEF Refused
<1>9. Unsettled' = {p \in Unsettled : ~(Given(p[2], p[1])' \/ Refused(p[2], p[1])')}
  BY <1>1, <1>2, <1>8 DEF Unsettled
<1>10. OnWayMap' = {p \in OnWayMap : ~(Given(p[2], p[1])' \/ Refused(p[2], p[1])')}
  BY <1>9, OnWayIs, OnWayIsThen
<1>11. \A d, e : (B!GivenTo(d, e) <=> Given(e, d)) /\ (B!GivenTo(d, e)' <=> Given(e, d)')
  BY DEF B!GivenTo, Given, Within
<1>12. \A d, e : B!Fate(d, e)' <=> Given(e, d)' \/ Refused(e, d)'
  BY <1>11 DEF B!Fate, B!GivenTo, Given, Within, Refused
<1>13. OnWayMap' = {p \in OnWayMap : ~B!Fate(p[1], p[2])'}
  BY <1>10, <1>12
<1>14. Len(PostsMap) = Len(sent) /\ Events = 1..Len(sent)
       /\ \A e \in Events : PostsMap[e].barred = {sent[e].from}
  <2>1. Len(sent) \in Nat
    BY <1>3, LenProperties, TypesParts DEF EventTypes
  <2> QED
    BY <2>1 DEF PostsMap, Events
<1>15. \A d \in Conn :
          /\ Len(given[d]) <= Len(given'[d]) /\ \A i \in 1..Len(given[d]) : given'[d][i] = given[d][i]
          /\ \A i \in Len(given[d]) + 1..Len(given'[d]) :
                /\ d \notin closed
                /\ given'[d][i] \in 1..Len(PostsMap) /\ d \notin PostsMap[given'[d][i]].barred
                /\ \A j \in 1..i - 1 : given'[d][j] # given'[d][i]
                /\ <<d, given'[d][i]>> \notin lost'
  <2>1. ASSUME NEW e \in Events, NEW d, d # sent[e].from PROVE e \in 1..Len(PostsMap) /\ d \notin PostsMap[e].barred
    BY <1>14, <2>1
  <2>2. ASSUME NEW d \in Conn, NEW i \in Len(given[d]) + 1..Len(given'[d])
        PROVE  given'[d][i] \in 1..Len(PostsMap) /\ d \notin PostsMap[given'[d][i]].barred
    BY <1>6, <2>1
  <2> QED
    BY <1>4, <1>6, <2>2
<1>16. \A p \in lost' \ lost : p \in (Conn \ closed) \X (1..Len(PostsMap)) /\ ~B!GivenTo(p[1], p[2])
  BY <1>7, <1>11, <1>14
<1> QED
  BY <1>1, <1>2, <1>4, <1>13, <1>15, <1>16 DEF B!Give, PostsMap, OnWayMap

(* Every step of the threads is a step of Broadcast, or none.                *)
LEMMA StepsOfBroadcast ==
    ASSUME V3Inv, V3Inv', [Next]_vars
    PROVE  [B!BroadcastNext]_(B!broadcastVars)
<1>1. ASSUME UNCHANGED <<sent, closed, given, lost>> PROVE UNCHANGED B!broadcastVars
  BY <1>1, NothingHappens
<1>2. ASSUME NEW t \in Thread, NEW c \in Conn, CloseConn(t, c) PROVE [B!BroadcastNext]_(B!broadcastVars)
  <2>1. CASE Exchange(t, c)
    BY <2>1, ExchangeLeaves DEF B!BroadcastNext
  <2>2. CASE BroadcastLeft(t, c)
    BY <1>1, <2>2, BroadcastSpeaks DEF BroadcastLeft, WakeReactor, fateVars, B!BroadcastNext
  <2>3. CASE OnClientDisconnect(t, c) \/ EraseConn(t, c)
    BY <1>1, <2>3 DEF OnClientDisconnect, EraseConn, busVars, fateVars
  <2> QED
    BY <1>2, <2>1, <2>2, <2>3 DEF CloseConn
<1>3. CASE Net
  <2>1. "net" \in Thread
    BY DEF Thread
  <2>2. ASSUME NEW c \in Conn, CloseConn("net", c) PROVE [B!BroadcastNext]_(B!broadcastVars)
    BY <1>2, <2>1, <2>2
  <2>3. CASE ~\E c \in Conn : CloseConn("net", c)
    <3>1. UNCHANGED <<sent, closed, given, lost>>
      BY <1>3, <2>3 DEF Net, accept_loop, handle_read, StartClose, handle_write, flush_queue, ReadNotify,
                        process_global_queue, busVars, fateVars
    <3> QED
      BY <1>1, <3>1
  <2> QED
    BY <2>2, <2>3
<1>4. ASSUME NEW w \in Worker, Work(w) PROVE [B!BroadcastNext]_(B!broadcastVars)
  <2>1. w \in Thread
    BY DEF Thread
  <2>2. ASSUME NEW c \in Conn, BroadcastMessage(w, c) PROVE [B!BroadcastNext]_(B!broadcastVars)
    BY <1>1, <2>2, BroadcastSpeaks DEF BroadcastMessage, WakeReactor, fateVars, B!BroadcastNext
  <2>3. ASSUME NEW c \in Conn, Deliver(w, c) PROVE [B!BroadcastNext]_(B!broadcastVars)
    BY <2>3, DeliverGives DEF B!BroadcastNext
  <2>4. CASE TakeTask(w) \/ Snapshot(w)
    BY <1>1, <2>4 DEF TakeTask, Snapshot, busVars, fateVars
  <2>5. ASSUME NEW c \in Conn, OnMessageRecv(w, c) \/ SetUsername(w, c) \/ Reply(w, c)
        PROVE  [B!BroadcastNext]_(B!broadcastVars)
    BY <1>1, <2>5 DEF OnMessageRecv, SetUsername, Reply, busVars, fateVars
  <2> QED
    BY <1>2, <1>4, <2>1, <2>2, <2>3, <2>4, <2>5 DEF Work
<1>5. CASE UNCHANGED vars
  BY <1>1, <1>5 DEF vars, busVars, fateVars
<1> QED
  BY <1>3, <1>4, <1>5 DEF Next

(* The queue of the reactor, the tasks of the shards and the workers that    *)
(* run them give everybody each broadcast as Broadcast has it.               *)
THEOREM V3ImplementsBroadcast == Spec => ImplementsBroadcast
<1>1. Init => B!BroadcastInit
  <2> SUFFICES ASSUME Init PROVE B!BroadcastInit
    OBVIOUS
  <2>1. sent = <<>> /\ closed = {} /\ lost = {} /\ given = [c \in Conn |-> <<>>]
    BY DEF Init
  <2>2. Events = {}
    BY <2>1 DEF Events
  <2>3. PostsMap = <<>> /\ OnWayMap = {}
    BY <2>2 DEF PostsMap, OnWayMap
  <2> QED
    BY <2>1, <2>3 DEF B!BroadcastInit, PostsMap, OnWayMap
<1>2. V3Inv /\ V3Inv' /\ [Next]_vars => [B!BroadcastNext]_(B!broadcastVars)
  BY StepsOfBroadcast
<1> QED
  BY <1>1, <1>2, V3Invariant, PTL DEF Spec, ImplementsBroadcast, B!BroadcastSpec

(* So nobody is forgotten, and nobody is given twice what the tasks bring,   *)
(* what a full queue refused, or a line of his own.                          *)
THEOREM V3KeepsItsWord == Spec => [](B!NobodyForgotten /\ B!HeardOnce)
<1>1. V3Inv => B!NobodyForgotten /\ B!HeardOnce
  <2> SUFFICES ASSUME V3Inv PROVE B!NobodyForgotten /\ B!HeardOnce
    OBVIOUS
  <2>1. sent \in Seq(Post) /\ Len(sent) \in Nat /\ given \in [Conn -> Seq(Events)]
    BY LenProperties, TypesParts DEF V3Inv, EventTypes
  <2>2. /\ Len(PostsMap) = Len(sent)
        /\ \A e \in Events : PostsMap[e].due = sent[e].due /\ PostsMap[e].barred = {sent[e].from}
    BY <2>1 DEF PostsMap, Events
  <2>3. ASSUME NEW e \in Events PROVE sent[e].due \subseteq Conn
    <3>1. sent[e] \in Post
      BY <2>1, ElementOfSeq DEF Events
    <3> QED
      BY <3>1 DEF Post
  <2>4. \A c, e : B!Fate(c, e) <=> Given(e, c) \/ Refused(e, c)
    BY DEF B!Fate, B!GivenTo, Given, Refused, Within
  <2>5. ASSUME NEW e \in Events, NEW c \in PostsMap[e].due \ closed
        PROVE  B!Fate(c, e) \/ <<c, e>> \in OnWayMap
    <3>1. c \in sent[e].due \ closed /\ c \in Conn
      BY <2>2, <2>3
    <3>2. Given(e, c) \/ Refused(e, c) \/ <<c, e>> \in Unsettled
      BY <3>1 DEF Unsettled
    <3> QED
      BY <2>4, <3>2, OnWayIs
  <2>6. B!NobodyForgotten
    BY <2>2, <2>5 DEF B!NobodyForgotten, PostsMap, OnWayMap, Events
  <2>7. ASSUME NEW c \in Conn, NEW i \in 1..Len(given[c])
        PROVE  /\ \A j \in 1..i - 1 : given[c][j] # given[c][i]
               /\ <<c, given[c][i]>> \notin lost
               /\ given[c][i] \in Events /\ c \notin PostsMap[given[c][i]].barred
    <3>1. Len(given[c]) \in Nat /\ given[c][i] \in Events
      BY <2>1, LenProperties, ElementOfSeq
    <3>2. \A j \in 1..i - 1 : j \in 1..Len(given[c]) /\ j # i
      BY <3>1
    <3>3. IsInjective(given[c])
      BY DEF V3Inv, BusInv, Injective
    <3>4. \A j \in 1..i - 1 : given[c][j] # given[c][i]
      <4>1. DOMAIN given[c] = 1..Len(given[c])
        BY <2>1, LenProperties
      <4> QED
        BY <3>2, <3>3, <4>1 DEF IsInjective
    <3>5. Given(given[c][i], c)
      BY DEF Given, Within
    <3>6. <<c, given[c][i]>> \notin lost
      BY <3>5 DEF V3Inv, BusInv, RefusedOnce, Refused
    <3>7. sent[given[c][i]].from # c
      BY <3>1, <3>5 DEF V3Inv, BusInv, NotOwnGiven
    <3> QED
      BY <2>2, <3>1, <3>4, <3>6, <3>7
  <2>8. B!HeardOnce
    BY <2>2, <2>7 DEF B!HeardOnce, PostsMap, Events
  <2> QED
    BY <2>6, <2>8
<1> QED
  BY <1>1, V3Invariant, PTL

=============================================================================
