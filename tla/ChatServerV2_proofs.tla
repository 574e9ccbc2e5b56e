------------------------ MODULE ChatServerV2_proofs ------------------------
(* Version 2 keeps names, array entries and broadcasts right, for any number *)
(* of connections, descriptors, workers and lines.                           *)
EXTENDS ChatServerV2, FiniteSetTheorems, SequenceTheorems, WellFoundedInduction, TLAPS

(* Every set of numbers has a least one.                                     *)
LEMMA LeastNumber ==
    ASSUME NEW T, T \subseteq Nat, T # {}
    PROVE  \E x \in T : \A y \in T : x <= y
<1> DEFINE R == OpToRel(<, Nat)
<1>1. IsWellFoundedOn(R, Nat)
  BY NatLessThanWellFounded
<1>2. \A x, y \in Nat : x < y => <<x, y>> \in R
  BY DEF OpToRel
<1> HIDE DEF R
<1>3. PICK x \in T : \A y \in T : ~(<<y, x>> \in R)
  BY <1>1, WFMin
<1>4. \A y \in T : ~(y < x)
  BY <1>2, <1>3
<1> QED
  BY <1>3, <1>4

(* Induction over numbers, for a set.                                        *)
LEMMA SetInduction ==
    ASSUME NEW T, 0 \in T, \A n \in Nat : n \in T => n + 1 \in T
    PROVE  Nat \subseteq T
<1> SUFFICES ASSUME Nat \ T # {} PROVE FALSE
  OBVIOUS
<1>1. PICK x \in Nat \ T : \A y \in Nat \ T : x <= y
  BY LeastNumber, Nat \ T \subseteq Nat
<1>2. x - 1 \in Nat /\ x - 1 \notin Nat \ T /\ (x - 1) + 1 = x
  BY <1>1
<1> QED
  BY <1>1, <1>2

Post == [kind: {"join", "chat", "leave"}, from: Conn, sender_fd: Fd \cup {None},
         late: BOOLEAN, due: SUBSET Conn]

Types ==
    /\ TypeOK /\ said \in Seq(Post)
    /\ \A w \in Worker : work[w].pc # "idle" => work[w].conn \in Conn /\ Active(work[w].conn)

(* Who points to whom.  An entry of the map is a connection on that number,  *)
(* who is logged in or closed was accepted, who is open is in the map, and   *)
(* who is closed is there only while close_conn is at work on it.  The       *)
(* reactor serves connections that are open, and in the map until the end.   *)
Serving(c) == net.conn = c /\ net.pc \in {"read", "write", "close", "closing"}

Pointers ==
    /\ \A f \in Fd : connections_[f] # None => fd[connections_[f]] = f
    /\ \A c \in Conn : Active(c) \/ c \in closed => fd[c] # None
    /\ \A c \in Conn : fd[c] # None /\ c \notin closed => InMap(c)
    /\ \A c \in Conn : c \in closed /\ InMap(c) => net = At("closing", c)
    /\ net.pc \in {"read", "write", "close", "closing"} => net.conn \in Conn /\ InMap(net.conn)
    /\ net.pc \in {"read", "write", "close"} => net.conn \notin closed
    /\ net.pc = "closing" => net.conn \in closed

(* What is left of the array is about connections in the map, each on the    *)
(* number of its entry, and never the one that is being served.              *)
Entries ==
    /\ \A e \in batch : e.kind \in {"io", "hup"} =>
          /\ e.for \in Conn /\ e.fd \in Fd
          /\ connections_[e.fd] = e.for
          /\ ~Serving(e.for)
    /\ \A e \in batch : e.kind \notin {"io", "hup"} => e.for = None
    /\ \A e, f \in batch : e.fd = f.fd /\ e.fd # None => e = f

(* What is said of a broadcast.  Nobody it is due to has the number it       *)
(* carries, unless its speaker was closed first.                             *)
Late(m) == said[m].kind = "chat" /\ said[m].late

Posts ==
    \A m \in Said :
        /\ Active(said[m].from)
        /\ said[m].sender_fd = IF said[m].kind = "chat" THEN fd[said[m].from] ELSE None
        /\ \A d \in said[m].due : Active(d)
        /\ ~Late(m) => \A d \in said[m].due : said[m].sender_fd # fd[d]

Wakeup == broadcast_queue_ # <<>> => WakeupPending

(* The queue goes on where what was given ends.                              *)
Increasing(queue) == \A i, j \in 1..Len(queue) : i < j => queue[i] < queue[j]

Order ==
    /\ Increasing(broadcast_queue_)
    /\ \A c \in Conn : Increasing(given[c])
    /\ \A c \in Conn, m, n \in Said : Within(m, given[c]) /\ Within(n, broadcast_queue_) => m < n
    /\ \A c \in Conn, m \in Said : Within(m, given[c]) /\ said[m].kind = "chat" => said[m].from # c

NothingLost ==
    \A m \in Said : \A c \in said[m].due \ closed :
        fd[c] # said[m].sender_fd => Within(m, given[c]) \/ Within(m, broadcast_queue_)

Watched == out_buf \ closed \subseteq armed

(* The story of one client: it is said to join when it logs in, and to leave *)
(* when close_conn is done with it.                                          *)
Joined == \A c \in Conn : Active(c) => \E i \in Said : said[i].kind = "join" /\ said[i].from = c

Left == \A i \in Said : said[i].kind = "leave" => said[i].from \in closed /\ net # At("closing", said[i].from)

JoinsFirst ==
    /\ \A i, j \in Said : i < j /\ said[i].from = said[j].from => said[j].kind # "join"
    /\ \A j \in Said : said[j].kind # "join" =>
          \E i \in 1..j - 1 : said[i].kind = "join" /\ said[i].from = said[j].from

LeavesLast ==
    \A i, j \in Said : i < j /\ said[i].from = said[j].from /\ said[i].kind = "leave" => Late(j)

(* A late line is that of a worker which had it in hand when its speaker was *)
(* closed: it takes no other of his.                                         *)
Holding(c) == {w \in Worker : work[w] = At("queue", c)}

LateLimited ==
    /\ \A c \in Conn \ closed : LateLines(c) = {}
    /\ \A c \in Conn : Cardinality(LateLines(c)) + Cardinality(Holding(c)) <= Cardinality(Worker)

Story == Joined /\ Left /\ JoinsFirst /\ LeavesLast /\ LateLimited

V2Inv ==
    /\ Types /\ Pointers /\ Entries /\ NamesExact
    /\ Posts /\ Wakeup /\ Order /\ NothingLost /\ Watched /\ Story

-----------------------------------------------------------------------------
(* Queues.                                                                   *)

(* What is appended comes last.                                              *)
LEMMA WithinAppend ==
    ASSUME NEW S, NEW q \in Seq(S), NEW x \in S
    PROVE  /\ Append(q, x) \in Seq(S)
           /\ \A e : Within(e, Append(q, x)) <=> Within(e, q) \/ e = x
<1>1. /\ Append(q, x) \in Seq(S) /\ Len(Append(q, x)) = Len(q) + 1 /\ Len(q) \in Nat
      /\ \A i \in 1..Len(q) : Append(q, x)[i] = q[i]
      /\ Append(q, x)[Len(q) + 1] = x
  BY AppendProperties, LenProperties
<1> DEFINE p == Append(q, x)  k == Len(q)
<1>2. /\ p \in Seq(S) /\ Len(p) = k + 1 /\ k \in Nat /\ p[k + 1] = x
      /\ \A i \in 1..k : p[i] = q[i]
  BY <1>1
<1> HIDE DEF p
<1>3. \A e : Within(e, p) <=> Within(e, q) \/ e = x
  BY <1>2 DEF Within
<1> QED
  BY <1>2, <1>3 DEF p

(* A number that is greater than all before keeps a queue in order.          *)
LEMMA IncreasingAppend ==
    ASSUME NEW q \in Seq(Nat), NEW x \in Nat, Increasing(q), \A e : Within(e, q) => e < x
    PROVE  Increasing(Append(q, x))
<1>1. /\ Len(Append(q, x)) = Len(q) + 1 /\ Len(q) \in Nat
      /\ \A i \in 1..Len(q) : Append(q, x)[i] = q[i]
      /\ Append(q, x)[Len(q) + 1] = x
  BY AppendProperties, LenProperties
<1> DEFINE p == Append(q, x)  k == Len(q)
<1>2. Len(p) = k + 1 /\ k \in Nat /\ p[k + 1] = x /\ \A i \in 1..k : p[i] = q[i]
  BY <1>1
<1> HIDE DEF p
<1>3. ASSUME NEW i \in 1..Len(p), NEW j \in 1..Len(p), i < j PROVE p[i] < p[j]
  <2>1. i \in 1..k /\ p[i] = q[i]
    BY <1>2, <1>3
  <2>2. CASE j \in 1..k
    BY <1>2, <1>3, <2>1, <2>2 DEF Increasing
  <2>3. CASE j = k + 1
    <3>1. Within(q[i], q)
      BY <2>1 DEF Within
    <3> QED
      BY <1>2, <2>1, <2>3, <3>1
  <2> QED
    BY <1>2, <2>2, <2>3
<1> QED
  BY <1>3 DEF Increasing, p

(* Two queues in order, of which all of the second is greater.               *)
LEMMA ConcatFacts ==
    ASSUME NEW S, NEW p \in Seq(S), NEW q \in Seq(S)
    PROVE  /\ p \o q \in Seq(S)
           /\ \A e : Within(e, p \o q) <=> Within(e, p) \/ Within(e, q)
           /\ /\ S \subseteq Nat /\ Increasing(p) /\ Increasing(q)
              /\ \A m, n : Within(m, p) /\ Within(n, q) => m < n
              => Increasing(p \o q)
<1> DEFINE r == p \o q  a == Len(p)  b == Len(q)
<1>1. /\ r \in Seq(S) /\ Len(r) = a + b /\ a \in Nat /\ b \in Nat
      /\ \A i \in 1..(a + b) : r[i] = IF i <= a THEN p[i] ELSE q[i - a]
  BY ConcatProperties, LenProperties
<1> HIDE DEF r
<1>2. \A i \in 1..a : i \in 1..(a + b) /\ r[i] = p[i]
  BY <1>1
<1>3. \A i \in 1..b : a + i \in 1..(a + b) /\ r[a + i] = q[i]
  <2> TAKE i \in 1..b
  <2>1. a + i \in 1..(a + b) /\ ~(a + i <= a) /\ (a + i) - a = i
    BY <1>1
  <2> QED
    BY <1>1, <2>1
<1>4. \A i \in 1..(a + b) : i \in 1..a \/ \E j \in 1..b : i = a + j
  <2> TAKE i \in 1..(a + b)
  <2>1. ~(i <= a) => i - a \in 1..b /\ i = a + (i - a)
    BY <1>1
  <2> QED
    BY <1>1, <2>1
<1>5. ASSUME NEW e PROVE Within(e, r) <=> Within(e, p) \/ Within(e, q)
  <2>1. Within(e, p) \/ Within(e, q) => Within(e, r)
    BY <1>1, <1>2, <1>3 DEF Within
  <2>2. ASSUME NEW i \in 1..(a + b), r[i] = e PROVE Within(e, p) \/ Within(e, q)
    <3>1. CASE i \in 1..a
      BY <1>2, <2>2, <3>1 DEF Within
    <3>2. CASE \E j \in 1..b : i = a + j
      BY <1>3, <2>2, <3>2 DEF Within
    <3> QED
      BY <1>4, <3>1, <3>2
  <2> QED
    BY <1>1, <2>1, <2>2 DEF Within
<1>6. ASSUME S \subseteq Nat, Increasing(p), Increasing(q),
             \A m, n : Within(m, p) /\ Within(n, q) => m < n,
             NEW i \in 1..(a + b), NEW j \in 1..(a + b), i < j
      PROVE  r[i] < r[j]
  <2>1. CASE i \in 1..a /\ j \in 1..a
    BY <1>2, <1>6, <2>1 DEF Increasing
  <2>2. CASE i \in 1..a /\ \E y \in 1..b : j = a + y
    <3>1. PICK y \in 1..b : j = a + y
      BY <2>2
    <3>2. Within(p[i], p) /\ Within(q[y], q)
      BY <2>2 DEF Within
    <3> QED
      BY <1>2, <1>3, <1>6, <2>2, <3>1, <3>2
  <2>3. CASE \E x, y \in 1..b : i = a + x /\ j = a + y
    <3>1. PICK x, y \in 1..b : i = a + x /\ j = a + y
      BY <2>3
    <3>2. x < y
      BY <1>1, <1>6, <3>1
    <3> QED
      BY <1>3, <1>6, <3>1, <3>2 DEF Increasing
  <2>4. CASE (\E x \in 1..b : i = a + x) /\ j \in 1..a
    BY <1>1, <1>6, <2>4
  <2> QED
    BY <1>4, <2>1, <2>2, <2>3, <2>4
<1> QED
  BY <1>1, <1>5, <1>6 DEF r, Increasing

-----------------------------------------------------------------------------
(* What handle_broadcasts leaves out.                                        *)

(* A choice of the first m of the queue, as the loop makes it.               *)
ChoiceOf(f, c, queue, m) ==
    /\ f = [n \in 0..m |-> f[n]]
    /\ f[0] = <<>>
    /\ \A n \in 1..m : f[n] = IF said[queue[n]].sender_fd # fd[c] THEN Append(f[n - 1], queue[n])
                              ELSE f[n - 1]

(* What is chosen is of the queue, all of it that does not carry the number  *)
(* of the client, in its order.                                              *)
Chosen(chosen, c, queue, m) ==
    /\ chosen \in Seq(Nat)
    /\ \A e : Within(e, chosen) <=> \E i \in 1..m : queue[i] = e /\ said[e].sender_fd # fd[c]
    /\ Increasing(queue) => Increasing(chosen)

(* Such a choice is right.                                                   *)
LEMMA ChoicesGood ==
    ASSUME NEW c, NEW queue \in Seq(Nat), NEW f, ChoiceOf(f, c, queue, Len(queue))
    PROVE  Chosen(f[Len(queue)], c, queue, Len(queue))
<1> DEFINE k == Len(queue)
           T == {m \in Nat : m <= k => Chosen(f[m], c, queue, m)}
<1>0. k \in Nat
  BY LenProperties
<1>1. 0 \in T
  <2>1. f[0] = <<>>
    BY DEF ChoiceOf
  <2>2. <<>> \in Seq(Nat) /\ Len(<<>>) = 0
    OBVIOUS
  <2>3. \A e : ~Within(e, <<>>)
    BY <2>2 DEF Within
  <2>4. Increasing(<<>>)
    BY <2>2 DEF Increasing
  <2>5. \A e : ~\E i \in 1..0 : queue[i] = e /\ said[e].sender_fd # fd[c]
    OBVIOUS
  <2>6. Chosen(<<>>, c, queue, 0)
    BY <2>2, <2>3, <2>4, <2>5 DEF Chosen
  <2> QED
    BY <2>1, <2>6
<1>2. ASSUME NEW m \in Nat, m \in T PROVE m + 1 \in T
  <2> SUFFICES ASSUME m + 1 <= k PROVE Chosen(f[m + 1], c, queue, m + 1)
    OBVIOUS
  <2>1. Chosen(f[m], c, queue, m) /\ m + 1 \in 1..k /\ (m + 1) - 1 = m
    BY <1>0, <1>2
  <2> DEFINE x == queue[m + 1]
  <2>2. x \in Nat
    BY <2>1, ElementOfSeq
  <2>3. f[m + 1] = IF said[x].sender_fd # fd[c] THEN Append(f[m], x) ELSE f[m]
    BY <2>1 DEF ChoiceOf
  <2>4. \A e : (\E i \in 1..(m + 1) : queue[i] = e /\ said[e].sender_fd # fd[c])
               <=> \/ \E i \in 1..m : queue[i] = e /\ said[e].sender_fd # fd[c]
                   \/ x = e /\ said[e].sender_fd # fd[c]
    <3>1. 1..(m + 1) = 1..m \cup {m + 1}
      OBVIOUS
    <3> QED
      BY <3>1
  <2>5. Increasing(queue) => \A i \in 1..m : queue[i] < x
    BY <2>1, <1>0 DEF Increasing
  <2> HIDE DEF x
  <2>6. CASE said[x].sender_fd # fd[c]
    <3>1. f[m] \in Seq(Nat)
      BY <2>1 DEF Chosen
    <3>2. /\ Append(f[m], x) \in Seq(Nat)
          /\ \A e : Within(e, Append(f[m], x)) <=> Within(e, f[m]) \/ e = x
      BY <3>1, <2>2, WithinAppend
    <3>3. f[m + 1] = Append(f[m], x)
      BY <2>3, <2>6
    <3>4. ASSUME Increasing(queue) PROVE Increasing(Append(f[m], x))
      <4>1. \A e : Within(e, f[m]) => e < x
        BY <2>1, <2>5, <3>4 DEF Chosen
      <4>2. Increasing(f[m])
        BY <2>1, <3>4 DEF Chosen
      <4> QED
        BY <2>2, <3>1, <4>1, <4>2, IncreasingAppend
    <3> QED
      BY <2>1, <2>4, <2>6, <3>2, <3>3, <3>4 DEF Chosen
  <2>7. CASE ~(said[x].sender_fd # fd[c])
    BY <2>1, <2>3, <2>4, <2>7 DEF Chosen
  <2> QED
    BY <2>6, <2>7
<1>3. Nat \subseteq T
  <2> HIDE DEF T
  <2> QED
    BY <1>1, <1>2, SetInduction
<1> QED
  BY <1>0, <1>3

(* For, that handle_broadcasts gives to the client, is one.                  *)
LEMMA ForChosen ==
    ASSUME NEW c, broadcast_queue_ \in Seq(Nat)
    PROVE  Chosen(For(c), c, broadcast_queue_, Len(broadcast_queue_))
<1> DEFINE queue == broadcast_queue_
           k == Len(queue)
           Is(f) == f = [n \in 0..k |-> IF n = 0 THEN <<>>
                                        ELSE IF said[queue[n]].sender_fd # fd[c]
                                             THEN Append(f[n - 1], queue[n]) ELSE f[n - 1]]
           T == {m \in Nat : m <= k => \E f : ChoiceOf(f, c, queue, m)}
<1>0. k \in Nat
  BY LenProperties
<1>1. 0 \in T
  <2>1. ChoiceOf([n \in 0..0 |-> <<>>], c, queue, 0)
    BY DEF ChoiceOf
  <2> QED
    BY <2>1
<1>2. ASSUME NEW m \in Nat, m \in T PROVE m + 1 \in T
  <2> SUFFICES ASSUME m + 1 <= k PROVE \E f : ChoiceOf(f, c, queue, m + 1)
    OBVIOUS
  <2>1. PICK f : ChoiceOf(f, c, queue, m)
    BY <1>0, <1>2
  <2> DEFINE next == IF said[queue[m + 1]].sender_fd # fd[c] THEN Append(f[m], queue[m + 1]) ELSE f[m]
             g == [n \in 0..(m + 1) |-> IF n <= m THEN f[n] ELSE next]
  <2>2. g = [n \in 0..(m + 1) |-> g[n]] /\ g[0] = <<>>
    BY <2>1 DEF ChoiceOf
  <2>3. \A n \in 1..(m + 1) : g[n] = IF said[queue[n]].sender_fd # fd[c]
                                     THEN Append(g[n - 1], queue[n]) ELSE g[n - 1]
    <3> TAKE n \in 1..(m + 1)
    <3>1. CASE n <= m
      <4>1. n \in 1..m /\ n - 1 \in 0..(m + 1) /\ n - 1 <= m /\ n \in 0..(m + 1)
        BY <3>1
      <4>2. g[n] = f[n] /\ g[n - 1] = f[n - 1]
        BY <3>1, <4>1
      <4> HIDE DEF g
      <4> QED
        BY <4>1, <4>2, <2>1 DEF ChoiceOf
    <3>2. CASE n = m + 1
      <4>1. g[m + 1] = next /\ g[m] = f[m] /\ (m + 1) - 1 = m
        OBVIOUS
      <4> HIDE DEF g
      <4> QED
        BY <3>2, <4>1
    <3> QED
      BY <3>1, <3>2
  <2> HIDE DEF g
  <2> QED
    BY <2>2, <2>3 DEF ChoiceOf
<1>3. Nat \subseteq T
  <2> HIDE DEF T
  <2> QED
    BY <1>1, <1>2, SetInduction
<1>4. PICK f : ChoiceOf(f, c, queue, k)
  BY <1>0, <1>3
<1>5. Is(f)
  <2>1. f = [n \in 0..k |-> f[n]]
    BY <1>4 DEF ChoiceOf
  <2>2. \A n \in 0..k : n # 0 => n \in 1..k
    BY <1>0
  <2> HIDE DEF k
  <2> QED
    BY <1>4, <2>1, <2>2 DEF ChoiceOf
<1>6. \E g : Is(g)
  BY <1>5
<1>7. Is(CHOOSE g : Is(g))
  <2> HIDE DEF Is
  <2> QED
    BY <1>6
<1>8. For(c) = (CHOOSE g : Is(g))[k]
  BY DEF For
<1> DEFINE h == CHOOSE g : Is(g)
<1>9. ChoiceOf(h, c, queue, k)
  <2>1. Is(h)
    BY <1>7
  <2> HIDE DEF h
  <2>2. h = [n \in 0..k |-> h[n]] /\ h[0] = <<>>
    BY <2>1, <1>0
  <2>3. ASSUME NEW n \in 1..k
        PROVE  h[n] = IF said[queue[n]].sender_fd # fd[c] THEN Append(h[n - 1], queue[n]) ELSE h[n - 1]
    <3>1. n \in 0..k /\ n # 0
      BY <1>0
    <3> QED
      BY <2>1, <3>1
  <2> QED
    BY <2>2, <2>3 DEF ChoiceOf
<1> QED
  BY <1>8, <1>9, ChoicesGood

-----------------------------------------------------------------------------
(* Where a thread is.                                                        *)

(* A place is what it was made of.                                           *)
LEMMA AtFacts ==
    /\ \A p, c : At(p, c).pc = p /\ At(p, c).conn = c
    /\ \A p, c, q, d : At(p, c) = At(q, d) <=> p = q /\ c = d
<1>1. \A p, c : At(p, c).pc = p /\ At(p, c).conn = c
  BY DEF At
<1> QED
  BY <1>1

(* The places of the threads.                                                *)
LEMMA PlaceFacts ==
    ASSUME Types
    PROVE  /\ net = At(net.pc, net.conn) /\ net.pc \in NetPCs /\ net.conn \in Conn \cup {None}
           /\ work \in [Worker -> [pc: {"idle", "check", "queue", "notify"}, conn: Conn \cup {None}]]
           /\ \A w \in Worker : work[w] = At(work[w].pc, work[w].conn)
<1>1. /\ net \in [pc: NetPCs, conn: Conn \cup {None}]
      /\ work \in [Worker -> [pc: {"idle", "check", "queue", "notify"}, conn: Conn \cup {None}]]
  BY DEF Types, TypeOK
<1> QED
  BY <1>1 DEF At

(* The handler of an entry serves the connection that it is about.           *)
LEMMA HandlerFacts ==
    ASSUME Types, Entries, NEW e \in batch
    PROVE  \/ e.kind = "listen" /\ Handler(e) = At("accept", None)
           \/ e.kind = "notify" /\ Handler(e) = At("broadcast", None)
           \/ /\ e.kind \in {"io", "hup"} /\ e.for \in Conn /\ e.fd \in Fd
              /\ connections_[e.fd] = e.for
              /\ Handler(e) \in {At("close", e.for), At("read", e.for)}
<1>1. e.kind \in {"io", "hup", "listen", "notify"}
  BY DEF Types, TypeOK
<1>2. CASE e.kind = "listen"
  BY <1>2 DEF Handler
<1>3. CASE e.kind = "notify"
  BY <1>3 DEF Handler
<1>4. CASE e.kind \in {"io", "hup"}
  <2>1. /\ e.for \in Conn /\ e.fd \in Fd /\ connections_[e.fd] = e.for /\ e.for # None
    BY <1>4, ChatServerV2Assumption DEF Entries
  <2>2. Handler(e) = At(IF e.kind = "hup" THEN "close" ELSE "read", connections_[e.fd])
    BY <1>4, <2>1 DEF Handler
  <2> QED
    BY <1>4, <2>1, <2>2
<1> QED
  BY <1>1, <1>2, <1>3, <1>4

-----------------------------------------------------------------------------
(* What is said.                                                             *)

Joining(c, name) == ReadLogin(c, name) /\ name \notin usernames_ /\ name # Empty
Leaving(c) == CloseRest(c) /\ Active(c)

(* Nothing is said but when a client joins, leaves or speaks.                *)
LEMMA SaidFrame ==
    ASSUME [Next]_vars
    PROVE  \/ \E c \in Conn, name \in Text \cup {Empty} : Joining(c, name)
           \/ \E c \in Conn : Leaving(c)
           \/ \E w \in Worker : QueueLine(w)
           \/ /\ UNCHANGED <<said, username>>
              /\ handle_broadcasts \/ UNCHANGED <<broadcast_queue_, given>>
              /\ usernames_' = usernames_ \/ \E c \in Conn : CloseRest(c)
<1> DEFINE Frame == /\ UNCHANGED <<said, username>>
                    /\ handle_broadcasts \/ UNCHANGED <<broadcast_queue_, given>>
                    /\ usernames_' = usernames_ \/ \E c \in Conn : CloseRest(c)
         <1>1. CASE EpollWait \/ Dispatch \/ AcceptEnd \/ \E c \in Conn, f \in Fd : Accept(c, f)
  BY <1>1 DEF EpollWait, Dispatch, AcceptEnd, Accept, nameVars, writeVars, busVars
<1>2. CASE handle_broadcasts
  BY <1>2 DEF handle_broadcasts, nameVars
<1>3. ASSUME NEW c \in Conn, NEW name \in Text \cup {Empty}, ReadLogin(c, name), ~Joining(c, name) PROVE Frame
  BY <1>3 DEF Joining, ReadLogin, nameVars, writeVars, busVars
<1>4. ASSUME NEW c \in Conn, CloseRest(c), ~Leaving(c) PROVE Frame
  BY <1>4 DEF Leaving, CloseRest, writeVars, busVars
<1>5. CASE \E c \in Conn : ReadChat(c) \/ ReadEnd(c) \/ CloseFlag(c)
  BY <1>5 DEF ReadChat, ReadEnd, CloseFlag, nameVars, writeVars, busVars
<1>6. CASE \E c \in Conn : handle_write(c)
  BY <1>6 DEF handle_write, nameVars, busVars
<1>7. CASE \E w \in Worker : TakeTask(w) \/ Check(w) \/ Notify(w)
  BY <1>7 DEF TakeTask, Check, Notify, nameVars, writeVars, busVars
<1>8. CASE UNCHANGED vars
  BY <1>8 DEF vars, nameVars, writeVars, busVars
<1> QED
  BY <1>1, <1>2, <1>3, <1>4, <1>5, <1>6, <1>7, <1>8 DEF Next, Net, Work

(* What queue_broadcast_message adds.                                        *)
LEMMA SayFacts ==
    ASSUME Types, NEW kind \in {"join", "chat", "leave"}, NEW c \in Conn, NEW s \in Fd \cup {None},
           queue_broadcast_message(kind, c, s)
    PROVE  /\ Len(said) \in Nat /\ Len(said') = Len(said) + 1 /\ said' \in Seq(Post)
           /\ Said' = Said \cup {Len(said) + 1} /\ Len(said) + 1 \notin Said
           /\ \A i \in Said : said'[i] = said[i]
           /\ said'[Len(said) + 1] = [kind |-> kind, from |-> c, sender_fd |-> s, late |-> c \in closed,
                                      due |-> {d \in Conn \ {c} : Active(d) /\ d \notin closed}]
           /\ broadcast_queue_' = Append(broadcast_queue_, Len(said) + 1)
           /\ broadcast_queue_ \in Seq(Said') /\ broadcast_queue_' \in Seq(Said')
           /\ \A e : Within(e, broadcast_queue_') <=> Within(e, broadcast_queue_) \/ e = Len(said) + 1
<1> DEFINE p == [kind |-> kind, from |-> c, sender_fd |-> s, late |-> c \in closed,
                 due |-> {d \in Conn \ {c} : Active(d) /\ d \notin closed}]
<1>1. p \in Post
  <2>1. (c \in closed) \in BOOLEAN
    OBVIOUS
  <2> QED
    BY <2>1 DEF Post
<1>2. said' = Append(said, p) /\ broadcast_queue_' = Append(broadcast_queue_, Len(said) + 1)
  BY DEF queue_broadcast_message
<1> HIDE DEF p
<1>3. said \in Seq(Post) /\ broadcast_queue_ \in Seq(Said) /\ Len(said) \in Nat
  BY LenProperties DEF Types, TypeOK
<1>4. /\ said' \in Seq(Post) /\ Len(said') = Len(said) + 1
      /\ \A i \in 1..Len(said) : said'[i] = said[i]
      /\ said'[Len(said) + 1] = p
  BY <1>1, <1>2, <1>3, AppendProperties
<1>5. Said' = Said \cup {Len(said) + 1} /\ Len(said) + 1 \notin Said
  BY <1>3, <1>4 DEF Said
<1>6. broadcast_queue_ \in Seq(Said') /\ Len(said) + 1 \in Said'
  BY <1>3, <1>5
<1>7. /\ broadcast_queue_' \in Seq(Said')
      /\ \A e : Within(e, broadcast_queue_') <=> Within(e, broadcast_queue_) \/ e = Len(said) + 1
  BY <1>2, <1>6, WithinAppend
<1> QED
  BY <1>2, <1>3, <1>4, <1>5, <1>6, <1>7 DEF p, Said

(* The post that is added.                                                   *)
LEMMA NewPost ==
    ASSUME Types, NEW kind \in {"join", "chat", "leave"}, NEW c \in Conn, NEW s \in Fd \cup {None},
           queue_broadcast_message(kind, c, s)
    PROVE  \E n \in Nat :
              /\ n = Len(said) + 1 /\ n \notin Said /\ Said' = Said \cup {n}
              /\ \A m \in Said : m < n /\ said'[m] = said[m]
              /\ said'[n].kind = kind /\ said'[n].from = c /\ said'[n].sender_fd = s
              /\ said'[n].late = (c \in closed)
              /\ \A d \in said'[n].due : d \in Conn /\ d # c /\ Active(d) /\ d \notin closed
<1>1. PICK n \in Nat : n = Len(said) + 1
  BY LenProperties DEF Types
<1> DEFINE b == c \in closed
           t == {d \in Conn \ {c} : Active(d) /\ d \notin closed}
<1>2. /\ n \notin Said /\ Said' = Said \cup {n} /\ \A m \in Said : said'[m] = said[m]
      /\ said'[n] = [kind |-> kind, from |-> c, sender_fd |-> s, late |-> b, due |-> t]
  BY <1>1, SayFacts
<1>3. \A m \in Said : m < n
  BY <1>1 DEF Said
<1>4. \A d \in t : d \in Conn /\ d # c /\ Active(d) /\ d \notin closed
  OBVIOUS
<1> HIDE DEF b, t
<1>5. /\ said'[n].kind = kind /\ said'[n].from = c /\ said'[n].sender_fd = s
      /\ said'[n].late = b /\ said'[n].due = t
  BY <1>2
<1>6. said'[n].late = (c \in closed)
  BY <1>5, Zenon DEF b
<1> QED
  BY <1>1, <1>2, <1>3, <1>4, <1>5, <1>6

(* A line is spoken by one who is logged in.                                 *)
LEMMA QueueLineFacts ==
    ASSUME Types, NEW w \in Worker, QueueLine(w)
    PROVE  /\ work[w] = At("queue", work[w].conn)
           /\ work[w].conn \in Conn /\ Active(work[w].conn) /\ fd[work[w].conn] \in Fd \cup {None}
           /\ queue_broadcast_message("chat", work[w].conn, fd[work[w].conn])
           /\ work' = [work EXCEPT ![w] = At("notify", work[w].conn)]
<1>1. work[w].pc = "queue" /\ queue_broadcast_message("chat", work[w].conn, fd[work[w].conn])
  BY DEF QueueLine
<1>2. work[w].conn \in Conn /\ Active(work[w].conn)
  BY <1>1 DEF Types
<1>3. fd \in [Conn -> Fd \cup {None}]
  BY DEF Types, TypeOK
<1>4. work' = [work EXCEPT ![w] = At("notify", work[w].conn)]
  BY DEF QueueLine
<1> QED
  BY <1>1, <1>2, <1>3, <1>4, PlaceFacts

-----------------------------------------------------------------------------
(* Types.                                                                    *)

(* A queue of some things is one of more things.                             *)
LEMMA SeqWider ==
    ASSUME NEW S, NEW T, S \subseteq T, NEW q \in Seq(S)
    PROVE  q \in Seq(T)
OBVIOUS

(* For, as the queue is.                                                     *)
LEMMA ForFacts ==
    ASSUME Types, NEW c \in Conn
    PROVE  /\ For(c) \in Seq(Said)
           /\ \A m : Within(m, For(c)) <=> Within(m, broadcast_queue_) /\ said[m].sender_fd # fd[c]
           /\ Increasing(broadcast_queue_) => Increasing(For(c))
<1>1. broadcast_queue_ \in Seq(Said) /\ Said \subseteq Nat
  BY DEF Types, TypeOK, Said
<1>2. broadcast_queue_ \in Seq(Nat)
  BY <1>1, SeqWider
<1>3. Chosen(For(c), c, broadcast_queue_, Len(broadcast_queue_))
  BY <1>2, ForChosen
<1>4. \A m : Within(m, For(c)) <=> Within(m, broadcast_queue_) /\ said[m].sender_fd # fd[c]
  BY <1>3 DEF Chosen, Within
<1>5. For(c) \in Seq(Nat) /\ Len(For(c)) \in Nat
  BY <1>3, LenProperties DEF Chosen
<1>6. \A i \in 1..Len(For(c)) : For(c)[i] \in Said
  <2> TAKE i \in 1..Len(For(c))
  <2>1. Within(For(c)[i], For(c))
    BY DEF Within
  <2>2. PICK j \in 1..Len(broadcast_queue_) : broadcast_queue_[j] = For(c)[i]
    BY <1>4, <2>1 DEF Within
  <2> QED
    BY <1>1, <2>2, ElementOfSeq
<1>7. For(c) \in Seq(Said)
  BY <1>5, <1>6
<1> QED
  BY <1>3, <1>4, <1>7 DEF Chosen

(* What was said, queued and given.                                          *)
LEMMA SaidTypes ==
    ASSUME Types, Entries, Pointers, [Next]_vars
    PROVE  /\ said' \in Seq(Post) /\ Said \subseteq Said'
           /\ broadcast_queue_' \in Seq(Said')
           /\ given' \in [Conn -> Seq(Said')]
<1>1. said \in Seq(Post) /\ broadcast_queue_ \in Seq(Said) /\ given \in [Conn -> Seq(Said)]
  BY DEF Types, TypeOK
<1>2. ASSUME Said \subseteq Said', given' = given PROVE given' \in [Conn -> Seq(Said')]
  <2>1. \A c \in Conn : given[c] \in Seq(Said')
    BY <1>1, <1>2, SeqWider
  <2> QED
    BY <1>1, <1>2, <2>1
<1>3. ASSUME NEW c \in Conn, NEW name \in Text \cup {Empty}, Joining(c, name)
      PROVE  /\ said' \in Seq(Post) /\ Said \subseteq Said'
             /\ broadcast_queue_' \in Seq(Said') /\ given' = given
  <2>1. queue_broadcast_message("join", c, None) /\ given' = given
    BY <1>3 DEF Joining, ReadLogin, writeVars
  <2> QED
    BY <2>1, SayFacts
<1>4. ASSUME NEW c \in Conn, Leaving(c)
      PROVE  /\ said' \in Seq(Post) /\ Said \subseteq Said'
             /\ broadcast_queue_' \in Seq(Said') /\ given' = given
  <2>1. queue_broadcast_message("leave", c, None) /\ given' = given
    BY <1>4 DEF Leaving, CloseRest, writeVars
  <2> QED
    BY <2>1, SayFacts
<1>5. ASSUME NEW w \in Worker, QueueLine(w)
      PROVE  /\ said' \in Seq(Post) /\ Said \subseteq Said'
             /\ broadcast_queue_' \in Seq(Said') /\ given' = given
  <2>1. given' = given
    BY <1>5 DEF QueueLine, writeVars
  <2> QED
    BY <1>5, <2>1, QueueLineFacts, SayFacts
<1>6. CASE UNCHANGED <<said, broadcast_queue_, given>>
  BY <1>1, <1>6 DEF Said
<1>7. CASE UNCHANGED said /\ handle_broadcasts
  <2>1. Said' = Said /\ broadcast_queue_' = <<>>
    BY <1>7 DEF Said, handle_broadcasts
  <2> DEFINE heard == {c \in Conn \ closed : InMap(c) /\ Active(c) /\ For(c) # <<>>}
  <2>2. given' = [c \in Conn |-> IF c \in heard THEN given[c] \o For(c) ELSE given[c]]
    BY <1>7 DEF handle_broadcasts
  <2> HIDE DEF heard
  <2>3. \A c \in Conn : given[c] \in Seq(Said) /\ given[c] \o For(c) \in Seq(Said)
    BY <1>1, ForFacts, ConcatProperties
  <2> QED
    BY <1>1, <1>7, <2>1, <2>2, <2>3
<1> QED
  BY <1>2, <1>3, <1>4, <1>5, <1>6, <1>7, SaidFrame

(* Who is logged in stays so, and what workers have is of one who is.        *)
LEMMA NameTypes ==
    ASSUME Types, Pointers, [Next]_vars
    PROVE  /\ username' \in [Conn -> Text \cup {Empty}] /\ usernames_' \subseteq Text
           /\ \A c \in Conn : Active(c) => Active(c)' /\ username'[c] = username[c]
           /\ task_queue_' \in Seq({c \in Conn : Active(c)})'
           /\ work' \in [Worker -> [pc: {"idle", "check", "queue", "notify"}, conn: Conn \cup {None}]]
           /\ \A w \in Worker : work'[w].pc # "idle" => work'[w].conn \in Conn /\ username'[work'[w].conn] # Empty
<1> DEFINE Logged == {c \in Conn : Active(c)}
<1>1. /\ username \in [Conn -> Text \cup {Empty}] /\ usernames_ \subseteq Text
      /\ task_queue_ \in Seq(Logged)
      /\ work \in [Worker -> [pc: {"idle", "check", "queue", "notify"}, conn: Conn \cup {None}]]
      /\ \A w \in Worker : work[w].pc # "idle" => work[w].conn \in Conn /\ Active(work[w].conn)
  BY DEF Types, TypeOK
<1>2. /\ username' \in [Conn -> Text \cup {Empty}] /\ usernames_' \subseteq Text
      /\ \A c \in Conn : Active(c) => Active(c)' /\ username'[c] = username[c]
  <2>1. ASSUME NEW c \in Conn, NEW name \in Text \cup {Empty}, Joining(c, name)
        PROVE  /\ username' = [username EXCEPT ![c] = name] /\ name \in Text /\ ~Active(c)
               /\ usernames_' = usernames_ \cup {name}
    BY <2>1 DEF Joining, ReadLogin
  <2>2. CASE \E c \in Conn, name \in Text \cup {Empty} : Joining(c, name)
    <3>1. PICK c \in Conn, name \in Text :
             username' = [username EXCEPT ![c] = name] /\ ~Active(c) /\ usernames_' = usernames_ \cup {name}
      BY <2>1, <2>2
    <3> QED
      BY <1>1, <3>1 DEF Active
  <2>3. ASSUME NEW c \in Conn, CloseRest(c) PROVE username' = username /\ usernames_' \subseteq usernames_
    BY <2>3 DEF CloseRest
  <2>4. ASSUME NEW w \in Worker, QueueLine(w) PROVE username' = username /\ usernames_' = usernames_
    BY <2>4 DEF QueueLine, nameVars
  <2>5. CASE username' = username /\ usernames_' \subseteq usernames_
    BY <1>1, <2>5 DEF Active
  <2> QED
    BY <2>2, <2>3, <2>4, <2>5, SaidFrame DEF Leaving
<1>3. Logged \subseteq Logged'
  BY <1>2
<1>4. /\ task_queue_' \in Seq(Logged)
      /\ work' \in [Worker -> [pc: {"idle", "check", "queue", "notify"}, conn: Conn \cup {None}]]
      /\ \A w \in Worker : work'[w].pc # "idle" => work'[w].conn \in Logged
  <2>1. CASE UNCHANGED <<task_queue_, work>>
    BY <1>1, <2>1
  <2>2. ASSUME NEW c \in Conn, ReadChat(c)
        PROVE  work' = work /\ task_queue_' = Append(task_queue_, c) /\ c \in Logged
    BY <2>2 DEF ReadChat
  <2>3. CASE \E c \in Conn : ReadChat(c)
    BY <1>1, <2>2, <2>3, AppendProperties
  <2>4. ASSUME NEW w \in Worker, TakeTask(w)
        PROVE  /\ task_queue_' \in Seq(Logged)
               /\ \E c \in Logged : work' = [work EXCEPT ![w] = At("check", c)]
    <3>1. task_queue_ # <<>> /\ work' = [work EXCEPT ![w] = At("check", Head(task_queue_))]
          /\ task_queue_' = Tail(task_queue_)
      BY <2>4 DEF TakeTask
    <3>2. Head(task_queue_) \in Logged /\ Tail(task_queue_) \in Seq(Logged)
      BY <1>1, <3>1, HeadTailProperties
    <3> QED
      BY <3>1, <3>2
  <2>5. ASSUME NEW w \in Worker, Check(w)
        PROVE  /\ task_queue_' = task_queue_
               /\ \/ work' = [work EXCEPT ![w] = At("idle", None)]
                  \/ \E c \in Logged : work' = [work EXCEPT ![w] = At("queue", c)]
    <3>1. work[w].conn \in Logged
      BY <1>1, <2>5 DEF Check
    <3> QED
      BY <2>5, <3>1 DEF Check
  <2>6. ASSUME NEW w \in Worker, QueueLine(w)
        PROVE  /\ task_queue_' = task_queue_
               /\ \E c \in Logged : work' = [work EXCEPT ![w] = At("notify", c)]
    BY <2>6, QueueLineFacts DEF QueueLine
  <2>7. ASSUME NEW w \in Worker, Notify(w)
        PROVE  task_queue_' = task_queue_ /\ work' = [work EXCEPT ![w] = At("idle", None)]
    BY <2>7 DEF Notify
  <2>8. CASE \E w \in Worker : Work(w)
    <3>1. PICK w \in Worker : Work(w)
      BY <2>8
    <3>2. task_queue_' \in Seq(Logged)
      BY <1>1, <2>4, <2>5, <2>6, <2>7, <3>1 DEF Work
    <3>3. \/ work' = [work EXCEPT ![w] = At("idle", None)]
          \/ \E c \in Logged, p \in {"check", "queue", "notify"} : work' = [work EXCEPT ![w] = At(p, c)]
      BY <2>4, <2>5, <2>6, <2>7, <3>1 DEF Work
    <3>4. CASE work' = [work EXCEPT ![w] = At("idle", None)]
      BY <1>1, <3>2, <3>4 DEF At
    <3>5. ASSUME NEW c \in Logged, NEW p \in {"check", "queue", "notify"}, work' = [work EXCEPT ![w] = At(p, c)]
          PROVE  /\ work' \in [Worker -> [pc: {"idle", "check", "queue", "notify"}, conn: Conn \cup {None}]]
                 /\ \A v \in Worker : work'[v].pc # "idle" => work'[v].conn \in Logged
      BY <1>1, <3>5 DEF At
    <3> QED
      BY <3>2, <3>3, <3>4, <3>5
  <2>9. CASE ~(\E c \in Conn : ReadChat(c)) /\ ~(\E w \in Worker : Work(w))
    <3>1. UNCHANGED <<task_queue_, work>>
      BY <2>9 DEF Next, Net, EpollWait, Dispatch, AcceptEnd, handle_broadcasts, Accept, ReadLogin, ReadEnd,
                  handle_write, CloseFlag, CloseRest, vars, workVars
    <3> QED
      BY <2>1, <3>1
  <2> QED
    BY <2>3, <2>8, <2>9
<1>5. task_queue_' \in Seq(Logged')
  BY <1>3, <1>4, SeqWider
<1>6. \A w \in Worker : work'[w].pc # "idle" => work'[w].conn \in Conn /\ username'[work'[w].conn] # Empty
  BY <1>3, <1>4 DEF Active
<1> QED
  BY <1>2, <1>4, <1>5, <1>6

(* Who has which number, and who is written to.                              *)
LEMMA SockTypes ==
    ASSUME Types, Pointers, [Next]_vars
    PROVE  /\ fd' \in [Conn -> Fd \cup {None}] /\ connections_' \in [Fd -> Conn \cup {None}]
           /\ closed' \subseteq Conn /\ out_buf' \subseteq Conn /\ armed' \subseteq Conn
<1>1. /\ fd \in [Conn -> Fd \cup {None}] /\ connections_ \in [Fd -> Conn \cup {None}]
      /\ closed \subseteq Conn /\ out_buf \subseteq Conn /\ armed \subseteq Conn
  BY DEF Types, TypeOK
<1>2. CASE \E c \in Conn, f \in Fd : Accept(c, f)
  BY <1>1, <1>2 DEF Accept, writeVars
<1>3. CASE handle_broadcasts
  BY <1>1, <1>3 DEF handle_broadcasts, sockVars
<1>4. CASE \E c \in Conn : handle_write(c) \/ CloseFlag(c) \/ CloseRest(c)
  BY <1>1, <1>4 DEF handle_write, CloseFlag, CloseRest, sockVars, writeVars
<1>5. CASE EpollWait \/ Dispatch \/ AcceptEnd \/ \E w \in Worker : Work(w)
  BY <1>1, <1>5 DEF EpollWait, Dispatch, AcceptEnd, Work, TakeTask, Check, QueueLine, Notify, sockVars, writeVars
<1>6. CASE \E c \in Conn : ReadChat(c) \/ ReadEnd(c) \/ \E name \in Text \cup {Empty} : ReadLogin(c, name)
  BY <1>1, <1>6 DEF ReadChat, ReadEnd, ReadLogin, sockVars, writeVars
<1>7. CASE UNCHANGED vars
  BY <1>1, <1>7 DEF vars, sockVars, writeVars
<1> QED
  BY <1>2, <1>3, <1>4, <1>5, <1>6, <1>7 DEF Next, Net

(* The reactor.                                                              *)
LEMMA ReactorTypes ==
    ASSUME Types, Entries, [Next]_vars
    PROVE  /\ batch' \subseteq [kind: {"io", "hup", "listen", "notify"}, fd: Fd \cup {None}, for: Conn \cup {None}]
           /\ net' \in [pc: NetPCs, conn: Conn \cup {None}]
           /\ notified' \in BOOLEAN /\ lines' \in 0..MaxLines
<1> DEFINE Entry == [kind: {"io", "hup", "listen", "notify"}, fd: Fd \cup {None}, for: Conn \cup {None}]
           Place == [pc: NetPCs, conn: Conn \cup {None}]
<1>1. /\ fd \in [Conn -> Fd \cup {None}] /\ batch \subseteq Entry /\ net \in Place
      /\ notified \in BOOLEAN /\ lines \in 0..MaxLines
  BY DEF Types, TypeOK
<1>2. \A p \in NetPCs, c \in Conn \cup {None} : At(p, c) \in Place
  BY DEF At
<1>3. batch' \subseteq Entry
  <2>1. CASE EpollWait
    <3>1. batch' \subseteq Ready
      BY <2>1 DEF EpollWait
    <3>2. Ready \subseteq Entry
      BY <1>1 DEF Ready
    <3> QED
      BY <3>1, <3>2
  <2>2. CASE batch' \subseteq batch
    BY <1>1, <2>2
  <2>3. CASE ~EpollWait
    <3>1. batch' \subseteq batch
      BY <2>3 DEF Next, Net, Work, Dispatch, AcceptEnd, handle_broadcasts, Accept, ReadLogin, ReadChat, ReadEnd,
                  handle_write, CloseFlag, CloseRest, TakeTask, Check, QueueLine, Notify, vars, netVars
    <3> QED
      BY <2>2, <3>1
  <2> QED
    BY <2>1, <2>3
<1>4. net' \in Place
  <2>1. CASE EpollWait \/ AcceptEnd \/ handle_broadcasts
    BY <1>2, <2>1 DEF EpollWait, AcceptEnd, handle_broadcasts, NetPCs
  <2>2. CASE Dispatch
    <3>1. CASE net' = At("wait", None)
      BY <1>2, <3>1 DEF NetPCs
    <3>2. ASSUME NEW e \in batch, net' = Handler(e) PROVE net' \in Place
      BY <1>2, <3>2, HandlerFacts DEF NetPCs
    <3> QED
      BY <2>2, <3>1, <3>2 DEF Dispatch
  <2>3. ASSUME NEW c \in Conn, ReadEnd(c) \/ handle_write(c) \/ CloseFlag(c) \/ CloseRest(c)
        PROVE  net' \in Place
    BY <1>2, <2>3 DEF ReadEnd, handle_write, CloseFlag, CloseRest, NetPCs
  <2>4. CASE net' = net
    BY <1>1, <2>4
  <2>5. CASE \E w \in Worker : Work(w)
    BY <1>1, <2>5 DEF Work, TakeTask, Check, QueueLine, Notify, netVars
  <2>6. CASE \E c \in Conn : \/ ReadChat(c) \/ \E f \in Fd : Accept(c, f)
                             \/ \E name \in Text \cup {Empty} : ReadLogin(c, name)
    BY <1>1, <2>6 DEF ReadChat, Accept, ReadLogin, netVars
  <2> QED
    BY <2>1, <2>2, <2>3, <2>4, <2>5, <2>6 DEF Next, Net, vars, netVars
<1>5. notified' \in BOOLEAN
  <2>1. CASE Dispatch
    <3>1. notified' = notified \/ \E e \in batch : notified' = (notified /\ e.kind # "notify")
      BY <2>1 DEF Dispatch
    <3> QED
      BY <1>1, <3>1, Zenon
  <2>2. CASE ~Dispatch
    <3>1. notified' = notified \/ notified' = TRUE
      BY <2>2 DEF Next, Net, Work, EpollWait, AcceptEnd, handle_broadcasts, Accept, ReadLogin, ReadChat, ReadEnd,
                  handle_write, CloseFlag, CloseRest, TakeTask, Check, QueueLine, Notify, vars, busVars
    <3> QED
      BY <1>1, <3>1, Zenon
  <2> QED
    BY <2>1, <2>2
<1>6. lines' \in 0..MaxLines
  <2>1. lines' = lines \/ (lines < MaxLines /\ lines' = lines + 1)
    BY DEF Next, Net, Work, EpollWait, Dispatch, AcceptEnd, handle_broadcasts, Accept, ReadLogin, ReadChat, ReadEnd,
           handle_write, CloseFlag, CloseRest, TakeTask, Check, QueueLine, Notify, vars
  <2> QED
    BY <1>1, <2>1, ChatServerV2Assumption
<1> QED
  BY <1>3, <1>4, <1>5, <1>6

(* So types are kept.                                                        *)
LEMMA TypesStep ==
    ASSUME Types, Pointers, Entries, [Next]_vars
    PROVE  Types'
<1>1. /\ said' \in Seq(Post) /\ broadcast_queue_' \in Seq(Said') /\ given' \in [Conn -> Seq(Said')]
  BY SaidTypes
<1>2. /\ username' \in [Conn -> Text \cup {Empty}] /\ usernames_' \subseteq Text
      /\ task_queue_' \in Seq({c \in Conn : Active(c)})'
      /\ work' \in [Worker -> [pc: {"idle", "check", "queue", "notify"}, conn: Conn \cup {None}]]
      /\ \A w \in Worker : work'[w].pc # "idle" => work'[w].conn \in Conn /\ username'[work'[w].conn] # Empty
  BY NameTypes
<1>3. /\ fd' \in [Conn -> Fd \cup {None}] /\ connections_' \in [Fd -> Conn \cup {None}]
      /\ closed' \subseteq Conn /\ out_buf' \subseteq Conn /\ armed' \subseteq Conn
  BY SockTypes
<1>4. /\ batch' \subseteq [kind: {"io", "hup", "listen", "notify"}, fd: Fd \cup {None}, for: Conn \cup {None}]
      /\ net' \in [pc: NetPCs, conn: Conn \cup {None}]
      /\ notified' \in BOOLEAN /\ lines' \in 0..MaxLines
  BY ReactorTypes
<1>5. TypeOK'
  BY <1>1, <1>2, <1>3, <1>4 DEF TypeOK
<1>6. \A w \in Worker : work'[w].pc # "idle" => work'[w].conn \in Conn /\ Active(work[w].conn)'
  BY <1>2 DEF Active
<1> QED
  BY <1>1, <1>5, <1>6 DEF Types

-----------------------------------------------------------------------------
(* Who points to whom.                                                       *)

(* A number that accept returns is in the map no more.                       *)
LEMMA FreshNumber ==
    ASSUME Types, Pointers, NEW c \in Conn, NEW f \in Fd, Accept(c, f)
    PROVE  connections_[f] = None
<1> SUFFICES ASSUME connections_[f] # None PROVE FALSE
  OBVIOUS
<1> DEFINE d == connections_[f]
<1>1. d \in Conn /\ fd[d] = f
  BY DEF Types, TypeOK, Pointers
<1>2. d \in closed /\ net.pc = "accept"
  BY <1>1 DEF Accept
<1>3. InMap(d)
  BY <1>1, ChatServerV2Assumption DEF InMap
<1> QED
  BY <1>1, <1>2, <1>3, AtFacts DEF Pointers

(* The reactor goes from one open connection in the map to another.          *)
LEMMA PointersMove ==
    ASSUME Types, Pointers, UNCHANGED <<fd, connections_, closed>>,
           \A c \in Conn : Active(c)' => fd[c] # None,
           net' = net \/ (net.pc # "closing" /\ net'.pc # "closing"),
           net' = net \/ (net'.pc \in {"read", "write", "close"} =>
                             net'.conn \in Conn \ closed /\ InMap(net'.conn))
    PROVE  Pointers'
<1>1. \A c : InMap(c)' <=> InMap(c)
  BY DEF InMap
<1>2. CASE net' = net
  BY <1>1, <1>2 DEF Pointers
<1>3. CASE net' # net
  <2>1. \A c \in Conn : c \in closed => ~InMap(c)
    BY <1>3, AtFacts DEF Pointers
  <2>2. net'.pc \in {"read", "write", "close"} => net'.conn \in Conn \ closed' /\ InMap(net.conn)'
    BY <1>3 DEF InMap
  <2> QED
    BY <1>1, <1>3, <2>1, <2>2 DEF Pointers
<1> QED
  BY <1>2, <1>3

(* Accept makes a connection on a free number.                               *)
LEMMA PointersAccept ==
    ASSUME Types, Pointers, NEW c \in Conn, NEW f \in Fd, Accept(c, f)
    PROVE  Pointers'
<1>1. /\ fd \in [Conn -> Fd \cup {None}] /\ connections_ \in [Fd -> Conn \cup {None}]
      /\ closed \subseteq Conn /\ f # None /\ c # None
  BY ChatServerV2Assumption DEF Types, TypeOK
<1>2. /\ net.pc = "accept" /\ fd[c] = None /\ \A d \in Conn : fd[d] = f => d \in closed
      /\ fd' = [fd EXCEPT ![c] = f] /\ connections_' = [connections_ EXCEPT ![f] = c]
      /\ UNCHANGED <<closed, username, net>>
  BY DEF Accept, nameVars, netVars
<1>3. \A d \in Conn : (Active(d)' <=> Active(d)) /\ (Active(d) \/ d \in closed => d # c)
  BY <1>2 DEF Pointers, Active
<1>4. \A d \in Conn : d \in closed => ~InMap(d)
  BY <1>2, AtFacts DEF Pointers
<1>5. ASSUME NEW g \in Fd, connections_'[g] # None PROVE fd'[connections_'[g]] = g
  <2>1. CASE g = f
    BY <1>1, <1>2, <2>1
  <2>2. CASE g # f
    <3>1. connections_'[g] = connections_[g] /\ connections_[g] \in Conn /\ fd[connections_[g]] = g
      BY <1>1, <1>2, <1>5, <2>2 DEF Pointers
    <3>2. connections_[g] # c
      BY <1>2, <3>1, ChatServerV2Assumption
    <3> QED
      BY <1>1, <1>2, <3>1, <3>2
  <2> QED
    BY <2>1, <2>2
<1>6. \A d \in Conn : Active(d)' \/ d \in closed' => fd'[d] # None
  BY <1>1, <1>2, <1>3 DEF Pointers
<1>7. ASSUME NEW d \in Conn, fd'[d] # None, d \notin closed' PROVE InMap(d)'
  <2>1. CASE d = c
    BY <1>1, <1>2, <2>1 DEF InMap
  <2>2. CASE d # c
    <3>1. fd'[d] = fd[d] /\ fd[d] # None /\ InMap(d) /\ fd[d] # f
      BY <1>1, <1>2, <1>7, <2>2 DEF Pointers
    <3> QED
      BY <1>1, <1>2, <3>1 DEF InMap
  <2> QED
    BY <2>1, <2>2
<1>8. ASSUME NEW d \in Conn, d \in closed', InMap(d)' PROVE FALSE
  <2>1. d \in closed /\ d # c /\ fd'[d] = fd[d] /\ fd[d] # None /\ connections_'[fd[d]] = d
    BY <1>1, <1>2, <1>3, <1>8 DEF InMap
  <2>2. fd[d] \in Fd /\ fd[d] # f
    BY <1>1, <1>2, <2>1
  <2>3. InMap(d)
    BY <1>1, <1>2, <2>1, <2>2 DEF InMap
  <2> QED
    BY <1>4, <2>1, <2>3
<1> QED
  BY <1>2, <1>5, <1>6, <1>7, <1>8 DEF Pointers

(* close_conn first sets the flag ...                                        *)
LEMMA PointersCloseFlag ==
    ASSUME Types, Pointers, NEW c \in Conn, CloseFlag(c)
    PROVE  Pointers'
<1>1. /\ net = At("close", c) /\ closed' = closed \cup {c} /\ UNCHANGED <<fd, connections_, username>>
  BY DEF CloseFlag, sockVars, nameVars
<1>2. c \notin closed /\ InMap(c) /\ net.pc = "close" /\ net.conn = c
  BY <1>1, AtFacts DEF Pointers
<1>3. net' = At("closing", c)
  BY <1>2 DEF CloseFlag
<1>4. net'.pc = "closing" /\ net'.conn = c
  BY <1>3, AtFacts
<1>5. \A d : (InMap(d)' <=> InMap(d)) /\ (Active(d)' <=> Active(d))
  BY <1>1 DEF InMap, Active
<1>6. fd[c] # None
  BY <1>2 DEF InMap
<1>7. \A d \in closed \cap Conn : ~InMap(d)
  BY <1>2, AtFacts DEF Pointers
<1>8. InMap(net.conn)'
  BY <1>1, <1>2, <1>4 DEF InMap
<1> QED
  BY <1>1, <1>3, <1>4, <1>5, <1>6, <1>7, <1>8 DEF Pointers

(* ... and in the end takes the connection out of the map.                   *)
LEMMA PointersCloseRest ==
    ASSUME Types, Pointers, NEW c \in Conn, CloseRest(c)
    PROVE  Pointers'
<1>1. /\ net = At("closing", c) /\ net' = At("dispatch", None)
      /\ connections_' = [connections_ EXCEPT ![fd[c]] = None] /\ UNCHANGED <<fd, closed, username>>
  BY DEF CloseRest
<1>2. /\ net.pc = "closing" /\ net.conn = c /\ net'.pc = "dispatch"
      /\ \A d : net = At("closing", d) => d = c
  BY <1>1, AtFacts
<1>3. /\ fd \in [Conn -> Fd \cup {None}] /\ connections_ \in [Fd -> Conn \cup {None}]
      /\ fd[c] \in Fd /\ connections_[fd[c]] = c
  BY <1>2 DEF Types, TypeOK, Pointers, InMap
<1>4. c \in closed
  BY <1>2 DEF Pointers
<1>5. \A g \in Fd : connections_'[g] = IF g = fd[c] THEN None ELSE connections_[g]
  BY <1>1, <1>3
<1>6. \A d \in Conn : InMap(d)' <=> InMap(d) /\ d # c
  <2> TAKE d \in Conn
  <2>1. CASE fd[d] \in Fd
    BY <1>1, <1>3, <1>5, <2>1, ChatServerV2Assumption DEF InMap
  <2>2. CASE fd[d] \notin Fd
    BY <1>1, <1>3, <2>2 DEF InMap
  <2> QED
    BY <2>1, <2>2
<1>7. \A d : Active(d)' <=> Active(d)
  BY <1>1 DEF Active
<1>8. \A g \in Fd : connections_'[g] # None => fd'[connections_'[g]] = g
  BY <1>1, <1>5 DEF Pointers
<1>9. \A d \in Conn : fd'[d] # None /\ d \notin closed' => InMap(d)'
  BY <1>1, <1>4, <1>6 DEF Pointers
<1>10. \A d \in Conn : ~(d \in closed' /\ InMap(d)')
  BY <1>1, <1>2, <1>6 DEF Pointers
<1>11. \A d \in Conn : Active(d)' \/ d \in closed' => fd'[d] # None
  BY <1>1, <1>7 DEF Pointers
<1> QED
  BY <1>2, <1>8, <1>9, <1>10, <1>11 DEF Pointers

(* All steps keep the pointers.                                              *)
LEMMA PointersStep ==
    ASSUME Types, Pointers, Entries, [Next]_vars
    PROVE  Pointers'
<1>1. /\ net = At(net.pc, net.conn) /\ net.pc \in NetPCs
      /\ \A c \in Conn : Active(c) => fd[c] # None
  BY PlaceFacts DEF Pointers
<1>2. CASE EpollWait \/ AcceptEnd \/ handle_broadcasts
  <2>1. /\ UNCHANGED <<fd, connections_, closed, username>> /\ net.pc \in {"wait", "accept", "broadcast"}
        /\ net'.pc = "dispatch"
    BY <1>2, AtFacts DEF EpollWait, AcceptEnd, handle_broadcasts, sockVars, nameVars
  <2>2. \A c \in Conn : Active(c)' => fd[c] # None
    BY <1>1, <2>1 DEF Active
  <2> QED
    BY <2>1, <2>2, PointersMove
<1>3. CASE Dispatch
  <2>1. UNCHANGED <<fd, connections_, closed, username>> /\ net.pc = "dispatch"
    BY <1>3 DEF Dispatch, sockVars, nameVars
  <2>2. \A c \in Conn : Active(c)' => fd[c] # None
    BY <1>1, <2>1 DEF Active
  <2>3. CASE net' = At("wait", None)
    BY <2>1, <2>2, <2>3, AtFacts, PointersMove
  <2>4. ASSUME NEW e \in batch, net' = Handler(e) PROVE Pointers'
    <3>1. CASE net' \in {At("accept", None), At("broadcast", None)}
      BY <2>1, <2>2, <3>1, AtFacts, PointersMove
    <3>2. CASE /\ e.for \in Conn /\ e.fd \in Fd /\ connections_[e.fd] = e.for
               /\ net' \in {At("close", e.for), At("read", e.for)}
      <4>1. InMap(e.for)
        BY <3>2, ChatServerV2Assumption DEF Pointers, InMap
      <4>2. e.for \notin closed
        BY <2>1, <3>2, <4>1, AtFacts DEF Pointers
      <4>3. net'.pc \in {"read", "close"} /\ net'.conn = e.for
        BY <3>2, AtFacts
      <4> QED
        BY <2>1, <2>2, <3>2, <4>1, <4>2, <4>3, PointersMove
    <3> QED
      BY <2>4, <3>1, <3>2, HandlerFacts
  <2> QED
    BY <1>3, <2>3, <2>4 DEF Dispatch
<1>4. ASSUME NEW c \in Conn, NEW name \in Text \cup {Empty}, ReadLogin(c, name) PROVE Pointers'
  <2>1. UNCHANGED <<fd, connections_, closed, net>> /\ net = At("read", c)
    BY <1>4 DEF ReadLogin, sockVars, netVars
  <2>2. username' = username \/ username' = [username EXCEPT ![c] = name]
    BY <1>4 DEF ReadLogin, nameVars
  <2>3. fd[c] # None
    BY <2>1, AtFacts DEF Pointers, InMap
  <2>4. \A d \in Conn : Active(d)' => Active(d) \/ d = c
    BY <2>2 DEF Active, Types, TypeOK
  <2>5. UNCHANGED <<fd, connections_, closed>> /\ net' = net /\ \A d \in Conn : Active(d)' => fd[d] # None
    BY <1>1, <2>1, <2>3, <2>4
  <2> QED
    BY <2>5, PointersMove
<1>5. ASSUME NEW c \in Conn, ReadEnd(c) \/ handle_write(c) PROVE Pointers'
  <2>1. /\ UNCHANGED <<fd, connections_, closed, username>> /\ net \in {At("read", c), At("write", c)}
        /\ net' \in {At("close", c), At("write", c), At("dispatch", c), At("dispatch", None)}
    BY <1>5 DEF ReadEnd, handle_write, sockVars, nameVars
  <2>2. net.pc # "closing" /\ InMap(c) /\ c \notin closed
    BY <2>1, AtFacts DEF Pointers
  <2>3. net'.pc # "closing" /\ (net'.pc \in {"read", "write", "close"} => net'.conn = c)
    BY <2>1, AtFacts
  <2>4. \A d \in Conn : Active(d)' => fd[d] # None
    BY <1>1, <2>1 DEF Active
  <2> QED
    BY <2>1, <2>2, <2>3, <2>4, PointersMove
<1>6. CASE (\E w \in Worker : Work(w)) \/ (\E c \in Conn : ReadChat(c)) \/ UNCHANGED vars
  <2>1. UNCHANGED <<fd, connections_, closed, username, net>>
    BY <1>6 DEF Work, TakeTask, Check, QueueLine, Notify, ReadChat, vars, sockVars, nameVars, netVars
  <2>2. \A d \in Conn : Active(d)' => fd[d] # None
    BY <1>1, <2>1 DEF Active
  <2>3. UNCHANGED <<fd, connections_, closed>> /\ net' = net
    BY <2>1
  <2> QED
    BY <2>2, <2>3, PointersMove
<1> QED
  BY <1>2, <1>3, <1>4, <1>5, <1>6, PointersAccept, PointersCloseFlag, PointersCloseRest DEF Next, Net

(* What is left of the array stays about those who are in the map.           *)
LEMMA EntriesStep ==
    ASSUME Types, Pointers, Entries, [Next]_vars
    PROVE  Entries'
<1>1. net = At(net.pc, net.conn) /\ net.pc \in NetPCs /\ connections_ \in [Fd -> Conn \cup {None}]
  BY PlaceFacts DEF Types, TypeOK
<1>2. CASE EpollWait
  <2>1. /\ batch' \subseteq Ready /\ net' = At("dispatch", None) /\ UNCHANGED <<fd, connections_>>
        /\ \A e, f \in batch' : e.fd = f.fd /\ e.fd # None => e = f
    BY <1>2 DEF EpollWait, sockVars
  <2>2. \A c : ~Serving(c)'
    BY <2>1, AtFacts DEF Serving
  <2>3. \A e \in Ready : e.kind \in {"io", "hup"} => e.for \in Conn /\ e.fd = fd[e.for] /\ InMap(e.for)
    BY DEF Ready
  <2>4. \A e \in Ready : e.kind \notin {"io", "hup"} => e.for = None
    BY DEF Ready
  <2>5. \A e \in batch' : e.kind \in {"io", "hup"} => e.for \in Conn /\ e.fd \in Fd /\ connections_[e.fd] = e.for
    BY <2>1, <2>3 DEF InMap, Types, TypeOK
  <2> QED
    BY <2>1, <2>2, <2>4, <2>5 DEF Entries
<1>3. CASE Dispatch
  <2>1. UNCHANGED <<fd, connections_>>
    BY <1>3 DEF Dispatch, sockVars
  <2>2. CASE batch = {} /\ batch' = batch
    BY <2>2 DEF Entries
  <2>3. ASSUME NEW e \in batch, batch' = batch \ {e}, net' = Handler(e) PROVE Entries'
    <3>1. ASSUME NEW x \in batch', x.kind \in {"io", "hup"} PROVE ~Serving(x.for)'
      <4>1. CASE net' \in {At("accept", None), At("broadcast", None)}
        BY <4>1, AtFacts DEF Serving
      <4>2. CASE /\ e.for \in Conn /\ e.fd \in Fd /\ connections_[e.fd] = e.for
                 /\ net' \in {At("close", e.for), At("read", e.for)}
        <5>1. net'.conn = e.for
          BY <4>2, AtFacts
        <5>2. x \in batch /\ x # e /\ x.fd \in Fd /\ x.for \in Conn /\ connections_[x.fd] = x.for
          BY <2>3, <3>1 DEF Entries
        <5>3. x.for # e.for
          BY <4>2, <5>2, ChatServerV2Assumption DEF Pointers, Entries
        <5> QED
          BY <5>1, <5>3 DEF Serving
      <4> QED
        BY <2>3, <4>1, <4>2, HandlerFacts
    <3> QED
      BY <2>1, <2>3, <3>1 DEF Entries
  <2> QED
    BY <1>3, <2>2, <2>3 DEF Dispatch
<1>4. ASSUME NEW c \in Conn, NEW f \in Fd, Accept(c, f) PROVE Entries'
  <2>1. UNCHANGED <<batch, net>> /\ connections_' = [connections_ EXCEPT ![f] = c] /\ connections_[f] = None
    BY <1>4, FreshNumber DEF Accept, netVars
  <2>2. \A e \in batch : e.kind \in {"io", "hup"} => e.fd # f
    BY <2>1, ChatServerV2Assumption DEF Entries
  <2> QED
    BY <1>1, <2>1, <2>2 DEF Entries, Serving
<1>5. ASSUME NEW c \in Conn, CloseRest(c) PROVE Entries'
  <2>1. /\ UNCHANGED <<batch, fd>> /\ connections_' = [connections_ EXCEPT ![fd[c]] = None]
        /\ net = At("closing", c) /\ net' = At("dispatch", None)
    BY <1>5 DEF CloseRest
  <2>2. Serving(c) /\ InMap(c) /\ \A d : ~Serving(d)'
    BY <2>1, AtFacts DEF Serving, Pointers
  <2>3. \A e \in batch : e.kind \in {"io", "hup"} => e.fd # fd[c]
    BY <2>2 DEF Entries, InMap
  <2> QED
    BY <1>1, <2>1, <2>2, <2>3 DEF Entries
<1>6. ASSUME UNCHANGED <<batch, connections_>>, \A c : Serving(c)' => Serving(c) PROVE Entries'
  BY <1>6 DEF Entries
<1>7. CASE AcceptEnd \/ handle_broadcasts
  BY <1>6, <1>7, AtFacts DEF AcceptEnd, handle_broadcasts, sockVars, Serving
<1>8. ASSUME NEW c \in Conn, ReadEnd(c) \/ handle_write(c) \/ CloseFlag(c) PROVE Entries'
  <2>1. UNCHANGED <<batch, connections_>> /\ net \in {At("read", c), At("write", c), At("close", c)}
    BY <1>8 DEF ReadEnd, handle_write, CloseFlag, sockVars
  <2>2. net' \in {At("close", c), At("write", c), At("closing", c), At("dispatch", c), At("dispatch", None)}
    BY <1>8 DEF ReadEnd, handle_write, CloseFlag
  <2>3. \A d : Serving(d)' => Serving(d)
    BY <2>1, <2>2, AtFacts DEF Serving
  <2> QED
    BY <1>6, <2>1, <2>3
<1>9. CASE (\E w \in Worker : Work(w)) \/ UNCHANGED vars
           \/ \E c \in Conn : ReadChat(c) \/ \E name \in Text \cup {Empty} : ReadLogin(c, name)
  BY <1>6, <1>9 DEF Work, TakeTask, Check, QueueLine, Notify, ReadChat, ReadLogin, vars, sockVars, netVars, Serving
<1> QED
  BY <1>2, <1>3, <1>4, <1>5, <1>7, <1>8, <1>9 DEF Next, Net

-----------------------------------------------------------------------------
(* What does not change.                                                     *)

(* Only close_conn closes, and only it is at work on what is closed.         *)
LEMMA CloseFrame ==
    ASSUME Types, Pointers, Entries, [Next]_vars
    PROVE  /\ \/ \E c \in Conn : CloseFlag(c) /\ closed' = closed \cup {c} /\ net' = At("closing", c)
              \/ \E c \in Conn : CloseRest(c) /\ closed' = closed
              \/ closed' = closed /\ \A c : net' = At("closing", c) <=> net = At("closing", c)
           /\ closed \subseteq closed'
<1> DEFINE Same == closed' = closed /\ \A c : net' = At("closing", c) <=> net = At("closing", c)
<1>1. CASE EpollWait \/ AcceptEnd \/ handle_broadcasts
  <2>1. closed' = closed /\ net.pc \in {"wait", "accept", "broadcast"} /\ net' = At("dispatch", None)
    BY <1>1 DEF EpollWait, AcceptEnd, handle_broadcasts
  <2> QED
    BY <2>1, AtFacts
<1>2. CASE Dispatch
  <2>1. closed' = closed /\ net.pc = "dispatch"
    BY <1>2 DEF Dispatch
  <2>2. \A c : net # At("closing", c)
    BY <2>1, AtFacts
  <2>3. net' = At("wait", None) \/ \E e \in batch : net' = Handler(e)
    BY <1>2 DEF Dispatch
  <2>4. ASSUME NEW e \in batch PROVE \A c : Handler(e) # At("closing", c)
    BY AtFacts, HandlerFacts
  <2>5. \A c : net' # At("closing", c)
    BY <2>3, <2>4, AtFacts
  <2> QED
    BY <2>1, <2>2, <2>5
<1>3. ASSUME NEW c \in Conn, ReadEnd(c) \/ handle_write(c) PROVE Same
  <2>1. closed' = closed /\ net \in {At("read", c), At("write", c)}
        /\ net' \in {At("close", c), At("write", c), At("dispatch", c), At("dispatch", None)}
    BY <1>3 DEF ReadEnd, handle_write
  <2> QED
    BY <2>1, AtFacts
<1>4. ASSUME NEW c \in Conn, CloseFlag(c) PROVE closed' = closed \cup {c} /\ net' = At("closing", c)
  <2>1. /\ net = At("close", c) /\ closed' = closed \cup {c}
        /\ net' = IF c \in closed THEN At("dispatch", None) ELSE At("closing", c)
    BY <1>4 DEF CloseFlag
  <2>2. c \notin closed
    BY <2>1, AtFacts DEF Pointers
  <2> QED
    BY <2>1, <2>2
<1>5. ASSUME NEW c \in Conn, CloseRest(c) PROVE closed' = closed
  BY <1>5 DEF CloseRest
<1>6. CASE (\E w \in Worker : Work(w)) \/ UNCHANGED vars
           \/ \E c \in Conn : \/ ReadChat(c) \/ \E name \in Text \cup {Empty} : ReadLogin(c, name)
                              \/ \E f \in Fd : Accept(c, f)
  BY <1>6 DEF Work, TakeTask, Check, QueueLine, Notify, ReadChat, ReadLogin, Accept, vars, netVars
<1> QED
  BY <1>1, <1>2, <1>3, <1>4, <1>5, <1>6 DEF Next, Net

(* A connection keeps its number.                                            *)
LEMMA FdStays ==
    ASSUME Types, [Next]_vars
    PROVE  \A c \in Conn : fd[c] # None => fd'[c] = fd[c]
<1>1. ASSUME NEW c \in Conn, NEW f \in Fd, Accept(c, f) PROVE \A d \in Conn : fd[d] # None => fd'[d] = fd[d]
  <2>1. fd[c] = None /\ fd' = [fd EXCEPT ![c] = f] /\ fd \in [Conn -> Fd \cup {None}]
    BY <1>1 DEF Accept, Types, TypeOK
  <2> QED
    BY <2>1
<1>2. CASE ~\E c \in Conn, f \in Fd : Accept(c, f)
  <2>1. fd' = fd
    BY <1>2 DEF Next, Net, Work, EpollWait, Dispatch, AcceptEnd, handle_broadcasts, ReadLogin, ReadChat, ReadEnd,
                handle_write, CloseFlag, CloseRest, TakeTask, Check, QueueLine, Notify, vars, sockVars
  <2> QED
    BY <2>1
<1> QED
  BY <1>1, <1>2

-----------------------------------------------------------------------------
(* Names.                                                                    *)

Here(c) == Active(c) /\ (c \notin closed \/ net = At("closing", c))

NamesHeld ==
    /\ \A c \in Conn : Here(c) => username[c] \in usernames_
    /\ \A n \in usernames_ : \E c \in Conn : Here(c) /\ username[c] = n
    /\ \A c, d \in Conn : Here(c) /\ Here(d) /\ c # d => username[c] # username[d]

(* NamesExact, client by client.                                             *)
LEMMA NamesExactHeld == NamesExact <=> TypeOK /\ NamesHeld
<1> DEFINE here == {c \in Conn : Active(c) /\ (c \notin closed \/ net = At("closing", c))}
<1>1. \A c : c \in here <=> c \in Conn /\ Here(c)
  BY DEF Here
<1>2. NamesExact <=> /\ TypeOK /\ usernames_ = {username[c] : c \in here}
                     /\ \A c, d \in here : c # d => username[c] # username[d]
  BY DEF NamesExact
<1> HIDE DEF here
<1>3. usernames_ = {username[c] : c \in here} <=>
          /\ \A c \in here : username[c] \in usernames_
          /\ \A n \in usernames_ : \E c \in here : username[c] = n
  OBVIOUS
<1> QED
  BY <1>1, <1>2, <1>3 DEF NamesHeld

(* A name is taken and freed with its client.                                *)
LEMMA NamesStep ==
    ASSUME Types, Pointers, Entries, NamesHeld, [Next]_vars
    PROVE  NamesHeld'
<1>1. username \in [Conn -> Text \cup {Empty}] /\ usernames_ \subseteq Text /\ Empty \notin Text
  BY ChatServerV2Assumption DEF Types, TypeOK
<1>2. ASSUME NEW c \in Conn, NEW name \in Text \cup {Empty}, Joining(c, name) PROVE NamesHeld'
  <2>1. /\ net = At("read", c) /\ ~Active(c) /\ name \notin usernames_ /\ name \in Text
        /\ usernames_' = usernames_ \cup {name} /\ username' = [username EXCEPT ![c] = name]
        /\ UNCHANGED <<closed, net>>
    BY <1>2 DEF Joining, ReadLogin, netVars
  <2>2. c \notin closed
    BY <2>1, AtFacts DEF Pointers
  <2>3. \A d \in Conn : username'[d] = IF d = c THEN name ELSE username[d]
    BY <1>1, <2>1
  <2>4. \A d \in Conn : (Here(d)' <=> Here(d) \/ d = c) /\ (Here(d) => d # c)
    BY <1>1, <2>1, <2>2, <2>3 DEF Here, Active
  <2> QED
    BY <2>1, <2>3, <2>4 DEF NamesHeld
<1>3. ASSUME UNCHANGED <<username, usernames_>>, \A d \in Conn : Here(d)' <=> Here(d) PROVE NamesHeld'
  BY <1>3 DEF NamesHeld
<1>4. ASSUME NEW c \in Conn, CloseRest(c) PROVE NamesHeld'
  <2>1. /\ net = At("closing", c) /\ net' = At("dispatch", None)
        /\ usernames_' = usernames_ \ {username[c]} /\ UNCHANGED <<closed, username>>
    BY <1>4 DEF CloseRest
  <2>2. c \in closed /\ \A d : net = At("closing", d) <=> d = c
    BY <2>1, AtFacts DEF Pointers
  <2>3. \A d : net' # At("closing", d)
    BY <2>1, AtFacts
  <2>4. \A d \in Conn : Here(d)' <=> Here(d) /\ d # c
    BY <2>1, <2>2, <2>3 DEF Here, Active
  <2>5. CASE Here(c)
    BY <2>1, <2>4, <2>5 DEF NamesHeld
  <2>6. CASE ~Here(c)
    <3>1. username[c] \notin usernames_
      BY <1>1, <2>2, <2>1, <2>6 DEF Here, Active
    <3> QED
      BY <2>1, <2>4, <2>6, <3>1 DEF NamesHeld
  <2> QED
    BY <2>5, <2>6
<1>5. ASSUME NEW c \in Conn, CloseFlag(c), closed' = closed \cup {c}, net' = At("closing", c) PROVE NamesHeld'
  <2>1. net = At("close", c) /\ UNCHANGED <<username, usernames_>>
    BY <1>5 DEF CloseFlag, nameVars
  <2>2. c \notin closed /\ \A d : net # At("closing", d)
    BY <2>1, AtFacts DEF Pointers
  <2>3. \A d : net' = At("closing", d) <=> d = c
    BY <1>5, AtFacts
  <2>4. \A d \in Conn : Here(d)' <=> Here(d)
    BY <1>5, <2>1, <2>2, <2>3 DEF Here, Active
  <2> QED
    BY <1>3, <2>1, <2>4
<1>6. CASE /\ UNCHANGED <<username, usernames_, closed>>
           /\ \A c : net' = At("closing", c) <=> net = At("closing", c)
  <2>1. \A d \in Conn : Here(d)' <=> Here(d)
    BY <1>6 DEF Here, Active
  <2> QED
    BY <1>3, <1>6, <2>1
<1>7. \A w \in Worker : QueueLine(w) => UNCHANGED <<username, usernames_>>
  BY DEF QueueLine, nameVars
<1>8. \/ \E c \in Conn, name \in Text \cup {Empty} : Joining(c, name)
      \/ \E c \in Conn : CloseRest(c)
      \/ UNCHANGED <<username, usernames_>>
  BY <1>7, SaidFrame DEF Leaving
<1> QED
  BY <1>2, <1>4, <1>5, <1>6, <1>8, CloseFrame

-----------------------------------------------------------------------------
(* Broadcasts.                                                               *)

PostGood(m) ==
    /\ Active(said[m].from)
    /\ said[m].sender_fd = IF said[m].kind = "chat" THEN fd[said[m].from] ELSE None
    /\ \A d \in said[m].due : Active(d)
    /\ ~Late(m) => \A d \in said[m].due : said[m].sender_fd # fd[d]

(* What was said stays as it was, for those it was about.                    *)
LEMMA PostStays ==
    ASSUME Types, NEW m \in Said, PostGood(m), said'[m] = said[m],
           \A c \in Conn : Active(c) => Active(c)' /\ fd'[c] = fd[c]
    PROVE  PostGood(m)'
<1>1. said[m] \in Post
  BY ElementOfSeq DEF Types, Said
<1>2. said[m].from \in Conn /\ said[m].due \subseteq Conn
  BY <1>1 DEF Post
<1>3. /\ username'[said[m].from] # Empty /\ fd'[said[m].from] = fd[said[m].from]
      /\ \A d \in said[m].due : username'[d] # Empty /\ fd'[d] = fd[d]
  BY <1>2 DEF PostGood, Active
<1>4. Late(m)' <=> Late(m)
  BY DEF Late
<1> QED
  BY <1>3, <1>4 DEF PostGood, Active

(* What is said is right, as no two open connections have one number.        *)
LEMMA PostsStep ==
    ASSUME Types, Pointers, Entries, Posts, [Next]_vars
    PROVE  Posts'
<1>1. \A c \in Conn : Active(c) => Active(c)' /\ fd'[c] = fd[c] /\ fd[c] # None
  BY NameTypes, FdStays DEF Pointers
<1>2. \A m \in Said : PostGood(m)
  BY DEF Posts, PostGood
<1>3. \A m \in Said : said'[m] = said[m] => PostGood(m)'
  BY <1>1, <1>2, PostStays
<1>4. ASSUME NEW kind \in {"join", "chat", "leave"}, NEW c \in Conn, NEW s \in Fd \cup {None},
             queue_broadcast_message(kind, c, s), s = IF kind = "chat" THEN fd[c] ELSE None,
             Active(c)', kind = "chat" => Active(c)
      PROVE  Posts'
  <2>1. PICK n \in Nat :
            /\ Said' = Said \cup {n} /\ \A m \in Said : said'[m] = said[m]
            /\ said'[n].kind = kind /\ said'[n].from = c /\ said'[n].sender_fd = s
            /\ said'[n].late = (c \in closed)
            /\ \A d \in said'[n].due : d \in Conn /\ d # c /\ Active(d) /\ d \notin closed
    BY <1>4, NewPost
  <2>2. /\ said'[n].kind = kind /\ said'[n].from = c /\ said'[n].sender_fd = s
        /\ \A d \in said'[n].due : d \in Conn /\ d # c /\ Active(d) /\ d \notin closed
    BY <2>1
  <2>3. \A d \in said'[n].due : username'[d] # Empty /\ fd'[d] = fd[d] /\ fd[d] # None /\ InMap(d)
    BY <1>1, <2>2 DEF Active, Pointers
  <2>4. kind = "chat" => s = fd[c] /\ fd'[c] = fd[c] /\ fd[c] # None
    BY <1>1, <1>4
  <2>5. kind = "chat" /\ c \notin closed => InMap(c)
    BY <2>4 DEF Pointers
  <2>6. ASSUME ~(kind = "chat" /\ c \in closed), NEW d \in said'[n].due PROVE s # fd'[d]
    <3>1. CASE kind = "chat"
      BY <2>2, <2>3, <2>4, <2>5, <2>6, <3>1 DEF InMap
    <3>2. CASE kind # "chat"
      BY <1>4, <2>3, <3>2
    <3> QED
      BY <3>1, <3>2
  <2>7. username'[c] # Empty
    BY <1>4 DEF Active
  <2>8. said'[n].late = (c \in closed)
    BY <2>1, Zenon
  <2>9. Late(n)' <=> kind = "chat" /\ c \in closed
    BY <2>2, <2>8 DEF Late
  <2>10. PostGood(n)'
    BY <1>4, <2>2, <2>3, <2>4, <2>6, <2>7, <2>9 DEF PostGood, Active
  <2>11. \A m \in Said' : PostGood(m)'
    BY <1>3, <2>1, <2>10
  <2> QED
    BY <2>11 DEF Posts, PostGood
<1>5. ASSUME NEW c \in Conn, NEW name \in Text \cup {Empty}, Joining(c, name) PROVE Posts'
  <2>1. queue_broadcast_message("join", c, None) /\ name # Empty /\ username' = [username EXCEPT ![c] = name]
    BY <1>5 DEF Joining, ReadLogin
  <2>2. Active(c)'
    BY <2>1 DEF Active, Types, TypeOK
  <2> QED
    BY <1>4, <2>1, <2>2
<1>6. ASSUME NEW c \in Conn, Leaving(c) PROVE Posts'
  <2>1. queue_broadcast_message("leave", c, None) /\ Active(c)
    BY <1>6 DEF Leaving, CloseRest
  <2> QED
    BY <1>1, <1>4, <2>1
<1>7. ASSUME NEW w \in Worker, QueueLine(w) PROVE Posts'
  <2> DEFINE c == work[w].conn
  <2>1. c \in Conn /\ Active(c) /\ fd[c] \in Fd \cup {None} /\ queue_broadcast_message("chat", c, fd[c])
    BY <1>7, QueueLineFacts
  <2> HIDE DEF c
  <2> QED
    BY <1>1, <1>4, <2>1
<1>8. CASE UNCHANGED said
  <2>1. \A m \in Said' : m \in Said /\ PostGood(m)'
    BY <1>3, <1>8 DEF Said
  <2> QED
    BY <2>1 DEF Posts, PostGood
<1> QED
  BY <1>5, <1>6, <1>7, <1>8, SaidFrame

(* The wake-up comes with what is queued, or after it from the worker, and   *)
(* stays until the queue is taken.                                           *)
LEMMA WakeupStep ==
    ASSUME Types, Entries, Wakeup, [Next]_vars
    PROVE  Wakeup'
<1>1. work \in [Worker -> [pc: {"idle", "check", "queue", "notify"}, conn: Conn \cup {None}]]
  BY PlaceFacts
<1>2. CASE handle_broadcasts
  BY <1>2 DEF handle_broadcasts, Wakeup
<1>3. ASSUME NEW c \in Conn, NEW name \in Text \cup {Empty}, Joining(c, name) PROVE Wakeup'
  BY <1>3 DEF Joining, ReadLogin, Wakeup, WakeupPending
<1>4. ASSUME NEW c \in Conn, Leaving(c) PROVE Wakeup'
  BY <1>4 DEF Leaving, CloseRest, Wakeup, WakeupPending
<1>5. ASSUME NEW w \in Worker, QueueLine(w) PROVE Wakeup'
  <2>1. work'[w].pc = "notify"
    BY <1>1, <1>5, QueueLineFacts, AtFacts
  <2> QED
    BY <2>1 DEF Wakeup, WakeupPending
<1>6. ASSUME broadcast_queue_' = broadcast_queue_, WakeupPending => WakeupPending' PROVE Wakeup'
  BY <1>6 DEF Wakeup
<1>7. CASE Dispatch
  <2>1. broadcast_queue_' = broadcast_queue_ /\ work' = work /\ net.pc = "dispatch"
    BY <1>7 DEF Dispatch, workVars
  <2>2. CASE notified' = notified
    BY <1>6, <2>1, <2>2 DEF WakeupPending
  <2>3. ASSUME NEW e \in batch, net' = Handler(e), notified' = (notified /\ e.kind # "notify")
        PROVE  WakeupPending => WakeupPending'
    <3>1. CASE e.kind = "notify"
      <4>1. net'.pc = "broadcast"
        BY <2>3, <3>1, HandlerFacts, AtFacts
      <4> QED
        BY <4>1 DEF WakeupPending
    <3>2. CASE e.kind # "notify"
      BY <2>1, <2>3, <3>2 DEF WakeupPending
    <3> QED
      BY <3>1, <3>2
  <2> QED
    BY <1>6, <1>7, <2>1, <2>2, <2>3 DEF Dispatch
<1>8. ASSUME NEW w \in Worker, TakeTask(w) \/ Check(w) PROVE Wakeup'
  <2>1. /\ UNCHANGED <<broadcast_queue_, notified, net>> /\ work[w].pc # "notify"
        /\ \A v \in Worker \ {w} : work'[v] = work[v]
    BY <1>1, <1>8 DEF TakeTask, Check, busVars, netVars
  <2> QED
    BY <1>6, <2>1 DEF WakeupPending
<1>9. ASSUME NEW w \in Worker, Notify(w) PROVE Wakeup'
  BY <1>9 DEF Notify, Wakeup, WakeupPending
<1>10. CASE EpollWait \/ AcceptEnd
  <2>1. UNCHANGED <<broadcast_queue_, notified, work>> /\ net.pc # "broadcast"
    BY <1>10 DEF EpollWait, AcceptEnd, busVars, workVars
  <2> QED
    BY <1>6, <2>1 DEF WakeupPending
<1>11. ASSUME NEW c \in Conn, ReadEnd(c) \/ handle_write(c) \/ CloseFlag(c) \/ (CloseRest(c) /\ ~Leaving(c))
       PROVE  Wakeup'
  <2>1. UNCHANGED <<broadcast_queue_, notified, work>>
    BY <1>11 DEF ReadEnd, handle_write, CloseFlag, CloseRest, Leaving, busVars, workVars
  <2>2. net \in {At("read", c), At("write", c), At("close", c), At("closing", c)}
    BY <1>11 DEF ReadEnd, handle_write, CloseFlag, CloseRest
  <2>3. net.pc # "broadcast"
    BY <2>2, AtFacts
  <2> QED
    BY <1>6, <2>1, <2>3 DEF WakeupPending
<1>12. ASSUME NEW c \in Conn, \/ ReadChat(c) \/ \E f \in Fd : Accept(c, f)
                              \/ \E name \in Text \cup {Empty} : ReadLogin(c, name) /\ ~Joining(c, name)
       PROVE  Wakeup'
  <2>1. UNCHANGED <<broadcast_queue_, notified, work, net>>
    BY <1>12 DEF ReadChat, Accept, ReadLogin, Joining, busVars, workVars, netVars
  <2> QED
    BY <1>6, <2>1 DEF WakeupPending
<1>13. CASE UNCHANGED vars
  BY <1>6, <1>13 DEF vars, busVars, workVars, netVars, WakeupPending
<1> QED
  BY <1>2, <1>3, <1>4, <1>5, <1>7, <1>8, <1>9, <1>10, <1>11, <1>12, <1>13 DEF Next, Net, Work

(* What is due to an open client that is logged in is given to it when the   *)
(* queue is taken.                                                           *)
LEMMA GivenFacts ==
    ASSUME Types, handle_broadcasts
    PROVE  /\ broadcast_queue_' = <<>>
           /\ \A c \in Conn : \/ given'[c] = given[c]
                              \/ given'[c] = given[c] \o For(c) /\ c \in Conn \ closed
           /\ \A c \in Conn \ closed : \A m : InMap(c) /\ Active(c) /\ Within(m, For(c)) =>
                 given'[c] = given[c] \o For(c)
<1> DEFINE heard == {c \in Conn \ closed : InMap(c) /\ Active(c) /\ For(c) # <<>>}
<1>1. /\ broadcast_queue_' = <<>>
      /\ given' = [c \in Conn |-> IF c \in heard THEN given[c] \o For(c) ELSE given[c]]
  BY DEF handle_broadcasts
<1>2. \A c \in Conn \ closed : \A m : InMap(c) /\ Active(c) /\ Within(m, For(c)) => c \in heard
  BY DEF Within
<1>3. heard \subseteq Conn \ closed
  OBVIOUS
<1> HIDE DEF heard
<1> QED
  BY <1>1, <1>2, <1>3

(* The queue stays in order, and behind what was given.                      *)
LEMMA OrderStep ==
    ASSUME Types, Pointers, Entries, Posts, Order, [Next]_vars
    PROVE  Order'
<1>1. /\ broadcast_queue_ \in Seq(Said) /\ Said \subseteq Nat
      /\ \A c \in Conn : given[c] \in Seq(Said)
  BY DEF Types, TypeOK, Said
<1>2. \A c \in Conn : \A m : Within(m, given[c]) => m \in Said
  BY <1>1, ElementOfSeq DEF Within
<1>3. \A m : Within(m, broadcast_queue_) => m \in Said
  BY <1>1, ElementOfSeq DEF Within
<1> DEFINE n == Len(said) + 1
<1>4. ASSUME NEW kind \in {"join", "chat", "leave"}, NEW c \in Conn, NEW s \in Fd \cup {None},
             queue_broadcast_message(kind, c, s), given' = given
      PROVE  Order'
  <2>1. /\ Len(said) \in Nat /\ Said' = Said \cup {n} /\ \A m \in Said : said'[m] = said[m]
        /\ broadcast_queue_' = Append(broadcast_queue_, n)
        /\ \A e : Within(e, broadcast_queue_') <=> Within(e, broadcast_queue_) \/ e = n
    BY <1>4, SayFacts
  <2>2. \A m \in Said : m < n
    BY <2>1 DEF Said
  <2>3. n \in Nat
    BY <2>1
  <2> HIDE DEF n
  <2>7. broadcast_queue_ \in Seq(Nat)
    BY <1>1, SeqWider
  <2>4. Increasing(broadcast_queue_')
    BY <1>3, <2>1, <2>2, <2>3, <2>7, IncreasingAppend DEF Order
  <2>5. \A d \in Conn, m, x \in Said' : Within(m, given'[d]) /\ Within(x, broadcast_queue_') => m < x
    BY <1>2, <1>3, <1>4, <2>1, <2>2 DEF Order
  <2>6. \A d \in Conn, m \in Said' : Within(m, given'[d]) /\ said'[m].kind = "chat" => said'[m].from # d
    BY <1>2, <1>4, <2>1 DEF Order
  <2> QED
    BY <1>4, <2>4, <2>5, <2>6 DEF Order
<1>5. CASE \E c \in Conn, name \in Text \cup {Empty} : Joining(c, name)
  BY <1>4, <1>5 DEF Joining, ReadLogin, writeVars
<1>6. CASE \E c \in Conn : Leaving(c)
  BY <1>4, <1>6 DEF Leaving, CloseRest, writeVars
<1>7. ASSUME NEW w \in Worker, QueueLine(w) PROVE Order'
  <2>1. given' = given
    BY <1>7 DEF QueueLine, writeVars
  <2> QED
    BY <1>4, <1>7, <2>1, QueueLineFacts
<1>8. CASE UNCHANGED <<said, broadcast_queue_, given>>
  BY <1>8 DEF Order, Said
<1>9. CASE UNCHANGED said /\ handle_broadcasts
  <2>1. Said' = Said /\ broadcast_queue_' = <<>> /\ \A m : ~Within(m, <<>>)
    BY <1>9, GivenFacts DEF Said, Within
  <2>2. ASSUME NEW c \in Conn
        PROVE  /\ Increasing(given'[c])
               /\ \A m \in Said : Within(m, given'[c]) /\ said[m].kind = "chat" => said[m].from # c
    <3>1. CASE given'[c] = given[c]
      BY <3>1 DEF Order
    <3>2. CASE given'[c] = given[c] \o For(c)
      <4>1. /\ For(c) \in Seq(Said) /\ Increasing(For(c))
            /\ \A m : Within(m, For(c)) <=> Within(m, broadcast_queue_) /\ said[m].sender_fd # fd[c]
        BY ForFacts DEF Order
      <4>2. \A m, x : Within(m, given[c]) /\ Within(x, For(c)) => m < x
        BY <1>2, <1>3, <4>1 DEF Order
      <4>3. Increasing(given[c])
        BY DEF Order
      <4>4. /\ \A m : Within(m, given[c] \o For(c)) <=> Within(m, given[c]) \/ Within(m, For(c))
            /\ Increasing(given[c] \o For(c))
        BY <1>1, <4>1, <4>2, <4>3, ConcatFacts
      <4>5. \A m \in Said : Within(m, For(c)) /\ said[m].kind = "chat" => said[m].from # c
        BY <4>1 DEF Posts
      <4>6. \A m \in Said : Within(m, given[c]) /\ said[m].kind = "chat" => said[m].from # c
        BY DEF Order
      <4> QED
        BY <3>2, <4>4, <4>5, <4>6
    <3> QED
      BY <1>9, <3>1, <3>2, GivenFacts
  <2>3. \A c \in Conn, m, x \in Said' : ~(Within(m, given'[c]) /\ Within(x, broadcast_queue_'))
    BY <2>1
  <2>4. Increasing(broadcast_queue_')
    <3>1. Len(<<>>) = 0
      OBVIOUS
    <3> QED
      BY <2>1, <3>1 DEF Increasing
  <2> QED
    BY <1>9, <2>1, <2>2, <2>3, <2>4 DEF Order
<1> QED
  BY <1>5, <1>6, <1>7, <1>8, <1>9, SaidFrame

(* Those a broadcast is due to keep their numbers.                           *)
LEMMA DueStays ==
    ASSUME Types, Pointers, Posts, [Next]_vars, NEW m \in Said, NEW c \in said[m].due
    PROVE  c \in Conn /\ fd'[c] = fd[c]
<1>1. said[m] \in Post
  BY ElementOfSeq DEF Types, Said
<1>2. c \in Conn /\ Active(c)
  BY <1>1 DEF Post, Posts
<1>3. fd[c] # None
  BY <1>2 DEF Pointers
<1> QED
  BY <1>2, <1>3, FdStays

(* What is due to an open client is queued until it is given.                *)
LEMMA NothingLostStep ==
    ASSUME Types, Pointers, Entries, Posts, NothingLost, [Next]_vars
    PROVE  NothingLost'
<1>1. closed \subseteq closed'
  BY CloseFrame
<1>2. \A c \in Conn : given[c] \in Seq(Said)
  BY DEF Types, TypeOK
<1>3. \A m \in Said : \A c \in said[m].due : c \in Conn /\ fd'[c] = fd[c]
  BY DueStays
<1> DEFINE n == Len(said) + 1
<1>4. ASSUME NEW kind \in {"join", "chat", "leave"}, NEW c \in Conn, NEW s \in Fd \cup {None},
             queue_broadcast_message(kind, c, s), given' = given
      PROVE  NothingLost'
  <2>1. /\ Said' = Said \cup {n} /\ \A m \in Said : said'[m] = said[m]
        /\ \A e : Within(e, broadcast_queue_') <=> Within(e, broadcast_queue_) \/ e = n
    BY <1>4, SayFacts
  <2> HIDE DEF n
  <2> QED
    BY <1>1, <1>3, <1>4, <2>1 DEF NothingLost
<1>5. CASE \E c \in Conn, name \in Text \cup {Empty} : Joining(c, name)
  BY <1>4, <1>5 DEF Joining, ReadLogin, writeVars
<1>6. CASE \E c \in Conn : Leaving(c)
  BY <1>4, <1>6 DEF Leaving, CloseRest, writeVars
<1>7. ASSUME NEW w \in Worker, QueueLine(w) PROVE NothingLost'
  <2>1. given' = given
    BY <1>7 DEF QueueLine, writeVars
  <2> QED
    BY <1>4, <1>7, <2>1, QueueLineFacts
<1>8. CASE UNCHANGED <<said, broadcast_queue_, given>>
  BY <1>1, <1>3, <1>8 DEF NothingLost, Said
<1>9. CASE UNCHANGED said /\ handle_broadcasts
  <2>1. ASSUME NEW m \in Said, NEW c \in said[m].due \ closed, fd[c] # said[m].sender_fd
        PROVE  Within(m, given'[c])
    <3>1. c \in Conn \ closed /\ Active(c) /\ InMap(c)
      BY <1>3, <2>1 DEF Posts, Pointers
    <3>2. /\ For(c) \in Seq(Said)
          /\ \A x : Within(x, For(c)) <=> Within(x, broadcast_queue_) /\ said[x].sender_fd # fd[c]
      BY <3>1, ForFacts
    <3>3. \A x : Within(x, given[c] \o For(c)) <=> Within(x, given[c]) \/ Within(x, For(c))
      BY <1>2, <3>1, <3>2, ConcatFacts
    <3>4. CASE Within(m, given[c])
      BY <1>9, <3>1, <3>3, <3>4, GivenFacts
    <3>5. CASE Within(m, broadcast_queue_)
      BY <1>9, <2>1, <3>1, <3>2, <3>3, <3>5, GivenFacts
    <3> QED
      BY <2>1, <3>4, <3>5 DEF NothingLost
  <2> QED
    BY <1>1, <1>3, <1>9, <2>1 DEF NothingLost, Said
<1> QED
  BY <1>5, <1>6, <1>7, <1>8, <1>9, SaidFrame

(* What a client has left to send is watched for room.                       *)
LEMMA WatchedStep ==
    ASSUME Types, Pointers, Entries, Watched, [Next]_vars
    PROVE  Watched'
<1>1. closed \subseteq closed'
  BY CloseFrame
<1>2. CASE handle_broadcasts
  BY <1>1, <1>2 DEF handle_broadcasts, Watched
<1>3. ASSUME NEW c \in Conn, handle_write(c) PROVE Watched'
  BY <1>1, <1>3 DEF handle_write, Watched
<1>4. CASE ~handle_broadcasts /\ ~\E c \in Conn : handle_write(c)
  <2>1. UNCHANGED <<out_buf, armed>>
    BY <1>4 DEF Next, Net, Work, EpollWait, Dispatch, AcceptEnd, Accept, ReadLogin, ReadChat, ReadEnd,
                CloseFlag, CloseRest, TakeTask, Check, QueueLine, Notify, vars, writeVars
  <2> QED
    BY <1>1, <2>1 DEF Watched
<1> QED
  BY <1>2, <1>3, <1>4

-----------------------------------------------------------------------------
(* The story.                                                                *)

(* Who says what: a client that joins had said nothing, one that leaves is   *)
(* being closed, one that speaks may have been closed.                       *)
LEMMA WhoSays ==
    ASSUME Types, Pointers, Entries, [Next]_vars
    PROVE  \/ \E c \in Conn : /\ queue_broadcast_message("join", c, None) /\ ~Active(c) /\ c \notin closed
                              /\ UNCHANGED <<closed, net, work>>
                              /\ \A d \in Conn : Active(d)' => Active(d) \/ d = c
           \/ \E c \in Conn : /\ queue_broadcast_message("leave", c, None) /\ Active(c) /\ c \in closed
                              /\ net = At("closing", c) /\ (\A d : net' # At("closing", d))
                              /\ UNCHANGED <<closed, username, work>>
           \/ \E w \in Worker : QueueLine(w) /\ UNCHANGED <<closed, username, net>>
           \/ UNCHANGED <<said, username>>
<1>1. ASSUME NEW c \in Conn, NEW name \in Text \cup {Empty}, Joining(c, name)
      PROVE  /\ queue_broadcast_message("join", c, None) /\ ~Active(c) /\ c \notin closed
             /\ UNCHANGED <<closed, net, work>>
             /\ \A d \in Conn : Active(d)' => Active(d) \/ d = c
  <2>1. /\ queue_broadcast_message("join", c, None) /\ ~Active(c) /\ net = At("read", c)
        /\ UNCHANGED <<closed, net, work>> /\ username' = [username EXCEPT ![c] = name]
    BY <1>1 DEF Joining, ReadLogin, netVars, workVars
  <2>2. c \notin closed
    BY <2>1, AtFacts DEF Pointers
  <2>3. \A d \in Conn : Active(d)' => Active(d) \/ d = c
    BY <2>1 DEF Active, Types, TypeOK
  <2> QED
    BY <2>1, <2>2, <2>3
<1>2. ASSUME NEW c \in Conn, Leaving(c)
      PROVE  /\ queue_broadcast_message("leave", c, None) /\ Active(c) /\ c \in closed
             /\ net = At("closing", c) /\ (\A d : net' # At("closing", d))
             /\ UNCHANGED <<closed, username, work>>
  <2>1. /\ queue_broadcast_message("leave", c, None) /\ Active(c)
        /\ net = At("closing", c) /\ net' = At("dispatch", None) /\ UNCHANGED <<closed, username, work>>
    BY <1>2 DEF Leaving, CloseRest, workVars
  <2>2. c \in closed /\ \A d : net' # At("closing", d)
    BY <2>1, AtFacts DEF Pointers
  <2> QED
    BY <2>1, <2>2
<1>3. \A w \in Worker : QueueLine(w) => UNCHANGED <<closed, username, net>>
  BY DEF QueueLine, nameVars, netVars
<1> QED
  BY <1>1, <1>2, <1>3, SaidFrame

(* Who is logged in was said to join.                                        *)
LEMMA JoinedStep ==
    ASSUME Types, Pointers, Entries, Joined, [Next]_vars
    PROVE  Joined'
<1>1. ASSUME NEW kind \in {"join", "chat", "leave"}, NEW c \in Conn, NEW s \in Fd \cup {None},
             queue_broadcast_message(kind, c, s),
             \A d \in Conn : Active(d)' => Active(d) \/ (d = c /\ kind = "join")
      PROVE  Joined'
  <2>1. PICK n \in Nat : /\ Said' = Said \cup {n} /\ \A m \in Said : said'[m] = said[m]
                         /\ said'[n].kind = kind /\ said'[n].from = c
    BY <1>1, NewPost
  <2> QED
    BY <1>1, <2>1 DEF Joined
<1>2. CASE UNCHANGED <<said, username>>
  BY <1>2 DEF Joined, Said, Active
<1>3. ASSUME NEW w \in Worker, QueueLine(w), username' = username PROVE Joined'
  <2>1. \A d \in Conn : Active(d)' => Active(d)
    BY <1>3 DEF Active
  <2> QED
    BY <1>1, <1>3, <2>1, QueueLineFacts
<1>4. ASSUME NEW c \in Conn, queue_broadcast_message("leave", c, None), username' = username PROVE Joined'
  <2>1. \A d \in Conn : Active(d)' => Active(d)
    BY <1>4 DEF Active
  <2> QED
    BY <1>1, <1>4, <2>1
<1> QED
  BY <1>1, <1>2, <1>3, <1>4, WhoSays

(* Who was said to leave is closed for good.                                 *)
LEMMA LeftStep ==
    ASSUME Types, Pointers, Entries, Left, [Next]_vars
    PROVE  Left'
<1>1. /\ closed \subseteq closed'
      /\ \A c \in closed : net # At("closing", c) => net' # At("closing", c)
  <2>1. ASSUME NEW c \in Conn, CloseFlag(c), net' = At("closing", c) PROVE c \notin closed
    <3>1. net = At("close", c)
      BY <2>1 DEF CloseFlag
    <3> QED
      BY <3>1, AtFacts DEF Pointers
  <2>2. ASSUME NEW c \in Conn, CloseRest(c) PROVE \A d : net' # At("closing", d)
    <3>1. net' = At("dispatch", None)
      BY <2>2 DEF CloseRest
    <3> QED
      BY <3>1, AtFacts
  <2> QED
    BY <2>1, <2>2, CloseFrame, AtFacts
<1>2. ASSUME \A i \in Said' : said'[i].kind = "leave" =>
                \/ i \in Said /\ said'[i] = said[i]
                \/ said'[i].from \in closed /\ net' # At("closing", said'[i].from)
      PROVE  Left'
  BY <1>1, <1>2 DEF Left
<1>3. ASSUME NEW kind \in {"join", "chat", "leave"}, NEW c \in Conn, NEW s \in Fd \cup {None},
             queue_broadcast_message(kind, c, s),
             kind = "leave" => c \in closed /\ net' # At("closing", c)
      PROVE  Left'
  <2>1. PICK n \in Nat : /\ Said' = Said \cup {n} /\ \A m \in Said : said'[m] = said[m]
                         /\ said'[n].kind = kind /\ said'[n].from = c
    BY <1>3, NewPost
  <2> QED
    BY <1>2, <1>3, <2>1
<1>4. CASE UNCHANGED said
  BY <1>2, <1>4 DEF Said
<1>5. \A w \in Worker : QueueLine(w) => Left'
  BY <1>3, QueueLineFacts
<1> QED
  BY <1>3, <1>4, <1>5, WhoSays

(* A client joins before all else, and leaves after all that is not late.    *)
LEMMA JoinsLeavesStep ==
    ASSUME Types, Pointers, Entries, Posts, Joined, Left, JoinsFirst, LeavesLast, [Next]_vars
    PROVE  JoinsFirst' /\ LeavesLast'
<1>1. ASSUME NEW kind \in {"join", "chat", "leave"}, NEW c \in Conn, NEW s \in Fd \cup {None},
             queue_broadcast_message(kind, c, s),
             kind = "join" => ~Active(c),
             kind # "join" => Active(c),
             kind = "leave" => net = At("closing", c)
      PROVE  JoinsFirst' /\ LeavesLast'
  <2>1. PICK n \in Nat : /\ n \notin Said /\ Said' = Said \cup {n}
                         /\ \A m \in Said : m < n /\ said'[m] = said[m]
                         /\ said'[n].kind = kind /\ said'[n].from = c /\ said'[n].late = (c \in closed)
    BY <1>1, NewPost
  <2>2. \A m \in Said : Late(m)' <=> Late(m)
    BY <2>1 DEF Late
  <2>3. Said \subseteq Nat
    BY DEF Said
  <2>4. \A i, j \in Said' : i < j => i \in Said /\ (j \in Said \/ j = n)
    BY <2>1, <2>3
  <2>5. ASSUME NEW i \in Said, said[i].from = c PROVE kind # "join" /\ (said[i].kind = "leave" => Late(n)')
    <3>1. Active(c)
      BY <2>5 DEF Posts
    <3>2. said[i].kind = "leave" => c \in closed /\ net # At("closing", c)
      BY <2>5 DEF Left
    <3>3. said[i].kind = "leave" => kind = "chat" /\ said'[n].late
      BY <1>1, <2>1, <3>1, <3>2
    <3> QED
      BY <1>1, <2>1, <3>1, <3>3 DEF Late
  <2>6. \A i, j \in Said' : i < j /\ said'[i].from = said'[j].from => said'[j].kind # "join"
    BY <2>1, <2>4, <2>5 DEF JoinsFirst
  <2>7. \A i, j \in Said' : i < j /\ said'[i].from = said'[j].from /\ said'[i].kind = "leave" => Late(j)'
    BY <2>1, <2>2, <2>4, <2>5 DEF LeavesLast
  <2>8. ASSUME NEW j \in Said', said'[j].kind # "join"
        PROVE  \E i \in 1..j - 1 : said'[i].kind = "join" /\ said'[i].from = said'[j].from
    <3>1. CASE j \in Said
      <4>1. PICK i \in 1..j - 1 : said[i].kind = "join" /\ said[i].from = said[j].from
        BY <2>1, <2>8, <3>1 DEF JoinsFirst
      <4>2. i \in Said
        BY <3>1, LenProperties DEF Said, Types
      <4> QED
        BY <2>1, <3>1, <4>1, <4>2
    <3>2. CASE j = n
      <4>1. PICK i \in Said : said[i].kind = "join" /\ said[i].from = c
        BY <1>1, <2>1, <2>8, <3>2 DEF Joined
      <4>2. i \in 1..j - 1
        BY <2>1, <3>2, <4>1 DEF Said
      <4> QED
        BY <2>1, <3>2, <4>1, <4>2
    <3> QED
      BY <2>1, <3>1, <3>2
  <2> QED
    BY <2>6, <2>7, <2>8 DEF JoinsFirst, LeavesLast
<1>2. CASE UNCHANGED said
  BY <1>2 DEF JoinsFirst, LeavesLast, Said, Late
<1>3. \A w \in Worker : QueueLine(w) => JoinsFirst' /\ LeavesLast'
  BY <1>1, QueueLineFacts
<1> QED
  BY <1>1, <1>2, <1>3, WhoSays

(* The sets that LateLimited counts are finite.                              *)
LEMMA CountedFinite ==
    ASSUME Types, NEW c
    PROVE  /\ IsFiniteSet(LateLines(c)) /\ Cardinality(LateLines(c)) \in Nat
           /\ IsFiniteSet(Holding(c)) /\ Cardinality(Holding(c)) \in Nat
           /\ Cardinality(Worker) \in Nat
           /\ \A Q : Q \subseteq Worker => /\ IsFiniteSet(Q) /\ Cardinality(Q) \in Nat
                                           /\ Cardinality(Q) <= Cardinality(Worker)
<1>1. Len(said) \in Nat /\ IsFiniteSet(1..Len(said))
  BY LenProperties, FS_Interval DEF Types
<1>2. LateLines(c) \subseteq 1..Len(said) /\ Holding(c) \subseteq Worker
  BY DEF LateLines, Said, Holding
<1>3. IsFiniteSet(Worker)
  BY ChatServerV2Assumption
<1>4. IsFiniteSet(LateLines(c)) /\ IsFiniteSet(Holding(c))
  BY <1>1, <1>2, <1>3, FS_Subset
<1>5. \A Q : Q \subseteq Worker => /\ IsFiniteSet(Q) /\ Cardinality(Q) \in Nat
                                   /\ Cardinality(Q) <= Cardinality(Worker)
  BY <1>3, FS_Subset, FS_CardinalityType
<1> QED
  BY <1>3, <1>4, <1>5, FS_CardinalityType

(* Each worker says one late line of a client at most: it looks at the flag  *)
(* before it queues another.                                                 *)
LEMMA LateLimitedStep ==
    ASSUME Types, Types', Pointers, Entries, LateLimited, [Next]_vars
    PROVE  LateLimited'
<1>1. closed \subseteq closed'
  BY CloseFrame
<1>2. ASSUME NEW c \in Conn, LateLines(c)' = LateLines(c), c \notin closed' \/ Holding(c)' \subseteq Holding(c)
      PROVE  /\ c \notin closed' => LateLines(c)' = {}
             /\ Cardinality(LateLines(c)') + Cardinality(Holding(c)') <= Cardinality(Worker)
  <2>1. c \notin closed' => LateLines(c)' = {}
    BY <1>1, <1>2 DEF LateLimited
  <2>2. CASE c \notin closed'
    <3>1. Holding(c)' \subseteq Worker
      BY DEF Holding
    <3>2. /\ Cardinality(Holding(c)') \in Nat /\ Cardinality(Holding(c)') <= Cardinality(Worker)
          /\ Cardinality({}) = 0
      BY <3>1, CountedFinite, FS_EmptySet
    <3> QED
      BY <2>1, <2>2, <3>2, CountedFinite
  <2>3. CASE Holding(c)' \subseteq Holding(c)
    <3>1. Cardinality(Holding(c)') \in Nat /\ Cardinality(Holding(c)') <= Cardinality(Holding(c))
      BY <2>3, CountedFinite, FS_Subset, FS_CardinalityType
    <3>2. Cardinality(LateLines(c)) + Cardinality(Holding(c)) <= Cardinality(Worker)
      BY DEF LateLimited
    <3> QED
      BY <1>2, <2>1, <3>1, <3>2, CountedFinite
  <2> QED
    BY <1>2, <2>2, <2>3
<1>3. ASSUME \A c \in Conn : LateLines(c)' = LateLines(c) /\ (c \notin closed' \/ Holding(c)' \subseteq Holding(c))
      PROVE  LateLimited'
  BY <1>2, <1>3 DEF LateLimited
<1>4. ASSUME work' = work PROVE \A c : Holding(c)' = Holding(c)
  BY <1>4 DEF Holding
<1>5. ASSUME said' = said PROVE \A c : LateLines(c)' = LateLines(c)
  BY <1>5 DEF LateLines, Said
<1>6. ASSUME NEW kind \in {"join", "leave"}, NEW c \in Conn,
             queue_broadcast_message(kind, c, None), work' = work
      PROVE  LateLimited'
  <2>1. PICK n \in Nat : /\ Said' = Said \cup {n} /\ \A m \in Said : said'[m] = said[m]
                         /\ said'[n].kind = kind
    BY <1>6, NewPost
  <2>2. \A d \in Conn : LateLines(d)' = LateLines(d)
    BY <1>6, <2>1 DEF LateLines
  <2> QED
    BY <1>3, <1>4, <1>6, <2>2
<1>7. ASSUME NEW w \in Worker, QueueLine(w), closed' = closed PROVE LateLimited'
  <2>1. PICK c \in Conn : c = work[w].conn
    BY <1>7, QueueLineFacts
  <2>2. /\ work[w] = At("queue", c) /\ queue_broadcast_message("chat", c, fd[c]) /\ fd[c] \in Fd \cup {None}
        /\ work' = [work EXCEPT ![w] = At("notify", c)]
    BY <1>7, <2>1, QueueLineFacts
  <2>3. PICK n \in Nat : /\ n \notin Said /\ Said' = Said \cup {n} /\ \A m \in Said : said'[m] = said[m]
                         /\ said'[n].kind = "chat" /\ said'[n].from = c /\ said'[n].late = (c \in closed)
    BY <2>2, NewPost
  <2>4. /\ \A v \in Worker : work'[v] = IF v = w THEN At("notify", c) ELSE work[v]
        /\ \A d : At("notify", c) # At("queue", d)
    BY <2>2, PlaceFacts, AtFacts
  <2>5. \A d : Holding(d)' = Holding(d) \ {w}
    BY <2>4 DEF Holding
  <2>6. ASSUME NEW d \in Conn, d # c \/ c \notin closed PROVE LateLines(d)' = LateLines(d)
    BY <2>3, <2>6 DEF LateLines
  <2>7. CASE c \notin closed
    BY <1>3, <2>5, <2>6, <2>7
  <2>8. CASE c \in closed
    <3>1. LateLines(c)' = LateLines(c) \cup {n} /\ n \notin LateLines(c)
      BY <2>3, <2>8 DEF LateLines
    <3>2. Cardinality(LateLines(c)') = Cardinality(LateLines(c)) + 1
      BY <3>1, CountedFinite, FS_AddElement
    <3>3. w \in Holding(c)
      BY <2>2 DEF Holding
    <3>4. Cardinality(Holding(c)') = Cardinality(Holding(c)) - 1
      BY <2>5, <3>3, CountedFinite, FS_RemoveElement
    <3>5. Cardinality(LateLines(c)') + Cardinality(Holding(c)') <= Cardinality(Worker)
      BY <3>2, <3>4, CountedFinite DEF LateLimited
    <3> QED
      BY <1>2, <1>7, <2>5, <2>6, <2>8, <3>5 DEF LateLimited
  <2> QED
    BY <2>7, <2>8
<1>8. ASSUME said' = said, \A c \in Conn : c \notin closed' \/ Holding(c)' \subseteq Holding(c) PROVE LateLimited'
  BY <1>3, <1>5, <1>8
<1>9. ASSUME NEW w \in Worker, Check(w) PROVE LateLimited'
  <2>1. said' = said /\ closed' = closed
    BY <1>9 DEF Check, busVars
  <2>2. \A v \in Worker : v # w => work'[v] = work[v]
    BY <1>9 DEF Check
  <2>3. ASSUME NEW c \in Conn, c \in closed' PROVE work'[w] # At("queue", c)
    <3>1. work'[w] = IF work[w].conn \in closed \/ ~Active(work[w].conn) THEN At("idle", None)
                     ELSE At("queue", work[w].conn)
      BY <1>9, PlaceFacts DEF Check
    <3> QED
      BY <2>1, <2>3, <3>1, AtFacts
  <2>4. \A c \in Conn : c \notin closed' \/ Holding(c)' \subseteq Holding(c)
    BY <2>2, <2>3 DEF Holding
  <2> QED
    BY <1>8, <2>1, <2>4
<1>10. ASSUME NEW w \in Worker, TakeTask(w) \/ Notify(w) PROVE LateLimited'
  <2>1. said' = said /\ \A v \in Worker : v # w => work'[v] = work[v]
    <3>1. said' = said
      BY <1>10 DEF TakeTask, Notify, busVars
    <3>2. CASE TakeTask(w)
      <4>1. \A v \in Worker : work'[v] = IF v = w THEN At("check", Head(task_queue_)) ELSE work[v]
        BY <3>2, PlaceFacts DEF TakeTask
      <4> QED
        BY <3>1, <4>1
    <3>3. CASE Notify(w)
      <4>1. \A v \in Worker : work'[v] = IF v = w THEN At("idle", None) ELSE work[v]
        BY <3>3, PlaceFacts DEF Notify
      <4> QED
        BY <3>1, <4>1
    <3> QED
      BY <1>10, <3>2, <3>3
  <2>2. \/ work' = [work EXCEPT ![w] = At("check", Head(task_queue_))]
        \/ work' = [work EXCEPT ![w] = At("idle", None)]
    BY <1>10 DEF TakeTask, Notify
  <2>3. \A c : work'[w] # At("queue", c)
    BY <2>2, PlaceFacts, AtFacts
  <2>4. \A c \in Conn : Holding(c)' \subseteq Holding(c)
    BY <2>1, <2>3 DEF Holding
  <2> QED
    BY <1>8, <2>1, <2>4
<1>11. ASSUME UNCHANGED <<said, work>> PROVE LateLimited'
  BY <1>4, <1>8, <1>11
<1>12. (\E w \in Worker : Work(w)) \/ work' = work
  BY DEF Next, Net, EpollWait, Dispatch, AcceptEnd, handle_broadcasts, Accept, ReadLogin, ReadChat, ReadEnd,
         handle_write, CloseFlag, CloseRest, vars, workVars
<1>13. CASE \E w \in Worker : Work(w)
  <2>1. \A w \in Worker : QueueLine(w) => closed' = closed
    BY DEF QueueLine
  <2> QED
    BY <1>7, <1>9, <1>10, <1>13, <2>1 DEF Work
<1>14. CASE work' = work
  BY <1>6, <1>7, <1>11, <1>14, WhoSays
<1> QED
  BY <1>12, <1>13, <1>14

-----------------------------------------------------------------------------
(* The whole.                                                                *)

(* Nothing has been said, given or queued at the start.                      *)
LEMMA InitLemma == Init => V2Inv
<1> SUFFICES ASSUME Init PROVE V2Inv
  OBVIOUS
<1>1. /\ \A c \in Conn : fd[c] = None /\ ~Active(c) /\ given[c] = <<>>
      /\ \A f \in Fd : connections_[f] = None
      /\ \A w \in Worker : work[w] = At("idle", None)
      /\ net = At("wait", None)
      /\ closed = {} /\ batch = {} /\ usernames_ = {} /\ out_buf = {} /\ armed = {}
      /\ task_queue_ = <<>> /\ broadcast_queue_ = <<>> /\ said = <<>>
      /\ Len(<<>>) = 0 /\ Len(said) = 0
  BY DEF Init, Active
<1>2. Said = {} /\ \A S : <<>> \in Seq(S)
  BY <1>1 DEF Said
<1>3. \A m, q : q = <<>> => ~Within(m, q) /\ Increasing(q)
  BY <1>1 DEF Within, Increasing
<1>4. TypeOK
  <2>1. /\ fd \in [Conn -> Fd \cup {None}] /\ connections_ \in [Fd -> Conn \cup {None}]
        /\ username \in [Conn -> Text \cup {Empty}]
    BY DEF Init
  <2>2. net \in [pc: NetPCs, conn: Conn \cup {None}]
    BY <1>1 DEF At, NetPCs
  <2>3. work \in [Worker -> [pc: {"idle", "check", "queue", "notify"}, conn: Conn \cup {None}]]
    BY DEF Init, At
  <2>4. given \in [Conn -> Seq(Said)]
    BY <1>2 DEF Init
  <2>5. lines \in 0..MaxLines /\ notified \in BOOLEAN
    <3>1. lines = 0 /\ notified \in BOOLEAN
      BY DEF Init
    <3>2. MaxLines \in Nat
      BY ChatServerV2Assumption
    <3>3. lines \in 0..MaxLines
      BY <3>1, <3>2
    <3> QED
      BY <3>1, <3>3
  <2> QED
    BY <1>1, <1>2, <2>1, <2>2, <2>3, <2>4, <2>5 DEF TypeOK
<1>5. Types
  BY <1>1, <1>2, <1>4, AtFacts DEF Types
<1>6. Pointers
  BY <1>1, AtFacts DEF Pointers
<1>7. Entries /\ Wakeup /\ Watched
  BY <1>1 DEF Entries, Wakeup, Watched
<1>8. NamesExact
  <2>1. NamesHeld
    BY <1>1 DEF NamesHeld, Here
  <2> QED
    BY <1>4, <2>1, NamesExactHeld
<1>9. Posts /\ NothingLost
  BY <1>2 DEF Posts, NothingLost
<1>10. Order
  BY <1>1, <1>2, <1>3 DEF Order
<1>11. Joined /\ Left /\ JoinsFirst /\ LeavesLast
  BY <1>1, <1>2 DEF Joined, Left, JoinsFirst, LeavesLast
<1>12. LateLimited
  <2>1. \A c : LateLines(c) = {} /\ Holding(c) = {}
    BY <1>1, <1>2, AtFacts DEF LateLines, Holding
  <2>2. Cardinality({}) = 0 /\ Cardinality(Worker) \in Nat
    BY FS_EmptySet, FS_CardinalityType, ChatServerV2Assumption
  <2> QED
    BY <2>1, <2>2 DEF LateLimited
<1> QED
  BY <1>5, <1>6, <1>7, <1>8, <1>9, <1>10, <1>11, <1>12 DEF V2Inv, Story

(* A step of the reactor or of a worker keeps all of it.                     *)
LEMMA StepLemma == V2Inv /\ [Next]_vars => V2Inv'
<1> SUFFICES ASSUME V2Inv, [Next]_vars PROVE V2Inv'
  OBVIOUS
<1>1. /\ Types /\ Pointers /\ Entries /\ NamesExact
      /\ Posts /\ Wakeup /\ Order /\ NothingLost /\ Watched
      /\ Joined /\ Left /\ JoinsFirst /\ LeavesLast /\ LateLimited
  BY DEF V2Inv, Story
<1>2. Types' /\ Pointers' /\ Entries'
  BY <1>1, TypesStep, PointersStep, EntriesStep
<1>3. NamesExact'
  <2>1. NamesHeld'
    BY <1>1, NamesStep, NamesExactHeld
  <2>2. NamesExact' <=> TypeOK' /\ NamesHeld'
    BY NamesExactHeld, PTL
  <2> QED
    BY <1>2, <2>1, <2>2 DEF Types
<1>4. Posts' /\ Wakeup' /\ Order' /\ NothingLost' /\ Watched'
  BY <1>1, PostsStep, WakeupStep, OrderStep, NothingLostStep, WatchedStep
<1>5. Joined' /\ Left' /\ JoinsFirst' /\ LeavesLast' /\ LateLimited'
  BY <1>1, <1>2, JoinedStep, LeftStep, JoinsLeavesStep, LateLimitedStep
<1> QED
  BY <1>2, <1>3, <1>4, <1>5 DEF V2Inv, Story

(* V2Inv is inductive: it holds whatever the order in which the reactor and  *)
(* the workers of the pool are scheduled.                                    *)
THEOREM V2Invariant == Spec => []V2Inv
BY InitLemma, StepLemma, PTL DEF Spec

(* The set of names of handle_read and close_conn holds exactly the names of *)
(* the clients that are logged in, each for one of them.                     *)
THEOREM NamesExactHolds == Spec => []NamesExact
<1>1. V2Inv => NamesExact
  BY DEF V2Inv
<1> QED
  BY <1>1, V2Invariant, PTL

(* An entry of the array of epoll_wait that run has still to look up never   *)
(* leads to another client, accepted on the same number meanwhile.           *)
THEOREM EntryMeetsItsConnHolds == Spec => []EntryMeetsItsConn
<1>1. V2Inv => EntryMeetsItsConn
  BY DEF V2Inv, Entries, EntryMeetsItsConn
<1> QED
  BY <1>1, V2Invariant, PTL

(* What queue_broadcast_message has queued for a client that stays is given  *)
(* to it or about to be, and what is in an out_buf is watched for room; only *)
(* a line whose speaker was closed before it was queued may be lost.         *)
THEOREM LostOnlyIfLateHolds == Spec => []LostOnlyIfLate
<1>1. ASSUME V2Inv PROVE LostOnlyIfLate
  <2>1. \A m : Within(m, broadcast_queue_) => WakeupPending
    BY <1>1 DEF V2Inv, Wakeup, Within
  <2>2. ASSUME NEW m \in Said, ~Late(m), NEW c \in said[m].due \ closed
        PROVE  Within(m, given[c]) \/ Within(m, broadcast_queue_)
    BY <1>1, <2>2 DEF V2Inv, Posts, NothingLost
  <2> QED
    BY <1>1, <2>1, <2>2 DEF V2Inv, Late, Watched, LostOnlyIfLate
<1> QED
  BY <1>1, V2Invariant, PTL

(* Every client is given the broadcasts in their order and none twice, never *)
(* its own lines; joining, lines and leaving of a client come in this order, *)
(* but for the lines of closed clients that workers had in hand.             *)
THEOREM HeardInOrderHolds == Spec => []HeardInOrder
<1>1. ASSUME V2Inv PROVE HeardInOrder
  <2>0. /\ Types /\ Order /\ JoinsFirst /\ LeavesLast /\ LateLimited
    BY <1>1 DEF V2Inv, Story
  <2>1. GivenInOrder
    <3>1. ASSUME NEW c \in Conn, NEW i \in 1..Len(given[c])
          PROVE  /\ \A j \in 1..i - 1 : given[c][j] < given[c][i]
                 /\ said[given[c][i]].kind = "chat" => said[given[c][i]].from # c
      <4>1. given[c] \in Seq(Said) /\ Len(given[c]) \in Nat
        BY <2>0, LenProperties DEF Types, TypeOK
      <4>2. given[c][i] \in Said /\ Within(given[c][i], given[c])
        BY <4>1, ElementOfSeq DEF Within
      <4>3. \A j \in 1..i - 1 : j \in 1..Len(given[c]) /\ j < i
        BY <4>1
      <4> QED
        BY <2>0, <4>2, <4>3 DEF Order, Increasing
    <3> QED
      BY <3>1 DEF GivenInOrder
  <2>2. \A i, j \in Said : i < j /\ said[i].from = said[j].from =>
            /\ said[j].kind # "join"
            /\ said[i].kind = "leave" => j \in LateLines(said[i].from)
    BY <2>0 DEF JoinsFirst, LeavesLast, Late, LateLines
  <2>3. \A c \in Conn : Cardinality(LateLines(c)) <= Cardinality(Worker)
    BY <2>0, CountedFinite DEF LateLimited
  <2> QED
    BY <2>0, <2>1, <2>2, <2>3 DEF JoinsFirst, HeardInOrder
<1> QED
  BY <1>1, V2Invariant, PTL

-----------------------------------------------------------------------------
(* Version 2 implements the broadcasts of Broadcast.                         *)

DueOf(m) == {c \in said[m].due : fd[c] # said[m].sender_fd}
Barred(m) == IF said[m].kind = "chat" THEN {said[m].from} ELSE {}

PostsMap == [m \in Said |-> [due |-> DueOf(m), barred |-> Barred(m)]]
OnWayMap ==
    {p \in Conn \X Said : /\ p[1] \in said[p[2]].due \ closed /\ fd[p[1]] # said[p[2]].sender_fd
                          /\ Within(p[2], broadcast_queue_) /\ WakeupPending}
Unsettled == {p \in Conn \X Said : p[1] \in DueOf(p[2]) \ closed /\ ~Within(p[2], given[p[1]])}

(* What is due to an open client is on its way exactly until it is given.    *)
LEMMA OnWayIs == V2Inv => OnWayMap = Unsettled
<1> SUFFICES ASSUME V2Inv PROVE OnWayMap = Unsettled
  OBVIOUS
<1>1. ASSUME NEW m \in Said, NEW c \in DueOf(m) \ closed, ~Within(m, given[c])
      PROVE  Within(m, broadcast_queue_) /\ WakeupPending
  <2>1. Within(m, broadcast_queue_)
    BY <1>1 DEF V2Inv, NothingLost, DueOf
  <2> QED
    BY <2>1 DEF V2Inv, Wakeup, Within
<1>2. ASSUME NEW m \in Said, NEW c \in Conn, Within(m, broadcast_queue_), Within(m, given[c])
      PROVE  FALSE
  <2>1. m < m /\ m \in Nat
    BY <1>2 DEF V2Inv, Order, Said
  <2> QED
    BY <2>1
<1> QED
  BY <1>1, <1>2 DEF OnWayMap, Unsettled, DueOf

(* And after a step.                                                         *)
LEMMA OnWayIsThen == V2Inv' => OnWayMap' = Unsettled'
<1> DEFINE Agree == OnWayMap = Unsettled
<1>1. V2Inv => Agree
  BY OnWayIs
<1>2. V2Inv' => Agree'
  <2> HIDE DEF Agree
  <2> QED
    BY <1>1, PTL
<1> QED
  BY <1>2

(* A broadcast stays what it is, though clients are accepted.                *)
LEMMA PostKept ==
    ASSUME V2Inv, [Next]_vars, NEW m \in Said, said'[m] = said[m]
    PROVE  DueOf(m)' = DueOf(m) /\ Barred(m)' = Barred(m)
<1>1. \A c \in said[m].due : fd'[c] = fd[c]
  BY DueStays DEF V2Inv
<1> QED
  BY <1>1 DEF DueOf, Barred

(* Where nobody speaks, leaves or is given anything, nothing of it changes.  *)
LEMMA NothingHappens ==
    ASSUME V2Inv, V2Inv', [Next]_vars, UNCHANGED <<said, closed, given>>
    PROVE  UNCHANGED B!broadcastVars
<1>1. Said' = Said
  BY DEF Said
<1>2. \A m \in Said : DueOf(m)' = DueOf(m) /\ Barred(m)' = Barred(m)
  BY PostKept
<1>3. PostsMap' = PostsMap
  BY <1>1, <1>2 DEF PostsMap
<1>4. Unsettled' = Unsettled
  BY <1>1, <1>2 DEF Unsettled, Within
<1>5. OnWayMap' = OnWayMap
  BY <1>4, OnWayIs, OnWayIsThen
<1> QED
  BY <1>3, <1>5 DEF B!broadcastVars, PostsMap, DueOf, Barred, OnWayMap

(* What is queued for broadcast is spoken.                                   *)
LEMMA QueuedSpeaks ==
    ASSUME V2Inv, V2Inv', [Next]_vars, NEW kind \in {"join", "chat", "leave"}, NEW c \in Conn,
           NEW s \in Fd \cup {None}, queue_broadcast_message(kind, c, s), UNCHANGED <<closed, given>>
    PROVE  B!Speak
<1>0. Types
  BY DEF V2Inv
<1>1. PICK n \in Nat :
         /\ n = Len(said) + 1 /\ n \notin Said /\ Said' = Said \cup {n}
         /\ \A m \in Said : m < n /\ said'[m] = said[m]
         /\ said'[n].kind = kind /\ said'[n].from = c /\ said'[n].sender_fd = s
         /\ said'[n].late = (c \in closed)
         /\ \A d \in said'[n].due : d \in Conn /\ d # c /\ Active(d) /\ d \notin closed
  BY <1>0, NewPost
<1>2. /\ n \notin Said /\ Said' = Said \cup {n} /\ \A m \in Said : said'[m] = said[m]
      /\ \A d \in said'[n].due : d \in Conn /\ d # c /\ d \notin closed
      /\ said'[n].from = c
  BY <1>1
<1>3. \A m \in Said : DueOf(m)' = DueOf(m) /\ Barred(m)' = Barred(m)
  BY <1>2, PostKept
<1> DEFINE due == DueOf(n)'
           barred == Barred(n)'
<1>4. due \subseteq Conn \ (closed \cup barred)
  <2>1. \A d \in due : d \in Conn /\ d # c /\ d \notin closed
    BY <1>2 DEF DueOf
  <2>2. barred \subseteq {c}
    BY <1>2 DEF Barred
  <2> HIDE DEF due, barred
  <2> QED
    BY <2>1, <2>2
<1>5. Len(said) \in Nat /\ Len(said) + 1 = n
  BY <1>0, <1>1, LenProperties DEF Types
<1>6. Said = 1..(n - 1) /\ Said' = 1..n
  BY <1>2, <1>5 DEF Said
<1>7. /\ Len(PostsMap) = n - 1 /\ Len(PostsMap') = n
      /\ \A m \in 1..(n - 1) : PostsMap'[m] = PostsMap[m]
      /\ PostsMap'[n] = [due |-> due, barred |-> barred]
  <2>1. PostsMap = [m \in 1..(n - 1) |-> [due |-> DueOf(m), barred |-> Barred(m)]]
    BY <1>6 DEF PostsMap
  <2>2. PostsMap' = [m \in 1..n |-> [due |-> DueOf(m)', barred |-> Barred(m)']]
    BY <1>6 DEF PostsMap
  <2>3. n - 1 \in Nat /\ n \in 1..n
    BY <1>5
  <2>4. Len(PostsMap) = n - 1
    BY <2>1, <2>3
  <2>5. Len(PostsMap') = n /\ PostsMap'[n] = [due |-> due, barred |-> barred]
    BY <2>2, <2>3
  <2>6. ASSUME NEW m \in 1..(n - 1) PROVE PostsMap'[m] = PostsMap[m]
    <3>1. m \in 1..n /\ DueOf(m)' = DueOf(m) /\ Barred(m)' = Barred(m)
      BY <1>3, <1>5, <1>6
    <3> QED
      BY <2>1, <2>2, <3>1
  <2> QED
    BY <2>4, <2>5, <2>6
<1>8. \A d \in Conn : ~Within(n, given[d])
  <2>1. \A d \in Conn : given[d] \in Seq(Said)
    BY <1>0 DEF Types, TypeOK
  <2> QED
    BY <1>2, <2>1, ElementOfSeq DEF Within
<1> HIDE DEF due, barred
<1>9. Unsettled' = Unsettled \cup (due \X {n})
  <2>1. ASSUME NEW d \in Conn, NEW m \in Said'
        PROVE  <<d, m>> \in Unsettled' <=> <<d, m>> \in Unsettled \/ <<d, m>> \in due \X {n}
    <3>1. <<d, m>> \in Unsettled' <=> d \in DueOf(m)' /\ d \notin closed /\ ~Within(m, given[d])
      BY <2>1 DEF Unsettled, Within
    <3>2. CASE m = n
      <4>1. <<d, m>> \in Unsettled' <=> d \in due
        BY <1>4, <1>8, <3>1, <3>2 DEF due
      <4>2. <<d, m>> \notin Unsettled
        BY <1>2, <3>2 DEF Unsettled
      <4> QED
        BY <3>2, <4>1, <4>2
    <3>3. CASE m # n
      <4>1. m \in Said
        BY <1>2, <3>3
      <4>2. <<d, m>> \in Unsettled' <=> <<d, m>> \in Unsettled
        BY <1>3, <3>1, <4>1 DEF Unsettled
      <4> QED
        BY <3>3, <4>2
    <3> QED
      BY <3>2, <3>3
  <2>2. Unsettled' \subseteq Conn \X Said' /\ Unsettled \subseteq Conn \X Said'
    BY <1>2 DEF Unsettled
  <2>3. due \X {n} \subseteq Conn \X Said'
    BY <1>2, <1>4
  <2> QED
    BY <2>1, <2>2, <2>3
<1>10. OnWayMap' = OnWayMap \cup (due \X {n})
  BY <1>9, OnWayIs, OnWayIsThen
<1>11. B!Speak <=>
          /\ Len(PostsMap') = Len(PostsMap) + 1
          /\ \A i \in 1..Len(PostsMap) : PostsMap'[i] = PostsMap[i]
          /\ PostsMap'[Len(PostsMap) + 1].due \subseteq Conn \ (closed \cup PostsMap'[Len(PostsMap) + 1].barred)
          /\ OnWayMap' = OnWayMap \cup (PostsMap'[Len(PostsMap) + 1].due \X {Len(PostsMap) + 1})
          /\ given' = given /\ closed' = closed
  BY DEF B!Speak, PostsMap, DueOf, Barred, OnWayMap
<1>12. n - 1 + 1 = n
  BY <1>5
<1> QED
  BY <1>4, <1>7, <1>10, <1>11, <1>12

(* close_conn lets a client leave.                                           *)
LEMMA CloseFlagLeaves ==
    ASSUME V2Inv, V2Inv', [Next]_vars, NEW c \in Conn, CloseFlag(c)
    PROVE  B!Leave(c)
<1>1. UNCHANGED <<said, given>> /\ closed' = closed \cup {c}
  BY DEF CloseFlag, busVars, writeVars
<1>2. Said' = Said
  BY <1>1 DEF Said
<1>3. \A m \in Said : DueOf(m)' = DueOf(m) /\ Barred(m)' = Barred(m)
  BY <1>1, PostKept
<1>4. PostsMap' = PostsMap
  BY <1>2, <1>3 DEF PostsMap
<1>5. Unsettled' = {p \in Unsettled : p[1] # c}
  BY <1>1, <1>2, <1>3 DEF Unsettled, Within
<1>6. OnWayMap' = {p \in OnWayMap : p[1] # c}
  BY <1>5, OnWayIs, OnWayIsThen
<1> QED
  BY <1>1, <1>4, <1>6 DEF B!Leave, PostsMap, DueOf, Barred, OnWayMap

(* What handle_broadcasts adds to what a client was given: broadcasts that   *)
(* are there, are not its own, and were not given to it before.              *)
LEMMA GivenGrows ==
    ASSUME V2Inv, V2Inv', handle_broadcasts, said' = said, NEW c \in Conn
    PROVE  /\ Len(given[c]) \in Nat /\ Len(given'[c]) \in Nat
           /\ Len(given[c]) <= Len(given'[c])
           /\ \A i \in 1..Len(given[c]) : given'[c][i] = given[c][i]
           /\ \A i \in Len(given[c]) + 1..Len(given'[c]) :
                 /\ c \notin closed
                 /\ given'[c][i] \in Said /\ c \notin Barred(given'[c][i])
                 /\ \A j \in 1..i - 1 : given'[c][j] # given'[c][i]
<1>0. Types /\ Types' /\ Order'
  BY DEF V2Inv
<1>1. given[c] \in Seq(Said) /\ given'[c] \in Seq(Said)
  <2>1. Said' = Said
    BY DEF Said
  <2>2. given'[c] \in Seq(Said')
    BY <1>0 DEF Types, TypeOK
  <2> QED
    BY <1>0, <2>1, <2>2 DEF Types, TypeOK
<1>2. \/ given'[c] = given[c]
      \/ given'[c] = given[c] \o For(c) /\ c \notin closed
  BY <1>0, GivenFacts
<1>3. /\ Len(given[c]) \in Nat /\ Len(given'[c]) \in Nat /\ Len(given[c]) <= Len(given'[c])
      /\ \A i \in 1..Len(given[c]) : given'[c][i] = given[c][i]
  <2>1. CASE given'[c] = given[c]
    BY <1>1, <2>1, LenProperties
  <2>2. CASE given'[c] = given[c] \o For(c)
    <3>1. For(c) \in Seq(Said)
      BY <1>0, ForFacts
    <3> DEFINE p == given[c]  q == For(c)
    <3>2. p \in Seq(Said) /\ q \in Seq(Said)
      BY <1>1, <3>1
    <3> HIDE DEF p, q
    <3>3. /\ Len(p) \in Nat /\ Len(q) \in Nat /\ Len(p \o q) = Len(p) + Len(q)
          /\ \A i \in 1..Len(p) + Len(q) : (p \o q)[i] = IF i <= Len(p) THEN p[i] ELSE q[i - Len(p)]
      BY <3>2, ConcatProperties, LenProperties
    <3>4. Len(p) <= Len(p \o q) /\ \A i \in 1..Len(p) : (p \o q)[i] = p[i]
      BY <3>3
    <3>5. Len(p \o q) \in Nat
      BY <3>3
    <3> QED
      BY <2>2, <3>3, <3>4, <3>5 DEF p, q
  <2> QED
    BY <1>2, <2>1, <2>2
<1>4. Increasing(given'[c]) /\ \A m \in Said : Within(m, given'[c]) /\ said[m].kind = "chat" => said[m].from # c
  <2>1. Said' = Said
    BY DEF Said
  <2> QED
    BY <1>0, <2>1 DEF Order
<1>5. ASSUME NEW i \in Len(given[c]) + 1..Len(given'[c])
      PROVE  /\ c \notin closed
             /\ given'[c][i] \in Said /\ c \notin Barred(given'[c][i])
             /\ \A j \in 1..i - 1 : given'[c][j] # given'[c][i]
  <2>1. i \in 1..Len(given'[c]) /\ \A j \in 1..i - 1 : j \in 1..Len(given'[c]) /\ j < i
    BY <1>3
  <2>2. given'[c] # given[c]
    BY <1>3
  <2>3. c \notin closed
    BY <1>2, <2>2
  <2>4. \A j \in 1..Len(given'[c]) : given'[c][j] \in Said
    BY <1>1, ElementOfSeq
  <2>5. \A j \in 1..i - 1 : given'[c][j] < given'[c][i]
    BY <1>4, <2>1 DEF Increasing
  <2>6. \A j \in 1..i - 1 : given'[c][j] \in Nat /\ given'[c][i] \in Nat
    BY <2>1, <2>4 DEF Said
  <2>7. \A j \in 1..i - 1 : given'[c][j] # given'[c][i]
    BY <2>5, <2>6
  <2>8. Within(given'[c][i], given'[c])
    BY <2>1 DEF Within
  <2>9. c \notin Barred(given'[c][i])
    BY <1>4, <2>1, <2>4, <2>8 DEF Barred
  <2> QED
    BY <2>1, <2>3, <2>4, <2>7, <2>9
<1> QED
  BY <1>3, <1>5

(* handle_broadcasts gives.                                                  *)
LEMMA BroadcastsGive ==
    ASSUME V2Inv, V2Inv', [Next]_vars, handle_broadcasts
    PROVE  B!Give
<1>1. UNCHANGED <<said, closed>>
  BY DEF handle_broadcasts
<1>2. Said' = Said
  BY <1>1 DEF Said
<1>3. \A m \in Said : DueOf(m)' = DueOf(m) /\ Barred(m)' = Barred(m)
  BY <1>1, PostKept
<1>4. PostsMap' = PostsMap
  BY <1>2, <1>3 DEF PostsMap
<1>5. ASSUME NEW c \in Conn
      PROVE  /\ Len(given[c]) \in Nat /\ Len(given'[c]) \in Nat
             /\ Len(given[c]) <= Len(given'[c])
             /\ \A i \in 1..Len(given[c]) : given'[c][i] = given[c][i]
             /\ \A i \in Len(given[c]) + 1..Len(given'[c]) :
                   /\ c \notin closed
                   /\ given'[c][i] \in Said /\ c \notin Barred(given'[c][i])
                   /\ \A j \in 1..i - 1 : given'[c][j] # given'[c][i]
  BY <1>1, GivenGrows
<1>6. \A c \in Conn : \A e : Within(e, given[c]) => Within(e, given'[c])
  <2>1. \A c \in Conn : \A j \in 1..Len(given[c]) : j \in 1..Len(given'[c])
    BY <1>5
  <2> QED
    BY <1>5, <2>1 DEF Within
<1>7. Unsettled' = {p \in Unsettled : ~Within(p[2], given'[p[1]])}
  <2>1. Unsettled' = {p \in Conn \X Said : p[1] \in DueOf(p[2]) \ closed /\ ~Within(p[2], given'[p[1]])}
    BY <1>1, <1>2, <1>3 DEF Unsettled, Within
  <2> QED
    BY <1>6, <2>1 DEF Unsettled
<1>8. OnWayMap' = {p \in OnWayMap : ~Within(p[2], given'[p[1]])}
  BY <1>7, OnWayIs, OnWayIsThen
<1>9. \A c, e : B!Fate(c, e)' <=> Within(e, given'[c])
  BY DEF B!Fate, B!GivenTo, Within
<1>10. OnWayMap' = {p \in OnWayMap : ~B!Fate(p[1], p[2])'}
  BY <1>8, <1>9
<1>11. Len(PostsMap) = Len(said) /\ \A m \in Said : PostsMap[m].barred = Barred(m)
  <2>1. Len(said) \in Nat
    BY LenProperties DEF V2Inv, Types
  <2> QED
    BY <2>1 DEF PostsMap, Said
<1>12. \A c \in Conn :
          /\ Len(given[c]) <= Len(given'[c]) /\ \A i \in 1..Len(given[c]) : given'[c][i] = given[c][i]
          /\ \A i \in Len(given[c]) + 1..Len(given'[c]) :
                /\ c \notin closed
                /\ given'[c][i] \in 1..Len(PostsMap) /\ c \notin PostsMap[given'[c][i]].barred
                /\ \A j \in 1..i - 1 : given'[c][j] # given'[c][i]
  <2>1. \A m \in Said : m \in 1..Len(PostsMap) /\ PostsMap[m].barred = Barred(m)
    BY <1>11 DEF Said
  <2>2. ASSUME NEW c \in Conn, NEW i \in Len(given[c]) + 1..Len(given'[c])
        PROVE  given'[c][i] \in 1..Len(PostsMap) /\ c \notin PostsMap[given'[c][i]].barred
    <3>1. given'[c][i] \in Said /\ c \notin Barred(given'[c][i])
      BY <1>5
    <3> QED
      BY <2>1, <3>1
  <2> QED
    BY <1>5, <2>2
<1> QED
  BY <1>1, <1>4, <1>10, <1>12 DEF B!Give, PostsMap, DueOf, Barred, OnWayMap

(* Every step of the reactor and of the workers is a step of Broadcast, or   *)
(* none.                                                                     *)
LEMMA StepsOfBroadcast ==
    ASSUME V2Inv, V2Inv', [Next]_vars
    PROVE  [B!BroadcastNext]_(B!broadcastVars)
<1>0. Types /\ Pointers /\ Entries
  BY DEF V2Inv
<1>1. ASSUME NEW kind \in {"join", "chat", "leave"}, NEW c \in Conn, NEW s \in Fd \cup {None},
             queue_broadcast_message(kind, c, s), UNCHANGED <<closed, given>>
      PROVE  [B!BroadcastNext]_(B!broadcastVars)
  <2>1. B!Speak
    BY <1>1, QueuedSpeaks
  <2> QED
    BY <2>1 DEF B!BroadcastNext
<1>2. CASE \E c \in Conn, name \in Text \cup {Empty} : Joining(c, name)
  <2>1. PICK c \in Conn, name \in Text \cup {Empty} : Joining(c, name)
    BY <1>2
  <2>2. queue_broadcast_message("join", c, None) /\ UNCHANGED <<closed, given>>
    BY <2>1 DEF Joining, ReadLogin, writeVars
  <2> QED
    BY <1>1, <2>2
<1>3. CASE \E c \in Conn : Leaving(c)
  <2>1. PICK c \in Conn : Leaving(c)
    BY <1>3
  <2>2. queue_broadcast_message("leave", c, None) /\ UNCHANGED <<closed, given>>
    BY <2>1 DEF Leaving, CloseRest, writeVars
  <2> QED
    BY <1>1, <2>2
<1>4. CASE \E w \in Worker : QueueLine(w)
  <2>1. PICK w \in Worker : QueueLine(w)
    BY <1>4
  <2>2. UNCHANGED <<closed, given>>
    BY <2>1 DEF QueueLine, writeVars
  <2>3. /\ work[w].conn \in Conn /\ fd[work[w].conn] \in Fd \cup {None}
        /\ queue_broadcast_message("chat", work[w].conn, fd[work[w].conn])
    BY <1>0, <2>1, QueueLineFacts
  <2> QED
    BY <1>1, <2>2, <2>3
<1>5. CASE \E c \in Conn : CloseFlag(c)
  BY <1>5, CloseFlagLeaves DEF B!BroadcastNext
<1>6. CASE handle_broadcasts
  BY <1>6, BroadcastsGive DEF B!BroadcastNext
<1>7. CASE UNCHANGED <<said, given>> /\ ~\E c \in Conn : CloseFlag(c)
  <2>1. closed' = closed
    BY <1>0, <1>7, CloseFrame
  <2> QED
    BY <1>7, <2>1, NothingHappens
<1> QED
  BY <1>2, <1>3, <1>4, <1>5, <1>6, <1>7, SaidFrame

(* Tasks, the queue of broadcasts and the reactor that is notified give      *)
(* everybody each broadcast as Broadcast has it, and refuse nothing.         *)
THEOREM V2ImplementsBroadcast == Spec => ImplementsBroadcast
<1>1. Init => B!BroadcastInit
  <2> SUFFICES ASSUME Init PROVE B!BroadcastInit
    OBVIOUS
  <2>1. said = <<>> /\ closed = {} /\ given = [c \in Conn |-> <<>>]
    BY DEF Init
  <2>2. Said = {}
    BY <2>1 DEF Said
  <2>3. PostsMap = <<>> /\ OnWayMap = {}
    BY <2>2 DEF PostsMap, OnWayMap
  <2> QED
    BY <2>1, <2>3 DEF B!BroadcastInit, PostsMap, DueOf, Barred, OnWayMap
<1>2. V2Inv /\ V2Inv' /\ [Next]_vars => [B!BroadcastNext]_(B!broadcastVars)
  BY StepsOfBroadcast
<1> QED
  BY <1>1, <1>2, V2Invariant, PTL DEF Spec, ImplementsBroadcast, B!BroadcastSpec

(* So nobody is forgotten and nobody hears anything twice, or a line of his  *)
(* own: what handle_broadcasts leaves out is what carries the number of the  *)
(* client, and a client never has that of a message due to it, but for late  *)
(* lines.                                                                    *)
THEOREM V2KeepsItsWord == Spec => [](B!NobodyForgotten /\ B!HeardOnce)
<1>1. V2Inv => B!NobodyForgotten /\ B!HeardOnce
  <2> SUFFICES ASSUME V2Inv PROVE B!NobodyForgotten /\ B!HeardOnce
    OBVIOUS
  <2>1. Len(said) \in Nat /\ \A c \in Conn : given[c] \in Seq(Said)
    BY LenProperties DEF V2Inv, Types, TypeOK
  <2>2. /\ Len(PostsMap) = Len(said)
        /\ \A m \in Said : PostsMap[m].due = DueOf(m) /\ PostsMap[m].barred = Barred(m)
    BY <2>1 DEF PostsMap, Said
  <2>3. ASSUME NEW m \in Said PROVE DueOf(m) \subseteq Conn
    <3>1. said[m] \in Post
      BY ElementOfSeq DEF V2Inv, Types, Said
    <3> QED
      BY <3>1 DEF DueOf, Post
  <2>4. \A c, e : B!Fate(c, e) <=> Within(e, given[c])
    BY DEF B!Fate, B!GivenTo, Within
  <2>5. ASSUME NEW e \in Said, NEW c \in PostsMap[e].due \ closed
        PROVE  B!Fate(c, e) \/ <<c, e>> \in OnWayMap
    <3>1. c \in DueOf(e) \ closed /\ c \in Conn
      BY <2>2, <2>3
    <3>2. Within(e, given[c]) \/ <<c, e>> \in Unsettled
      BY <3>1 DEF Unsettled
    <3> QED
      BY <2>4, <3>2, OnWayIs
  <2>6. B!NobodyForgotten
    BY <2>2, <2>5 DEF B!NobodyForgotten, PostsMap, DueOf, Barred, OnWayMap, Said
  <2>7. ASSUME NEW c \in Conn, NEW i \in 1..Len(given[c])
        PROVE  /\ \A j \in 1..i - 1 : given[c][j] # given[c][i]
               /\ given[c][i] \in Said /\ c \notin PostsMap[given[c][i]].barred
    <3>1. \A j \in 1..Len(given[c]) : given[c][j] \in Said
      BY <2>1, ElementOfSeq
    <3>2. Len(given[c]) \in Nat
      BY <2>1, LenProperties
    <3>3. \A j \in 1..i - 1 : j \in 1..Len(given[c]) /\ j < i
      BY <3>2
    <3>4. \A j \in 1..i - 1 : given[c][j] < given[c][i] /\ given[c][j] \in Nat /\ given[c][i] \in Nat
      BY <3>1, <3>3 DEF V2Inv, Order, Increasing, Said
    <3>5. \A j \in 1..i - 1 : given[c][j] # given[c][i]
      BY <3>4
    <3>6. given[c][i] \in Said /\ Within(given[c][i], given[c])
      BY <3>1 DEF Within
    <3>7. c \notin Barred(given[c][i])
      BY <3>6 DEF V2Inv, Order, Barred
    <3> QED
      BY <2>2, <3>5, <3>6, <3>7
  <2>8. B!HeardOnce
    BY <2>2, <2>7 DEF B!HeardOnce, PostsMap, DueOf, Barred, Said
  <2> QED
    BY <2>6, <2>8
<1> QED
  BY <1>1, V2Invariant, PTL

=============================================================================
