------------------------- MODULE ChatClient_proofs -------------------------
(* The ring buffer, the decoder and the three threads of the client, for     *)
(* every capacity, every length and any number of packets.                   *)
EXTENDS ChatClient, Integers, SequenceTheorems, TLAPS

-----------------------------------------------------------------------------
(* The ring, without remainders.                                             *)

(* The slot k places behind p, when the ring is gone round at most once.     *)
Around(p, k) == IF p + k < Capacity THEN p + k ELSE p + k - Capacity

(* The remainder of the code is Around.                                      *)
LEMMA RemainderIsAround ==
    ASSUME NEW p \in 0..Capacity - 1, NEW k \in 0..Capacity
    PROVE  (p + k) % Capacity = Around(p, k) /\ Around(p, k) \in 0..Capacity - 1
<1>1. Capacity \in Nat \ {0}
  BY PacketBufferAssumption
<1>2. CASE p + k < Capacity
  BY <1>1, <1>2 DEF Around
<1>3. CASE ~(p + k < Capacity)
  <2>1. p + k \in Capacity..2 * Capacity - 1
    BY <1>1, <1>3
  <2> DEFINE x == p + k
  <2>2. x \in Capacity..2 * Capacity - 1
    BY <2>1
  <2> HIDE DEF x
  <2>3. x % Capacity = x - Capacity
    BY <1>1, <2>2
  <2> QED
    BY <1>1, <1>3, <2>2, <2>3 DEF Around, x
<1> QED
  BY <1>2, <1>3

(* Places less than a round apart are different slots.                       *)
LEMMA AroundInjective ==
    ASSUME NEW p \in 0..Capacity - 1, NEW j \in 0..Capacity - 1, NEW k \in 0..Capacity - 1,
           Around(p, j) = Around(p, k)
    PROVE  j = k
BY PacketBufferAssumption DEF Around

(* Going on from a slot.                                                     *)
LEMMA AroundTwice ==
    ASSUME NEW p \in 0..Capacity - 1, NEW j \in Nat, NEW k \in Nat, j + k <= Capacity
    PROVE  Around(Around(p, j), k) = Around(p, j + k)
BY PacketBufferAssumption DEF Around

RingTypes ==
    /\ taken \in Nat /\ buf_ \in [0..Capacity - 1 -> Nat]
    /\ read_pos_ \in 0..Capacity - 1 /\ write_pos_ \in 0..Capacity - 1 /\ count_ \in 0..Capacity

Ring ==
    /\ \A k \in 0..count_ - 1 : buf_[Around(read_pos_, k)] = taken - count_ + k
    /\ write_pos_ = Around(read_pos_, count_)

(* Ring is RingHoldsStream, once the types are known.                        *)
LEMMA RingIsRingHoldsStream == RingTypes => (RingHoldsStream <=> Ring)
<1> SUFFICES ASSUME RingTypes PROVE RingHoldsStream <=> Ring
  OBVIOUS
<1>1. Capacity \in Nat \ {0} /\ count_ \in 0..Capacity /\ read_pos_ \in 0..Capacity - 1
  BY PacketBufferAssumption DEF RingTypes
<1>2. (read_pos_ + count_) % Capacity = Around(read_pos_, count_)
  BY <1>1, RemainderIsAround
<1>3. \A k \in 0..count_ - 1 : k \in 0..Capacity
  BY <1>1
<1>4. \A k \in 0..count_ - 1 : (read_pos_ + k) % Capacity = Around(read_pos_, k)
  BY <1>1, <1>3, RemainderIsAround
<1> QED
  BY <1>2, <1>4 DEF RingHoldsStream, Ring

Free == Capacity - count_

(* The pieces that readv fills: together they are the free slots, in order.  *)
Slot(iovecs, k) == IF k < iovecs[1].len THEN iovecs[1].base + k ELSE iovecs[2].base + k - iovecs[1].len

(* Two pieces, one after the other, are a sequence of two.                   *)
LEMMA TwoPieces ==
    ASSUME NEW S, NEW a \in S, NEW b \in S
    PROVE  <<a>> \o <<b>> = <<a, b>>
<1> DEFINE p == <<a>>  q == <<b>>  r == <<a, b>>
<1>1. /\ p \in Seq(S) /\ Len(p) = 1 /\ p[1] = a
      /\ q \in Seq(S) /\ Len(q) = 1 /\ q[1] = b
      /\ r \in Seq(S) /\ Len(r) = 2 /\ r[1] = a /\ r[2] = b
  OBVIOUS
<1> HIDE DEF p, q, r
<1>2. p \o q \in Seq(S) /\ Len(p \o q) = 2 /\ (p \o q)[1] = a /\ (p \o q)[2] = b
  <2>1. /\ p \o q \in Seq(S) /\ Len(p \o q) = 1 + 1
        /\ \A i \in 1..1 + 1 : (p \o q)[i] = IF i <= 1 THEN p[i] ELSE q[i - 1]
    BY <1>1, ConcatProperties
  <2> QED
    BY <1>1, <2>1
<1>3. \A i \in 1..2 : (p \o q)[i] = r[i]
  BY <1>1, <1>2
<1>4. p \o q = r
  BY <1>1, <1>2, <1>3, SeqEqual
<1> QED
  BY <1>4 DEF p, q, r

(* The pieces of get_writeable_iovecs are the free bytes, in their order.    *)
LEMMA Pieces ==
    ASSUME RingTypes
    PROVE  /\ get_writeable_iovecs = <<>> <=> Free = 0
           /\ Room(get_writeable_iovecs) = Free
           /\ \A k \in 0..Free - 1 : Slot(get_writeable_iovecs, k) = Around(write_pos_, k)
<1> DEFINE len1 == AtMost(Free, Capacity - write_pos_)
           one == [base |-> write_pos_, len |-> len1]
           two == [base |-> 0, len |-> Free - len1]
<1>1. /\ Capacity \in Nat \ {0} /\ count_ \in 0..Capacity /\ write_pos_ \in 0..Capacity - 1
      /\ Free \in 0..Capacity
  BY PacketBufferAssumption DEF RingTypes, Free
<1>2. get_writeable_iovecs = IF Free = 0 THEN <<>> ELSE <<one>> \o (IF len1 < Free THEN <<two>> ELSE <<>>)
  BY DEF get_writeable_iovecs, Free
<1>3. CASE Free = 0
  BY <1>2, <1>3 DEF Room
<1>4. CASE Free # 0 /\ len1 < Free
  <2>1. get_writeable_iovecs = <<one, two>>
    <3> HIDE DEF one, two
    <3>1. <<one>> \o <<two>> = <<one, two>>
      BY TwoPieces, one \in {one, two}, two \in {one, two}
    <3> QED
      BY <1>2, <1>4, <3>1
  <2>2. len1 = Capacity - write_pos_
    BY <1>1, <1>4 DEF AtMost
  <2> QED
    BY <1>1, <1>4, <2>1, <2>2 DEF Room, Slot, Around
<1>5. CASE Free # 0 /\ ~(len1 < Free)
  <2>1. get_writeable_iovecs = <<one>>
    BY <1>2, <1>5
  <2>2. len1 = Free /\ Free <= Capacity - write_pos_
    BY <1>1, <1>5 DEF AtMost
  <2> QED
    BY <1>1, <1>5, <2>1, <2>2 DEF Room, Slot, Around
<1> QED
  BY <1>1, <1>3, <1>4, <1>5

(* A read puts the next n bytes of the stream behind those that are held.    *)
LEMMA ReadIntoRing ==
    ASSUME RingTypes, Ring, NEW n \in 1..Room(get_writeable_iovecs),
           readv(get_writeable_iovecs, n), commit_write(n), read_pos_' = read_pos_
    PROVE  RingTypes' /\ Ring' /\ taken' = taken + n /\ count_' = count_ + n
<1>1. /\ Capacity \in Nat \ {0} /\ count_ \in 0..Capacity /\ read_pos_ \in 0..Capacity - 1
      /\ write_pos_ \in 0..Capacity - 1 /\ taken \in Nat /\ buf_ \in [0..Capacity - 1 -> Nat]
  BY PacketBufferAssumption DEF RingTypes
<1>2. n \in 1..Free /\ Free = Capacity - count_
  BY Pieces DEF Free
<1>3. taken' = taken + n /\ count_' = count_ + n
  BY DEF readv, commit_write
<1>4. write_pos_' = Around(write_pos_, n)
  BY <1>1, <1>2, RemainderIsAround DEF commit_write
<1>5. write_pos_' = Around(read_pos_, count_')
  BY <1>1, <1>2, <1>3, <1>4, AroundTwice DEF Ring
<1>6. \A k \in 0..n - 1 : Slot(get_writeable_iovecs, k) = Around(read_pos_, count_ + k)
  <2> TAKE k \in 0..n - 1
  <2>1. k \in 0..Free - 1 /\ k \in Nat /\ count_ \in Nat /\ count_ + k <= Capacity
    BY <1>1, <1>2
  <2>2. Slot(get_writeable_iovecs, k) = Around(write_pos_, k)
    BY <2>1, Pieces
  <2> QED
    BY <1>1, <2>1, <2>2, AroundTwice DEF Ring
<1> DEFINE slot(k) == Slot(get_writeable_iovecs, k)
           filled(i) == IF \E k \in 0..n - 1 : slot(k) = i
                        THEN taken + CHOOSE k \in 0..n - 1 : slot(k) = i
                        ELSE buf_[i]
<1>7. buf_' = [i \in 0..Capacity - 1 |-> filled(i)]
  BY DEF readv, Slot
<1>8. \A k \in 0..n - 1 : slot(k) = Around(read_pos_, count_ + k)
  BY <1>6
<1> HIDE DEF slot
<1>9. ASSUME NEW k \in 0..n - 1
      PROVE  slot(k) \in 0..Capacity - 1 /\ filled(slot(k)) = taken + k
  <2>1. slot(k) \in 0..Capacity - 1
    <3>1. count_ + k \in 0..Capacity
      BY <1>1, <1>2
    <3> QED
      BY <1>1, <1>8, <3>1, RemainderIsAround
  <2>2. ASSUME NEW j \in 0..n - 1, slot(j) = slot(k) PROVE j = k
    <3>1. count_ + j \in 0..Capacity - 1 /\ count_ + k \in 0..Capacity - 1
      BY <1>1, <1>2
    <3>2. count_ + j = count_ + k
      BY <1>1, <1>8, <2>2, <3>1, AroundInjective
    <3> QED
      BY <1>1, <3>2
  <2>3. (CHOOSE j \in 0..n - 1 : slot(j) = slot(k)) = k
    BY <2>2
  <2> QED
    BY <2>1, <2>3
<1>10. ASSUME NEW k \in 0..count_ - 1
       PROVE  /\ Around(read_pos_, k) \in 0..Capacity - 1
              /\ filled(Around(read_pos_, k)) = buf_[Around(read_pos_, k)]
  <2>1. k \in 0..Capacity /\ k \in 0..Capacity - 1
    BY <1>1
  <2>2. ASSUME NEW j \in 0..n - 1, slot(j) = Around(read_pos_, k) PROVE FALSE
    <3>1. count_ + j \in 0..Capacity - 1
      BY <1>1, <1>2
    <3>2. count_ + j = k
      BY <1>1, <1>8, <2>1, <2>2, <3>1, AroundInjective
    <3> QED
      BY <1>1, <3>2
  <2> QED
    BY <1>1, <2>1, <2>2, RemainderIsAround
<1>11. ASSUME NEW k \in 0..count_' - 1
       PROVE  buf_'[Around(read_pos_', k)] = taken' - count_' + k
  <2>1. CASE k < count_
    <3>1. k \in 0..count_ - 1
      BY <1>1, <1>2, <1>3, <2>1
    <3>2. buf_'[Around(read_pos_, k)] = buf_[Around(read_pos_, k)]
      BY <1>7, <1>10, <3>1
    <3>3. buf_[Around(read_pos_, k)] = taken - count_ + k
      BY <3>1 DEF Ring
    <3> QED
      BY <1>1, <1>2, <1>3, <3>1, <3>2, <3>3
  <2>2. CASE ~(k < count_)
    <3>1. k - count_ \in 0..n - 1 /\ count_ + (k - count_) = k
      BY <1>1, <1>2, <1>3, <2>2
    <3>2. slot(k - count_) = Around(read_pos_, k)
      BY <1>8, <3>1
    <3>3. buf_'[Around(read_pos_, k)] = taken + (k - count_)
      BY <1>7, <1>9, <3>1, <3>2
    <3> QED
      BY <1>1, <1>2, <1>3, <3>1, <3>3
  <2> QED
    BY <2>1, <2>2
<1>12. Ring'
  BY <1>5, <1>11 DEF Ring
<1>13. ASSUME NEW i \in 0..Capacity - 1 PROVE filled(i) \in Nat
  <2>1. CASE \E k \in 0..n - 1 : slot(k) = i
    <3>1. (CHOOSE k \in 0..n - 1 : slot(k) = i) \in 0..n - 1
      BY <2>1
    <3> QED
      BY <1>1, <1>2, <2>1, <3>1
  <2> QED
    BY <1>1, <2>1
<1>14. buf_' \in [0..Capacity - 1 -> Nat]
  BY <1>7, <1>13
<1>15. write_pos_' \in 0..Capacity - 1
  <2>1. n \in 0..Capacity
    BY <1>1, <1>2
  <2>2. Around(write_pos_, n) \in 0..Capacity - 1
    BY <1>1, <2>1, RemainderIsAround
  <2> QED
    BY <1>4, <2>2
<1>16. RingTypes'
  BY <1>1, <1>2, <1>3, <1>14, <1>15 DEF RingTypes
<1> QED
  BY <1>3, <1>12, <1>16

(* What is consumed goes at the front.                                       *)
LEMMA ConsumeFromRing ==
    ASSUME RingTypes, Ring, NEW len \in Nat, consume(len), UNCHANGED <<buf_, write_pos_, taken>>
    PROVE  /\ RingTypes' /\ Ring'
           /\ count_' = count_ - AtMost(len, count_)
           /\ taken' - count_' = taken - count_ + AtMost(len, count_)
<1> DEFINE m == AtMost(len, count_)
<1>1. /\ Capacity \in Nat \ {0} /\ count_ \in 0..Capacity /\ read_pos_ \in 0..Capacity - 1
      /\ taken \in Nat /\ m \in 0..count_ /\ m \in 0..Capacity
  BY PacketBufferAssumption DEF RingTypes, AtMost
<1>2. count_' = count_ - m /\ read_pos_' = (read_pos_ + m) % Capacity /\ taken' = taken
  BY DEF consume
<1> HIDE DEF m
<1>3. read_pos_' = Around(read_pos_, m) /\ read_pos_' \in 0..Capacity - 1
  BY <1>1, <1>2, RemainderIsAround
<1>4. RingTypes'
  BY <1>1, <1>2, <1>3 DEF RingTypes
<1>5. ASSUME NEW k \in 0..count_' - 1
      PROVE  buf_'[Around(read_pos_', k)] = taken' - count_' + k
  <2>1. m + k \in 0..count_ - 1 /\ m + k <= Capacity /\ m \in Nat /\ k \in Nat
    BY <1>1, <1>2
  <2>2. Around(read_pos_', k) = Around(read_pos_, m + k)
    BY <1>1, <1>3, <2>1, AroundTwice
  <2>3. buf_[Around(read_pos_, m + k)] = taken - count_ + (m + k)
    BY <2>1 DEF Ring
  <2> QED
    BY <1>1, <1>2, <2>1, <2>2, <2>3
<1>6. write_pos_' = Around(read_pos_', count_')
  <2>1. m + count_' = count_ /\ m \in Nat /\ count_' \in Nat /\ count_ <= Capacity
    BY <1>1, <1>2
  <2> QED
    BY <1>1, <1>3, <2>1, AroundTwice DEF Ring
<1> QED
  BY <1>1, <1>2, <1>4, <1>5, <1>6 DEF Ring, m

(* What peek copies is the stream from the first byte that is held.          *)
LEMMA PeekRing ==
    ASSUME RingTypes, Ring, NEW len \in Nat, len <= count_
    PROVE  \A k \in 0..len - 1 : peek(len)[k] = taken - count_ + k
<1> TAKE k \in 0..len - 1
<1>1. /\ Capacity \in Nat \ {0} /\ count_ \in 0..Capacity /\ read_pos_ \in 0..Capacity - 1
      /\ AtMost(len, count_) = len /\ k \in 0..count_ - 1
  BY PacketBufferAssumption DEF RingTypes, AtMost
<1>2. peek(len)[k] = IF k < Capacity - read_pos_ THEN buf_[read_pos_ + k] ELSE buf_[k - (Capacity - read_pos_)]
  BY <1>1 DEF peek
<1>3. peek(len)[k] = buf_[Around(read_pos_, k)]
  <2>1. CASE k < Capacity - read_pos_
    <3>1. Around(read_pos_, k) = read_pos_ + k
      BY <1>1, <2>1 DEF Around
    <3> QED
      BY <1>2, <2>1, <3>1
  <2>2. CASE ~(k < Capacity - read_pos_)
    <3>1. Around(read_pos_, k) = k - (Capacity - read_pos_)
      BY <1>1, <2>2 DEF Around
    <3> QED
      BY <1>2, <2>2, <3>1
  <2> QED
    BY <2>1, <2>2
<1> QED
  BY <1>1, <1>3 DEF Ring
-----------------------------------------------------------------------------
(* The stream and the decoder.                                               *)

PacketRecord == [first: Nat, len: Lengths, kind: {"yes", "no", "chat"}]

(* The packets lie one behind the other, and no more is taken than was sent. *)
Stream ==
    /\ sent \in Seq(PacketRecord)
    /\ \A i \in 1..Len(sent) : sent[i].first = IF i = 1 THEN 0 ELSE After(sent[i - 1])
    /\ \A i, j \in 1..Len(sent) : i < j => After(sent[i]) <= sent[j].first
    /\ taken <= StreamEnd

(* What a packet's record holds.                                             *)
LEMMA PacketFacts ==
    ASSUME Stream, NEW i \in 1..Len(sent)
    PROVE  /\ sent[i].first \in Nat /\ sent[i].len \in Lengths /\ sent[i].len \in Nat
           /\ sent[i].kind \in {"yes", "no", "chat"}
           /\ After(sent[i]) \in Nat /\ After(sent[i]) = sent[i].first + Header + sent[i].len
           /\ sent[i].first < After(sent[i])
<1>1. sent[i] \in PacketRecord
  BY DEF Stream
<1>2. /\ sent[i].first \in Nat /\ sent[i].len \in Lengths /\ sent[i].kind \in {"yes", "no", "chat"}
  BY <1>1 DEF PacketRecord
<1>3. sent[i].len \in Nat /\ Header \in Nat \ {0}
  BY <1>2, PacketBufferAssumption
<1>4. After(sent[i]) = sent[i].first + Header + sent[i].len
  BY DEF After
<1> QED
  BY <1>2, <1>3, <1>4

(* Every packet ends within the stream.                                      *)
LEMMA WithinStream ==
    ASSUME Stream
    PROVE  /\ StreamEnd \in Nat
           /\ \A i \in 1..Len(sent) : After(sent[i]) <= StreamEnd
<1>1. Len(sent) \in Nat
  BY DEF Stream
<1>2. CASE sent = <<>>
  BY <1>2 DEF StreamEnd
<1>3. CASE sent # <<>>
  <2>1. Len(sent) \in 1..Len(sent) /\ StreamEnd = After(sent[Len(sent)])
    BY <1>1, <1>3 DEF StreamEnd, Stream
  <2>2. ASSUME NEW i \in 1..Len(sent) PROVE After(sent[i]) <= StreamEnd
    <3>1. CASE i = Len(sent)
      BY <2>1, <3>1, PacketFacts
    <3>2. CASE i < Len(sent)
      <4>1. After(sent[i]) <= sent[Len(sent)].first
        BY <2>1, <3>2 DEF Stream
      <4> QED
        BY <2>1, <4>1, PacketFacts
    <3> QED
      BY <1>1, <3>1, <3>2
  <2> QED
    BY <2>1, <2>2, PacketFacts
<1> QED
  BY <1>2, <1>3

(* No two packets begin at the same byte.                                    *)
LEMMA FirstsDiffer ==
    ASSUME Stream, NEW i \in 1..Len(sent), NEW j \in 1..Len(sent), sent[i].first = sent[j].first
    PROVE  i = j
<1>1. ASSUME NEW a \in 1..Len(sent), NEW b \in 1..Len(sent), a < b PROVE sent[a].first # sent[b].first
  <2>1. After(sent[a]) <= sent[b].first
    BY <1>1 DEF Stream
  <2> QED
    BY <2>1, PacketFacts
<1> QED
  BY <1>1 DEF Stream

(* A byte behind a packet that was taken belongs to the next one.            *)
LEMMA NextPacket ==
    ASSUME Stream, NEW m \in 1..Len(sent), taken \in Nat, taken > After(sent[m])
    PROVE  m + 1 \in 1..Len(sent) /\ sent[m + 1].first = After(sent[m])
<1>1. Len(sent) \in Nat /\ m # Len(sent)
  <2>1. CASE m = Len(sent)
    <3>1. StreamEnd = After(sent[m])
      BY <2>1 DEF StreamEnd, Stream
    <3> QED
      BY <3>1, PacketFacts DEF Stream
  <2> QED
    BY <2>1 DEF Stream
<1>2. m + 1 \in 1..Len(sent) /\ m + 1 # 1 /\ (m + 1) - 1 = m
  BY <1>1
<1> QED
  BY <1>2 DEF Stream

(* decode finds the length of the packet at the front ...                    *)
LEMMA HeaderOfPacket ==
    ASSUME Stream, RingTypes, Ring, count_ >= Header,
           NEW m \in 1..Len(sent), sent[m].first = taken - count_
    PROVE  HeaderLengths = {sent[m].len}
<1> DEFINE whose == {i \in 1..Len(sent) : \A k \in 0..Header - 1 : peek(Header)[k] = sent[i].first + k}
<1>1. /\ Header \in Nat \ {0} /\ count_ \in Nat /\ taken \in Nat
      /\ \A k \in 0..Header - 1 : peek(Header)[k] = taken - count_ + k
  BY PacketBufferAssumption, PeekRing DEF RingTypes
<1>2. m \in whose
  BY <1>1
<1>3. ASSUME NEW i \in whose PROVE i = m
  <2>1. 0 \in 0..Header - 1 /\ sent[i].first \in Nat
    BY <1>1, PacketFacts
  <2>2. sent[i].first + 0 = taken - count_ + 0
    BY <1>1, <2>1
  <2> QED
    BY <1>1, <2>1, <2>2, FirstsDiffer
<1>4. whose = {m}
  BY <1>2, <1>3
<1> HIDE DEF whose
<1>5. HeaderLengths = IF whose = {} THEN Lengths \cup {TooLong} ELSE {sent[i].len : i \in whose}
  BY DEF HeaderLengths, whose
<1> QED
  BY <1>4, <1>5

(* ... and its number; what it takes for a packet begins there.              *)
LEMMA PayloadOfPacket ==
    ASSUME Stream, RingTypes, Ring, NEW len \in Nat, count_ >= Header + len
    PROVE  /\ PayloadOf(len) # 0 =>
                 /\ PayloadOf(len) \in 1..Len(sent) /\ sent[PayloadOf(len)].len = len
                 /\ sent[PayloadOf(len)].first = taken - count_
           /\ \A m \in 1..Len(sent) :
                 sent[m].first = taken - count_ /\ sent[m].len = len => PayloadOf(len) = m
<1> DEFINE whose == {i \in 1..Len(sent) : sent[i].len = len
                         /\ \A k \in 0..Header + len - 1 : peek(Header + len)[k] = sent[i].first + k}
<1>1. /\ Header \in Nat \ {0} /\ count_ \in Nat /\ taken \in Nat
      /\ \A k \in 0..Header + len - 1 : peek(Header + len)[k] = taken - count_ + k
  BY PacketBufferAssumption, PeekRing DEF RingTypes
<1>2. PayloadOf(len) = IF whose = {} THEN 0 ELSE CHOOSE i \in whose : TRUE
  BY DEF PayloadOf
<1>3. ASSUME NEW i \in whose
      PROVE  i \in 1..Len(sent) /\ sent[i].len = len /\ sent[i].first = taken - count_
  <2>1. 0 \in 0..Header + len - 1 /\ sent[i].first \in Nat
    BY <1>1, PacketFacts
  <2>2. sent[i].first + 0 = taken - count_ + 0
    BY <1>1, <2>1
  <2> QED
    BY <1>1, <2>1, <2>2
<1>4. ASSUME NEW m \in 1..Len(sent), sent[m].first = taken - count_, sent[m].len = len
      PROVE  whose = {m}
  <2>1. m \in whose
    BY <1>1, <1>4
  <2>2. \A i \in whose : i = m
    BY <1>3, <1>4, FirstsDiffer
  <2> QED
    BY <2>1, <2>2
<1> HIDE DEF whose
<1> QED
  BY <1>2, <1>3, <1>4
-----------------------------------------------------------------------------
(* The texts for the screen.                                                 *)

QueueTypes ==
    /\ message_queue_ \in Seq(0..Len(sent)) /\ printed \in Seq(0..Len(sent))
    /\ msg \in 0..Len(sent) \cup {None}

Texts == 0..Len(sent)
InHand == IF msg = None THEN <<>> ELSE <<msg>>

(* What was received, and what is in hand, are payloads.                     *)
LEMMA ReceivedType == QueueTypes => Received \in Seq(Texts) /\ InHand \in Seq(Texts)
<1> SUFFICES ASSUME QueueTypes PROVE Received \in Seq(Texts) /\ InHand \in Seq(Texts)
  OBVIOUS
<1> DEFINE T == Texts
<1>1. printed \in Seq(T) /\ message_queue_ \in Seq(T)
  BY DEF QueueTypes, Texts
<1>2. msg \in T \/ msg = None
  BY DEF QueueTypes, Texts
<1> HIDE DEF T
<1>6. InHand \in Seq(T)
  <2>1. CASE msg = None
    BY <2>1, EmptySeq DEF InHand
  <2>2. CASE msg # None
    <3>1. <<msg>> \in Seq(T)
      BY <1>2, <2>2
    <3> QED
      BY <2>2, <3>1 DEF InHand
  <2> QED
    BY <2>1, <2>2
<1>3. Received = printed \o InHand \o message_queue_
  BY DEF Received, InHand
<1>4. printed \o InHand \in Seq(T)
  BY <1>1, <1>6, ConcatProperties
<1>5. (printed \o InHand) \o message_queue_ \in Seq(T)
  BY <1>1, <1>4, ConcatProperties
<1> QED
  BY <1>3, <1>5, <1>6 DEF T

(* It depends on the printer and the queue only.                             *)
LEMMA ReceivedSame == UNCHANGED <<printed, msg, message_queue_>> => Received' = Received
BY DEF Received

(* Appending behind a concatenation.                                         *)
LEMMA AppendBehind ==
    ASSUME NEW T, NEW p \in Seq(T), NEW q \in Seq(T), NEW x \in T
    PROVE  p \o Append(q, x) = Append(p \o q, x)
<1> DEFINE one == <<x>>
<1>1. one \in Seq(T)
  OBVIOUS
<1>2. /\ Append(q, x) = q \o one /\ p \o q \in Seq(T)
      /\ Append(p \o q, x) = (p \o q) \o one
  BY ConcatProperties, AppendIsConcat
<1> HIDE DEF one
<1>3. p \o (q \o one) = (p \o q) \o one
  BY <1>1, ConcatAssociative
<1> QED
  BY <1>2, <1>3

(* The receiver queues a text: it is the last one then.                      *)
LEMMA ReceivedGrows ==
    ASSUME QueueTypes, NEW x \in Texts, message_queue_' = Append(message_queue_, x),
           UNCHANGED <<printed, msg>>
    PROVE  Received' = Append(Received, x)
<1> DEFINE T == Texts
           front == printed \o InHand
<1>1. printed \in Seq(T) /\ message_queue_ \in Seq(T) /\ InHand \in Seq(T)
  BY ReceivedType DEF QueueTypes, Texts
<1>2. Received = front \o message_queue_
  BY DEF Received, InHand
<1>3. Received' = front \o message_queue_'
  BY DEF Received, InHand
<1> HIDE DEF T
<1>4. front \in Seq(T) /\ x \in T
  BY <1>1, ConcatProperties DEF T
<1> HIDE DEF front
<1> QED
  BY <1>1, <1>2, <1>3, <1>4, AppendBehind

(* The printer takes a text from the queue ...                               *)
LEMMA ReceivedPopped ==
    ASSUME QueueTypes, msg = None, message_queue_ # <<>>, msg' = Head(message_queue_),
           message_queue_' = Tail(message_queue_), printed' = printed
    PROVE  Received' = Received /\ msg' \in Texts /\ message_queue_' \in Seq(Texts)
<1> DEFINE T == Texts
           one == <<msg'>>
<1>1. printed \in Seq(T) /\ message_queue_ \in Seq(T)
  BY DEF QueueTypes, Texts
<1>2. msg' \in T /\ message_queue_' \in Seq(T) /\ msg' # None
  <2>1. msg' \in T /\ message_queue_' \in Seq(T)
    BY <1>1, HeadTailProperties
  <2>2. T \subseteq Nat
    BY DEF Texts
  <2> QED
    BY <2>1, <2>2, ChatClientAssumption
<1>3. Received = printed \o <<>> \o message_queue_
  BY DEF Received
<1>4. Received' = printed \o one \o message_queue_'
  BY <1>2 DEF Received
<1>5. message_queue_ = one \o message_queue_'
  <2> HIDE DEF T
  <2>1. one \in Seq(T) /\ Len(one) = 1 /\ one[1] = Head(message_queue_)
    BY <1>2
  <2>2. /\ Len(message_queue_') = Len(message_queue_) - 1 /\ Len(message_queue_) \in Nat
        /\ \A i \in 1..Len(message_queue_') : message_queue_'[i] = message_queue_[i + 1]
        /\ Head(message_queue_) = message_queue_[1]
    BY <1>1, HeadTailProperties
  <2> HIDE DEF one
  <2>5. /\ one \o message_queue_' \in Seq(T)
        /\ Len(one \o message_queue_') = Len(one) + Len(message_queue_')
        /\ \A i \in 1..Len(one) + Len(message_queue_') :
              (one \o message_queue_')[i] = IF i <= Len(one) THEN one[i] ELSE message_queue_'[i - Len(one)]
    BY <1>2, <2>1, ConcatProperties
  <2>3. /\ one \o message_queue_' \in Seq(T) /\ Len(one \o message_queue_') = Len(message_queue_)
        /\ \A i \in 1..Len(message_queue_) :
              (one \o message_queue_')[i] = IF i <= 1 THEN one[i] ELSE message_queue_'[i - 1]
    BY <2>1, <2>2, <2>5
  <2>4. \A i \in 1..Len(message_queue_) : (one \o message_queue_')[i] = message_queue_[i]
    BY <2>1, <2>2, <2>3
  <2> QED
    BY <1>1, <2>3, <2>4, SeqEqual
<1>6. one \in Seq(T)
  BY <1>2
<1> HIDE DEF T, one
<1>7. printed \o <<>> = printed
  BY <1>1, ConcatEmptySeq
<1>8. (printed \o one) \o message_queue_' = printed \o (one \o message_queue_')
  BY <1>1, <1>2, <1>6, ConcatAssociative
<1> QED
  BY <1>2, <1>3, <1>4, <1>5, <1>7, <1>8 DEF T

(* ... and shows it.                                                         *)
LEMMA ReceivedPrinted ==
    ASSUME QueueTypes, msg # None, printed' = Append(printed, msg), msg' = None,
           message_queue_' = message_queue_
    PROVE  Received' = Received /\ printed' \in Seq(Texts)
<1> DEFINE T == Texts
           one == <<msg>>
<1>1. printed \in Seq(T) /\ message_queue_ \in Seq(T) /\ msg \in T
  BY DEF QueueTypes, Texts
<1>2. Received = printed \o one \o message_queue_
  BY DEF Received
<1>3. Received' = printed' \o <<>> \o message_queue_
  BY DEF Received
<1> HIDE DEF T
<1>4. printed' = printed \o one /\ printed' \in Seq(T)
  BY <1>1, AppendIsConcat, AppendProperties
<1>5. printed' \o <<>> = printed'
  BY <1>4, ConcatEmptySeq
<1> QED
  BY <1>2, <1>3, <1>4, <1>5 DEF T
-----------------------------------------------------------------------------
(* The invariant.                                                            *)

FlagTypes ==
    /\ Len(sent) <= MaxPackets
    /\ peer \in {"open", "closed", "reset"} /\ accepted \in BOOLEAN
    /\ running_ \in BOOLEAN /\ finished_ \in BOOLEAN /\ discarded \in BOOLEAN
    /\ ui_mtx_ \in {"main", None}
    /\ events \subseteq {"in", "hup"} /\ due \in Nat
    /\ main \in {"login", "answer", "gone", "poll", "key", "stop", "finish", "join_receiver", "join_printer", "over"}
    /\ receiver \in {"off", "poll", "look", "lost", "decode", "done"}
    /\ printer \in {"off", "pop", "print", "done"}

(* There is one answer to the login at most, and accepted tells which.       *)
AnsweredOnce ==
    /\ accepted <=> \E i \in 1..Len(sent) : sent[i].kind = "yes"
    /\ \A i, j \in 1..Len(sent) : i # j => sent[i].kind = "chat" \/ sent[j].kind = "chat"
    /\ main = "login" => \A i \in 1..Len(sent) : sent[i].kind = "chat"

NotStarted == main \in {"login", "answer", "gone"}

(* Until the threads are started everything is as it was made, and they are  *)
(* started by an answer that came first.                                     *)
StartedOnce ==
    /\ receiver = "off" <=> NotStarted
    /\ printer = "off" <=> NotStarted
    /\ NotStarted =>
          /\ running_ /\ ~finished_ /\ ~discarded /\ count_ = 0 /\ due = 0
          /\ message_queue_ = <<>> /\ msg = None /\ printed = <<>>
    /\ ~NotStarted => sent # <<>> /\ sent[1].kind = "yes"

(* The packets for the screen lie behind the answer and before what is held, *)
(* each at a later place in the stream than the one before, bytes thrown     *)
(* away or not.                                                              *)
PlacesInOrder ==
    ~NotStarted =>
        /\ After(sent[1]) <= taken - count_
        /\ \A i \in 1..Len(Received) : Received[i] # Lost =>
               /\ Received[i] \in i + 1..Len(sent)
               /\ After(sent[Received[i]]) <= taken - count_

LossShown == \E i \in 1..Len(Received) : Received[i] = Lost

LostIsLast ==
    /\ \A i \in 1..Len(Received) : Received[i] = Lost => i = Len(Received) /\ receiver \in {"lost", "done"}
    /\ receiver = "lost" => LossShown

(* running_ turns false in stop, or when the connection is lost; the printer *)
(* ends only when it has shown what was there when it was told to.           *)
EndInv ==
    /\ ~running_ => \/ main \in {"finish", "join_receiver", "join_printer", "over"}
                    \/ receiver = "done" /\ LossShown
    /\ main = "join_printer" => receiver = "done"
    /\ finished_ => main \in {"join_receiver", "join_printer", "over"}
    /\ msg # None <=> printer = "print"
    /\ due <= Len(Received)
    /\ printer = "done" => finished_ /\ due <= Len(printed)

(* The second part of ShownAsSent.                                           *)
InSequence ==
    receiver # "off" /\ ~discarded =>
        \E n \in 0..Len(Received) :
            /\ \A i \in 1..n : Received[i] = i + 1
            /\ n < Len(Received) => n + 1 = Len(Received) /\ Received[n + 1] = Lost
            /\ taken - count_ = After(sent[n + 1])

ClientInv ==
    /\ RingTypes /\ Ring /\ Stream /\ QueueTypes /\ FlagTypes
    /\ AnsweredOnce /\ StartedOnce /\ PlacesInOrder /\ LostIsLast /\ EndInv
    /\ InSequence /\ NothingHeldBack /\ LoginMeansAccepted /\ AllShownAtEnd

(* What was received are places among the packets that were sent.            *)
LEMMA ReceivedFacts ==
    ASSUME QueueTypes, sent \in Seq(PacketRecord)
    PROVE  /\ Received \in Seq(Texts) /\ Len(Received) \in Nat /\ Len(sent) \in Nat
           /\ \A i \in 1..Len(Received) : Received[i] \in 0..Len(sent)
<1>1. Received \in Seq(Texts)
  BY ReceivedType
<1>2. Len(Received) \in Nat /\ \A i \in 1..Len(Received) : Received[i] \in Texts
  BY <1>1, ElementOfSeq, LenProperties
<1> QED
  BY <1>1, <1>2 DEF Texts

(* There are no more texts than packets.                                     *)
LEMMA FewTexts ==
    ASSUME ClientInv
    PROVE  due <= MaxPackets
<1>1. /\ Len(Received) \in Nat /\ Len(sent) \in Nat /\ due \in Nat /\ due <= Len(Received)
      /\ Len(sent) <= MaxPackets /\ MaxPackets \in Nat
  BY ReceivedFacts, ChatClientAssumption DEF ClientInv, Stream, FlagTypes, EndInv
<1>2. CASE NotStarted \/ Len(Received) = 0
  <2>1. NotStarted => due = 0
    BY DEF ClientInv, StartedOnce
  <2> QED
    BY <1>1, <1>2, <2>1
<1>3. CASE ~NotStarted /\ Len(Received) # 0 /\ Received[Len(Received)] # Lost
  <2>1. Received[Len(Received)] \in Len(Received) + 1..Len(sent)
    BY <1>1, <1>3 DEF ClientInv, PlacesInOrder
  <2> QED
    BY <1>1, <2>1
<1>4. CASE ~NotStarted /\ Len(Received) # 0 /\ Received[Len(Received)] = Lost
  <2>1. CASE Len(Received) = 1
    <3>1. Len(sent) # 0
      BY <1>4 DEF ClientInv, StartedOnce, Stream
    <3> QED
      BY <1>1, <2>1, <3>1
  <2>2. CASE Len(Received) # 1
    <3> DEFINE i == Len(Received) - 1
    <3>0. PICK k \in Nat : k = Len(Received)
      BY <1>1
    <3>1. i \in 1..Len(Received) /\ i # Len(Received)
      <4>1. k # 0 /\ k # 1
        BY <1>4, <2>2, <3>0
      <4>2. k - 1 \in 1..k /\ k - 1 # k
        BY <4>1
      <4> QED
        BY <3>0, <4>2
    <3>2. Received[i] # Lost
      BY <3>1 DEF ClientInv, LostIsLast
    <3>3. Received[i] \in i + 1..Len(sent)
      BY <1>4, <3>1, <3>2 DEF ClientInv, PlacesInOrder
    <3> QED
      BY <1>1, <3>1, <3>3
  <2> QED
    BY <2>1, <2>2
<1> QED
  BY <1>2, <1>3, <1>4

(* The invariant implies the properties.                                     *)
LEMMA ClientInvImplies ==
    ClientInv => TypeOK /\ RingHoldsStream /\ ShownAsSent /\ NothingHeldBack /\ LoginMeansAccepted /\ AllShownAtEnd
<1> SUFFICES ASSUME ClientInv
             PROVE  TypeOK /\ RingHoldsStream /\ ShownAsSent /\ NothingHeldBack /\ LoginMeansAccepted /\ AllShownAtEnd
  OBVIOUS
<1>1. BufferTypeOK /\ RingHoldsStream
  BY RingIsRingHoldsStream DEF ClientInv, RingTypes, BufferTypeOK, FlagTypes
<1>2. due \in 0..MaxPackets
  BY FewTexts, ChatClientAssumption DEF ClientInv, FlagTypes
<1>3. \A i \in 1..Len(sent) : sent[i] \in [first: Nat, len: Lengths, kind: {"yes", "no", "chat"}]
  <2>1. sent \in Seq(PacketRecord)
    BY DEF ClientInv, Stream
  <2>2. \A i \in 1..Len(sent) : sent[i] \in PacketRecord
    BY <2>1, ElementOfSeq
  <2> QED
    BY <2>2 DEF PacketRecord
<1>4. TypeOK
  BY <1>1, <1>2, <1>3 DEF ClientInv, FlagTypes, QueueTypes, TypeOK
<1> QED
  BY <1>1, <1>4 DEF ClientInv, ShownAsSent, InSequence

(* The invariant holds at the start.                                         *)
LEMMA ClientInvInit == Init => ClientInv
<1> SUFFICES ASSUME Init PROVE ClientInv
  OBVIOUS
<1>1. /\ sent = <<>> /\ taken = 0 /\ buf_ = [i \in 0..Capacity - 1 |-> 0]
      /\ read_pos_ = 0 /\ write_pos_ = 0 /\ count_ = 0 /\ discarded = FALSE
      /\ peer = "open" /\ accepted = FALSE
      /\ running_ = TRUE /\ message_queue_ = <<>> /\ finished_ = FALSE /\ ui_mtx_ = None
      /\ main = "login" /\ receiver = "off" /\ printer = "off"
      /\ msg = None /\ printed = <<>> /\ events = {} /\ due = 0
  BY DEF Init, BufferInit
<1>2. RingTypes /\ Ring
  BY <1>1, PacketBufferAssumption DEF RingTypes, Ring, Around
<1>3. Stream /\ Len(sent) = 0
  BY <1>1 DEF Stream, StreamEnd
<1>4. QueueTypes
  BY <1>1 DEF QueueTypes
<1>5. Received = <<>> /\ Len(Received) = 0
  BY <1>1 DEF Received
<1>6. FlagTypes
  <2>1. Len(sent) <= MaxPackets /\ due \in Nat
    BY <1>1, <1>3, ChatClientAssumption
  <2>2. /\ accepted \in BOOLEAN /\ running_ \in BOOLEAN /\ finished_ \in BOOLEAN /\ discarded \in BOOLEAN
        /\ events \subseteq {"in", "hup"} /\ ui_mtx_ \in {"main", None}
    BY <1>1
  <2> QED
    BY <1>1, <2>1, <2>2 DEF FlagTypes
<1>7. AnsweredOnce /\ StartedOnce /\ PlacesInOrder
  BY <1>1, <1>3 DEF AnsweredOnce, StartedOnce, NotStarted, PlacesInOrder
<1>8. LostIsLast /\ EndInv
  BY <1>1, <1>5 DEF LostIsLast, EndInv
<1>9. InSequence /\ NothingHeldBack /\ LoginMeansAccepted /\ AllShownAtEnd
  BY <1>1 DEF InSequence, NothingHeldBack, LoginMeansAccepted, AllShownAtEnd
<1> QED
  BY <1>2, <1>3, <1>4, <1>6, <1>7, <1>8, <1>9 DEF ClientInv
-----------------------------------------------------------------------------
(* The server's steps.                                                       *)

(* What a new packet does to the stream.                                     *)
LEMMA StreamGrows ==
    ASSUME Stream, NEW len \in Lengths, NEW kind \in {"yes", "no", "chat"}, encode(len, kind),
           taken' = taken, taken \in Nat
    PROVE  /\ Stream' /\ Len(sent') = Len(sent) + 1
           /\ \A i \in 1..Len(sent) : sent'[i] = sent[i]
           /\ sent'[Len(sent) + 1].first = StreamEnd /\ sent'[Len(sent) + 1].kind = kind
           /\ After(sent'[Len(sent) + 1]) = StreamEnd + Header + len
<1> DEFINE x == [first |-> StreamEnd, len |-> len, kind |-> kind]
<1>1. /\ sent \in Seq(PacketRecord) /\ StreamEnd \in Nat /\ len \in Nat /\ Header \in Nat
      /\ Len(sent) \in Nat
  BY WithinStream, PacketBufferAssumption DEF Stream
<1>2. x \in PacketRecord
  BY <1>1 DEF PacketRecord
<1>3. sent' = Append(sent, x) /\ x.first = StreamEnd /\ x.kind = kind /\ x.len = len
  BY DEF encode
<1> HIDE DEF x
<1>4. /\ sent' \in Seq(PacketRecord) /\ Len(sent') = Len(sent) + 1
      /\ \A i \in 1..Len(sent) : sent'[i] = sent[i]
      /\ sent'[Len(sent) + 1] = x
  BY <1>1, <1>2, <1>3, AppendProperties
<1>5. After(x) = StreamEnd + Header + len
  BY <1>3 DEF After
<1>6. StreamEnd' = After(x)
  <2>1. sent' # <<>>
    BY <1>1, <1>4
  <2> QED
    BY <1>4, <2>1 DEF StreamEnd
<1>7. \A i \in 1..Len(sent') : sent'[i].first = IF i = 1 THEN 0 ELSE After(sent'[i - 1])
  <2> TAKE i \in 1..Len(sent')
  <2>1. CASE i \in 1..Len(sent)
    <3>1. i # 1 => i - 1 \in 1..Len(sent)
      BY <1>1, <2>1
    <3>2. sent'[i] = sent[i] /\ (i # 1 => sent'[i - 1] = sent[i - 1])
      BY <1>4, <2>1, <3>1
    <3> QED
      BY <2>1, <3>2 DEF Stream
  <2>2. CASE i = Len(sent) + 1
    <3>1. sent'[i].first = StreamEnd
      BY <1>3, <1>4, <2>2
    <3>2. CASE Len(sent) = 0
      BY <1>1, <2>2, <3>1, <3>2 DEF StreamEnd
    <3>3. CASE Len(sent) # 0
      <4>1. i # 1 /\ i - 1 = Len(sent) /\ i - 1 \in 1..Len(sent) /\ sent # <<>>
        BY <1>1, <2>2, <3>3
      <4>2. StreamEnd = After(sent[i - 1]) /\ sent'[i - 1] = sent[i - 1]
        BY <1>4, <4>1 DEF StreamEnd
      <4> QED
        BY <3>1, <4>1, <4>2
    <3> QED
      BY <3>2, <3>3
  <2> QED
    BY <1>1, <1>4, <2>1, <2>2
<1>8. \A i, j \in 1..Len(sent') : i < j => After(sent'[i]) <= sent'[j].first
  <2> SUFFICES ASSUME NEW i \in 1..Len(sent'), NEW j \in 1..Len(sent'), i < j
               PROVE  After(sent'[i]) <= sent'[j].first
    OBVIOUS
  <2>1. i \in 1..Len(sent) /\ sent'[i] = sent[i]
    BY <1>1, <1>4
  <2>2. CASE j \in 1..Len(sent)
    BY <1>4, <2>1, <2>2 DEF Stream
  <2>3. CASE j = Len(sent) + 1
    BY <1>3, <1>4, <2>1, <2>3, WithinStream
  <2> QED
    BY <1>1, <1>4, <2>2, <2>3
<1>9. taken' <= StreamEnd'
  BY <1>1, <1>5, <1>6 DEF Stream
<1> QED
  BY <1>3, <1>4, <1>5, <1>7, <1>8, <1>9 DEF Stream

(* The server sends a packet: the stream grows at its end.                   *)
LEMMA ServerSendsKeeps ==
    ASSUME ClientInv, NEW len \in Lengths, NEW kind \in {"yes", "no", "chat"}, ServerSends(len, kind)
    PROVE  ClientInv'
<1>1. /\ peer = "open" /\ Len(sent) < MaxPackets /\ encode(len, kind)
      /\ kind # "chat" => main = "answer" /\ \A i \in 1..Len(sent) : sent[i].kind = "chat"
      /\ accepted' = (accepted \/ kind = "yes")
  BY DEF ServerSends
<1>2. /\ UNCHANGED <<peer, taken, buf_, read_pos_, write_pos_, count_, discarded>>
      /\ UNCHANGED <<running_, message_queue_, finished_, ui_mtx_>>
      /\ UNCHANGED <<main, receiver, printer, msg, printed, events, due>>
  BY DEF ServerSends, ringVars, shared, threads
<1>3. Received' = Received
  BY <1>2, ReceivedSame
<1>4. taken \in Nat /\ count_ \in Nat /\ Len(sent) \in Nat /\ Stream /\ QueueTypes
  BY DEF ClientInv, RingTypes, Stream
<1>5. /\ Stream' /\ Len(sent') = Len(sent) + 1
      /\ \A i \in 1..Len(sent) : sent'[i] = sent[i]
      /\ sent'[Len(sent) + 1].first = StreamEnd /\ sent'[Len(sent) + 1].kind = kind
      /\ After(sent'[Len(sent) + 1]) = StreamEnd + Header + len
  BY <1>1, <1>2, <1>4, StreamGrows
<1>6. RingTypes' /\ Ring'
  BY <1>2 DEF ClientInv, RingTypes, Ring
<1>7. QueueTypes'
  <2>1. 0..Len(sent) \subseteq 0..Len(sent')
    BY <1>4, <1>5
  <2>2. message_queue_ \in Seq(0..Len(sent')) /\ printed \in Seq(0..Len(sent'))
    BY <1>4, <2>1, SeqMonotonic DEF QueueTypes
  <2> QED
    BY <1>2, <1>4, <2>1, <2>2 DEF QueueTypes
<1>8. FlagTypes'
  <2>1. Len(sent') <= MaxPackets
    BY <1>1, <1>4, <1>5, ChatClientAssumption
  <2>2. accepted' \in BOOLEAN
    BY <1>1 DEF ClientInv, FlagTypes
  <2> QED
    BY <1>2, <2>1, <2>2 DEF ClientInv, FlagTypes
<1>9. \A i \in 1..Len(sent') : i \in 1..Len(sent) \/ i = Len(sent) + 1
  BY <1>4, <1>5
<1>10. \A i \in 1..Len(sent) : i \in 1..Len(sent')
  BY <1>4, <1>5
<1>11. AnsweredOnce'
  <2>1. accepted' <=> \E i \in 1..Len(sent') : sent'[i].kind = "yes"
    <3>1. accepted <=> \E i \in 1..Len(sent) : sent[i].kind = "yes"
      BY DEF ClientInv, AnsweredOnce
    <3>2. Len(sent) + 1 \in 1..Len(sent')
      BY <1>4, <1>5
    <3> QED
      BY <1>1, <1>5, <1>9, <1>10, <3>1, <3>2
  <2>2. \A i, j \in 1..Len(sent') : i # j => sent'[i].kind = "chat" \/ sent'[j].kind = "chat"
    BY <1>1, <1>5, <1>9 DEF ClientInv, AnsweredOnce
  <2>3. main' = "login" => \A i \in 1..Len(sent') : sent'[i].kind = "chat"
    BY <1>1, <1>2, <1>5, <1>9 DEF ClientInv, AnsweredOnce
  <2> QED
    BY <2>1, <2>2, <2>3 DEF AnsweredOnce
<1>12. sent # <<>> => 1 \in 1..Len(sent) /\ sent'[1] = sent[1]
  BY <1>4, <1>5 DEF Stream
<1>13. sent' # <<>>
  BY <1>4, <1>5
<1>14. StartedOnce'
  BY <1>2, <1>12, <1>13 DEF ClientInv, StartedOnce, NotStarted
<1>15. PlacesInOrder'
  <2> SUFFICES ASSUME ~NotStarted'
               PROVE  /\ After(sent'[1]) <= taken' - count_'
                      /\ \A i \in 1..Len(Received') : Received'[i] # Lost =>
                             /\ Received'[i] \in i + 1..Len(sent')
                             /\ After(sent'[Received'[i]]) <= taken' - count_'
    BY DEF PlacesInOrder
  <2>1. ~NotStarted
    BY <1>2 DEF NotStarted
  <2>2. sent'[1] = sent[1]
    BY <1>12, <2>1 DEF ClientInv, StartedOnce
  <2>3. ASSUME NEW i \in 1..Len(Received), Received[i] # Lost
        PROVE  /\ Received[i] \in i + 1..Len(sent')
               /\ After(sent'[Received[i]]) <= taken - count_
    <3>1. Received[i] \in i + 1..Len(sent) /\ After(sent[Received[i]]) <= taken - count_
      BY <2>1, <2>3 DEF ClientInv, PlacesInOrder
    <3>2. sent'[Received[i]] = sent[Received[i]]
      BY <1>4, <1>5, <3>1
    <3> QED
      BY <1>4, <1>5, <3>1, <3>2
  <2> QED
    BY <1>2, <1>3, <2>1, <2>2, <2>3 DEF ClientInv, PlacesInOrder
<1>16. LostIsLast' /\ EndInv' /\ AllShownAtEnd'
  BY <1>2, <1>3 DEF ClientInv, LostIsLast, EndInv, LossShown, AllShownAtEnd
<1>17. InSequence'
  <2> SUFFICES ASSUME receiver # "off", ~discarded
               PROVE  \E n \in 0..Len(Received) :
                          /\ \A i \in 1..n : Received[i] = i + 1
                          /\ n < Len(Received) => n + 1 = Len(Received) /\ Received[n + 1] = Lost
                          /\ taken - count_ = After(sent'[n + 1])
    BY <1>2, <1>3 DEF InSequence
  <2>1. ~NotStarted
    BY DEF ClientInv, StartedOnce
  <2>2. PICK n \in 0..Len(Received) :
            /\ \A i \in 1..n : Received[i] = i + 1
            /\ n < Len(Received) => n + 1 = Len(Received) /\ Received[n + 1] = Lost
            /\ taken - count_ = After(sent[n + 1])
    BY DEF ClientInv, InSequence
  <2>3. n + 1 \in 1..Len(sent)
    <3>1. CASE n = 0
      BY <1>4, <2>1, <1>12, <3>1 DEF ClientInv, StartedOnce
    <3>2. CASE n # 0
      <4>1. n \in 1..Len(Received) /\ Received[n] = n + 1 /\ n + 1 # Lost
        BY <2>2, <3>2, <1>4, ReceivedFacts DEF Lost, Stream
      <4> QED
        BY <2>1, <4>1, <1>4 DEF ClientInv, PlacesInOrder
    <3> QED
      BY <3>1, <3>2
  <2> QED
    BY <1>5, <2>2, <2>3
<1>18. NothingHeldBack'
  <2>1. CASE discarded
    <3>1. PICK i \in 1..Len(sent) : Header + sent[i].len > Capacity
      BY <2>1 DEF ClientInv, NothingHeldBack
    <3> QED
      BY <1>2, <1>5, <1>10, <2>1, <3>1 DEF NothingHeldBack
  <2>2. CASE ~discarded
    <3> SUFFICES ASSUME receiver \in {"poll", "look"}, NEW i \in 1..Len(sent'),
                        sent'[i].first = taken - count_, After(sent'[i]) <= taken
                 PROVE  FALSE
      BY <1>2, <2>2 DEF NothingHeldBack
    <3>1. CASE i \in 1..Len(sent)
      BY <1>5, <2>2, <3>1 DEF ClientInv, NothingHeldBack
    <3>2. CASE i = Len(sent) + 1
      <4>1. taken <= StreamEnd /\ StreamEnd \in Nat /\ Header \in Nat \ {0} /\ len \in Nat
        BY <1>4, WithinStream, PacketBufferAssumption DEF Stream
      <4> QED
        BY <1>4, <1>5, <3>2, <4>1
    <3> QED
      BY <1>9, <3>1, <3>2
  <2> QED
    BY <2>1, <2>2
<1>19. LoginMeansAccepted'
  <2>1. receiver # "off" => accepted'
    BY <1>1 DEF ClientInv, LoginMeansAccepted
  <2>2. ASSUME main = "gone", accepted' PROVE sent'[1].kind = "chat"
    <3>1. accepted
      BY <1>1, <2>2
    <3>2. sent # <<>>
      BY <1>4, <3>1 DEF ClientInv, AnsweredOnce
    <3> QED
      BY <1>1, <1>12, <2>2, <3>1, <3>2 DEF ClientInv, LoginMeansAccepted
  <2> QED
    BY <1>2, <2>1, <2>2 DEF LoginMeansAccepted
<1> QED
  BY <1>5, <1>6, <1>7, <1>8, <1>11, <1>14, <1>15, <1>16, <1>17, <1>18, <1>19 DEF ClientInv

(* The server closes, or the connection breaks.                              *)
LEMMA ServerLeavesKeeps ==
    ASSUME ClientInv, ServerLeaves
    PROVE  ClientInv'
<1>1. peer = "open" /\ peer' \in {"closed", "reset"}
  BY DEF ServerLeaves
<1>2. /\ UNCHANGED <<sent, accepted, taken, buf_, read_pos_, write_pos_, count_, discarded>>
      /\ UNCHANGED <<running_, message_queue_, finished_, ui_mtx_>>
      /\ UNCHANGED <<main, receiver, printer, msg, printed, events, due>>
  BY DEF ServerLeaves, ringVars, shared, threads
<1>3. Received' = Received
  BY <1>2, ReceivedSame
<1>4. RingTypes' /\ Ring' /\ Stream' /\ QueueTypes'
  BY <1>2 DEF ClientInv, RingTypes, Ring, Stream, StreamEnd, QueueTypes
<1>5. FlagTypes'
  BY <1>1, <1>2 DEF ClientInv, FlagTypes
<1>6. AnsweredOnce' /\ StartedOnce' /\ PlacesInOrder' /\ LostIsLast' /\ EndInv'
  BY <1>2, <1>3 DEF ClientInv, AnsweredOnce, StartedOnce, NotStarted, PlacesInOrder, LostIsLast, EndInv, LossShown
<1>7. InSequence' /\ NothingHeldBack' /\ AllShownAtEnd'
  BY <1>2, <1>3 DEF ClientInv, InSequence, NothingHeldBack, AllShownAtEnd
<1>8. LoginMeansAccepted'
  BY <1>1, <1>2 DEF ClientInv, LoginMeansAccepted
<1> QED
  BY <1>4, <1>5, <1>6, <1>7, <1>8 DEF ClientInv
-----------------------------------------------------------------------------
(* The login and the input loop.                                             *)

(* The login ends without an answer.                                         *)
LEMMA NoAnswerKeeps ==
    ASSUME ClientInv, EnterName \/ LoginFails
    PROVE  ClientInv'
<1>1. /\ UNCHANGED <<sent, peer, accepted, taken, buf_, read_pos_, write_pos_, count_, discarded>>
      /\ UNCHANGED <<running_, message_queue_, finished_, ui_mtx_>>
      /\ UNCHANGED <<receiver, printer, msg, printed, events, due>>
  BY DEF EnterName, LoginFails, network, ringVars, shared
<1>2. /\ main \in {"login", "answer"} /\ main' \in {"answer", "gone"}
      /\ main = "login" \/ peer # "open"
  BY DEF EnterName, LoginFails
<1>3. Received' = Received /\ NotStarted /\ NotStarted'
  BY <1>1, <1>2, ReceivedSame DEF NotStarted
<1>4. RingTypes' /\ Ring' /\ Stream' /\ QueueTypes' /\ FlagTypes'
  BY <1>1, <1>2 DEF ClientInv, RingTypes, Ring, Stream, StreamEnd, QueueTypes, FlagTypes
<1>5. AnsweredOnce' /\ StartedOnce' /\ PlacesInOrder' /\ LostIsLast'
  BY <1>1, <1>2, <1>3 DEF ClientInv, AnsweredOnce, StartedOnce, PlacesInOrder, LostIsLast, LossShown
<1>6. running_ /\ ~finished_ /\ receiver = "off"
  BY <1>3 DEF ClientInv, StartedOnce
<1>7. EndInv' /\ AllShownAtEnd'
  BY <1>1, <1>2, <1>3, <1>6 DEF ClientInv, EndInv, LossShown, AllShownAtEnd
<1>8. InSequence' /\ NothingHeldBack'
  BY <1>1, <1>3 DEF ClientInv, InSequence, NothingHeldBack
<1>9. LoginMeansAccepted'
  <2>1. main = "login" => ~accepted
    BY DEF ClientInv, AnsweredOnce
  <2> QED
    BY <1>1, <1>2, <1>6, <2>1 DEF LoginMeansAccepted
<1> QED
  BY <1>4, <1>5, <1>7, <1>8, <1>9 DEF ClientInv

(* The first packet is the answer: the ring is empty, and what is taken is   *)
(* that packet.                                                              *)
LEMMA LoginAnswerKeeps ==
    ASSUME ClientInv, LoginAnswer
    PROVE  ClientInv'
<1>1. /\ main = "answer" /\ sent # <<>> /\ Available >= After(sent[1]) /\ taken' = After(sent[1])
      /\ UNCHANGED <<sent, peer, accepted, buf_, read_pos_, write_pos_, count_, discarded>>
      /\ UNCHANGED <<message_queue_, finished_, ui_mtx_, msg, printed, events, due>>
      /\ \/ /\ sent[1].kind = "yes" /\ running_' = TRUE
            /\ main' = "poll" /\ receiver' = "poll" /\ printer' = "pop"
         \/ /\ sent[1].kind # "yes" /\ main' = "gone"
            /\ UNCHANGED <<running_, receiver, printer>>
  BY DEF LoginAnswer, network, ringVars
<1>2. /\ NotStarted /\ receiver = "off" /\ printer = "off" /\ running_ = TRUE /\ finished_ = FALSE
      /\ discarded = FALSE /\ count_ = 0 /\ due = 0 /\ message_queue_ = <<>> /\ msg = None /\ printed = <<>>
  <2>1. NotStarted
    BY <1>1 DEF NotStarted
  <2> QED
    BY <2>1 DEF ClientInv, StartedOnce, FlagTypes
<1>3. Received' = <<>> /\ Len(Received') = 0
  BY <1>1, <1>2 DEF Received
<1>4. /\ 1 \in 1..Len(sent) /\ After(sent[1]) \in Nat /\ sent[1].first < After(sent[1]) /\ sent[1].first = 0
      /\ After(sent[1]) <= StreamEnd /\ taken' \in Nat
  <2>1. 1 \in 1..Len(sent)
    BY <1>1 DEF ClientInv, Stream
  <2> QED
    BY <1>1, <2>1, PacketFacts, WithinStream DEF ClientInv, Stream
<1>5. RingTypes' /\ Ring'
  BY <1>1, <1>2, <1>4 DEF ClientInv, RingTypes, Ring
<1>6. Stream' /\ QueueTypes'
  BY <1>1, <1>4 DEF ClientInv, Stream, StreamEnd, QueueTypes
<1>7. FlagTypes'
  <2>1. FlagTypes
    BY DEF ClientInv
  <2>2. /\ running_' \in BOOLEAN
        /\ main' \in {"poll", "gone"} /\ receiver' \in {"poll", receiver} /\ printer' \in {"pop", printer}
    BY <1>1, <2>1 DEF FlagTypes
  <2>3. UNCHANGED <<sent, peer, accepted, discarded, finished_, ui_mtx_, events, due>>
    BY <1>1
  <2> QED
    BY <2>1, <2>2, <2>3 DEF FlagTypes
<1>8. AnsweredOnce'
  BY <1>1 DEF ClientInv, AnsweredOnce
<1>9. StartedOnce'
  BY <1>1, <1>2 DEF StartedOnce, NotStarted
<1>10. PlacesInOrder'
  BY <1>1, <1>2, <1>3, <1>4 DEF PlacesInOrder
<1>11. LostIsLast' /\ EndInv' /\ AllShownAtEnd'
  <2>1. /\ main' # "over" /\ main' # "join_printer" /\ receiver' # "lost" /\ printer' # "print" /\ printer' # "done"
        /\ running_' = TRUE /\ finished_' = FALSE /\ msg' = None /\ due' = 0
    BY <1>1, <1>2
  <2>2. LostIsLast'
    BY <1>3, <2>1 DEF LostIsLast
  <2>3. EndInv'
    BY <1>3, <2>1 DEF EndInv
  <2> QED
    BY <2>1, <2>2, <2>3 DEF AllShownAtEnd
<1>12. InSequence'
  <2>1. taken' - count_' = After(sent'[0 + 1])
    BY <1>1, <1>2, <1>4
  <2>2. 0 \in 0..Len(Received')
    BY <1>3
  <2> QED
    BY <1>3, <2>1, <2>2 DEF InSequence
<1>13. NothingHeldBack'
  <2> SUFFICES ASSUME NEW i \in 1..Len(sent), sent[i].first = After(sent[1]), After(sent[i]) <= After(sent[1])
               PROVE  FALSE
    BY <1>1, <1>2, <1>4 DEF NothingHeldBack
  <2> QED
    BY <1>4, PacketFacts DEF ClientInv
<1>14. LoginMeansAccepted'
  <2>1. sent[1].kind = "yes" => accepted
    BY <1>4 DEF ClientInv, AnsweredOnce
  <2>2. ASSUME accepted, sent[1].kind # "yes" PROVE sent[1].kind = "chat"
    <3>1. PICK i \in 1..Len(sent) : sent[i].kind = "yes"
      BY <2>2 DEF ClientInv, AnsweredOnce
    <3> QED
      BY <1>4, <2>2, <3>1 DEF ClientInv, AnsweredOnce
  <2> QED
    BY <1>1, <1>2, <2>1, <2>2 DEF LoginMeansAccepted
<1> QED
  BY <1>5, <1>6, <1>7, <1>8, <1>9, <1>10, <1>11, <1>12, <1>13, <1>14 DEF ClientInv

(* A step of the input loop moves main, and with it running_, finished_ and  *)
(* the lock; what it may be in is a matter of EndInv.                        *)
InputStep ==
    \/ InputEnds \/ Interrupt \/ Key \/ Type \/ TypeExit
    \/ Stop \/ StopQueue \/ JoinReceiver \/ JoinPrinter

(* The login, the rounds of the input loop, and stop.                        *)
LEMMA InputStepKeeps ==
    ASSUME ClientInv, InputStep
    PROVE  ClientInv'
<1>1. /\ UNCHANGED <<sent, peer, accepted, taken, buf_, read_pos_, write_pos_, count_, discarded>>
      /\ UNCHANGED <<message_queue_, receiver, printer, msg, printed, events>>
  BY DEF InputStep, InputEnds, Interrupt, Key, Type, TypeExit, Stop, StopQueue, JoinReceiver, JoinPrinter,
         GoOn, network, ringVars
<1>2. /\ main \in {"poll", "key", "stop", "finish", "join_receiver", "join_printer"}
      /\ main' \in {"poll", "key", "stop", "finish", "join_receiver", "join_printer", "over"}
  BY DEF InputStep, InputEnds, Interrupt, Key, Type, TypeExit, Stop, StopQueue, JoinReceiver, JoinPrinter, GoOn
<1>3. Received' = Received /\ ~NotStarted /\ ~NotStarted'
  BY <1>1, <1>2, ReceivedSame DEF NotStarted
<1>4. Len(Received) \in Nat
  BY ReceivedFacts DEF ClientInv, Stream
<1>5. /\ running_' \in BOOLEAN /\ finished_' \in BOOLEAN /\ ui_mtx_' \in {"main", None} /\ due' \in Nat
      /\ due' = IF main' = "join_receiver" THEN Len(Received) ELSE due
  <2>1. due' = IF main' = "join_receiver" THEN Len(Received) ELSE due
    BY DEF InputStep, InputEnds, Interrupt, Key, Type, TypeExit, Stop, StopQueue, JoinReceiver, JoinPrinter, GoOn
  <2>2. running_' \in BOOLEAN /\ finished_' \in BOOLEAN /\ ui_mtx_' \in {"main", None}
    BY DEF InputStep, InputEnds, Interrupt, Key, Type, TypeExit, Stop, StopQueue, JoinReceiver, JoinPrinter,
           shared, Unlocked, ClientInv, FlagTypes
  <2> QED
    BY <1>4, <2>1, <2>2 DEF ClientInv, FlagTypes
<1>6. RingTypes' /\ Ring' /\ Stream' /\ QueueTypes'
  BY <1>1 DEF ClientInv, RingTypes, Ring, Stream, StreamEnd, QueueTypes
<1>7. FlagTypes'
  BY <1>1, <1>2, <1>5 DEF ClientInv, FlagTypes
<1>8. AnsweredOnce' /\ PlacesInOrder' /\ LostIsLast' /\ StartedOnce'
  BY <1>1, <1>2, <1>3 DEF ClientInv, AnsweredOnce, PlacesInOrder, LostIsLast, LossShown, StartedOnce
<1>9. InSequence' /\ NothingHeldBack'
  BY <1>1, <1>3 DEF ClientInv, InSequence, NothingHeldBack
<1>10. LoginMeansAccepted'
  BY <1>1, <1>2 DEF ClientInv, LoginMeansAccepted
<1>11. (LossShown' <=> LossShown) /\ EndInv /\ due \in Nat
  BY <1>3 DEF LossShown, ClientInv, FlagTypes
<1>12. EndInv' /\ (main' = "over" => receiver = "done" /\ (LossShown \/ printer = "done"))
  <2>1. CASE InputEnds
    BY <1>1, <1>3, <1>5, <1>11, <2>1 DEF InputEnds, GoOn, shared, EndInv
  <2>2. CASE Interrupt \/ Key
    BY <1>1, <1>3, <1>5, <1>11, <2>2 DEF Interrupt, Key, GoOn, shared, EndInv
  <2>3. CASE Type \/ TypeExit
    BY <1>1, <1>3, <1>5, <1>11, <2>3 DEF Type, TypeExit, GoOn, shared, EndInv
  <2>4. CASE Stop
    BY <1>1, <1>3, <1>5, <1>11, <2>4 DEF Stop, GoOn, EndInv
  <2>5. CASE StopQueue
    <3>1. main = "finish" /\ main' = "join_receiver" /\ finished_' = TRUE /\ running_' = running_
      BY <2>5 DEF StopQueue, GoOn
    <3>2. printer # "done" /\ due' = Len(Received)
      BY <1>5, <1>11, <3>1 DEF EndInv
    <3> QED
      BY <1>1, <1>3, <1>4, <1>11, <3>1, <3>2 DEF EndInv
  <2>6. CASE JoinReceiver
    BY <1>1, <1>3, <1>5, <1>11, <2>6 DEF JoinReceiver, GoOn, shared, EndInv
  <2>7. CASE JoinPrinter
    BY <1>1, <1>3, <1>5, <1>11, <2>7 DEF JoinPrinter, GoOn, EndInv
  <2> QED
    BY <2>1, <2>2, <2>3, <2>4, <2>5, <2>6, <2>7 DEF InputStep
<1>13. AllShownAtEnd'
  <2> SUFFICES ASSUME main' = "over"
               PROVE  /\ receiver' = "done"
                      /\ LossShown' \/ (printer' = "done" /\ Len(printed') >= due')
    BY DEF AllShownAtEnd, LossShown
  <2>1. Len(printed) \in Nat
    BY LenProperties DEF ClientInv, QueueTypes
  <2>2. printer' = "done" => due' <= Len(printed')
    BY <1>12 DEF EndInv
  <2> QED
    BY <1>1, <1>5, <1>11, <1>12, <2>1, <2>2
<1> QED
  BY <1>6, <1>7, <1>8, <1>9, <1>10, <1>12, <1>13 DEF ClientInv
-----------------------------------------------------------------------------
(* The receiver and the printer.                                             *)

(* A step of the receiver leaves the input loop, the printer and the network *)
(* alone; it clears running_ only when it is done and the loss is queued.    *)
LEMMA ReceiverMoves ==
    ASSUME ClientInv, main # "over", receiver \notin {"off", "done"},
           receiver' \in {"poll", "look", "lost", "decode", "done"},
           UNCHANGED <<sent, peer, accepted, finished_, ui_mtx_, main, printer, msg, printed, due>>,
           events' \subseteq {"in", "hup"}, discarded' \in BOOLEAN,
           running_' = running_ \/ (running_' = FALSE /\ receiver' = "done" /\ LossShown'),
           Len(Received') \in Nat, Len(Received) <= Len(Received')
    PROVE  FlagTypes' /\ AnsweredOnce' /\ StartedOnce' /\ EndInv' /\ LoginMeansAccepted' /\ AllShownAtEnd'
<1>1. ~NotStarted /\ ~NotStarted'
  BY DEF ClientInv, StartedOnce, NotStarted
<1>2. running_' \in BOOLEAN
  BY DEF ClientInv, FlagTypes
<1>3. FlagTypes'
  BY <1>2 DEF ClientInv, FlagTypes
<1>4. AnsweredOnce'
  BY DEF ClientInv, AnsweredOnce
<1>5. StartedOnce'
  BY <1>1 DEF ClientInv, StartedOnce
<1>6. EndInv'
  <2>1. /\ main # "join_printer" /\ due \in Nat /\ Len(Received) \in Nat
        /\ ~running_ => main \in {"finish", "join_receiver", "join_printer", "over"}
    BY ReceivedFacts DEF ClientInv, FlagTypes, EndInv, Stream
  <2>2. due' <= Len(Received')
    BY <2>1 DEF ClientInv, EndInv
  <2> QED
    BY <2>1, <2>2 DEF ClientInv, EndInv
<1>7. LoginMeansAccepted' /\ AllShownAtEnd'
  BY DEF ClientInv, LoginMeansAccepted, AllShownAtEnd
<1> QED
  BY <1>3, <1>4, <1>5, <1>6, <1>7

(* Only the place of the receiver changes, and perhaps running_.             *)
LEMMA ReceiverPasses ==
    ASSUME ClientInv, ReceiverPoll \/ ReceiverIdle \/ ReceiverLost \/ ReceiverFails
    PROVE  ClientInv'
<1>1. /\ main # "over" /\ receiver \in {"poll", "look", "lost"} /\ receiver' \in {"poll", "look", "done"}
      /\ UNCHANGED <<sent, peer, accepted, finished_, ui_mtx_, main, printer, msg, printed, due>>
      /\ UNCHANGED <<taken, buf_, read_pos_, write_pos_, count_, discarded, message_queue_>>
      /\ receiver' \in {"poll", "look"} => receiver \in {"poll", "look"}
      /\ receiver = "lost" => receiver' = "done"
  BY DEF ReceiverPoll, ReceiverIdle, ReceiverLost, ReceiverFails, Receive, network, ringVars
<1>2. running_' = running_ \/ (running_' = FALSE /\ receiver' = "done" /\ receiver = "lost")
  BY DEF ReceiverPoll, ReceiverIdle, ReceiverLost, ReceiverFails, Receive
<1>3. events' \subseteq {"in", "hup"}
  BY DEF ReceiverPoll, ReceiverIdle, ReceiverLost, ReceiverFails, ClientInv, FlagTypes
<1>4. Received' = Received
  BY <1>1, ReceivedSame
<1>5. Len(Received) \in Nat /\ (LossShown' <=> LossShown)
  BY <1>4, ReceivedFacts DEF ClientInv, Stream, LossShown
<1>6. receiver = "lost" => LossShown
  BY DEF ClientInv, LostIsLast
<1>7. discarded' \in BOOLEAN
  BY <1>1 DEF ClientInv, FlagTypes
<1>8. FlagTypes' /\ AnsweredOnce' /\ StartedOnce' /\ EndInv' /\ LoginMeansAccepted' /\ AllShownAtEnd'
  <2>1. receiver \notin {"off", "done"} /\ receiver' \in {"poll", "look", "lost", "decode", "done"}
    BY <1>1
  <2>2. running_' = running_ \/ (running_' = FALSE /\ receiver' = "done" /\ LossShown')
    BY <1>2, <1>5, <1>6
  <2>3. Len(Received') \in Nat /\ Len(Received) <= Len(Received')
    BY <1>4, <1>5
  <2> QED
    BY <1>1, <1>3, <1>7, <2>1, <2>2, <2>3, ReceiverMoves
<1>9. RingTypes' /\ Ring' /\ Stream' /\ QueueTypes'
  BY <1>1 DEF ClientInv, RingTypes, Ring, Stream, StreamEnd, QueueTypes
<1>10. PlacesInOrder' /\ LostIsLast' /\ InSequence' /\ NothingHeldBack'
  BY <1>1, <1>4, <1>5 DEF ClientInv, PlacesInOrder, NotStarted, LostIsLast, InSequence, NothingHeldBack
<1> QED
  BY <1>8, <1>9, <1>10 DEF ClientInv

(* One text more.                                                            *)
LEMMA OneMore ==
    ASSUME QueueTypes, Stream, NEW x \in Texts, message_queue_' = Append(message_queue_, x),
           UNCHANGED <<printed, msg, sent>>
    PROVE  /\ QueueTypes' /\ Len(Received) \in Nat /\ Len(Received') = Len(Received) + 1
           /\ \A i \in 1..Len(Received) : Received'[i] = Received[i]
           /\ Received'[Len(Received) + 1] = x
<1>1. Received' = Append(Received, x) /\ Received \in Seq(Texts)
  BY ReceivedGrows, ReceivedType
<1>2. Append(message_queue_, x) \in Seq(Texts)
  BY AppendProperties DEF QueueTypes, Texts
<1>3. QueueTypes'
  BY <1>2 DEF QueueTypes, Texts
<1>4. Len(Received) \in Nat
  BY <1>1, LenProperties
<1> QED
  BY <1>1, <1>3, <1>4, AppendProperties

(* The hang-up queues the loss; no text is queued behind it.                 *)
LEMMA HupKeeps ==
    ASSUME ClientInv, ReceiverHup
    PROVE  ClientInv'
<1>1. /\ main # "over" /\ receiver = "look" /\ receiver' = "lost"
      /\ UNCHANGED <<sent, peer, accepted, finished_, ui_mtx_, main, printer, msg, printed, due>>
      /\ UNCHANGED <<taken, buf_, read_pos_, write_pos_, count_, discarded, running_, events>>
      /\ message_queue_' = Append(message_queue_, Lost)
  BY DEF ReceiverHup, Receive, network, ringVars
<1>2. Lost \in Texts
  BY DEF Lost, Texts, ClientInv, Stream
<1>3. /\ QueueTypes' /\ Len(Received) \in Nat /\ Len(Received') = Len(Received) + 1
      /\ \A i \in 1..Len(Received) : Received'[i] = Received[i]
      /\ Received'[Len(Received) + 1] = Lost
  BY <1>1, <1>2, OneMore DEF ClientInv
<1>4. events' \subseteq {"in", "hup"} /\ discarded' \in BOOLEAN
  BY <1>1 DEF ClientInv, FlagTypes
<1>5. FlagTypes' /\ AnsweredOnce' /\ StartedOnce' /\ EndInv' /\ LoginMeansAccepted' /\ AllShownAtEnd'
  BY <1>1, <1>3, <1>4, ReceiverMoves
<1>6. RingTypes' /\ Ring' /\ Stream' /\ NothingHeldBack'
  BY <1>1 DEF ClientInv, RingTypes, Ring, Stream, StreamEnd, NothingHeldBack
<1>7. \A i \in 1..Len(Received') : i \in 1..Len(Received) \/ i = Len(Received')
  BY <1>3
<1>8. \A i \in 1..Len(Received) : Received[i] # Lost
  BY <1>1 DEF ClientInv, LostIsLast
<1>9. PlacesInOrder'
  BY <1>1, <1>3, <1>7 DEF ClientInv, PlacesInOrder, NotStarted
<1>10. LostIsLast'
  <2>1. Len(Received') \in 1..Len(Received') /\ Received'[Len(Received')] = Lost
    BY <1>3
  <2> QED
    BY <1>1, <1>3, <1>7, <1>8, <2>1 DEF LostIsLast, LossShown
<1>11. InSequence'
  <2> SUFFICES ASSUME ~discarded
               PROVE  \E n \in 0..Len(Received') :
                          /\ \A i \in 1..n : Received'[i] = i + 1
                          /\ n < Len(Received') => n + 1 = Len(Received') /\ Received'[n + 1] = Lost
                          /\ taken - count_ = After(sent[n + 1])
    BY <1>1 DEF InSequence
  <2>1. PICK n \in 0..Len(Received) :
            /\ \A i \in 1..n : Received[i] = i + 1
            /\ n < Len(Received) => n + 1 = Len(Received) /\ Received[n + 1] = Lost
            /\ taken - count_ = After(sent[n + 1])
    BY <1>1 DEF ClientInv, InSequence
  <2>2. n = Len(Received)
    BY <1>3, <1>8, <2>1
  <2> QED
    BY <1>3, <2>1, <2>2
<1> QED
  BY <1>3, <1>5, <1>6, <1>9, <1>10, <1>11 DEF ClientInv
(* A read moves the front of neither the stream nor the ring.                *)
LEMMA ReadKeeps ==
    ASSUME ClientInv, NEW n \in 1..Capacity, ReceiverReads(n)
    PROVE  ClientInv'
<1>1. /\ main # "over" /\ receiver = "look" /\ receiver' = "decode"
      /\ UNCHANGED <<sent, peer, accepted, finished_, ui_mtx_, main, printer, msg, printed, due>>
      /\ UNCHANGED <<read_pos_, discarded, running_, message_queue_, events>>
      /\ n \in 1..AtMost(Available, Room(get_writeable_iovecs))
      /\ readv(get_writeable_iovecs, n) /\ commit_write(n)
  BY DEF ReceiverReads, Receive, network
<1>2. /\ taken \in Nat /\ count_ \in Nat /\ StreamEnd \in Nat /\ taken <= StreamEnd
      /\ Capacity - count_ \in Nat
  BY WithinStream, PacketBufferAssumption DEF ClientInv, RingTypes, Stream
<1>3. Room(get_writeable_iovecs) = Capacity - count_
  BY Pieces DEF ClientInv, Free
<1>4. n \in 1..Room(get_writeable_iovecs) /\ taken + n <= StreamEnd
  BY <1>1, <1>2, <1>3 DEF AtMost, Available
<1>5. RingTypes' /\ Ring' /\ taken' = taken + n /\ count_' = count_ + n
  BY <1>1, <1>4, ReadIntoRing DEF ClientInv
<1>6. taken' - count_' = taken - count_
  BY <1>2, <1>4, <1>5
<1>7. Received' = Received
  BY <1>1, ReceivedSame
<1>8. Len(Received) \in Nat
  BY ReceivedFacts DEF ClientInv, Stream
<1>9. events' \subseteq {"in", "hup"} /\ discarded' \in BOOLEAN
  BY <1>1 DEF ClientInv, FlagTypes
<1>10. receiver \notin {"off", "done"} /\ receiver' \in {"poll", "look", "lost", "decode", "done"}
  BY <1>1
<1>11. FlagTypes' /\ AnsweredOnce' /\ StartedOnce' /\ EndInv' /\ LoginMeansAccepted' /\ AllShownAtEnd'
  BY <1>1, <1>7, <1>8, <1>9, <1>10, ReceiverMoves
<1>12. Stream' /\ QueueTypes'
  BY <1>1, <1>4, <1>5 DEF ClientInv, Stream, StreamEnd, QueueTypes
<1>13. PlacesInOrder'
  BY <1>1, <1>6, <1>7 DEF ClientInv, PlacesInOrder, NotStarted
<1>14. LostIsLast' /\ NothingHeldBack'
  BY <1>1, <1>7 DEF ClientInv, LostIsLast, NothingHeldBack
<1>15. InSequence'
  BY <1>1, <1>6, <1>7 DEF ClientInv, InSequence
<1> QED
  BY <1>5, <1>11, <1>12, <1>13, <1>14, <1>15 DEF ClientInv

(* While the receiver is at work and nothing was thrown away, a byte in the  *)
(* ring means that a packet of the stream is at the front, the one behind    *)
(* those that are for the screen.                                            *)
LEMMA FrontPacket ==
    ASSUME ClientInv, receiver \in {"look", "decode"}, ~discarded, count_ > 0
    PROVE  /\ Len(Received) + 2 \in 1..Len(sent)
           /\ sent[Len(Received) + 2].first = taken - count_
           /\ \A i \in 1..Len(Received) : Received[i] = i + 1
<1>1. /\ Len(Received) \in Nat /\ Len(sent) \in Nat /\ taken \in Nat /\ count_ \in Nat /\ ~NotStarted
      /\ Stream /\ sent # <<>>
  BY ReceivedFacts DEF ClientInv, Stream, RingTypes, StartedOnce
<1>2. \A i \in 1..Len(Received) : Received[i] # Lost
  BY DEF ClientInv, LostIsLast
<1>3. PICK n \in 0..Len(Received) :
          /\ \A i \in 1..n : Received[i] = i + 1
          /\ n < Len(Received) => n + 1 = Len(Received) /\ Received[n + 1] = Lost
          /\ taken - count_ = After(sent[n + 1])
  BY DEF ClientInv, InSequence
<1>4. n = Len(Received)
  BY <1>1, <1>2, <1>3
<1>5. n + 1 \in 1..Len(sent)
  <2>1. CASE n = 0
    BY <1>1, <2>1
  <2>2. CASE n # 0
    <3>1. n \in 1..Len(Received) /\ Received[n] = n + 1
      BY <1>1, <1>3, <1>4, <2>2
    <3>2. Received[n] \in n + 1..Len(sent)
      BY <1>1, <1>2, <3>1 DEF ClientInv, PlacesInOrder
    <3> QED
      BY <1>1, <3>1, <3>2
  <2> QED
    BY <2>1, <2>2
<1>6. taken > After(sent[n + 1])
  BY <1>1, <1>3
<1>7. /\ (n + 1) + 1 \in 1..Len(sent)
      /\ sent[(n + 1) + 1].first = After(sent[n + 1])
  BY <1>1, <1>5, <1>6, NextPacket
<1>8. (n + 1) + 1 = Len(Received) + 2
  BY <1>1, <1>4
<1> QED
  BY <1>3, <1>4, <1>7, <1>8

(* Bytes leave the front of the ring and nothing is queued: this happens     *)
(* only with bytes that were thrown away, or are now.                        *)
LEMMA ThrowingKeeps ==
    ASSUME ClientInv, receiver \in {"look", "decode"}, main # "over",
           receiver' \in {"poll", "decode"},
           UNCHANGED <<sent, peer, accepted, finished_, ui_mtx_, main, printer, msg, printed, due>>,
           UNCHANGED <<taken, buf_, write_pos_, running_, message_queue_, events>>,
           discarded' = TRUE, NEW len \in Nat, consume(len),
           \E i \in 1..Len(sent) : Header + sent[i].len > Capacity
    PROVE  ClientInv'
<1>1. /\ RingTypes' /\ Ring' /\ count_' = count_ - AtMost(len, count_)
      /\ taken' - count_' = taken - count_ + AtMost(len, count_)
  BY ConsumeFromRing DEF ClientInv
<1>2. /\ taken \in Nat /\ count_ \in Nat /\ AtMost(len, count_) \in Nat
      /\ taken' \in Nat /\ count_' \in Nat /\ taken' - count_' >= taken - count_
  BY <1>1 DEF ClientInv, RingTypes, AtMost
<1>3. Received' = Received
  BY ReceivedSame
<1>4. Len(Received) \in Nat
  BY ReceivedFacts DEF ClientInv, Stream
<1>5. events' \subseteq {"in", "hup"} /\ discarded' \in BOOLEAN
  BY DEF ClientInv, FlagTypes
<1>6. receiver \notin {"off", "done"} /\ receiver' \in {"poll", "look", "lost", "decode", "done"}
  OBVIOUS
<1>7. FlagTypes' /\ AnsweredOnce' /\ StartedOnce' /\ EndInv' /\ LoginMeansAccepted' /\ AllShownAtEnd'
  BY <1>3, <1>4, <1>5, <1>6, ReceiverMoves
<1>8. Stream' /\ QueueTypes'
  BY DEF ClientInv, Stream, StreamEnd, QueueTypes
<1>9. PlacesInOrder'
  <2> SUFFICES ASSUME ~NotStarted
               PROVE  /\ After(sent[1]) <= taken' - count_'
                      /\ \A i \in 1..Len(Received) : Received[i] # Lost =>
                             /\ Received[i] \in i + 1..Len(sent)
                             /\ After(sent[Received[i]]) <= taken' - count_'
    BY <1>3 DEF PlacesInOrder, NotStarted
  <2>1. 1 \in 1..Len(sent)
    BY DEF ClientInv, StartedOnce, Stream
  <2>2. After(sent[1]) \in Nat /\ After(sent[1]) <= taken - count_
    BY <2>1, PacketFacts DEF ClientInv, PlacesInOrder
  <2>3. ASSUME NEW i \in 1..Len(Received), Received[i] # Lost
        PROVE  /\ Received[i] \in i + 1..Len(sent)
               /\ After(sent[Received[i]]) <= taken' - count_'
    <3>1. Received[i] \in i + 1..Len(sent) /\ After(sent[Received[i]]) <= taken - count_
      BY <2>3 DEF ClientInv, PlacesInOrder
    <3>2. Received[i] \in 1..Len(sent)
      BY <1>4, <3>1
    <3>3. After(sent[Received[i]]) \in Nat
      BY <3>2, PacketFacts DEF ClientInv
    <3> DEFINE a == After(sent[Received[i]])
    <3>4. a \in Nat /\ a <= taken - count_
      BY <3>1, <3>3
    <3> HIDE DEF a
    <3>5. a <= taken' - count_'
      BY <1>2, <3>4
    <3> QED
      BY <3>1, <3>5 DEF a
  <2> QED
    BY <1>2, <2>2, <2>3
<1>10. LostIsLast'
  BY <1>3 DEF ClientInv, LostIsLast
<1>11. InSequence' /\ NothingHeldBack'
  BY DEF InSequence, NothingHeldBack
<1> QED
  BY <1>1, <1>7, <1>8, <1>9, <1>10, <1>11 DEF ClientInv

(* The ring is full and holds no whole packet: the packet does not fit.      *)
LEMMA FullKeeps ==
    ASSUME ClientInv, ReceiverFull
    PROVE  ClientInv'
<1>1. /\ main # "over" /\ receiver = "look" /\ receiver' = "poll" /\ get_writeable_iovecs = <<>>
      /\ UNCHANGED <<sent, peer, accepted, finished_, ui_mtx_, main, printer, msg, printed, due>>
      /\ UNCHANGED <<taken, buf_, write_pos_, running_, message_queue_, events>>
      /\ consume(count_) /\ discarded' = TRUE
  BY DEF ReceiverFull, Receive, network
<1>2. count_ = Capacity /\ count_ \in Nat /\ count_ > 0 /\ taken \in Nat
  <2>1. Capacity - count_ = 0
    BY <1>1, Pieces DEF ClientInv, Free
  <2> QED
    BY <2>1, PacketBufferAssumption DEF ClientInv, RingTypes
<1>3. \E i \in 1..Len(sent) : Header + sent[i].len > Capacity
  <2>1. CASE discarded
    BY <2>1 DEF ClientInv, NothingHeldBack
  <2>2. CASE ~discarded
    <3>1. PICK i \in 1..Len(sent) : sent[i].first = taken - count_
      BY <1>1, <1>2, <2>2, FrontPacket
    <3>2. ~(After(sent[i]) <= taken)
      BY <1>1, <2>2, <3>1 DEF ClientInv, NothingHeldBack
    <3>3. /\ After(sent[i]) = sent[i].first + Header + sent[i].len /\ sent[i].len \in Nat
          /\ sent[i].first \in Nat /\ Header \in Nat
      BY PacketFacts, PacketBufferAssumption DEF ClientInv
    <3> QED
      BY <1>2, <3>1, <3>2, <3>3
  <2> QED
    BY <2>1, <2>2
<1> QED
  BY <1>1, <1>2, <1>3, ThrowingKeeps

(* The lengths that decode may see.                                          *)
LEMMA HeaderLengthsType ==
    ASSUME Stream
    PROVE  HeaderLengths \subseteq Lengths \cup {TooLong}
<1> DEFINE whose == {i \in 1..Len(sent) : \A k \in 0..Header - 1 : peek(Header)[k] = sent[i].first + k}
<1>1. HeaderLengths = IF whose = {} THEN Lengths \cup {TooLong} ELSE {sent[i].len : i \in whose}
  BY DEF HeaderLengths
<1>2. \A i \in whose : sent[i].len \in Lengths
  BY PacketFacts
<1> HIDE DEF whose
<1> QED
  BY <1>1, <1>2
(* decode finds a packet: the one at the front, which is queued.             *)
LEMMA DecodePacketKeeps ==
    ASSUME ClientInv, NEW i \in 1..Len(sent), Receive("decode", "decode"), DecodePacket(i),
           message_queue_' = Append(message_queue_, i), UNCHANGED <<taken, running_, events>>
    PROVE  ClientInv'
<1>1. /\ main # "over" /\ receiver = "decode" /\ receiver' = "decode"
      /\ UNCHANGED <<sent, peer, accepted, finished_, ui_mtx_, main, printer, msg, printed, due>>
      /\ UNCHANGED <<taken, buf_, write_pos_, running_, events, discarded>>
  BY DEF Receive, DecodePacket, network
<1>2. PICK len \in HeaderLengths \ {TooLong} : ~Incomplete(len) /\ i = PayloadOf(len) /\ consume(Header + len)
  BY DEF DecodePacket
<1>3. /\ Header \in Nat \ {0} /\ taken \in Nat /\ count_ \in Nat /\ Stream /\ RingTypes /\ Ring
      /\ Len(sent) \in Nat
  BY PacketBufferAssumption DEF ClientInv, RingTypes, Stream
<1>4. len \in Nat /\ count_ >= Header + len
  <2>1. len \in Lengths
    BY <1>2, <1>3, HeaderLengthsType
  <2>2. len \in Nat
    BY <2>1, PacketBufferAssumption
  <2> QED
    BY <1>2, <1>3, <2>2 DEF Incomplete
<1>5. sent[i].len = len /\ sent[i].first = taken - count_
  BY <1>2, <1>3, <1>4, PayloadOfPacket
<1>6. /\ RingTypes' /\ Ring' /\ taken' - count_' = taken - count_ + (Header + len)
  <2>1. Header + len \in Nat /\ AtMost(Header + len, count_) = Header + len
    BY <1>3, <1>4 DEF AtMost
  <2> QED
    BY <1>1, <1>2, <1>3, <2>1, ConsumeFromRing
<1>7. /\ After(sent[i]) = taken' - count_' /\ After(sent[i]) \in Nat /\ sent[i].first \in Nat
      /\ sent[i].first < After(sent[i]) /\ taken' - count_' >= taken - count_ /\ taken' - count_' \in Int
  <2>1. /\ After(sent[i]) = sent[i].first + Header + sent[i].len /\ After(sent[i]) \in Nat
        /\ sent[i].first \in Nat /\ sent[i].first < After(sent[i])
    BY <1>3, PacketFacts
  <2> DEFINE a == After(sent[i])  b == sent[i].first  f == taken' - count_'
  <2>2. a = b + Header + len /\ b = taken - count_ /\ f = taken - count_ + (Header + len) /\ a \in Nat /\ b \in Nat
    BY <1>5, <1>6, <2>1
  <2> HIDE DEF a, b, f
  <2>3. a = f /\ f >= taken - count_ /\ f \in Int
    BY <1>3, <1>4, <2>2
  <2> QED
    BY <2>1, <2>3 DEF a, b, f
<1>8. /\ QueueTypes' /\ Len(Received) \in Nat /\ Len(Received') = Len(Received) + 1
      /\ \A j \in 1..Len(Received) : Received'[j] = Received[j]
      /\ Received'[Len(Received) + 1] = i
  <2>1. i \in Texts
    BY <1>3 DEF Texts
  <2> QED
    BY <1>1, <2>1, OneMore DEF ClientInv
<1>9. events' \subseteq {"in", "hup"} /\ discarded' \in BOOLEAN
  BY <1>1 DEF ClientInv, FlagTypes
<1>10. receiver \notin {"off", "done"} /\ receiver' \in {"poll", "look", "lost", "decode", "done"}
  BY <1>1
<1>11. FlagTypes' /\ AnsweredOnce' /\ StartedOnce' /\ EndInv' /\ LoginMeansAccepted' /\ AllShownAtEnd'
  BY <1>1, <1>8, <1>9, <1>10, ReceiverMoves
<1>12. Stream'
  BY <1>1 DEF ClientInv, Stream, StreamEnd
<1>13. ~NotStarted /\ (\A j \in 1..Len(Received) : Received[j] # Lost) /\ i # Lost
  BY <1>1, <1>3 DEF ClientInv, LostIsLast, StartedOnce, Lost
<1>14. \A j \in 1..Len(Received') : j \in 1..Len(Received) \/ j = Len(Received')
  BY <1>8
<1>15. i \in Len(Received') + 1..Len(sent)
  <2>1. CASE Len(Received) = 0
    <3>1. 1 \in 1..Len(sent) /\ After(sent[1]) <= taken - count_
      BY <1>3, <1>13 DEF ClientInv, PlacesInOrder
    <3>2. i # 1
      BY <1>5, <1>7, <3>1
    <3> QED
      BY <1>3, <1>8, <2>1, <3>2
  <2>2. CASE Len(Received) # 0
    <3> DEFINE last == Received[Len(Received)]
    <3>1. last \in Len(Received) + 1..Len(sent) /\ After(sent[last]) <= sent[i].first
      BY <1>5, <1>8, <1>13, <2>2 DEF ClientInv, PlacesInOrder
    <3>2. last \in 1..Len(sent)
      BY <1>8, <3>1
    <3> HIDE DEF last
    <3>3. /\ sent[last].first \in Nat /\ After(sent[last]) \in Nat /\ sent[last].first < After(sent[last])
      BY <1>3, <3>2, PacketFacts
    <3>4. i < last => After(sent[i]) <= sent[last].first
      BY <1>3, <3>2 DEF Stream
    <3>5. last < i
      BY <1>3, <1>7, <3>1, <3>2, <3>3, <3>4
    <3> QED
      BY <1>3, <1>8, <3>1, <3>2, <3>5
  <2> QED
    BY <2>1, <2>2
<1>16. PlacesInOrder'
  <2>1. 1 \in 1..Len(sent) /\ After(sent[1]) \in Nat /\ After(sent[1]) <= taken - count_
    <3>1. 1 \in 1..Len(sent)
      BY <1>3
    <3> QED
      BY <1>3, <1>13, <3>1, PacketFacts DEF ClientInv, PlacesInOrder
  <2>2. After(sent[1]) <= taken' - count_'
    BY <1>3, <1>7, <2>1
  <2>3. ASSUME NEW j \in 1..Len(Received)
        PROVE  Received[j] \in j + 1..Len(sent) /\ After(sent[Received[j]]) <= taken' - count_'
    <3> DEFINE a == After(sent[Received[j]])
    <3>1. Received[j] \in j + 1..Len(sent) /\ a <= taken - count_
      BY <1>13 DEF ClientInv, PlacesInOrder
    <3>2. Received[j] \in 1..Len(sent)
      BY <1>8, <3>1
    <3>3. a \in Nat
      BY <1>3, <3>2, PacketFacts
    <3> HIDE DEF a
    <3>4. a <= taken' - count_'
      BY <1>3, <1>7, <3>1, <3>3
    <3> QED
      BY <3>1, <3>4 DEF a
  <2>4. ASSUME NEW j \in 1..Len(Received')
        PROVE  Received'[j] \in j + 1..Len(sent) /\ After(sent[Received'[j]]) <= taken' - count_'
    <3>1. CASE j \in 1..Len(Received)
      BY <1>8, <2>3, <3>1
    <3>2. CASE j = Len(Received')
      BY <1>7, <1>8, <1>15, <3>2
    <3> QED
      BY <1>14, <3>1, <3>2
  <2> QED
    BY <1>1, <2>2, <2>4 DEF PlacesInOrder
<1>17. LostIsLast'
  BY <1>1, <1>8, <1>13, <1>14 DEF LostIsLast
<1>18. InSequence'
  <2> SUFFICES ASSUME ~discarded
               PROVE  /\ \A j \in 1..Len(Received') : Received'[j] = j + 1
                      /\ taken' - count_' = After(sent[Len(Received') + 1])
    BY <1>1, <1>8 DEF InSequence
  <2>1. /\ Len(Received) + 2 \in 1..Len(sent) /\ sent[Len(Received) + 2].first = taken - count_
        /\ \A j \in 1..Len(Received) : Received[j] = j + 1
    BY <1>1, <1>3, <1>4, FrontPacket
  <2>2. i = Len(Received) + 2
    BY <1>3, <1>5, <2>1, FirstsDiffer
  <2> QED
    BY <1>7, <1>8, <1>14, <2>1, <2>2
<1>19. NothingHeldBack'
  BY <1>1 DEF ClientInv, NothingHeldBack
<1> QED
  BY <1>6, <1>8, <1>11, <1>12, <1>16, <1>17, <1>18, <1>19 DEF ClientInv

(* What is no packet is found only after bytes were thrown away.             *)
LEMMA DecodeOtherKeeps ==
    ASSUME ClientInv, Receive("decode", "decode") \/ Receive("decode", "poll"),
           DecodePacket(0) \/ DecodeTooLong, UNCHANGED <<taken, running_, events, message_queue_>>
    PROVE  ClientInv'
<1>1. /\ main # "over" /\ receiver = "decode" /\ receiver' \in {"poll", "decode"}
      /\ UNCHANGED <<sent, peer, accepted, finished_, ui_mtx_, main, printer, msg, printed, due>>
      /\ UNCHANGED <<taken, buf_, write_pos_, running_, message_queue_, events>>
      /\ count_ >= Header
  BY DEF Receive, DecodePacket, DecodeTooLong, network
<1>2. /\ Header \in Nat \ {0} /\ taken \in Nat /\ count_ \in Nat /\ Stream /\ RingTypes /\ Ring
      /\ TooLong \notin Lengths
  BY PacketBufferAssumption DEF ClientInv, RingTypes
<1>3. discarded
  <2> SUFFICES ASSUME ~discarded PROVE FALSE
    OBVIOUS
  <2>1. PICK m \in 1..Len(sent) : sent[m].first = taken - count_
    BY <1>1, <1>2, FrontPacket
  <2>2. HeaderLengths = {sent[m].len} /\ sent[m].len \in Lengths /\ sent[m].len \in Nat
    BY <1>1, <1>2, <2>1, HeaderOfPacket, PacketFacts
  <2>3. CASE DecodePacket(0)
    <3>1. ~Incomplete(sent[m].len) /\ 0 = PayloadOf(sent[m].len) /\ sent[m].len # TooLong
      BY <1>2, <2>2, <2>3 DEF DecodePacket
    <3>2. count_ >= Header + sent[m].len
      BY <1>2, <2>2, <3>1 DEF Incomplete
    <3>3. PayloadOf(sent[m].len) = m
      BY <1>2, <2>1, <2>2, <3>2, PayloadOfPacket
    <3> QED
      BY <3>1, <3>3
  <2>4. CASE DecodeTooLong
    BY <1>2, <2>2, <2>4 DEF DecodeTooLong
  <2> QED
    BY <2>3, <2>4
<1>4. \E len \in Nat : consume(len)
  <2>1. CASE DecodePacket(0)
    <3>1. PICK len \in HeaderLengths \ {TooLong} : consume(Header + len)
      BY <2>1 DEF DecodePacket
    <3>2. len \in Lengths
      BY <1>2, <3>1, HeaderLengthsType
    <3>3. Header + len \in Nat
      BY <1>2, <3>2, PacketBufferAssumption
    <3> QED
      BY <3>1, <3>3
  <2>2. CASE DecodeTooLong
    BY <1>2, <2>2 DEF DecodeTooLong
  <2> QED
    BY <2>1, <2>2
<1>5. discarded' = TRUE
  <2>1. discarded = TRUE
    BY <1>3 DEF ClientInv, FlagTypes
  <2> QED
    BY <2>1 DEF DecodePacket, DecodeTooLong
<1>6. \E i \in 1..Len(sent) : Header + sent[i].len > Capacity
  BY <1>3 DEF ClientInv, NothingHeldBack
<1> QED
  BY <1>1, <1>4, <1>5, <1>6, ThrowingKeeps

(* There is no whole packet: the receiver waits for more.                    *)
LEMMA DecodeNothingKeeps ==
    ASSUME ClientInv, Receive("decode", "poll"), DecodeNothing,
           UNCHANGED <<taken, running_, events, message_queue_>>
    PROVE  ClientInv'
<1>1. /\ main # "over" /\ receiver = "decode" /\ receiver' = "poll"
      /\ UNCHANGED <<sent, peer, accepted, finished_, ui_mtx_, main, printer, msg, printed, due>>
      /\ UNCHANGED <<taken, buf_, read_pos_, write_pos_, count_, discarded, running_, message_queue_, events>>
      /\ count_ >= Header => \E len \in HeaderLengths : Incomplete(len)
  BY DEF Receive, DecodeNothing, network, ringVars
<1>2. Received' = Received
  BY <1>1, ReceivedSame
<1>3. Len(Received) \in Nat
  BY ReceivedFacts DEF ClientInv, Stream
<1>4. events' \subseteq {"in", "hup"} /\ discarded' \in BOOLEAN
  BY <1>1 DEF ClientInv, FlagTypes
<1>5. receiver \notin {"off", "done"} /\ receiver' \in {"poll", "look", "lost", "decode", "done"}
  BY <1>1
<1>6. FlagTypes' /\ AnsweredOnce' /\ StartedOnce' /\ EndInv' /\ LoginMeansAccepted' /\ AllShownAtEnd'
  BY <1>1, <1>2, <1>3, <1>4, <1>5, ReceiverMoves
<1>7. RingTypes' /\ Ring' /\ Stream' /\ QueueTypes'
  BY <1>1 DEF ClientInv, RingTypes, Ring, Stream, StreamEnd, QueueTypes
<1>8. PlacesInOrder' /\ LostIsLast' /\ InSequence'
  BY <1>1, <1>2 DEF ClientInv, PlacesInOrder, NotStarted, LostIsLast, InSequence
<1>9. NothingHeldBack'
  <2>1. CASE discarded
    BY <1>1, <2>1 DEF ClientInv, NothingHeldBack
  <2>2. CASE ~discarded
    <3> SUFFICES ASSUME NEW i \in 1..Len(sent), sent[i].first = taken - count_, After(sent[i]) <= taken
                 PROVE  FALSE
      BY <1>1, <2>2 DEF NothingHeldBack
    <3>1. /\ Header \in Nat \ {0} /\ taken \in Nat /\ count_ \in Nat /\ Stream /\ RingTypes /\ Ring
          /\ sent[i].len \in Nat /\ After(sent[i]) = sent[i].first + Header + sent[i].len
          /\ sent[i].first \in Nat
      <4>1. Stream /\ RingTypes /\ Ring
        BY DEF ClientInv
      <4>2. Header \in Nat \ {0} /\ taken \in Nat /\ count_ \in Nat
        BY <4>1, PacketBufferAssumption DEF RingTypes
      <4> QED
        BY <4>1, <4>2, PacketFacts
    <3>2. count_ >= Header + sent[i].len /\ count_ >= Header
      BY <3>1
    <3>3. HeaderLengths = {sent[i].len}
      BY <3>1, <3>2, HeaderOfPacket
    <3>4. Incomplete(sent[i].len)
      BY <1>1, <3>2, <3>3
    <3> QED
      BY <3>1, <3>2, <3>4 DEF Incomplete
  <2> QED
    BY <2>1, <2>2
<1> QED
  BY <1>6, <1>7, <1>8, <1>9 DEF ClientInv

(* The receiver, at each of its places.                                      *)
LEMMA ReceiverKeeps ==
    ASSUME ClientInv, Receiver
    PROVE  ClientInv'
<1>1. CASE ReceiverDecodes
  <2>1. UNCHANGED <<taken, running_, events>>
    BY <1>1 DEF ReceiverDecodes
  <2>2. CASE \E i \in 1..Len(sent) : /\ Receive("decode", "decode") /\ DecodePacket(i)
                                    /\ message_queue_' = Append(message_queue_, i)
    BY <2>1, <2>2, DecodePacketKeeps
  <2>3. CASE /\ Receive("decode", "decode") \/ Receive("decode", "poll")
             /\ DecodePacket(0) /\ UNCHANGED message_queue_
    BY <2>1, <2>3, DecodeOtherKeeps
  <2>4. CASE /\ Receive("decode", "poll") /\ UNCHANGED message_queue_
             /\ DecodeNothing \/ DecodeTooLong
    BY <2>1, <2>4, DecodeOtherKeeps, DecodeNothingKeeps
  <2> QED
    BY <1>1, <2>2, <2>3, <2>4 DEF ReceiverDecodes
<1> QED
  BY <1>1, ReceiverPasses, HupKeeps, FullKeeps, ReadKeeps DEF Receiver

(* The printer moves texts on, and ends when none is left.                   *)
LEMMA PrinterKeeps ==
    ASSUME ClientInv, Printer
    PROVE  ClientInv'
<1>1. /\ main # "over" /\ printer \in {"pop", "print"} /\ printer' \in {"pop", "print", "done"}
      /\ UNCHANGED <<sent, peer, accepted, taken, buf_, read_pos_, write_pos_, count_, discarded>>
      /\ UNCHANGED <<running_, finished_, ui_mtx_, main, receiver, events, due>>
  BY DEF Printer, PrinterPop, PrinterPrint, Printing, network, ringVars
<1>2. ~NotStarted /\ ~NotStarted'
  BY <1>1 DEF ClientInv, StartedOnce, NotStarted
<1>3. msg # None <=> printer = "print"
  BY DEF ClientInv, EndInv
<1>4. /\ Received' = Received /\ QueueTypes'
      /\ msg' # None <=> printer' = "print"
      /\ printer' = "done" => finished_ /\ Received = printed'
  <2>1. CASE message_queue_ # <<>> /\ PrinterPop
    <3>1. /\ printer = "pop" /\ printer' = "print" /\ msg' = Head(message_queue_)
          /\ message_queue_' = Tail(message_queue_) /\ printed' = printed
      BY <2>1 DEF PrinterPop, Printing
    <3>2. Received' = Received /\ msg' \in Texts /\ message_queue_' \in Seq(Texts)
      BY <1>3, <2>1, <3>1, ReceivedPopped DEF ClientInv
    <3>3. msg' # None
      BY <3>2, ChatClientAssumption DEF Texts
    <3> QED
      BY <1>1, <3>1, <3>2, <3>3 DEF ClientInv, QueueTypes, Texts
  <2>2. CASE message_queue_ = <<>> /\ PrinterPop
    <3>1. /\ printer = "pop" /\ printer' = "done" /\ finished_
          /\ UNCHANGED <<msg, message_queue_, printed>>
      BY <2>2 DEF PrinterPop, Printing
    <3>2. Received = printed
      <4> DEFINE T == 0..Len(sent)
      <4>1. printed \in Seq(T) /\ Received = printed \o <<>> \o <<>>
        BY <1>3, <2>2, <3>1 DEF Received, ClientInv, QueueTypes
      <4> HIDE DEF T
      <4> QED
        BY <4>1, ConcatEmptySeq
    <3> QED
      BY <1>1, <1>3, <3>1, <3>2, ReceivedSame DEF ClientInv, QueueTypes
  <2>3. CASE PrinterPrint
    <3>1. /\ printer = "print" /\ printer' = "pop" /\ printed' = Append(printed, msg) /\ msg' = None
          /\ message_queue_' = message_queue_
      BY <2>3 DEF PrinterPrint, Printing
    <3>2. Received' = Received /\ printed' \in Seq(Texts)
      BY <1>3, <3>1, ReceivedPrinted DEF ClientInv
    <3> QED
      BY <1>1, <3>1, <3>2 DEF ClientInv, QueueTypes, Texts
  <2> QED
    BY <2>1, <2>2, <2>3 DEF Printer
<1>5. FlagTypes'
  BY <1>1 DEF ClientInv, FlagTypes
<1>6. RingTypes' /\ Ring' /\ Stream'
  BY <1>1 DEF ClientInv, RingTypes, Ring, Stream, StreamEnd
<1>7. AnsweredOnce' /\ StartedOnce' /\ PlacesInOrder' /\ LostIsLast'
  BY <1>1, <1>2, <1>4 DEF ClientInv, AnsweredOnce, StartedOnce, PlacesInOrder, LostIsLast, LossShown
<1>8. EndInv'
  <2>1. printer' = "done" => finished_' /\ due' <= Len(printed')
    BY <1>1, <1>4 DEF ClientInv, EndInv
  <2> QED
    BY <1>1, <1>4, <2>1 DEF ClientInv, EndInv, LossShown
<1>9. InSequence' /\ NothingHeldBack' /\ LoginMeansAccepted' /\ AllShownAtEnd'
  BY <1>1, <1>4 DEF ClientInv, InSequence, NothingHeldBack, LoginMeansAccepted, AllShownAtEnd
<1> QED
  BY <1>4, <1>5, <1>6, <1>7, <1>8, <1>9 DEF ClientInv

(* Nothing changes.                                                          *)
LEMMA StutterKeeps ==
    ASSUME ClientInv, UNCHANGED vars
    PROVE  ClientInv'
<1>1. /\ UNCHANGED <<sent, peer, accepted, taken, buf_, read_pos_, write_pos_, count_, discarded>>
      /\ UNCHANGED <<running_, message_queue_, finished_, ui_mtx_>>
      /\ UNCHANGED <<main, receiver, printer, msg, printed, events, due>>
  BY DEF vars, network, ringVars, shared, threads
<1>2. Received' = Received
  BY <1>1, ReceivedSame
<1>3. RingTypes' /\ Ring' /\ Stream' /\ QueueTypes' /\ FlagTypes'
  BY <1>1 DEF ClientInv, RingTypes, Ring, Stream, StreamEnd, QueueTypes, FlagTypes
<1>4. AnsweredOnce' /\ StartedOnce' /\ PlacesInOrder' /\ LostIsLast' /\ EndInv'
  BY <1>1, <1>2 DEF ClientInv, AnsweredOnce, StartedOnce, NotStarted, PlacesInOrder, LostIsLast, EndInv, LossShown
<1>5. InSequence' /\ NothingHeldBack' /\ LoginMeansAccepted' /\ AllShownAtEnd'
  BY <1>1, <1>2 DEF ClientInv, InSequence, NothingHeldBack, LoginMeansAccepted, AllShownAtEnd
<1> QED
  BY <1>3, <1>4, <1>5 DEF ClientInv

(* Every step of the client and its server keeps the invariant.              *)
LEMMA ClientInvNext == ClientInv /\ [Next]_vars => ClientInv'
<1> SUFFICES ASSUME ClientInv, [Next]_vars PROVE ClientInv'
  OBVIOUS
<1>1. CASE Input
  BY <1>1, NoAnswerKeeps, LoginAnswerKeeps, InputStepKeeps DEF Input, InputStep
<1> QED
  BY <1>1, ServerSendsKeeps, ServerLeavesKeeps, ReceiverKeeps, PrinterKeeps, StutterKeeps DEF Next

-----------------------------------------------------------------------------
(* The variables of the client and its ring have their types, always.        *)
THEOREM ClientTypeCorrect == Spec => []TypeOK
<1>1. ClientInv => TypeOK
  BY ClientInvImplies
<1> QED
  BY <1>1, ClientInvInit, ClientInvNext, PTL DEF Spec

(* Whatever the sizes of the reads and of the packets, the ring holds the    *)
(* last bytes that were taken, in order.                                     *)
THEOREM RingHoldsStreamHolds == Spec => []RingHoldsStream
<1>1. ClientInv => RingHoldsStream
  BY ClientInvImplies
<1> QED
  BY <1>1, ClientInvInit, ClientInvNext, PTL DEF Spec

(* The user is shown what the server sent after the answer to the login,     *)
(* packet by packet, as long as nothing is thrown away.                      *)
THEOREM ShownAsSentHolds == Spec => []ShownAsSent
<1>1. ClientInv => ShownAsSent
  BY ClientInvImplies
<1> QED
  BY <1>1, ClientInvInit, ClientInvNext, PTL DEF Spec

(* The receiver never waits with a whole packet in hand, and throws bytes    *)
(* away only for a packet that is longer than the ring.                      *)
THEOREM NothingHeldBackHolds == Spec => []NothingHeldBack
<1>1. ClientInv => NothingHeldBack
  BY ClientInvImplies
<1> QED
  BY <1>1, ClientInvInit, ClientInvNext, PTL DEF Spec

(* The client runs only if the server let it in.                             *)
THEOREM LoginMeansAcceptedHolds == Spec => []LoginMeansAccepted
<1>1. ClientInv => LoginMeansAccepted
  BY ClientInvImplies
<1> QED
  BY <1>1, ClientInvInit, ClientInvNext, PTL DEF Spec

(* When the client ends, the receiver has ended, and what had come before    *)
(* the printer was told to end is printed, unless the connection was lost.   *)
THEOREM AllShownAtEndHolds == Spec => []AllShownAtEnd
<1>1. ClientInv => AllShownAtEnd
  BY ClientInvImplies
<1> QED
  BY <1>1, ClientInvInit, ClientInvNext, PTL DEF Spec
=============================================================================
