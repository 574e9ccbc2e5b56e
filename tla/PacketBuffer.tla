---------------------------- MODULE PacketBuffer ----------------------------
(* RingBuffer and PacketCodec: the bytes of a stream of packets, each behind *)
(* a header with its length, are read in pieces of any size and taken out    *)
(* packet by packet.  A byte is its place in the stream.                     *)
EXTENDS Naturals, Sequences

CONSTANTS
    Capacity,       \* of the ring: 8192
    Header,         \* bytes of a length: 4
    Lengths,        \* of payloads
    TooLong         \* a length above the limit of decode, 10 MB

ASSUME PacketBufferAssumption ==
    /\ Header \in Nat \ {0} /\ Capacity \in Nat /\ Capacity > Header
    /\ Lengths \subseteq Nat /\ TooLong \in Nat \ Lengths
    /\ TooLong > Capacity /\ \A n \in Lengths : n < TooLong

VARIABLES
    sent,           \* the packets of the stream: [first, len, kind]
    taken,          \* number of bytes taken from the socket
    buf_, read_pos_, write_pos_, count_,
    discarded       \* history: bytes were thrown away

ringVars == <<buf_, read_pos_, write_pos_, count_>>

BufferInit ==
    /\ sent = <<>> /\ taken = 0
    /\ buf_ = [i \in 0..Capacity - 1 |-> 0]
    /\ read_pos_ = 0 /\ write_pos_ = 0 /\ count_ = 0
    /\ discarded = FALSE

After(m) == m.first + Header + m.len
StreamEnd == IF sent = <<>> THEN 0 ELSE After(sent[Len(sent)])

(* The peer's encode puts the header and the payload behind what was sent.   *)
encode(len, kind) == sent' = Append(sent, [first |-> StreamEnd, len |-> len, kind |-> kind])

-----------------------------------------------------------------------------
(* RingBuffer                                                                *)

AtMost(m, n) == IF m < n THEN m ELSE n

get_writeable_iovecs ==
    LET free == Capacity - count_
        len1 == AtMost(free, Capacity - write_pos_)
    IN  IF free = 0 THEN <<>>
        ELSE <<[base |-> write_pos_, len |-> len1]>>
             \o (IF len1 < free THEN <<[base |-> 0, len |-> free - len1]>> ELSE <<>>)

Room(iovecs) == IF iovecs = <<>> THEN 0 ELSE iovecs[1].len + (IF Len(iovecs) = 2 THEN iovecs[2].len ELSE 0)

(* readv fills the pieces in order with the next n bytes of the stream.      *)
readv(iovecs, n) ==
    LET slot(k) == IF k < iovecs[1].len THEN iovecs[1].base + k ELSE iovecs[2].base + k - iovecs[1].len
    IN  /\ buf_' = [i \in 0..Capacity - 1 |->
                       IF \E k \in 0..n - 1 : slot(k) = i
                       THEN taken + CHOOSE k \in 0..n - 1 : slot(k) = i
                       ELSE buf_[i]]
        /\ taken' = taken + n

(* Slip: the end of the ring is not looked at.                               *)
commit_unwrapped(len) ==
    /\ write_pos_' = AtMost(write_pos_ + len, Capacity - 1)
    /\ count_' = count_ + len

commit_write(len) ==
    /\ write_pos_' = (write_pos_ + len) % Capacity
    /\ count_' = count_ + len

(* The bytes that peek copies, in two chunks.                                *)
peek(len) ==
    LET first_chunk == Capacity - read_pos_
    IN  [k \in 0..AtMost(len, count_) - 1 |->
            IF k < first_chunk THEN buf_[read_pos_ + k] ELSE buf_[k - first_chunk]]

consume(len) ==
    LET to_remove == AtMost(len, count_)
    IN  /\ read_pos_' = (read_pos_ + to_remove) % Capacity
        /\ count_' = count_ - to_remove

-----------------------------------------------------------------------------
(* PacketCodec                                                               *)

(* The lengths that the first four bytes can stand for: their own, if they   *)
(* are the header of a packet.                                               *)
HeaderLengths ==
    LET bytes == peek(Header)
        whose == {i \in 1..Len(sent) : \A k \in 0..Header - 1 : bytes[k] = sent[i].first + k}
    IN  IF whose = {} THEN Lengths \cup {TooLong} ELSE {sent[i].len : i \in whose}

(* The packet whose payload is behind the header, 0 if it is none.           *)
PayloadOf(len) ==
    LET bytes == peek(Header + len)
        whose == {i \in 1..Len(sent) : sent[i].len = len /\ \A k \in 0..Header + len - 1 : bytes[k] = sent[i].first + k}
    IN  IF whose = {} THEN 0 ELSE CHOOSE i \in whose : TRUE

(* Slip: one byte more is waited for.                                        *)
IncompleteMore(len) == len # TooLong /\ count_ <= Header + len

Incomplete(len) == len # TooLong /\ count_ < Header + len

(* decode has nothing to return and leaves the buffer alone.                 *)
DecodeNothing ==
    /\ count_ >= Header => \E len \in HeaderLengths : Incomplete(len)
    /\ UNCHANGED <<ringVars, discarded>>

(* The length is above the limit: everything is thrown away.                 *)
DecodeTooLong ==
    /\ count_ >= Header /\ TooLong \in HeaderLengths
    /\ consume(count_)
    /\ discarded' = TRUE
    /\ UNCHANGED <<buf_, write_pos_>>

(* Slip: the header stays in the buffer.                                     *)
DecodeNoHeader(packet) ==
    /\ count_ >= Header
    /\ \E len \in HeaderLengths \ {TooLong} :
          /\ ~Incomplete(len)
          /\ packet = PayloadOf(len)
          /\ consume(len)
    /\ UNCHANGED <<buf_, write_pos_, discarded>>

DecodePacket(packet) ==
    /\ count_ >= Header
    /\ \E len \in HeaderLengths \ {TooLong} :
          /\ ~Incomplete(len)
          /\ packet = PayloadOf(len)
          /\ consume(Header + len)
    /\ UNCHANGED <<buf_, write_pos_, discarded>>

-----------------------------------------------------------------------------
(* Properties                                                                *)

BufferTypeOK ==
    /\ taken \in Nat
    /\ buf_ \in [0..Capacity - 1 -> Nat]
    /\ read_pos_ \in 0..Capacity - 1 /\ write_pos_ \in 0..Capacity - 1
    /\ count_ \in 0..Capacity
    /\ discarded \in BOOLEAN

(* Whatever the reads were, the ring holds the last bytes of the stream that *)
(* were taken, one after the other from read_pos_ to write_pos_.             *)
RingHoldsStream ==
    /\ \A k \in 0..count_ - 1 : buf_[(read_pos_ + k) % Capacity] = taken - count_ + k
    /\ write_pos_ = (read_pos_ + count_) % Capacity
=============================================================================
