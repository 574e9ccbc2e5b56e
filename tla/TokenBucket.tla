---------------------------- MODULE TokenBucket ----------------------------
(* The rate limit of one session (v4/chatapp.h, HandleMessage): when the     *)
(* bucket is refilled, what it lets through, and when it closes a client.    *)
(* The time is that of the monotonic clock, in the time that the refill of   *)
(* one unit takes.                                                           *)
EXTENDS RateLimit

CONSTANT MaxTime    \* bound: the clock stops there

ASSUME TokenBucketAssumption == MaxTime \in Nat

VARIABLES
    now,            \* steady_clock::now()
    tokens,         \* ChatSession::tokens
    last_refill,    \* ChatSession::last_refill
    banned,         \* the session was over its limit and its connection closed
    since,          \* history: when an observer began to count, at any time it liked
    spent           \* history: the units that messages cost since then

bucketVars == <<now, tokens, last_refill, banned, since, spent>>

(* HandleConnect, and the observer counts from the start.                    *)
BucketInit ==
    /\ now = 0
    /\ tokens = CapUnits
    /\ last_refill = now
    /\ banned = FALSE
    /\ since = now
    /\ spent = 0

Tick ==
    /\ now < MaxTime
    /\ now' = now + 1
    /\ UNCHANGED <<tokens, last_refill, banned, since, spent>>

(* A message that protobuf accepts.  One it refuses returns before this.     *)
Message ==
    LET refilled == Refill(tokens, now - last_refill)
    IN  /\ ~banned
        /\ last_refill' = now
        /\ \/ /\ TooFast(refilled)
              /\ tokens' = refilled
              /\ banned' = TRUE
              /\ UNCHANGED spent
           \/ /\ ~TooFast(refilled)
              /\ tokens' = Spend(refilled)
              /\ spent' = spent + CostUnits
              /\ UNCHANGED banned
        /\ UNCHANGED <<now, since>>

(* The observer starts again.                                                *)
Observe ==
    /\ since' = now
    /\ spent' = 0
    /\ UNCHANGED <<now, tokens, last_refill, banned>>

BucketNext == Tick \/ Message \/ Observe

BucketSpec == BucketInit /\ [][BucketNext]_bucketVars

-----------------------------------------------------------------------------
(* Properties                                                                *)

BucketTypeOK ==
    /\ now \in 0..MaxTime
    /\ tokens \in Tokens
    /\ last_refill \in 0..now
    /\ banned \in BOOLEAN
    /\ since \in 0..now
    /\ spent \in Nat

(* In any window of time, however it is placed, messages spend no more than  *)
(* a full bucket and what the window refills: 60 messages and one per second.*)
WindowBound == spent <= CapUnits + (now - since)

(* A message that is handled when the time of one token has gone by since    *)
(* the one before it was handled never gets its client closed, whatever it   *)
(* did before.  The time is that of HandleMessage: a client that spaced its  *)
(* messages may still be closed if they were queued and are handled at once. *)
PatientServed == [][Message /\ now - last_refill >= CostUnits => ~banned']_bucketVars
=============================================================================
