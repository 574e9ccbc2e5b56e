------------------------------ MODULE Broadcast ------------------------------
(* What the servers of v2, v3 and v4 promise of a broadcast, whatever queues,  *)
(* tasks and workers it goes through: it is on its way to everybody it is due *)
(* to until it is given to him, or refused because his queue is full, and     *)
(* nobody is given anything twice.  Who is not among those it is due to, as   *)
(* he came later, may be given it too, or not.                                *)
EXTENDS Naturals, Sequences

CONSTANT Client

VARIABLES
    posts,      \* the broadcasts: whom each is due to, and who is never given it
    onway,      \* pairs <<c, e>>: broadcast e is on its way to c
    heard,      \* per client: the broadcasts it was given
    refused,    \* pairs <<c, e>>: the queue of c was full
    gone        \* the clients that were closed

broadcastVars == <<posts, onway, heard, refused, gone>>

GivenTo(c, e) == \E i \in 1..Len(heard[c]) : heard[c][i] = e
Fate(c, e) == GivenTo(c, e) \/ <<c, e>> \in refused

BroadcastInit ==
    /\ posts = <<>> /\ onway = {}
    /\ heard = [c \in Client |-> <<>>] /\ refused = {}
    /\ gone = {}

Speak ==
    LET e == Len(posts) + 1
    IN  /\ Len(posts') = e /\ \A i \in 1..Len(posts) : posts'[i] = posts[i]
        /\ posts'[e].due \subseteq Client \ (gone \cup posts'[e].barred)
        /\ onway' = onway \cup (posts'[e].due \X {e})
        /\ UNCHANGED <<heard, refused, gone>>

(* Clients are given broadcasts that they have not been given before, or     *)
(* their full queues refuse them.                                            *)
Give ==
    /\ \A c \in Client :
          /\ Len(heard[c]) <= Len(heard'[c]) /\ \A i \in 1..Len(heard[c]) : heard'[c][i] = heard[c][i]
          /\ \A i \in Len(heard[c]) + 1..Len(heard'[c]) :
                /\ c \notin gone
                /\ heard'[c][i] \in 1..Len(posts) /\ c \notin posts[heard'[c][i]].barred
                /\ \A j \in 1..i - 1 : heard'[c][j] # heard'[c][i]
                /\ <<c, heard'[c][i]>> \notin refused'
    /\ refused \subseteq refused'
    /\ \A p \in refused' \ refused : /\ p \in (Client \ gone) \X (1..Len(posts))
                                     /\ ~GivenTo(p[1], p[2])
    /\ onway' = {p \in onway : ~Fate(p[1], p[2])'}
    /\ UNCHANGED <<posts, gone>>

Leave(c) ==
    /\ gone' = gone \cup {c}
    /\ onway' = {p \in onway : p[1] # c}
    /\ UNCHANGED <<posts, heard, refused>>

BroadcastNext == Speak \/ Give \/ \E c \in Client : Leave(c)

BroadcastSpec == BroadcastInit /\ [][BroadcastNext]_broadcastVars

-----------------------------------------------------------------------------
(* Properties                                                                *)

(* Nobody is forgotten: what is due to a client that has not left is on its  *)
(* way to it until it was given to it or refused.                            *)
NobodyForgotten ==
    \A e \in 1..Len(posts) : \A c \in posts[e].due \ gone : Fate(c, e) \/ <<c, e>> \in onway

(* Nobody is given a broadcast twice, one that was refused, or one that is   *)
(* never given to him.                                                       *)
HeardOnce ==
    \A c \in Client : \A i \in 1..Len(heard[c]) :
        /\ \A j \in 1..i - 1 : heard[c][j] # heard[c][i]
        /\ <<c, heard[c][i]>> \notin refused
        /\ heard[c][i] \in 1..Len(posts) /\ c \notin posts[heard[c][i]].barred
=============================================================================
