------------------------------- MODULE Topic -------------------------------
(***************************************************************************)
(* What a topic promises to each of its subscribers, whatever sockets,     *)
(* handlers and handshakes carry it.  Messages are numbered 1, 2, ... in   *)
(* the order in which they are published.  While a subscriber is "in" it   *)
(* receives every message once and in order; joining a latched topic       *)
(* replays the last message published before.  The Publisher module        *)
(* implements this specification.                                          *)
(***************************************************************************)
EXTENDS Naturals, Sequences

CONSTANTS
    Conn,       \* the subscribers' connections
    Latched     \* whether the topic replays its last message on joining

VARIABLES
    count,      \* how many messages have been published
    status,     \* status[c]: "out" (not joined yet), "in" or "left"
    stream      \* stream[c]: the messages handed to c, in order

topicVars == <<count, status, stream>>

Init ==
    /\ count = 0
    /\ status = [c \in Conn |-> "out"]
    /\ stream = [c \in Conn |-> <<>>]

\* The last message is replayed to whoever joins a latched topic.
Replay == IF Latched /\ count > 0 THEN <<count>> ELSE <<>>

Join(c) ==
    /\ status[c] = "out"
    /\ status' = [status EXCEPT ![c] = "in"]
    /\ stream' = [stream EXCEPT ![c] = Replay]
    /\ UNCHANGED count

\* Subscribers hang up, or the topic goes away: those of S receive no more.
Leave(S) ==
    /\ status' = [c \in Conn |-> IF c \in S THEN "left" ELSE status[c]]
    /\ UNCHANGED <<count, stream>>

Publish ==
    /\ count' = count + 1
    /\ stream' = [c \in Conn |->
                    IF status[c] = "in" THEN Append(stream[c], count + 1)
                                        ELSE stream[c]]
    /\ UNCHANGED status

Next ==
    \/ \E c \in Conn : Join(c)
    \/ \E S \in SUBSET Conn : Leave(S)
    \/ Publish

Spec == Init /\ [][Next]_topicVars
=============================================================================
