------------------------------ MODULE Broadcast ------------------------------
(***************************************************************************)
(* What a graph of topics promises, as if nothing ever waited: whatever is *)
(* published is at once on its way to all the subscribers of the topic,    *)
(* which get it in order; and when they publish in turn, that is part of   *)
(* getting it.  Messages of a topic are numbered 1, 2, ....                *)
(*                                                                         *)
(* Flow implements this specification with writes that wait for room, one  *)
(* after the other, and Receiver with the bytes of one connection.         *)
(***************************************************************************)
EXTENDS Naturals, Sequences

CONSTANTS
    Loop,       \* the event loops
    Topic,      \* topics, with a publisher each
    Link,       \* connections
    At,         \* At[t]: the loop of the publisher of t
    From,       \* From[k]: the topic of k, and
    To,         \*   To[k]: the loop of its subscriber, whose callback
    Relay,      \*   publishes to topic Relay[k], or NoTopic
    NoTopic

VARIABLES
    killed,     \* the loops that have ended
    count,      \* count[t]: how many messages of t have been published
    queue,      \* queue[k]: messages on their way
    delivered   \* delivered[k]: messages the callback was called with

broadcastVars == <<killed, count, queue, delivered>>

Init ==
    /\ killed = {}
    /\ count = [t \in Topic |-> 0]
    /\ queue = [k \in Link |-> <<>>]
    /\ delivered = [k \in Link |-> <<>>]

\* The next message of t joins all the queues of the topic, with those before
\* it in q; nothing is on its way to a loop that has ended.
Enqueue(t, q) ==
    /\ count' = [count EXCEPT ![t] = @ + 1]
    /\ queue' = [k \in Link |->
                   IF From[k] = t /\ To[k] \notin killed
                     THEN Append(q[k], count[t] + 1)
                     ELSE q[k]]

Publish(t) ==
    /\ At[t] \notin killed
    /\ Enqueue(t, queue)
    /\ UNCHANGED <<killed, delivered>>

Deliver(k) ==
    LET rest == [queue EXCEPT ![k] = Tail(@)] IN
    /\ To[k] \notin killed
    /\ queue[k] # <<>>
    /\ delivered' = [delivered EXCEPT ![k] = Append(@, Head(queue[k]))]
    /\ \/ Relay[k] = NoTopic /\ queue' = rest /\ UNCHANGED count
       \/ Relay[k] # NoTopic /\ Enqueue(Relay[k], rest)
    /\ UNCHANGED killed

\* What is on its way to l is lost, and of what l has sent no more than its
\* last message, of one topic, for some of the subscribers.
Kill(l) ==
    /\ l \notin killed
    /\ killed' = killed \cup {l}
    /\ \E cut \in SUBSET {k \in Link : At[From[k]] = l /\ queue[k] # <<>>} :
          /\ \A j, k \in cut : From[j] = From[k]
          /\ queue' = [k \in Link |->
                         IF To[k] = l THEN <<>>
                         ELSE IF k \in cut
                           THEN SubSeq(queue[k], 1, Len(queue[k]) - 1)
                           ELSE queue[k]]
    /\ UNCHANGED <<count, delivered>>

Next ==
    \/ \E t \in Topic : Publish(t)
    \/ \E k \in Link : Deliver(k)
    \/ \E l \in Loop : Kill(l)

Spec == Init /\ [][Next]_broadcastVars
=============================================================================
