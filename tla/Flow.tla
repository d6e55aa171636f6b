-------------------------------- MODULE Flow --------------------------------
(***************************************************************************)
(* Messages on their way through several event loops: Publishers write     *)
(* them to their connections one after the other with blocking calls       *)
(* (include/rosasio/publisher.hpp), and the callbacks that get them        *)
(* (subscriber.hpp) may publish in turn.                                   *)
(*                                                                         *)
(* It composes what Publisher, where writes never wait, and Receiver,      *)
(* where callbacks do nothing, show of each end.  The connections are in   *)
(* the pools already.  The kernel holds Room messages for each, and        *)
(* messages are their numbers 1, 2, ....                                   *)
(***************************************************************************)
EXTENDS Naturals, Sequences

CONSTANTS
    Loop,       \* the event loops, which are numbers
    Topic,      \* topics, with a Publisher each
    Link,       \* connections, which are numbers in the order of the pools
    At,         \* At[t]: the loop of the Publisher of t
    From,       \* From[k]: the topic of k, and
    To,         \*   To[k]: the loop of its subscriber, whose callback
    Relay,      \*   publishes to topic Relay[k], or NoTopic
    NoTopic,
    Room,       \* how many messages of a connection the kernel holds
    MaxMsgs     \* bound: how many messages of a topic the user publishes

ASSUME FlowAssumption ==
    /\ Loop \subseteq Nat
    /\ Link \subseteq Nat
    /\ At \in [Topic -> Loop]
    /\ From \in [Link -> Topic]
    /\ To \in [Link -> Loop]
    /\ Relay \in [Link -> Topic \cup {NoTopic}]
    /\ NoTopic \notin Topic
    /\ \A k \in Link : Relay[k] # NoTopic => At[Relay[k]] = To[k]
    /\ Room \in Nat \ {0}
    /\ MaxMsgs \in Nat

VARIABLES
    loop,       \* loop[l]: "running", "stopped" or "killed"
    count,      \* count[t]: how many messages of t have been published
    todo,       \* todo[l]: connections the publish l is in has yet to write to
    buffer,     \* buffer[k]: messages the kernel holds
    delivered   \* delivered[k]: messages the callback was called with

vars == <<loop, count, todo, buffer, delivered>>

Init ==
    /\ loop = [l \in Loop |-> "running"]
    /\ count = [t \in Topic |-> 0]
    /\ todo = [l \in Loop |-> {}]
    /\ buffer = [k \in Link |-> <<>>]
    /\ delivered = [k \in Link |-> <<>>]

-----------------------------------------------------------------------------
(* SubscriberPool::publish.                                                *)

PoolShared(t) == Link

\* The connections of the subscribers of t.
Pool(t) == {k \in Link : From[k] = t}

\* The thread of the Publisher enters the loop over the pool.
Enter(t) ==
    /\ count' = [count EXCEPT ![t] = @ + 1]
    /\ todo' = [todo EXCEPT ![At[t]] = Pool(t)]

\* From a handler of the loop, such as a timer's, or after it has stopped.
Publish(t) ==
    /\ loop[At[t]] # "killed"
    /\ todo[At[t]] = {}
    /\ count[t] < MaxMsgs
    /\ Enter(t)
    /\ UNCHANGED <<loop, buffer, delivered>>

\* std::set keeps the connections in the order of their addresses.
First(S) == CHOOSE k \in S : \A j \in S : k <= j

Dead(k) == loop[To[k]] = "killed"
Full(k) == Len(buffer[k]) >= Room

Send(k) == buffer' = [buffer EXCEPT ![k] = Append(@, count[From[k]])]

WriteOver(k)   == Send(k)
WriteOrDrop(k) == IF Full(k) THEN UNCHANGED buffer ELSE Send(k)
WriteStuck(k)  == ~Full(k) /\ ~Dead(k) /\ Send(k)

\* boost::asio::write waits for room; the error of a connection that has ended
\* is swallowed.
Write(k) ==
    \/ Dead(k) /\ UNCHANGED buffer
    \/ ~Dead(k) /\ ~Full(k) /\ Send(k)

PublishNext(l) ==
    /\ todo[l] # {}
    /\ Write(First(todo[l]))
    /\ todo' = [todo EXCEPT ![l] = @ \ {First(@)}]
    /\ UNCHANGED <<loop, count, delivered>>

-----------------------------------------------------------------------------
(* PublisherConnection::on_message_received.                               *)

\* A loop that runs and is in no publish takes a message and runs the callback.
OnMessage(k) ==
    /\ loop[To[k]] = "running"
    /\ todo[To[k]] = {}
    /\ buffer[k] # <<>>
    /\ buffer' = [buffer EXCEPT ![k] = Tail(@)]
    /\ delivered' = [delivered EXCEPT ![k] = Append(@, Head(buffer[k]))]
    /\ \/ Relay[k] = NoTopic /\ UNCHANGED <<count, todo>>
       \/ Relay[k] # NoTopic /\ Enter(Relay[k])
    /\ UNCHANGED loop

-----------------------------------------------------------------------------
(* Loops end.                                                              *)

\* io_context::stop: the process, and its sockets, are still there.
Stop(l) ==
    /\ loop[l] = "running"
    /\ todo[l] = {}
    /\ loop' = [loop EXCEPT ![l] = "stopped"]
    /\ UNCHANGED <<count, todo, buffer, delivered>>

Kill(l) ==
    /\ loop[l] # "killed"
    /\ loop' = [loop EXCEPT ![l] = "killed"]
    /\ todo' = [todo EXCEPT ![l] = {}]
    /\ buffer' = [k \in Link |-> IF To[k] = l THEN <<>> ELSE buffer[k]]
    /\ UNCHANGED <<count, delivered>>

Next ==
    \/ \E t \in Topic : Publish(t)
    \/ \E k \in Link : OnMessage(k)
    \/ \E l \in Loop : PublishNext(l) \/ Stop(l) \/ Kill(l)

Spec == Init /\ [][Next]_vars

\* Writes go on when they can, and a loop that runs serves all its connections.
Fairness ==
    /\ \A l \in Loop : WF_vars(PublishNext(l))
    /\ \A k \in Link : SF_vars(OnMessage(k))

FairSpec == Spec /\ Fairness

-----------------------------------------------------------------------------
(* Properties.                                                             *)

\* Every variable keeps its type, a loop writes to connections of a topic of
\* its own, and the kernel holds no more than it has room for.
TypeOK ==
    /\ loop \in [Loop -> {"running", "stopped", "killed"}]
    /\ count \in [Topic -> Nat]
    /\ todo \in [Loop -> SUBSET Link]
    /\ \A l \in Loop : \A k \in todo[l] : At[From[k]] = l
    /\ buffer \in [Link -> Seq(Nat)]
    /\ \A k \in Link : Len(buffer[k]) <= Room
    /\ delivered \in [Link -> Seq(Nat)]

\* What has been written to k.
Sent(k) == delivered[k] \o buffer[k]

Numbered(s) == \A i \in 1 .. Len(s) : s[i] = i

\* However long writes wait and whoever goes away, callbacks get a topic in
\* order and without a gap; and while both ends are there, all that has been
\* published was delivered, is on its way or is about to be written.
NothingLost ==
    \A k \in Link :
        /\ Numbered(Sent(k))
        /\ ~Dead(k) /\ loop[At[From[k]]] # "killed" =>
              Len(Sent(k)) = IF k \in todo[At[From[k]]] THEN count[From[k]] - 1
                                                        ELSE count[From[k]]

\* Messages on their way on k, the one about to be written among them.
Queue ==
    [k \in Link |->
        IF Dead(k) THEN <<>>
        ELSE IF k \in todo[At[From[k]]] THEN Append(buffer[k], count[From[k]])
        ELSE buffer[k]]

Killed == {l \in Loop : loop[l] = "killed"}

B == INSTANCE Broadcast WITH killed <- Killed, queue <- Queue

\* Writing to one connection after the other, and waiting for each to have
\* room, is as good as handing a message to all subscribers at once: nobody
\* can tell the difference, except by the last message of a killed publisher.
BroadcastSpec == B!Spec

\* The loop that l waits for in its write: it has to read.
WaitsFor(l) ==
    {To[k] : k \in {j \in todo[l] : j = First(todo[l]) /\ ~Dead(j) /\ Full(j)}}

\* A loop in a publish can write, or one that runs has a message to take.
CanGoOn(l) ==
    \/ \E k \in todo[l] : k = First(todo[l]) /\ (Dead(k) \/ ~Full(k))
    \/ \E k \in Link : To[k] = l /\ loop[l] = "running" /\ todo[l] = {} /\ buffer[k] # <<>>

\* Loops that are in a publish are never stuck among themselves: with those
\* they wait for, and those these wait for, there is one that can go on or that
\* has stopped, as long as topics lead from higher loops to lower ones.  It
\* fails where a callback publishes back, or to its own loop, and the buffers
\* are full (README.md:20 wants to "allow multiple nodes in the same process
\* using the same event loop").
Unblocked ==
    \A S \in SUBSET Loop :
        (\E l \in S : todo[l] # {}) /\ (\A l \in S : WaitsFor(l) \subseteq S)
            => \E l \in S : CanGoOn(l) \/ (loop[l] = "stopped" /\ todo[l] = {})

\* A publish comes to its end and its messages to the callbacks, although
\* callbacks publish in turn and subscribers are killed, unless a loop further
\* down has stopped: then its full buffer stops the loops above, and with them
\* the other subscribers of theirs.
Flows ==
    \A k \in Link :
        (k \in todo[At[From[k]]] \/ buffer[k] # <<>>)
            ~> (\/ k \notin todo[At[From[k]]] /\ buffer[k] = <<>>
                \/ \E l \in Loop : l < At[From[k]] /\ loop[l] = "stopped")
=============================================================================
