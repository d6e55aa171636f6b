----------------------------- MODULE Discovery -----------------------------
(***************************************************************************)
(* How the Subscribers and the Publishers of several rosasio::Nodes find   *)
(* each other (include/rosasio/node.hpp, subscriber.hpp): registration     *)
(* with the master, the publisherUpdate and requestTopic handlers, and the *)
(* connections Subscribers make.                                           *)
(*                                                                         *)
(* Every node runs on an event loop; nodes may share one.  A Subscriber    *)
(* connects with blocking calls, during which its loop serves nobody else. *)
(* The master is outside the repository: it answers registrations at once  *)
(* and calls publisherUpdate on a node one update at a time, in order.     *)
(***************************************************************************)
EXTENDS Naturals, Sequences, FiniteSets

CONSTANTS
    Node,
    Loop,       \* event loops: one process, or thread, for each
    Pub,        \* Publisher objects the programs may create,
    Sub,        \*   and Subscriber objects
    Home,       \* Home[x]: the node of x
    Topic,      \* Topic[x]: the topic of x
    LoopOf,     \* LoopOf[n]: the loop node n runs on
    Mortal,     \* loops whose process may be killed
    MaxObjects  \* bound: how many Publishers and Subscribers are created

ASSUME DiscoveryAssumption ==
    /\ Home \in [Pub \cup Sub -> Node]
    /\ LoopOf \in [Node -> Loop]
    /\ Pub \cap Sub = {}
    /\ Mortal \subseteq Loop
    /\ MaxObjects \in Nat

VARIABLES
    state,          \* state[x]: an object is "new", "live" or "dead"
    down,           \* loops whose process has ended
    m_topics,       \* Node::m_topics of all nodes: the publishers whose ports they hold
    m_subscribers,  \* Node::m_subscribers: the subscribers whose callbacks they hold
    conns,          \* conns[s]: m_publisher_connections of s, URI to publisher
    feeds,          \* feeds[s][p]: open connections from p that call s's callback
    call,           \* call[l]: what the thread of l is doing
    masterPubs,     \* the master's publishers: pairs of topic and node,
    masterSubs,     \*   its subscribers
    inbox           \* inbox[n]: publisherUpdate calls the master has to make to n

vars == <<state, down, m_topics, m_subscribers, conns, feeds, call,
          masterPubs, masterSubs, inbox>>

\* A busy loop is connecting subscriber sub: to the publisher pub of node at,
\* which is NoOne until it is known, and then to the nodes in todo.
NoOne == "none"

Stages == {"next", "request", "connect", "header"}

Idle == [stage |-> "idle"]

Busy(s, stage, b, p, todo) ==
    [stage |-> stage, sub |-> s, at |-> b, pub |-> p, todo |-> todo]

Where(x) == LoopOf[Home[x]]
On(l)    == {x \in Pub \cup Sub : Where(x) = l}

SameKey(x, y) == Home[x] = Home[y] /\ Topic[x] = Topic[y]

Free(l) == l \notin down /\ call[l] = Idle

Init ==
    /\ state = [x \in Pub \cup Sub |-> "new"]
    /\ down = {}
    /\ m_topics = {}
    /\ m_subscribers = {}
    /\ conns = [s \in Sub |-> {}]
    /\ feeds = [s \in Sub |-> [p \in Pub |-> 0]]
    /\ call = [l \in Loop |-> Idle]
    /\ masterPubs = {}
    /\ masterSubs = {}
    /\ inbox = [n \in Node |-> <<>>]

-----------------------------------------------------------------------------
(* The master.                                                             *)

\* The nodes whose URIs the master lists for topic t.
Listed(t, pubs) == {n \in Node : <<t, n>> \in pubs}

\* It tells the subscribed nodes that still answer about the publishers of t.
Notified(t, pubs) ==
    [n \in Node |->
        IF <<t, n>> \in masterSubs /\ LoopOf[n] \notin down
          THEN Append(inbox[n], [topic |-> t, nodes |-> Listed(t, pubs)])
          ELSE inbox[n]]

-----------------------------------------------------------------------------
(* The user creates and destroys Publishers and Subscribers.               *)

InsertedAnyway(map, x) == map \cup {x}

\* std::map::insert keeps what is there under the same key.
Inserted(map, x) == IF \E y \in map : SameKey(x, y) THEN map ELSE map \cup {x}

ErasedOnlyIt(map, x) == map \ {x}

NotErased(map, x) == IF x \in Sub THEN map ELSE {y \in map : ~SameKey(x, y)}

\* std::map::erase by key, whoever inserted the entry.
Erased(map, x) == {y \in map : ~SameKey(x, y)}

MayCreate(x) ==
    /\ Free(Where(x))
    /\ state[x] = "new"
    /\ Cardinality({y \in Pub \cup Sub : state[y] # "new"}) < MaxObjects

\* The call of registerPublisher, and what it makes the master do.
RegisterPublisher(x) ==
    LET pubs == masterPubs \cup {<<Topic[x], Home[x]>>} IN
    /\ masterPubs' = pubs
    /\ inbox' = Notified(Topic[x], pubs)
    /\ UNCHANGED masterSubs

\* That of registerSubscriber.
RegisterSubscriber(x) ==
    /\ masterSubs' = masterSubs \cup {<<Topic[x], Home[x]>>}
    /\ UNCHANGED <<masterPubs, inbox>>

CreatePublisher(p) ==
    /\ MayCreate(p)
    /\ state' = [state EXCEPT ![p] = "live"]
    /\ m_topics' = Inserted(m_topics, p)
    /\ RegisterPublisher(p)
    /\ UNCHANGED <<down, m_subscribers, conns, feeds, call>>

\* ~Publisher: unregister_publisher, then the pool closes its connections.
DestroyPublisher(p) ==
    LET pubs == masterPubs \ {<<Topic[p], Home[p]>>} IN
    /\ Free(Where(p))
    /\ state[p] = "live"
    /\ state' = [state EXCEPT ![p] = "dead"]
    /\ m_topics' = Erased(m_topics, p)
    /\ masterPubs' = pubs
    /\ inbox' = IF pubs # masterPubs THEN Notified(Topic[p], pubs) ELSE inbox
    /\ feeds' = [s \in Sub |-> [feeds[s] EXCEPT ![p] = 0]]
    /\ UNCHANGED <<down, m_subscribers, conns, call, masterSubs>>

\* The constructor registers and then connects to the publishers it was told
\* of, before it returns.
CreateSubscriber(s) ==
    /\ MayCreate(s)
    /\ state' = [state EXCEPT ![s] = "live"]
    /\ m_subscribers' = Inserted(m_subscribers, s)
    /\ RegisterSubscriber(s)
    /\ call' = [call EXCEPT ![Where(s)] =
                   Busy(s, "next", NoOne, NoOne, Listed(Topic[s], masterPubs))]
    /\ UNCHANGED <<down, m_topics, conns, feeds>>

\* The connections keep themselves alive: nothing closes them.
DestroySubscriber(s) ==
    /\ Free(Where(s))
    /\ state[s] = "live"
    /\ state' = [state EXCEPT ![s] = "dead"]
    /\ m_subscribers' = Erased(m_subscribers, s)
    /\ masterSubs' = masterSubs \ {<<Topic[s], Home[s]>>}
    /\ conns' = [conns EXCEPT ![s] = {}]
    /\ UNCHANGED <<down, m_topics, feeds, call, masterPubs, inbox>>

-----------------------------------------------------------------------------
(* The publisherUpdate handler and notify_new_pubs.                        *)

Connected(s) == {c[1] : c \in conns[s]}

NewOnesUnchecked(s, nodes) == nodes

\* The URIs of an update that m_publisher_connections does not have.
NewOnes(s, nodes) == nodes \ Connected(s)

PublisherUpdate(n) ==
    LET update == Head(inbox[n])
        found  == {s \in m_subscribers : Home[s] = n /\ Topic[s] = update.topic}
    IN
    /\ Free(LoopOf[n])
    /\ inbox[n] # <<>>
    /\ inbox' = [inbox EXCEPT ![n] = Tail(@)]
    /\ \/ found = {} /\ UNCHANGED call
       \/ \E s \in found :
             call' = [call EXCEPT ![LoopOf[n]] =
                         Busy(s, "next", NoOne, NoOne, NewOnes(s, update.nodes))]
    /\ UNCHANGED <<state, down, m_topics, m_subscribers, conns, feeds,
                   masterPubs, masterSubs>>

-----------------------------------------------------------------------------
(* create_publisher_connection, one blocking call after the other.         *)

\* The process of l ends: nothing is unregistered, its sockets close.
Dies(l) ==
    /\ down' = down \cup {l}
    /\ state' = [x \in Pub \cup Sub |-> IF x \in On(l) THEN "dead" ELSE state[x]]
    /\ m_topics' = m_topics \ On(l)
    /\ m_subscribers' = m_subscribers \ On(l)
    /\ feeds' = [s \in Sub |-> [p \in Pub |->
                    IF s \in On(l) \/ p \in On(l) THEN 0 ELSE feeds[s][p]]]
    /\ call' = [call EXCEPT ![l] = Idle]
    /\ inbox' = [n \in Node |-> IF LoopOf[n] = l THEN <<>> ELSE inbox[n]]
    /\ UNCHANGED <<conns, masterPubs, masterSubs>>

GoOnAborted(l) == call' = [call EXCEPT ![l] = Busy(@.sub, "next", NoOne, NoOne, {})]

\* The thread of l goes on with the next URI, whatever became of this one.
GoOn(l) == call' = [call EXCEPT ![l] = Busy(@.sub, "next", NoOne, NoOne, @.todo)]

NextUri(l) ==
    /\ call[l].stage = "next"
    /\ \/ /\ call[l].todo = {}
          /\ call' = [call EXCEPT ![l] = Idle]
       \/ \E b \in call[l].todo :
             call' = [call EXCEPT ![l] = Busy(@.sub, "request", b, NoOne, @.todo \ {b})]
    /\ UNCHANGED <<state, down, m_topics, m_subscribers, conns, feeds,
                   masterPubs, masterSubs, inbox>>

\* requestTopic: node b answers with the port it has for the topic.  Without
\* one it answers an array of two, of which request_topic reads the third
\* element: the call throws, or the process crashes.
ServeRequestTopic(l) ==
    LET b     == call[l].at
        found == {p \in m_topics : Home[p] = b /\ Topic[p] = Topic[call[l].sub]}
    IN
    /\ call[l].stage = "request"
    /\ Free(LoopOf[b])
    /\ \/ /\ \E p \in found :
                call' = [call EXCEPT ![l] = Busy(@.sub, "connect", b, p, @.todo)]
          /\ UNCHANGED <<state, down, m_topics, m_subscribers, feeds, inbox,
                         conns, masterPubs, masterSubs>>
       \/ /\ found = {}
          /\ GoOn(l)
          /\ UNCHANGED <<state, down, m_topics, m_subscribers, feeds, inbox,
                         conns, masterPubs, masterSubs>>
       \/ /\ found = {}
          /\ Dies(l)

RequestStuck(l) == FALSE

\* Nobody listens at the URI any more: the call throws and is caught.
RequestRefused(l) ==
    /\ call[l].stage = "request"
    /\ LoopOf[call[l].at] \in down
    /\ GoOn(l)

\* The kernel of b accepts the connection, and start() writes the header; or
\* nobody listens on the port, and the write throws and is caught.
Connect(l) ==
    /\ call[l].stage = "connect"
    /\ \/ /\ state[call[l].pub] = "live"
          /\ call' = [call EXCEPT ![l].stage = "header"]
       \/ /\ state[call[l].pub] # "live"
          /\ GoOn(l)

\* m_publisher_connections.emplace, which keeps what is there.
Emplaced(s, b, p) ==
    IF b \in Connected(s) THEN conns ELSE [conns EXCEPT ![s] = @ \cup {<<b, p>>}]

\* The publisher answers with its header once its loop has run the handlers
\* of the connection; start() returns with the first read outstanding.
ServeHeader(l) ==
    LET c == call[l] IN
    /\ c.stage = "header"
    /\ state[c.pub] = "live"
    /\ Free(Where(c.pub))
    /\ conns' = Emplaced(c.sub, c.at, c.pub)
    /\ feeds' = [feeds EXCEPT ![c.sub][c.pub] = @ + 1]
    /\ GoOn(l)
    /\ UNCHANGED <<state, down, m_topics, m_subscribers, masterPubs, masterSubs, inbox>>

\* The publisher has gone and the connection ended: start() ignores the error
\* of the read and sizes a buffer with a length nobody wrote.  The process
\* crashes, or keeps a connection whose first read will fail.
HeaderLost(l) ==
    LET c == call[l] IN
    /\ c.stage = "header"
    /\ state[c.pub] # "live"
    /\ \/ /\ conns' = Emplaced(c.sub, c.at, c.pub)
          /\ GoOn(l)
          /\ UNCHANGED <<state, down, m_topics, m_subscribers, feeds, masterPubs,
                         masterSubs, inbox>>
       \/ Dies(l)

Kill(l) ==
    /\ l \in Mortal \ down
    /\ Dies(l)

Quiet == UNCHANGED <<state, down, m_topics, m_subscribers, conns, feeds,
                     masterPubs, masterSubs, inbox>>

Next ==
    \/ \E p \in Pub : CreatePublisher(p) \/ DestroyPublisher(p)
    \/ \E s \in Sub : CreateSubscriber(s) \/ DestroySubscriber(s)
    \/ \E n \in Node : PublisherUpdate(n)
    \/ \E l \in Loop : \/ NextUri(l)
                       \/ ServeRequestTopic(l)
                       \/ RequestRefused(l) /\ Quiet
                       \/ Connect(l) /\ Quiet
                       \/ ServeHeader(l)
                       \/ HeaderLost(l)
                       \/ Kill(l)

Spec == Init /\ [][Next]_vars

\* Threads go on, idle loops serve what waits for them and the master makes
\* its calls.  Users are free to do nothing and processes need not be killed.
Fairness ==
    /\ \A n \in Node : WF_vars(PublisherUpdate(n))
    /\ \A l \in Loop : /\ WF_vars(NextUri(l))
                       /\ WF_vars(ServeRequestTopic(l) /\ UNCHANGED down)
                       /\ WF_vars(RequestRefused(l) /\ Quiet)
                       /\ WF_vars(Connect(l) /\ Quiet)
                       /\ WF_vars(ServeHeader(l))
                       /\ WF_vars(HeaderLost(l) /\ UNCHANGED down)

FairSpec == Spec /\ Fairness

-----------------------------------------------------------------------------
(* Properties.                                                             *)

\* Every variable keeps its type, and the maps of a node have one entry for
\* each topic, also when several objects of the node share the topic.
TypeOK ==
    /\ state \in [Pub \cup Sub -> {"new", "live", "dead"}]
    /\ down \in SUBSET Loop
    /\ m_topics \in SUBSET Pub
    /\ m_subscribers \in SUBSET Sub
    /\ \A x, y \in m_topics \cup m_subscribers :
          SameKey(x, y) /\ (x \in Pub <=> y \in Pub) => x = y
    /\ conns \in [Sub -> SUBSET (Node \X Pub)]
    /\ feeds \in [Sub -> [Pub -> Nat]]
    /\ call \in [Loop -> {Idle} \cup
                   [stage : Stages, sub : Sub, at : Node \cup {NoOne},
                    pub : Pub \cup {NoOne}, todo : SUBSET Node]]
    /\ masterPubs \subseteq {Topic[p] : p \in Pub} \X Node
    /\ masterSubs \subseteq {Topic[s] : s \in Sub} \X Node
    /\ inbox \in [Node -> Seq([topic : {Topic[s] : s \in Sub}, nodes : SUBSET Node])]

\* No node keeps the callback of a Subscriber that was destroyed, which is
\* bound to its raw 'this', nor gives out the port of a Publisher that was
\* (insert and erase by topic, whoever else shares it).
RegistryLive ==
    \A x \in m_topics \cup m_subscribers : state[x] = "live"

\* What the master knows of a node is what the node knows of itself, so every
\* publisher the master lists has a port to give, once updates on their way
\* have arrived.
MasterAgrees ==
    \A n \in Node : LoopOf[n] \notin down =>
        /\ \A p \in Pub : Home[p] = n =>
              (<<Topic[p], n>> \in masterPubs <=> \E q \in m_topics : SameKey(p, q))
        /\ \A s \in Sub : Home[s] = n =>
              (<<Topic[s], n>> \in masterSubs <=> \E r \in m_subscribers : SameKey(s, r))

\* No message reaches a callback twice: a Subscriber has at most one open
\* connection to a node, and while it lives it knows of it, although the list
\* of the constructor and the updates of the master overlap.
OneFeed ==
    \A s \in Sub, p \in Pub : feeds[s][p] > 0 =>
        /\ feeds[s][p] = 1
        /\ \A q \in Pub \ {p} : Home[q] = Home[p] => feeds[s][q] = 0
        /\ state[s] = "live" => <<Home[p], p>> \in conns[s]

\* The loops l cannot go on without: they have to answer a request or to send
\* a header.
WaitsFor(l) ==
    IF call[l].stage = "request" /\ LoopOf[call[l].at] \notin down
      THEN {LoopOf[call[l].at]}
    ELSE IF call[l].stage = "header" /\ state[call[l].pub] = "live"
      THEN {Where(call[l].pub)}
    ELSE {}

\* The blocking call of l has its answer, or will be given it by a free loop.
CanGoOn(l) ==
    \/ call[l].stage \in {"next", "connect"}
    \/ /\ call[l].stage = "request"
       /\ LoopOf[call[l].at] \in down \/ Free(LoopOf[call[l].at])
    \/ /\ call[l].stage = "header"
       /\ state[call[l].pub] # "live" \/ Free(Where(call[l].pub))

\* Loops in blocking calls are never stuck among themselves: with those they
\* wait for, and those these wait for, there is one that can go on.  It holds
\* where topics lead from lower loops to higher ones.  It fails where two nodes
\* subscribe to each other's topics, and where nodes that talk to each other
\* share a loop (README.md:20 wants to "allow multiple nodes in the same
\* process using the same event loop").
Unblocked ==
    \A S \in SUBSET Loop :
        (\E l \in S : call[l] # Idle) /\ (\A l \in S : WaitsFor(l) \subseteq S)
            => \E l \in S : CanGoOn(l)

\* The blocking calls of a constructor or of an update come to an end, also
\* when publishers or their processes go away in the middle.
CallsEnd == \A l \in Loop : (call[l] # Idle) ~> (call[l] = Idle)

\* A registered Subscriber is connected to every advertised Publisher of its
\* topic, whichever of the two came first, also when others go away or their
\* processes are killed; for the first Publisher a node has of the topic.
Connects ==
    \A s \in Sub, p \in Pub :
        Topic[s] = Topic[p] =>
            ((s \in m_subscribers /\ p \in m_topics)
                ~> (\/ feeds[s][p] > 0
                    \/ s \notin m_subscribers
                    \/ p \notin m_topics
                    \/ \E q \in Pub \ {p} : SameKey(p, q) /\ state[q] # "new"))

\* The same also for a node that gave a topic up and advertises it again
\* ("Setting up and tearing down subscriptions should be more responsive",
\* README.md:15).
ConnectsAgain ==
    \A s \in Sub, p \in Pub :
        Topic[s] = Topic[p] =>
            ((s \in m_subscribers /\ p \in m_topics)
                ~> (feeds[s][p] > 0 \/ s \notin m_subscribers \/ p \notin m_topics))
=============================================================================
