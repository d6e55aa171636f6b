-------------------------- MODULE DiscoveryProofs --------------------------
(***************************************************************************)
(* Proofs about Discovery, for any nodes, loops, publishers and            *)
(* subscribers: the maps, the master and the connections stay consistent,  *)
(* and where topics lead from lower loops to higher ones, no blocking      *)
(* calls wait for each other in a circle.                                  *)
(***************************************************************************)
EXTENDS Discovery, WellFoundedInduction, TLAPS

USE DEF NoOne

Publishes(n, t) == \E p \in Pub : Home[p] = n /\ Topic[p] = t

-----------------------------------------------------------------------------
(* The inductive invariant.                                                *)

Calling == [stage : Stages, sub : Sub, at : Node \cup {NoOne},
            pub : Pub \cup {NoOne}, todo : SUBSET Node]

\* A loop calls for a subscriber of its own, and only nodes and publishers of
\* the topic of that subscriber.
CallRight(l, c) ==
    c \in Calling =>
        /\ Where(c.sub) = l
        /\ \A b \in c.todo : Publishes(b, Topic[c.sub])
        /\ c.stage # "next" => c.at \in Node /\ Publishes(c.at, Topic[c.sub])
        /\ c.stage \in {"connect", "header"} =>
              c.pub \in Pub /\ Topic[c.pub] = Topic[c.sub]

CallsRight ==
    /\ call \in [Loop -> {Idle} \cup Calling]
    /\ \A l \in Loop : CallRight(l, call[l])

\* The master lists, and announces, publishers of the topic only.
MasterRight == \A m \in masterPubs : Publishes(m[2], m[1])

Update == [topic : {Topic[s] : s \in Sub}, nodes : SUBSET Node]

UpdateRight(u) == u \in Update /\ \A b \in u.nodes : Publishes(b, u.topic)

InboxRight ==
    /\ inbox \in [Node -> Seq(Update)]
    /\ \A n \in Node : \A i \in 1 .. Len(inbox[n]) : UpdateRight(inbox[n][i])

Registered ==
    /\ m_topics \subseteq Pub
    /\ m_subscribers \subseteq Sub
    /\ masterSubs \subseteq {Topic[s] : s \in Sub} \X Node

IInv ==
    /\ CallsRight
    /\ MasterRight
    /\ InboxRight
    /\ Registered

-----------------------------------------------------------------------------
(* It holds initially and every action preserves it.                       *)

\* The initial state satisfies the inductive invariant.
LEMMA InitIInv == Init => IInv
  <1> SUFFICES ASSUME Init PROVE IInv
    OBVIOUS
  <1>1. CallsRight
    BY DEF Init, CallsRight, CallRight, Calling, Idle
  <1>2. InboxRight
    <2>1. inbox \in [Node -> Seq(Update)] /\ \A n \in Node : Len(inbox[n]) = 0
      BY DEF Init
    <2> QED BY <2>1 DEF InboxRight
  <1>3. MasterRight /\ Registered
    BY DEF Init, MasterRight, Registered
  <1> QED BY <1>1, <1>2, <1>3 DEF IInv

\* The master announces publishers of the topic to its subscribers.
LEMMA NotifiedRight ==
    ASSUME InboxRight, Registered, NEW t, NEW pubs,
           \A m \in pubs : Publishes(m[2], m[1]), inbox' = Notified(t, pubs)
    PROVE  InboxRight'
  <1>1. ASSUME NEW n \in Node
        PROVE  /\ inbox'[n] \in Seq(Update)
               /\ \A i \in 1 .. Len(inbox'[n]) : UpdateRight(inbox'[n][i])
    <2> DEFINE u == [topic |-> t, nodes |-> Listed(t, pubs)]
    <2>1. inbox[n] \in Seq(Update) /\ \A i \in 1 .. Len(inbox[n]) : UpdateRight(inbox[n][i])
      BY DEF InboxRight
    <2>2. CASE <<t, n>> \in masterSubs /\ LoopOf[n] \notin down
      <3>1. inbox'[n] = Append(inbox[n], u)
        BY <2>2 DEF Notified
      <3>2. t \in {Topic[s] : s \in Sub} /\ Listed(t, pubs) \subseteq Node
        BY <2>2 DEF Registered, Listed
      <3>3. u \in Update
        BY <3>2 DEF Update
      <3>4. \A b \in Listed(t, pubs) : Publishes(b, t)
        BY DEF Listed
      <3>5. UpdateRight(u)
        BY <3>3, <3>4 DEF UpdateRight
      <3> HIDE DEF u
      <3> QED BY <2>1, <3>1, <3>3, <3>5
    <2>3. CASE ~(<<t, n>> \in masterSubs /\ LoopOf[n] \notin down)
      BY <2>1, <2>3 DEF Notified
    <2> QED BY <2>2, <2>3
  <1>2. inbox' \in [Node -> Seq(Update)]
    BY <1>1 DEF Notified
  <1> QED BY <1>1, <1>2 DEF InboxRight, UpdateRight, Update, Publishes

\* What a loop that is calling for a subscriber knows.
LEMMA CallFacts ==
    ASSUME IInv, NEW l \in Loop, call[l].stage \in Stages
    PROVE  call[l] \in Calling /\ CallRight(l, call[l])
  BY DEF IInv, CallsRight, Idle, Stages

\* A call that is replaced by a right one leaves the others as they are.
LEMMA CallReplaced ==
    ASSUME IInv, NEW l \in Loop, NEW c \in {Idle} \cup Calling, CallRight(l, c),
           call' = [call EXCEPT ![l] = c]
    PROVE  CallsRight'
  <1>1. call' \in [Loop -> {Idle} \cup Calling]
    BY DEF IInv, CallsRight
  <1>2. ASSUME NEW k \in Loop PROVE CallRight(k, call'[k])
    BY DEF IInv, CallsRight
  <1> QED BY <1>1, <1>2 DEF CallsRight, CallRight, Calling, Idle, Stages, Where, Publishes

\* A loop that has right nodes to go through is in a right call.
LEMMA NextRight ==
    ASSUME NEW l \in Loop, NEW s \in Sub, Where(s) = l, NEW todo \in SUBSET Node,
           \A d \in todo : Publishes(d, Topic[s])
    PROVE  /\ Busy(s, "next", NoOne, NoOne, todo) \in Calling
           /\ CallRight(l, Busy(s, "next", NoOne, NoOne, todo))
  BY DEF Busy, CallRight, Calling, Stages

\* Going on, and coming to an end, leave the calls right.
LEMMA CallEnded ==
    ASSUME IInv, NEW l \in Loop,
           \/ call' = [call EXCEPT ![l] = Idle]
           \/ call[l].stage \in Stages /\ GoOn(l)
    PROVE  CallsRight'
  <1>1. CASE call' = [call EXCEPT ![l] = Idle]
    <2>1. CallRight(l, Idle)
      BY DEF CallRight, Calling, Idle
    <2> QED BY <1>1, <2>1, CallReplaced
  <1>2. CASE call[l].stage \in Stages /\ GoOn(l)
    <2> DEFINE c == Busy(call[l].sub, "next", NoOne, NoOne, call[l].todo)
    <2>1. /\ call[l].sub \in Sub /\ call[l].todo \in SUBSET Node /\ Where(call[l].sub) = l
          /\ \A d \in call[l].todo : Publishes(d, Topic[call[l].sub])
      BY <1>2, CallFacts DEF CallRight, Calling
    <2>2. c \in Calling /\ CallRight(l, c)
      BY <2>1, NextRight
    <2>3. call' = [call EXCEPT ![l] = c]
      BY <1>2 DEF GoOn
    <2> HIDE DEF c
    <2> QED BY <2>2, <2>3, CallReplaced
  <1> QED BY <1>1, <1>2

\* The end of a process leaves every part of the invariant as it is.
LEMMA DiesStep ==
    ASSUME IInv, NEW l \in Loop, Dies(l)
    PROVE  IInv'
  <1>1. CallsRight'
    BY CallEnded DEF Dies
  <1>2. InboxRight'
    <2>1. ASSUME NEW n \in Node
          PROVE  /\ inbox'[n] \in Seq(Update)
                 /\ \A i \in 1 .. Len(inbox'[n]) : UpdateRight(inbox'[n][i])
      <3>1. inbox'[n] = <<>> \/ inbox'[n] = inbox[n]
        BY DEF Dies
      <3>2. CASE inbox'[n] = <<>>
        <4>1. inbox'[n] \in Seq(Update) /\ Len(inbox'[n]) = 0
          BY <3>2
        <4> QED BY <4>1
      <3>3. CASE inbox'[n] = inbox[n]
        BY <3>3 DEF IInv, InboxRight
      <3> QED BY <3>1, <3>2, <3>3
    <2>2. inbox' \in [Node -> Seq(Update)]
      BY <2>1 DEF Dies
    <2> QED BY <2>1, <2>2 DEF InboxRight, UpdateRight, Update, Publishes
  <1>3. MasterRight' /\ Registered'
    BY DEF IInv, Dies, MasterRight, Registered, Publishes
  <1> QED BY <1>1, <1>2, <1>3 DEF IInv

\* A step that leaves the registrations alone keeps what is right about them.
LEMMA RegistrationsSame ==
    ASSUME IInv, UNCHANGED <<m_topics, m_subscribers, masterPubs, masterSubs>>
    PROVE  MasterRight' /\ Registered' /\ (inbox' = inbox => InboxRight')
  BY DEF IInv, MasterRight, InboxRight, UpdateRight, Update, Registered, Publishes

\* Creating and destroying a Publisher.
LEMMA PublisherSteps ==
    ASSUME IInv, NEW p \in Pub, CreatePublisher(p) \/ DestroyPublisher(p)
    PROVE  IInv'
  <1> USE DiscoveryAssumption
  <1>1. call' = call /\ masterSubs' = masterSubs /\ m_subscribers' = m_subscribers
    BY DEF CreatePublisher, RegisterPublisher, DestroyPublisher
  <1>2. CallsRight'
    BY <1>1 DEF IInv, CallsRight, CallRight, Calling, Idle, Stages, Where, Publishes
  <1>3. masterPubs' \subseteq masterPubs \cup {<<Topic[p], Home[p]>>}
    BY DEF CreatePublisher, RegisterPublisher, DestroyPublisher
  <1>4. MasterRight'
    BY <1>3 DEF IInv, MasterRight, Publishes
  <1>5. Registered'
    BY <1>1 DEF IInv, Registered, CreatePublisher, RegisterPublisher, DestroyPublisher,
                Inserted, Erased
  <1>6. InboxRight'
    <2>1. inbox' = inbox \/ inbox' = Notified(Topic[p], masterPubs')
      BY DEF CreatePublisher, RegisterPublisher, DestroyPublisher
    <2>2. \A m \in masterPubs' : Publishes(m[2], m[1])
      BY <1>4 DEF MasterRight, Publishes
    <2>3. CASE inbox' = inbox
      BY <2>3 DEF IInv, InboxRight, UpdateRight, Update, Publishes
    <2>4. CASE inbox' = Notified(Topic[p], masterPubs')
      BY <2>2, <2>4, NotifiedRight DEF IInv
    <2> QED BY <2>1, <2>3, <2>4
  <1> QED BY <1>2, <1>4, <1>5, <1>6 DEF IInv

\* Creating and destroying a Subscriber.
LEMMA SubscriberSteps ==
    ASSUME IInv, NEW s \in Sub, CreateSubscriber(s) \/ DestroySubscriber(s)
    PROVE  IInv'
  <1> USE DiscoveryAssumption
  <1>1. masterPubs' = masterPubs /\ inbox' = inbox /\ m_topics' = m_topics
    BY DEF CreateSubscriber, RegisterSubscriber, DestroySubscriber
  <1>2. MasterRight' /\ InboxRight'
    BY <1>1 DEF IInv, MasterRight, InboxRight, UpdateRight, Update, Publishes
  <1>3. Registered'
    BY <1>1 DEF IInv, Registered, CreateSubscriber, RegisterSubscriber, DestroySubscriber,
                Inserted, Erased
  <1>4. CASE CreateSubscriber(s)
    <2>1. Listed(Topic[s], masterPubs) \in SUBSET Node /\ Where(s) \in Loop
      BY DEF Listed, Where
    <2>2. \A d \in Listed(Topic[s], masterPubs) : Publishes(d, Topic[s])
      BY DEF Listed, IInv, MasterRight
    <2>3. CallsRight'
      <3> DEFINE c == Busy(s, "next", NoOne, NoOne, Listed(Topic[s], masterPubs))
      <3>1. c \in Calling /\ CallRight(Where(s), c)
        BY <2>1, <2>2, NextRight
      <3>2. call' = [call EXCEPT ![Where(s)] = c]
        BY <1>4 DEF CreateSubscriber, RegisterSubscriber
      <3> HIDE DEF c
      <3> QED BY <2>1, <3>1, <3>2, CallReplaced
    <2> QED BY <1>2, <1>3, <2>3 DEF IInv
  <1>5. CASE DestroySubscriber(s)
    <2>1. CallsRight'
      BY <1>5 DEF DestroySubscriber, IInv, CallsRight, CallRight, Calling, Idle, Stages, Where,
                  Publishes
    <2> QED BY <1>2, <1>3, <2>1 DEF IInv
  <1> QED BY <1>4, <1>5

\* The publisherUpdate handler.
LEMMA UpdateStep ==
    ASSUME IInv, NEW n \in Node, PublisherUpdate(n)
    PROVE  IInv'
  <1> USE DiscoveryAssumption
  <1>1. inbox[n] \in Seq(Update) /\ inbox[n] # <<>> /\ inbox' = [inbox EXCEPT ![n] = Tail(@)]
    BY DEF IInv, InboxRight, PublisherUpdate
  <1>2. UpdateRight(Head(inbox[n]))
    BY <1>1 DEF IInv, InboxRight
  <1>3. InboxRight'
    <2>1. /\ Tail(inbox[n]) \in Seq(Update)
          /\ \A i \in 1 .. Len(Tail(inbox[n])) : UpdateRight(Tail(inbox[n])[i])
      BY <1>1 DEF IInv, InboxRight
    <2>2. /\ inbox' \in [Node -> Seq(Update)]
          /\ \A m \in Node : \A i \in 1 .. Len(inbox'[m]) : UpdateRight(inbox'[m][i])
      BY <1>1, <2>1 DEF IInv, InboxRight
    <2> QED BY <2>2 DEF InboxRight, UpdateRight, Update, Publishes
  <1>4. MasterRight' /\ Registered'
    BY RegistrationsSame DEF PublisherUpdate
  <1>5. CallsRight'
    <2>1. CASE call' = call
      BY <2>1 DEF IInv, CallsRight, CallRight, Calling, Idle, Stages, Where, Publishes
    <2>2. CASE call' # call
      <3>1. PICK s \in m_subscribers :
               /\ Home[s] = n /\ Topic[s] = Head(inbox[n]).topic
               /\ call' = [call EXCEPT ![LoopOf[n]] =
                     Busy(s, "next", NoOne, NoOne, NewOnes(s, Head(inbox[n]).nodes))]
        BY <2>2 DEF PublisherUpdate
      <3>2. s \in Sub /\ Where(s) = LoopOf[n] /\ LoopOf[n] \in Loop
        BY <3>1 DEF IInv, Registered, Where
      <3>3. /\ NewOnes(s, Head(inbox[n]).nodes) \in SUBSET Node
            /\ \A d \in NewOnes(s, Head(inbox[n]).nodes) : Publishes(d, Topic[s])
        BY <1>2, <3>1 DEF UpdateRight, Update, NewOnes
      <3> DEFINE c == Busy(s, "next", NoOne, NoOne, NewOnes(s, Head(inbox[n]).nodes))
      <3>4. c \in Calling /\ CallRight(LoopOf[n], c)
        BY <3>2, <3>3, NextRight
      <3>5. call' = [call EXCEPT ![LoopOf[n]] = c]
        BY <3>1
      <3> HIDE DEF c
      <3> QED BY <3>2, <3>4, <3>5, CallReplaced
    <2> QED BY <2>1, <2>2
  <1> QED BY <1>3, <1>4, <1>5 DEF IInv

\* The next URI of the list.
LEMMA NextUriStep ==
    ASSUME IInv, NEW l \in Loop, NextUri(l)
    PROVE  CallsRight'
  <1>1. /\ call[l] \in Calling /\ CallRight(l, call[l])
        /\ call[l].stage = "next"
    BY CallFacts DEF NextUri, Stages
  <1>2. CASE call' = [call EXCEPT ![l] = Idle]
    BY <1>2, CallEnded
  <1>3. ASSUME NEW b \in call[l].todo,
               call' = [call EXCEPT ![l] =
                           Busy(call[l].sub, "request", b, NoOne, call[l].todo \ {b})]
        PROVE  CallsRight'
    <2> DEFINE c == Busy(call[l].sub, "request", b, NoOne, call[l].todo \ {b})
    <2>1. c \in Calling
      BY <1>1 DEF Busy, Calling, Stages
    <2>2. CallRight(l, c)
      BY <1>1 DEF Busy, Calling, CallRight
    <2>3. call' = [call EXCEPT ![l] = c]
      BY <1>3
    <2> HIDE DEF c
    <2> QED BY <2>1, <2>2, <2>3, CallReplaced
  <1> QED BY <1>2, <1>3 DEF NextUri

\* A publisher found, and a connection made to it, are right for the call.
LEMMA FoundRight ==
    ASSUME NEW l \in Loop, call[l] \in Calling, CallRight(l, call[l]), call[l].stage # "next",
           NEW stage \in {"connect", "header"}, NEW p \in Pub, Topic[p] = Topic[call[l].sub]
    PROVE  /\ Busy(call[l].sub, stage, call[l].at, p, call[l].todo) \in Calling
           /\ CallRight(l, Busy(call[l].sub, stage, call[l].at, p, call[l].todo))
  BY DEF Busy, Calling, CallRight, Stages

\* The answer to a requestTopic.
LEMMA RequestTopicStep ==
    ASSUME IInv, NEW l \in Loop, ServeRequestTopic(l)
    PROVE  IInv'
  <1>1. /\ call[l] \in Calling /\ CallRight(l, call[l])
        /\ call[l].stage = "request" /\ call[l].stage \in Stages
    BY CallFacts DEF ServeRequestTopic, Stages
  <1>2. CASE Dies(l)
    BY <1>2, DiesStep
  <1>3. ASSUME GoOn(l) PROVE CallsRight'
    BY <1>1, <1>3, CallEnded
  <1>4. ASSUME NEW p \in m_topics, Topic[p] = Topic[call[l].sub],
               call' = [call EXCEPT ![l] =
                           Busy(call[l].sub, "connect", call[l].at, p, call[l].todo)]
        PROVE  CallsRight'
    <2> DEFINE c == Busy(call[l].sub, "connect", call[l].at, p, call[l].todo)
    <2>1. p \in Pub
      BY DEF IInv, Registered
    <2>2. c \in Calling /\ CallRight(l, c)
      BY <1>1, <1>4, <2>1, FoundRight
    <2>3. call' = [call EXCEPT ![l] = c]
      BY <1>4
    <2> HIDE DEF c
    <2> QED BY <2>2, <2>3, CallReplaced
  <1>5. CASE ~Dies(l)
    <2>1. UNCHANGED <<m_topics, m_subscribers, masterPubs, masterSubs, inbox>>
      BY <1>5 DEF ServeRequestTopic
    <2>2. CallsRight'
      BY <1>3, <1>4, <1>5 DEF ServeRequestTopic
    <2> QED BY <2>1, <2>2, RegistrationsSame DEF IInv
  <1> QED BY <1>2, <1>5

\* A request that is refused, and the connection to a publisher.
LEMMA ConnectStep ==
    ASSUME IInv, NEW l \in Loop, Quiet, RequestRefused(l) \/ Connect(l)
    PROVE  IInv'
  <1>1. /\ call[l] \in Calling /\ CallRight(l, call[l])
        /\ call[l].stage \in {"request", "connect"} /\ call[l].stage \in Stages
    BY CallFacts DEF RequestRefused, Connect, Stages
  <1>2. ASSUME GoOn(l) PROVE CallsRight'
    BY <1>1, <1>2, CallEnded
  <1>3. ASSUME call[l].stage = "connect", call' = [call EXCEPT ![l].stage = "header"]
        PROVE  CallsRight'
    <2> DEFINE c == Busy(call[l].sub, "header", call[l].at, call[l].pub, call[l].todo)
    <2>1. call[l].pub \in Pub /\ Topic[call[l].pub] = Topic[call[l].sub]
      BY <1>1, <1>3 DEF CallRight
    <2>2. c \in Calling /\ CallRight(l, c)
      BY <1>1, <1>3, <2>1, FoundRight
    <2>3. [call[l] EXCEPT !.stage = "header"] = c
      BY <1>1 DEF Calling, Busy
    <2>4. call' = [call EXCEPT ![l] = c]
      BY <1>3, <2>3
    <2> HIDE DEF c
    <2> QED BY <2>2, <2>4, CallReplaced
  <1>4. CallsRight'
    BY <1>2, <1>3 DEF RequestRefused, Connect
  <1> QED BY <1>4, RegistrationsSame DEF Quiet, IInv

\* The header of the publisher, or its end.
LEMMA HeaderSteps ==
    ASSUME IInv, NEW l \in Loop, ServeHeader(l) \/ HeaderLost(l)
    PROVE  IInv'
  <1>1. call[l].stage \in Stages
    BY DEF ServeHeader, HeaderLost, Stages
  <1>2. CASE Dies(l)
    BY <1>2, DiesStep
  <1>3. CASE GoOn(l) /\ UNCHANGED <<m_topics, m_subscribers, masterPubs, masterSubs, inbox>>
    BY <1>1, <1>3, CallEnded, RegistrationsSame DEF IInv
  <1> QED BY <1>2, <1>3 DEF ServeHeader, HeaderLost

-----------------------------------------------------------------------------
(* The registry and the connections.                                       *)

OneKey(map) == \A x, y \in map : SameKey(x, y) => x = y

\* The maps of the nodes, the master and the objects belong together.
RegistryRight ==
    /\ state \in [Pub \cup Sub -> {"new", "live", "dead"}]
    /\ down \subseteq Loop
    /\ masterPubs \subseteq {Topic[p] : p \in Pub} \X Node
    /\ OneKey(m_topics) /\ OneKey(m_subscribers)
    /\ RegistryLive
    /\ MasterAgrees

\* A loop connects a subscriber that lives, and to nodes it is not connected to.
CallLive(l) ==
    call[l].stage \in Stages =>
        /\ state[call[l].sub] = "live"
        /\ call[l].todo \cap Connected(call[l].sub) = {}
        /\ call[l].stage # "next" =>
              call[l].at \notin call[l].todo \cup Connected(call[l].sub)
        /\ call[l].stage \in {"connect", "header"} => Home[call[l].pub] = call[l].at

Fresh ==
    \A s \in Sub : state[s] = "new" => conns[s] = {} /\ \A p \in Pub : feeds[s][p] = 0

FeedsRight ==
    /\ conns \in [Sub -> SUBSET (Node \X Pub)]
    /\ feeds \in [Sub -> [Pub -> Nat]]
    /\ Fresh
    /\ OneFeed
    /\ \A l \in Loop : CallLive(l)

RInv == IInv /\ RegistryRight /\ FeedsRight

\* The registry depends on these variables only.
LEMMA RegistrySame ==
    ASSUME RegistryRight,
           UNCHANGED <<state, down, m_topics, m_subscribers, masterPubs, masterSubs>>
    PROVE  RegistryRight'
  BY DEF RegistryRight, OneKey, SameKey, RegistryLive, MasterAgrees

\* insert and erase leave one entry for each topic of a node.
LEMMA KeyKept ==
    ASSUME NEW map, NEW x, OneKey(map)
    PROVE  OneKey(Inserted(map, x)) /\ OneKey(Erased(map, x))
  BY DEF OneKey, Inserted, Erased, SameKey

\* The registry when a Publisher comes or goes.
LEMMA PublisherRegistry ==
    ASSUME RInv, NEW p \in Pub, CreatePublisher(p) \/ DestroyPublisher(p)
    PROVE  RegistryRight'
  <1> USE DiscoveryAssumption
  <1>1. /\ UNCHANGED <<down, m_subscribers, masterSubs>>
        /\ m_topics \subseteq Pub /\ m_subscribers \subseteq Sub
        /\ Home[p] \in Node /\ LoopOf[Home[p]] \notin down
    BY DEF RInv, IInv, Registered, CreatePublisher, RegisterPublisher, DestroyPublisher,
           MayCreate, Free, Where
  <1>2. CASE CreatePublisher(p)
    <2>1. /\ m_topics' = Inserted(m_topics, p) /\ state' = [state EXCEPT ![p] = "live"]
          /\ masterPubs' = masterPubs \cup {<<Topic[p], Home[p]>>}
      BY <1>2 DEF CreatePublisher, RegisterPublisher
    <2>2. /\ state' \in [Pub \cup Sub -> {"new", "live", "dead"}]
          /\ masterPubs' \subseteq {Topic[q] : q \in Pub} \X Node
      BY <1>1, <2>1 DEF RInv, RegistryRight
    <2>3. RegistryLive'
      BY <1>1, <2>1 DEF RInv, RegistryRight, RegistryLive, Inserted
    <2>4. ASSUME NEW q \in Pub
          PROVE  <<Topic[q], Home[q]>> \in masterPubs' <=>
                    <<Topic[q], Home[q]>> \in masterPubs \/ SameKey(p, q)
      BY <2>1 DEF SameKey
    <2>5. ASSUME NEW q \in Pub
          PROVE  (\E x \in m_topics' : SameKey(q, x)) <=>
                    (\E x \in m_topics : SameKey(q, x)) \/ SameKey(p, q)
      BY <2>1 DEF Inserted, SameKey
    <2>6. MasterAgrees'
      BY <1>1, <2>4, <2>5 DEF RInv, RegistryRight, MasterAgrees, SameKey
    <2>7. OneKey(m_topics)' /\ OneKey(m_subscribers)'
      BY <1>1, <2>1, KeyKept DEF RInv, RegistryRight, OneKey, SameKey
    <2> QED BY <1>1, <2>2, <2>3, <2>6, <2>7 DEF RInv, RegistryRight
  <1>3. CASE DestroyPublisher(p)
    <2>1. /\ m_topics' = Erased(m_topics, p) /\ state' = [state EXCEPT ![p] = "dead"]
          /\ masterPubs' = masterPubs \ {<<Topic[p], Home[p]>>}
      BY <1>3 DEF DestroyPublisher
    <2>2. /\ state' \in [Pub \cup Sub -> {"new", "live", "dead"}]
          /\ masterPubs' \subseteq {Topic[q] : q \in Pub} \X Node
      BY <1>1, <2>1 DEF RInv, RegistryRight
    <2>3. RegistryLive'
      BY <1>1, <2>1 DEF RInv, RegistryRight, RegistryLive, Erased, SameKey
    <2>4. ASSUME NEW q \in Pub
          PROVE  <<Topic[q], Home[q]>> \in masterPubs' <=>
                    <<Topic[q], Home[q]>> \in masterPubs /\ ~SameKey(p, q)
      BY <2>1 DEF SameKey
    <2>5. ASSUME NEW q \in Pub
          PROVE  (\E x \in m_topics' : SameKey(q, x)) <=>
                    (\E x \in m_topics : SameKey(q, x)) /\ ~SameKey(p, q)
      BY <2>1 DEF Erased, SameKey
    <2>6. MasterAgrees'
      BY <1>1, <2>4, <2>5 DEF RInv, RegistryRight, MasterAgrees, SameKey
    <2>7. OneKey(m_topics)' /\ OneKey(m_subscribers)'
      BY <1>1, <2>1, KeyKept DEF RInv, RegistryRight, OneKey, SameKey
    <2> QED BY <1>1, <2>2, <2>3, <2>6, <2>7 DEF RInv, RegistryRight
  <1> QED BY <1>2, <1>3

\* The registry when a Subscriber comes or goes.
LEMMA SubscriberRegistry ==
    ASSUME RInv, NEW s \in Sub, CreateSubscriber(s) \/ DestroySubscriber(s)
    PROVE  RegistryRight'
  <1> USE DiscoveryAssumption
  <1>1. /\ UNCHANGED <<down, m_topics, masterPubs>>
        /\ m_topics \subseteq Pub /\ m_subscribers \subseteq Sub
        /\ Home[s] \in Node
    BY DEF RInv, IInv, Registered, CreateSubscriber, RegisterSubscriber, DestroySubscriber
  <1>2. CASE CreateSubscriber(s)
    <2>1. /\ m_subscribers' = Inserted(m_subscribers, s)
          /\ state' = [state EXCEPT ![s] = "live"]
          /\ masterSubs' = masterSubs \cup {<<Topic[s], Home[s]>>}
      BY <1>2 DEF CreateSubscriber, RegisterSubscriber
    <2>2. state' \in [Pub \cup Sub -> {"new", "live", "dead"}]
      BY <2>1 DEF RInv, RegistryRight
    <2>3. RegistryLive'
      BY <1>1, <2>1 DEF RInv, RegistryRight, RegistryLive, Inserted
    <2>4. ASSUME NEW q \in Sub
          PROVE  <<Topic[q], Home[q]>> \in masterSubs' <=>
                    <<Topic[q], Home[q]>> \in masterSubs \/ SameKey(s, q)
      BY <2>1 DEF SameKey
    <2>5. ASSUME NEW q \in Sub
          PROVE  (\E x \in m_subscribers' : SameKey(q, x)) <=>
                    (\E x \in m_subscribers : SameKey(q, x)) \/ SameKey(s, q)
      BY <2>1 DEF Inserted, SameKey
    <2>6. MasterAgrees'
      BY <1>1, <2>4, <2>5 DEF RInv, RegistryRight, MasterAgrees, SameKey
    <2>7. OneKey(m_topics)' /\ OneKey(m_subscribers)'
      BY <1>1, <2>1, KeyKept DEF RInv, RegistryRight, OneKey, SameKey
    <2> QED BY <1>1, <2>2, <2>3, <2>6, <2>7 DEF RInv, RegistryRight
  <1>3. CASE DestroySubscriber(s)
    <2>1. /\ m_subscribers' = Erased(m_subscribers, s)
          /\ state' = [state EXCEPT ![s] = "dead"]
          /\ masterSubs' = masterSubs \ {<<Topic[s], Home[s]>>}
      BY <1>3 DEF DestroySubscriber
    <2>2. state' \in [Pub \cup Sub -> {"new", "live", "dead"}]
      BY <2>1 DEF RInv, RegistryRight
    <2>3. RegistryLive'
      BY <1>1, <2>1 DEF RInv, RegistryRight, RegistryLive, Erased, SameKey
    <2>4. ASSUME NEW q \in Sub
          PROVE  <<Topic[q], Home[q]>> \in masterSubs' <=>
                    <<Topic[q], Home[q]>> \in masterSubs /\ ~SameKey(s, q)
      BY <2>1 DEF SameKey
    <2>5. ASSUME NEW q \in Sub
          PROVE  (\E x \in m_subscribers' : SameKey(q, x)) <=>
                    (\E x \in m_subscribers : SameKey(q, x)) /\ ~SameKey(s, q)
      BY <2>1 DEF Erased, SameKey
    <2>6. MasterAgrees'
      BY <1>1, <2>4, <2>5 DEF RInv, RegistryRight, MasterAgrees, SameKey
    <2>7. OneKey(m_topics)' /\ OneKey(m_subscribers)'
      BY <1>1, <2>1, KeyKept DEF RInv, RegistryRight, OneKey, SameKey
    <2> QED BY <1>1, <2>2, <2>3, <2>6, <2>7 DEF RInv, RegistryRight
  <1> QED BY <1>2, <1>3

\* A process that ends takes everything of its nodes with it.
LEMMA DiesRegistry ==
    ASSUME RInv, NEW l \in Loop, Dies(l)
    PROVE  RegistryRight'
  <1> USE DiscoveryAssumption
  <1>1. m_topics \subseteq Pub /\ m_subscribers \subseteq Sub
    BY DEF RInv, IInv, Registered
  <1>2. /\ state' \in [Pub \cup Sub -> {"new", "live", "dead"}]
        /\ down' \subseteq Loop /\ masterPubs' = masterPubs
    BY DEF RInv, RegistryRight, Dies
  <1>3. RegistryLive'
    BY <1>1 DEF RInv, RegistryRight, RegistryLive, Dies
  <1>4. OneKey(m_topics)' /\ OneKey(m_subscribers)'
    BY DEF RInv, RegistryRight, OneKey, SameKey, Dies
  <1>5. ASSUME NEW n \in Node, LoopOf[n] \notin down'
        PROVE  \A x \in Pub \cup Sub : Home[x] = n =>
                   /\ x \in m_topics' <=> x \in m_topics
                   /\ x \in m_subscribers' <=> x \in m_subscribers
    BY <1>5 DEF Dies, On, Where
  <1>6. MasterAgrees'
    BY <1>1, <1>5 DEF RInv, RegistryRight, MasterAgrees, SameKey, Dies
  <1> QED BY <1>2, <1>3, <1>4, <1>6 DEF RInv, RegistryRight

\* What is known of the loops' calls when only the states of publishers change.
LEMMA CallLiveSame ==
    ASSUME RInv, NEW l \in Loop, call'[l] = call[l], conns' = conns,
           call[l].stage \in Stages => state'[call[l].sub] = state[call[l].sub]
    PROVE  CallLive(l)'
  BY DEF RInv, FeedsRight, CallLive, Connected

\* The connections when a Publisher comes or goes.
LEMMA PublisherFeeds ==
    ASSUME RInv, NEW p \in Pub, CreatePublisher(p) \/ DestroyPublisher(p)
    PROVE  FeedsRight'
  <1> USE DiscoveryAssumption
  <1>1. /\ conns' = conns /\ call' = call
        /\ feeds' \in {feeds, [s \in Sub |-> [feeds[s] EXCEPT ![p] = 0]]}
        /\ \A s \in Sub : state'[s] = state[s]
    BY DEF CreatePublisher, RegisterPublisher, DestroyPublisher, RInv, RegistryRight
  <1>2. feeds' \in [Sub -> [Pub -> Nat]]
    BY <1>1 DEF RInv, FeedsRight
  <1>3. \A s \in Sub, q \in Pub : feeds'[s][q] \in {0, feeds[s][q]}
    BY <1>1 DEF RInv, FeedsRight
  <1>4. Fresh' /\ OneFeed'
    BY <1>1, <1>3 DEF RInv, FeedsRight, Fresh, OneFeed
  <1>5. ASSUME NEW l \in Loop PROVE CallLive(l)'
    <2>1. call[l].stage \in Stages => call[l].sub \in Sub
      BY CallFacts DEF RInv, Calling
    <2> QED BY <1>1, <2>1, CallLiveSame
  <1> QED BY <1>1, <1>2, <1>4, <1>5 DEF RInv, FeedsRight

\* The subscriber of a call is of the loop that makes it, and an idle loop
\* makes none.
LEMMA CallOwn ==
    ASSUME IInv, NEW l \in Loop, call[l].stage \in Stages
    PROVE  call[l].sub \in Sub /\ Where(call[l].sub) = l /\ call[l] # Idle
  BY CallFacts DEF Calling, CallRight, Idle, Stages

\* The connections when a Subscriber comes or goes.
LEMMA SubscriberFeeds ==
    ASSUME RInv, NEW s \in Sub, CreateSubscriber(s) \/ DestroySubscriber(s)
    PROVE  FeedsRight'
  <1> USE DiscoveryAssumption
  <1>1. /\ feeds' = feeds /\ Where(s) \in Loop /\ call[Where(s)] = Idle
        /\ state' \in [Pub \cup Sub -> {"new", "live", "dead"}]
        /\ conns \in [Sub -> SUBSET (Node \X Pub)]
    BY DEF CreateSubscriber, RegisterSubscriber, DestroySubscriber, MayCreate, Free, Where,
           RInv, RegistryRight, FeedsRight
  <1>2. CASE CreateSubscriber(s)
    <2>1. /\ conns' = conns /\ state[s] = "new" /\ state' = [state EXCEPT ![s] = "live"]
          /\ conns[s] = {} /\ \A p \in Pub : feeds[s][p] = 0
      BY <1>2 DEF CreateSubscriber, RegisterSubscriber, MayCreate, RInv, FeedsRight, Fresh
    <2>2. Fresh' /\ OneFeed'
      BY <1>1, <2>1 DEF RInv, RegistryRight, FeedsRight, Fresh, OneFeed
    <2>3. ASSUME NEW l \in Loop PROVE CallLive(l)'
      <3>1. CASE l = Where(s)
        <4>1. call'[l] = Busy(s, "next", NoOne, NoOne, Listed(Topic[s], masterPubs))
          BY <1>1, <1>2, <3>1 DEF CreateSubscriber, RegisterSubscriber, RInv, IInv, CallsRight
        <4>2. state'[s] = "live" /\ Connected(s)' = {}
          BY <2>1 DEF Connected, RInv, RegistryRight
        <4> QED BY <4>1, <4>2 DEF CallLive, Busy
      <3>2. CASE l # Where(s)
        <4>1. call'[l] = call[l]
          BY <1>2, <3>2 DEF CreateSubscriber, RegisterSubscriber
        <4>2. call[l].stage \in Stages => call[l].sub \in Sub \ {s}
          BY <3>2, CallOwn DEF RInv
        <4>3. call[l].stage \in Stages => state'[call[l].sub] = state[call[l].sub]
          BY <2>1, <4>2 DEF RInv, RegistryRight
        <4> QED BY <2>1, <4>1, <4>3, CallLiveSame
      <3> QED BY <3>1, <3>2
    <2> QED BY <1>1, <2>1, <2>2, <2>3 DEF RInv, FeedsRight
  <1>3. CASE DestroySubscriber(s)
    <2>1. /\ conns' = [conns EXCEPT ![s] = {}] /\ call' = call
          /\ state' = [state EXCEPT ![s] = "dead"]
      BY <1>3 DEF DestroySubscriber
    <2>2. Fresh' /\ OneFeed'
      BY <1>1, <2>1 DEF RInv, RegistryRight, FeedsRight, Fresh, OneFeed
    <2>3. ASSUME NEW l \in Loop PROVE CallLive(l)'
      <3>1. CASE call[l].stage \notin Stages
        BY <2>1, <3>1 DEF CallLive
      <3>2. CASE call[l].stage \in Stages
        <4>1. call[l].sub \in Sub \ {s}
          BY <1>1, <3>2, CallOwn DEF RInv
        <4>2. state'[call[l].sub] = state[call[l].sub] /\ conns'[call[l].sub] = conns[call[l].sub]
          BY <1>1, <2>1, <4>1 DEF RInv, RegistryRight
        <4> QED BY <2>1, <4>2 DEF CallLive, Connected, RInv, FeedsRight
      <3> QED BY <3>1, <3>2
    <2> QED BY <1>1, <2>1, <2>2, <2>3 DEF RInv, FeedsRight
  <1> QED BY <1>2, <1>3

\* The connections when a process ends.
LEMMA DiesFeeds ==
    ASSUME RInv, NEW l \in Loop, Dies(l)
    PROVE  FeedsRight'
  <1> USE DiscoveryAssumption
  <1>1. /\ conns' = conns /\ call' = [call EXCEPT ![l] = Idle]
        /\ \A s \in Sub : state'[s] = IF s \in On(l) THEN "dead" ELSE state[s]
        /\ feeds' = [s \in Sub |-> [p \in Pub |->
                       IF s \in On(l) \/ p \in On(l) THEN 0 ELSE feeds[s][p]]]
    BY DEF Dies
  <1>2. /\ feeds' \in [Sub -> [Pub -> Nat]]
        /\ \A s \in Sub, p \in Pub : feeds'[s][p] \in {0, feeds[s][p]}
    BY <1>1 DEF RInv, FeedsRight
  <1>3. Fresh' /\ OneFeed'
    BY <1>1, <1>2 DEF RInv, FeedsRight, Fresh, OneFeed
  <1>4. ASSUME NEW k \in Loop PROVE CallLive(k)'
    <2>1. CASE k = l
      BY <1>1, <2>1 DEF CallLive, Idle, Stages, RInv, IInv, CallsRight
    <2>2. CASE k # l
      <3>1. call'[k] = call[k]
        BY <1>1, <2>2
      <3>2. call[k].stage \in Stages => call[k].sub \in Sub /\ call[k].sub \notin On(l)
        BY <2>2, CallOwn DEF RInv, On
      <3> QED BY <1>1, <3>1, <3>2, CallLiveSame
    <2> QED BY <2>1, <2>2
  <1> QED BY <1>1, <1>2, <1>3, <1>4 DEF RInv, FeedsRight

\* A step that only replaces the call of a loop leaves the connections right
\* when the new call is.
LEMMA CallFeeds ==
    ASSUME RInv, NEW l \in Loop, NEW c, call' = [call EXCEPT ![l] = c],
           UNCHANGED <<state, conns, feeds>>, CallLive(l)'
    PROVE  FeedsRight'
  <1>1. Fresh' /\ OneFeed'
    BY DEF RInv, FeedsRight, Fresh, OneFeed
  <1>2. ASSUME NEW k \in Loop \ {l} PROVE CallLive(k)'
    <2>1. call'[k] = call[k]
      OBVIOUS
    <2> QED BY <2>1, CallLiveSame
  <1> QED BY <1>1, <1>2 DEF RInv, FeedsRight

\* The same for a call that goes on with nodes that are not connected.
LEMMA NextFeeds ==
    ASSUME RInv, NEW l \in Loop, NEW s, NEW todo, state[s] = "live",
           todo \cap Connected(s) = {}, UNCHANGED <<state, conns, feeds>>,
           call' = [call EXCEPT ![l] = Busy(s, "next", NoOne, NoOne, todo)]
    PROVE  FeedsRight'
  <1>1. call'[l] = Busy(s, "next", NoOne, NoOne, todo)
    BY DEF RInv, IInv, CallsRight
  <1>2. CallLive(l)'
    BY <1>1 DEF CallLive, Busy, Connected
  <1> QED BY <1>2, CallFeeds

\* Updates and the steps of a call before the header.
LEMMA CallSteps ==
    ASSUME RInv
    PROVE  /\ \A n \in Node : PublisherUpdate(n) => FeedsRight'
           /\ \A l \in Loop : NextUri(l) => FeedsRight'
           /\ \A l \in Loop : ServeRequestTopic(l) => FeedsRight'
           /\ \A l \in Loop : Quiet /\ (RequestRefused(l) \/ Connect(l)) => FeedsRight'
  <1> USE DiscoveryAssumption
  <1>1. ASSUME UNCHANGED <<state, conns, feeds, call>> PROVE FeedsRight'
    BY <1>1, CallLiveSame DEF RInv, FeedsRight, Fresh, OneFeed
  <1>2. ASSUME NEW l \in Loop, call[l].stage \in Stages, GoOn(l),
               UNCHANGED <<state, conns, feeds>>
        PROVE  FeedsRight'
    <2>1. state[call[l].sub] = "live" /\ call[l].todo \cap Connected(call[l].sub) = {}
      BY <1>2 DEF RInv, FeedsRight, CallLive
    <2> QED BY <1>2, <2>1, NextFeeds DEF GoOn
  <1>3. ASSUME NEW n \in Node, PublisherUpdate(n) PROVE FeedsRight'
    <2>1. UNCHANGED <<state, conns, feeds>> /\ LoopOf[n] \in Loop
      BY <1>3 DEF PublisherUpdate
    <2>2. CASE call' # call
      <3>1. PICK s \in m_subscribers :
               call' = [call EXCEPT ![LoopOf[n]] =
                     Busy(s, "next", NoOne, NoOne, NewOnes(s, Head(inbox[n]).nodes))]
        BY <1>3, <2>2 DEF PublisherUpdate
      <3>2. state[s] = "live"
        BY DEF RInv, RegistryRight, RegistryLive
      <3>3. NewOnes(s, Head(inbox[n]).nodes) \cap Connected(s) = {}
        BY DEF NewOnes
      <3> QED BY <2>1, <3>1, <3>2, <3>3, NextFeeds
    <2> QED BY <1>1, <2>1, <2>2
  <1>4. ASSUME NEW l \in Loop, NextUri(l) PROVE FeedsRight'
    <2>1. /\ UNCHANGED <<state, conns, feeds>> /\ call[l].stage = "next"
          /\ state[call[l].sub] = "live" /\ call[l].todo \cap Connected(call[l].sub) = {}
      BY <1>4 DEF NextUri, RInv, FeedsRight, CallLive, Stages
    <2>2. CASE call' = [call EXCEPT ![l] = Idle]
      <3>1. call'[l] = Idle
        BY <2>2 DEF RInv, IInv, CallsRight
      <3>2. CallLive(l)'
        BY <3>1 DEF CallLive, Idle, Stages
      <3> QED BY <2>1, <2>2, <3>2, CallFeeds
    <2>3. ASSUME NEW b \in call[l].todo,
                 call' = [call EXCEPT ![l] =
                             Busy(@.sub, "request", b, NoOne, @.todo \ {b})]
          PROVE  FeedsRight'
      <3>1. call'[l] = Busy(call[l].sub, "request", b, NoOne, call[l].todo \ {b})
        BY <2>3 DEF RInv, IInv, CallsRight
      <3>2. CallLive(l)'
        BY <2>1, <3>1 DEF CallLive, Busy, Connected
      <3> QED BY <2>1, <2>3, <3>2, CallFeeds
    <2> QED BY <1>4, <2>2, <2>3 DEF NextUri
  <1>5. ASSUME NEW l \in Loop, ServeRequestTopic(l) PROVE FeedsRight'
    <2>1. call[l].stage = "request" /\ CallLive(l)
      BY <1>5 DEF ServeRequestTopic, RInv, FeedsRight
    <2>2. CASE Dies(l)
      BY <2>2, DiesFeeds
    <2>3. CASE UNCHANGED <<state, conns, feeds>> /\ GoOn(l)
      BY <1>2, <2>1, <2>3 DEF Stages
    <2>4. CASE /\ UNCHANGED <<state, conns, feeds>>
               /\ \E p \in m_topics :
                     /\ Home[p] = call[l].at
                     /\ call' = [call EXCEPT ![l] =
                                    Busy(@.sub, "connect", call[l].at, p, @.todo)]
      <3>1. PICK p \in m_topics :
               /\ Home[p] = call[l].at
               /\ call' = [call EXCEPT ![l] = Busy(@.sub, "connect", call[l].at, p, @.todo)]
        BY <2>4
      <3>2. call'[l] = Busy(call[l].sub, "connect", call[l].at, p, call[l].todo)
        BY <3>1 DEF RInv, IInv, CallsRight
      <3>3. CallLive(l)'
        BY <2>1, <2>4, <3>1, <3>2 DEF CallLive, Busy, Connected, Stages
      <3> QED BY <2>4, <3>1, <3>3, CallFeeds
    <2> QED BY <1>5, <2>2, <2>3, <2>4 DEF ServeRequestTopic
  <1>6. ASSUME NEW l \in Loop, Quiet, RequestRefused(l) \/ Connect(l) PROVE FeedsRight'
    <2>1. UNCHANGED <<state, conns, feeds>> /\ call[l].stage \in {"request", "connect"}
      BY <1>6 DEF Quiet, RequestRefused, Connect
    <2>2. CASE GoOn(l)
      BY <1>2, <2>1, <2>2 DEF Stages
    <2>3. CASE call[l].stage = "connect" /\ call' = [call EXCEPT ![l].stage = "header"]
      <3>1. CallLive(l) /\ call[l] \in Calling
        BY <2>3, CallFacts DEF RInv, FeedsRight, Stages
      <3>2. call'[l] = [call[l] EXCEPT !.stage = "header"]
        BY <2>3 DEF RInv, IInv, CallsRight
      <3>3. CallLive(l)'
        BY <2>1, <2>3, <3>1, <3>2 DEF CallLive, Connected, Calling, Stages
      <3>4. call' = [call EXCEPT ![l] = [call[l] EXCEPT !.stage = "header"]]
        BY <2>3
      <3> QED BY <2>1, <3>3, <3>4, CallFeeds
    <2> QED BY <1>6, <2>2, <2>3 DEF RequestRefused, Connect
  <1> QED BY <1>3, <1>4, <1>5, <1>6

\* A connection is kept under the URI of a node there was none of.
LEMMA HeaderFeeds ==
    ASSUME RInv, NEW l \in Loop, ServeHeader(l) \/ HeaderLost(l)
    PROVE  FeedsRight'
  <1> USE DiscoveryAssumption
  <1>1. /\ call[l].stage = "header" /\ call[l].stage \in Stages
        /\ call[l] \in Calling /\ CallRight(l, call[l]) /\ CallLive(l)
    BY CallFacts DEF ServeHeader, HeaderLost, Stages, RInv, FeedsRight
  <1>0. PICK s \in Sub, b \in Node, p \in Pub :
           s = call[l].sub /\ b = call[l].at /\ p = call[l].pub
    BY <1>1 DEF Calling, CallRight
  <1>2. /\ Home[p] = b /\ Where(s) = l
        /\ state[s] = "live" /\ b \notin Connected(s) /\ b \notin call[l].todo
        /\ call[l].todo \cap Connected(s) = {}
    BY <1>0, <1>1 DEF CallRight, CallLive, Calling
  <1>3. CASE Dies(l)
    BY <1>3, DiesFeeds
  <1>4. CASE /\ conns' = Emplaced(s, b, p) /\ GoOn(l) /\ state' = state
             /\ feeds' \in {feeds, [feeds EXCEPT ![s][p] = @ + 1]}
    <2>1. conns' = [conns EXCEPT ![s] = @ \cup {<<b, p>>}]
      BY <1>2, <1>4 DEF Emplaced
    <2>2. /\ conns' \in [Sub -> SUBSET (Node \X Pub)]
          /\ conns'[s] = conns[s] \cup {<<b, p>>}
          /\ \A r \in Sub \ {s} : conns'[r] = conns[r]
      BY <1>2, <2>1 DEF RInv, FeedsRight
    <2>3. \A q \in Pub : Home[q] = b => feeds[s][q] = 0
      <3>1. ASSUME NEW q \in Pub, Home[q] = b, feeds[s][q] > 0 PROVE FALSE
        <4>1. <<b, q>> \in conns[s]
          BY <1>2, <3>1 DEF RInv, FeedsRight, OneFeed
        <4> QED BY <1>2, <4>1 DEF Connected
      <3> QED BY <1>2, <3>1 DEF RInv, FeedsRight
    <2>4. /\ feeds' \in [Sub -> [Pub -> Nat]]
          /\ \A r \in Sub, q \in Pub :
                feeds'[r][q] = feeds[r][q] \/ (r = s /\ q = p /\ feeds'[r][q] = 1)
      <3>1. CASE feeds' = feeds
        BY <3>1 DEF RInv, FeedsRight
      <3>2. CASE feeds' = [feeds EXCEPT ![s][p] = @ + 1]
        BY <1>2, <2>3, <3>2 DEF RInv, FeedsRight
      <3> QED BY <1>4, <3>1, <3>2
    <2>5. ASSUME NEW r \in Sub, state'[r] = "new"
          PROVE  conns'[r] = {} /\ \A q \in Pub : feeds'[r][q] = 0
      <3>1. r # s /\ conns[r] = {} /\ \A q \in Pub : feeds[r][q] = 0
        BY <1>2, <1>4, <2>5 DEF RInv, FeedsRight, Fresh
      <3> QED BY <2>2, <2>4, <3>1
    <2>6. OneFeed'
      <3> SUFFICES ASSUME NEW r \in Sub, NEW q \in Pub, feeds'[r][q] > 0
                   PROVE  /\ feeds'[r][q] = 1
                          /\ \A u \in Pub \ {q} : Home[u] = Home[q] => feeds'[r][u] = 0
                          /\ state'[r] = "live" => <<Home[q], q>> \in conns'[r]
        BY DEF OneFeed
      <3>1. CASE feeds'[r][q] = feeds[r][q] /\ ~(r = s /\ Home[q] = b)
        BY <1>2, <1>4, <2>2, <2>4, <3>1 DEF RInv, FeedsRight, OneFeed
      <3>2. CASE r = s /\ Home[q] = b
        <4>1. q = p /\ feeds'[r][q] = 1
          BY <2>3, <2>4, <3>2
        <4> QED BY <1>2, <2>2, <2>3, <2>4, <3>2, <4>1
      <3> QED BY <1>2, <2>4, <3>1, <3>2
    <2>7. ASSUME NEW k \in Loop PROVE CallLive(k)'
      <3>1. CASE k = l
        <4>1. call'[l] = Busy(s, "next", NoOne, NoOne, call[l].todo)
          BY <1>0, <1>4 DEF GoOn, RInv, IInv, CallsRight
        <4>2. call[l].todo \cap (Connected(s) \cup {b}) = {}
          BY <1>2
        <4>3. Connected(s)' \subseteq Connected(s) \cup {b}
          BY <2>2 DEF Connected
        <4> QED BY <1>2, <1>4, <3>1, <4>1, <4>2, <4>3 DEF CallLive, Busy
      <3>2. CASE k # l
        <4>1. call'[k] = call[k]
          BY <1>4, <3>2 DEF GoOn
        <4>2. CASE call[k].stage \in Stages
          <5>1. call[k].sub \in Sub \ {s}
            BY <1>2, <3>2, <4>2, CallOwn DEF RInv
          <5> QED BY <1>4, <2>2, <4>1, <5>1 DEF CallLive, Connected, RInv, FeedsRight
        <4>3. CASE call[k].stage \notin Stages
          BY <4>1, <4>3 DEF CallLive
        <4> QED BY <4>2, <4>3
      <3> QED BY <3>1, <3>2
    <2> QED BY <2>2, <2>4, <2>5, <2>6, <2>7 DEF FeedsRight, Fresh
  <1> QED BY <1>0, <1>3, <1>4 DEF ServeHeader, HeaderLost

\* The registry and the connections are right initially.
LEMMA InitRInv == Init => RInv
  <1> SUFFICES ASSUME Init PROVE RInv
    OBVIOUS
  <1>1. RegistryRight
    BY DEF Init, RegistryRight, OneKey, RegistryLive, MasterAgrees
  <1>2. FeedsRight
    BY DEF Init, FeedsRight, Fresh, OneFeed, CallLive, Idle, Stages
  <1> QED BY <1>1, <1>2, InitIInv DEF RInv

-----------------------------------------------------------------------------
(* The theorems.                                                           *)

\* The inductive invariant is an invariant of the specification.
THEOREM Invariance == Spec => []IInv
  <1>1. Init => IInv
    BY InitIInv
  <1>2. IInv /\ [Next]_vars => IInv'
    <2> SUFFICES ASSUME IInv, [Next]_vars PROVE IInv'
      OBVIOUS
    <2>1. ASSUME NEW p \in Pub, CreatePublisher(p) \/ DestroyPublisher(p) PROVE IInv'
      BY <2>1, PublisherSteps
    <2>2. ASSUME NEW s \in Sub, CreateSubscriber(s) \/ DestroySubscriber(s) PROVE IInv'
      BY <2>2, SubscriberSteps
    <2>3. ASSUME NEW n \in Node, PublisherUpdate(n) PROVE IInv'
      BY <2>3, UpdateStep
    <2>4. ASSUME NEW l \in Loop, NextUri(l) PROVE IInv'
      BY <2>4, NextUriStep, RegistrationsSame DEF NextUri, IInv
    <2>5. ASSUME NEW l \in Loop, ServeRequestTopic(l) PROVE IInv'
      BY <2>5, RequestTopicStep
    <2>6. ASSUME NEW l \in Loop, Quiet, RequestRefused(l) \/ Connect(l) PROVE IInv'
      BY <2>6, ConnectStep
    <2>7. ASSUME NEW l \in Loop, ServeHeader(l) \/ HeaderLost(l) PROVE IInv'
      BY <2>7, HeaderSteps
    <2>8. ASSUME NEW l \in Loop, Kill(l) PROVE IInv'
      BY <2>8, DiesStep DEF Kill
    <2>9. CASE UNCHANGED vars
      <3>1. CallsRight'
        BY <2>9 DEF vars, IInv, CallsRight, CallRight, Calling, Idle, Stages, Where, Publishes
      <3>2. UNCHANGED <<m_topics, m_subscribers, masterPubs, masterSubs, inbox>>
        BY <2>9 DEF vars
      <3> QED BY <3>1, <3>2, RegistrationsSame DEF IInv
    <2> QED BY <2>1, <2>2, <2>3, <2>4, <2>5, <2>6, <2>7, <2>8, <2>9 DEF Next
  <1> QED BY <1>1, <1>2, PTL DEF Spec

\* The registry and the connections stay right.
THEOREM RegistryInvariance == Spec => []RInv
  <1>1. IInv' /\ RInv /\ [Next]_vars => RInv'
    <2> SUFFICES ASSUME RInv, [Next]_vars PROVE RegistryRight' /\ FeedsRight'
      BY DEF RInv
    <2>1. ASSUME NEW p \in Pub, CreatePublisher(p) \/ DestroyPublisher(p)
          PROVE  RegistryRight' /\ FeedsRight'
      BY <2>1, PublisherRegistry, PublisherFeeds
    <2>2. ASSUME NEW s \in Sub, CreateSubscriber(s) \/ DestroySubscriber(s)
          PROVE  RegistryRight' /\ FeedsRight'
      BY <2>2, SubscriberRegistry, SubscriberFeeds
    <2>3. ASSUME NEW l \in Loop, Dies(l) PROVE RegistryRight' /\ FeedsRight'
      BY <2>3, DiesRegistry, DiesFeeds
    <2>4. ASSUME UNCHANGED <<state, down, m_topics, m_subscribers, masterPubs, masterSubs>>
          PROVE  RegistryRight'
      BY <2>4, RegistrySame DEF RInv
    <2>5. ASSUME NEW n \in Node, PublisherUpdate(n) PROVE RegistryRight' /\ FeedsRight'
      BY <2>4, <2>5, CallSteps DEF PublisherUpdate
    <2>6. ASSUME NEW l \in Loop, NextUri(l) PROVE RegistryRight' /\ FeedsRight'
      BY <2>4, <2>6, CallSteps DEF NextUri
    <2>7. ASSUME NEW l \in Loop, ServeRequestTopic(l) PROVE RegistryRight' /\ FeedsRight'
      BY <2>3, <2>4, <2>7, CallSteps DEF ServeRequestTopic
    <2>8. ASSUME NEW l \in Loop, Quiet, RequestRefused(l) \/ Connect(l)
          PROVE  RegistryRight' /\ FeedsRight'
      BY <2>4, <2>8, CallSteps DEF Quiet
    <2>9. ASSUME NEW l \in Loop, ServeHeader(l) \/ HeaderLost(l)
          PROVE  RegistryRight' /\ FeedsRight'
      BY <2>3, <2>4, <2>9, HeaderFeeds DEF ServeHeader, HeaderLost
    <2>10. ASSUME NEW l \in Loop, Kill(l) PROVE RegistryRight' /\ FeedsRight'
      BY <2>3, <2>10 DEF Kill
    <2>11. CASE UNCHANGED vars
      <3>1. UNCHANGED <<state, conns, feeds, call>>
        BY <2>11 DEF vars
      <3>2. FeedsRight'
        BY <3>1, CallLiveSame DEF RInv, FeedsRight, Fresh, OneFeed
      <3> QED BY <2>4, <2>11, <3>2 DEF vars
    <2> QED BY <2>1, <2>2, <2>5, <2>6, <2>7, <2>8, <2>9, <2>10, <2>11 DEF Next
  <1> QED BY <1>1, InitRInv, Invariance, PTL DEF Spec

\* Type correctness, and that the maps of a node have one entry for a topic.
THEOREM TypeCorrect == Spec => []TypeOK
  <1>1. RInv => TypeOK
    <2> SUFFICES ASSUME RInv PROVE TypeOK
      OBVIOUS
    <2>1. \A x, y \in m_topics \cup m_subscribers :
             SameKey(x, y) /\ (x \in Pub <=> y \in Pub) => x = y
      BY DiscoveryAssumption DEF RInv, IInv, Registered, RegistryRight, OneKey
    <2> QED BY <2>1 DEF RInv, IInv, RegistryRight, FeedsRight, CallsRight, Calling,
                        InboxRight, Update, Registered, TypeOK
  <1> QED BY <1>1, RegistryInvariance, PTL

\* No node keeps the callback of an object that has gone, or gives out its port.
THEOREM NothingStale == Spec => []RegistryLive
  <1>1. RInv => RegistryLive
    BY DEF RInv, RegistryRight
  <1> QED BY <1>1, RegistryInvariance, PTL

\* The master and the nodes that are there agree.
THEOREM Agreement == Spec => []MasterAgrees
  <1>1. RInv => MasterAgrees
    BY DEF RInv, RegistryRight
  <1> QED BY <1>1, RegistryInvariance, PTL

\* A subscriber has one open connection to a node at most, and knows of it.
THEOREM SingleFeed == Spec => []OneFeed
  <1>1. RInv => OneFeed
    BY DEF RInv, FeedsRight
  <1> QED BY <1>1, RegistryInvariance, PTL

\* A loop only waits for loops that run a publisher of the topic it connects
\* one of its subscribers to.
LEMMA WaitsForPublisher ==
    ASSUME IInv, NEW l \in Loop, NEW k \in WaitsFor(l)
    PROVE  \E p \in Pub, s \in Sub : Topic[p] = Topic[s] /\ Where(p) = k /\ Where(s) = l
  <1>1. call[l].stage \in {"request", "header"}
    BY DEF WaitsFor
  <1>2. call[l] \in Calling /\ CallRight(l, call[l])
    BY <1>1, CallFacts DEF Stages
  <1>3. CASE call[l].stage = "request"
    <2>1. k = LoopOf[call[l].at]
      BY <1>3 DEF WaitsFor
    <2>2. Publishes(call[l].at, Topic[call[l].sub]) /\ Where(call[l].sub) = l
      BY <1>2, <1>3 DEF CallRight
    <2> QED BY <1>2, <2>1, <2>2 DEF Publishes, Where, Calling
  <1>4. CASE call[l].stage = "header"
    <2>1. k = Where(call[l].pub)
      BY <1>4 DEF WaitsFor
    <2> QED BY <1>2, <1>4, <2>1 DEF CallRight, Calling
  <1> QED BY <1>1, <1>3, <1>4

\* No loops wait for each other in a circle with their blocking calls.
NoCircularWait ==
    \A S \in SUBSET Loop : S # {} => \E l \in S : WaitsFor(l) \cap S = {}

\* Of any set of loops there is one of least rank.
LEMMA LeastRank ==
    ASSUME NEW Rank \in [Loop -> Nat], NEW S \in SUBSET Loop, S # {}
    PROVE  \E l \in S : \A k \in S : ~(Rank[k] < Rank[l])
  <1> DEFINE R == {Rank[k] : k \in S}
  <1>1. R \subseteq Nat /\ R # {}
    OBVIOUS
  <1>2. PICK m \in R : \A i \in R : ~(<<i, m>> \in OpToRel(<, Nat))
    BY <1>1, NatLessThanWellFounded, WFMin
  <1>3. \A i \in R : ~(i < m)
    BY <1>1, <1>2 DEF OpToRel
  <1> QED BY <1>3

\* Where topics lead from lower loops to higher ones, whatever their number,
\* no loops wait for each other in a circle: the lowest of any set of loops
\* only waits for loops outside it.
THEOREM NoCircle ==
    ASSUME NEW Rank \in [Loop -> Nat],
           \A p \in Pub, s \in Sub :
              Topic[p] = Topic[s] => Rank[Where(p)] < Rank[Where(s)]
    PROVE  Spec => []NoCircularWait
  <1>1. IInv => NoCircularWait
    <2> SUFFICES ASSUME IInv, NEW S \in SUBSET Loop, S # {}
                 PROVE  \E l \in S : WaitsFor(l) \cap S = {}
      BY DEF NoCircularWait
    <2>1. PICK l \in S : \A k \in S : ~(Rank[k] < Rank[l])
      BY LeastRank
    <2>2. ASSUME NEW k \in WaitsFor(l) \cap S PROVE FALSE
      BY <2>1, <2>2, WaitsForPublisher
    <2> QED BY <2>2
  <1> QED BY <1>1, Invariance, PTL

\* With the process of a loop its objects are gone.
NoneLeft == \A x \in Pub \cup Sub : Where(x) \in down => state[x] # "live"

\* It holds in every reachable state: objects are made on free loops only.
LEMMA Gone == Spec => []NoneLeft
  <1>1. Init => NoneLeft
    BY DEF Init, NoneLeft
  <1>2. RInv /\ NoneLeft /\ [Next]_vars => NoneLeft'
    <2> SUFFICES ASSUME RInv, NoneLeft, [Next]_vars PROVE NoneLeft'
      OBVIOUS
    <2>1. state \in [Pub \cup Sub -> {"new", "live", "dead"}]
      BY DEF RInv, RegistryRight
    <2>2. ASSUME NEW x \in Pub \cup Sub, Free(Where(x)), down' = down,
                 \A y \in Pub \cup Sub : y # x => state'[y] = state[y]
          PROVE  NoneLeft'
      BY <2>2 DEF NoneLeft, Free, Where
    <2>3. ASSUME NEW p \in Pub, CreatePublisher(p) \/ DestroyPublisher(p) PROVE NoneLeft'
      BY <2>1, <2>2, <2>3 DEF CreatePublisher, RegisterPublisher, DestroyPublisher, MayCreate
    <2>4. ASSUME NEW s \in Sub, CreateSubscriber(s) \/ DestroySubscriber(s) PROVE NoneLeft'
      BY <2>1, <2>2, <2>4 DEF CreateSubscriber, RegisterSubscriber, DestroySubscriber, MayCreate
    <2>5. ASSUME UNCHANGED <<state, down>> PROVE NoneLeft'
      BY <2>5 DEF NoneLeft, Where
    <2>6. ASSUME NEW l \in Loop, Dies(l) PROVE NoneLeft'
      BY <2>6 DEF Dies, NoneLeft, Where, On
    <2>7. ASSUME NEW n \in Node, PublisherUpdate(n) PROVE NoneLeft'
      BY <2>5, <2>7 DEF PublisherUpdate
    <2>8. ASSUME NEW l \in Loop,
                 \/ NextUri(l) \/ ServeRequestTopic(l)
                 \/ (RequestRefused(l) \/ Connect(l)) /\ Quiet
                 \/ ServeHeader(l) \/ HeaderLost(l) \/ Kill(l)
          PROVE  NoneLeft'
      BY <2>5, <2>6, <2>8 DEF NextUri, ServeRequestTopic, Quiet, ServeHeader, HeaderLost, Kill
    <2>9. CASE UNCHANGED vars
      BY <2>5, <2>9 DEF vars
    <2> QED BY <2>3, <2>4, <2>7, <2>8, <2>9 DEF Next
  <1> QED BY <1>1, <1>2, RegistryInvariance, PTL DEF Spec

\* Nor are they stuck in any other way: of the loops in blocking calls the one
\* of least rank has its answer, or is served by a loop that is in none.
THEOREM NeverStuck ==
    ASSUME NEW Rank \in [Loop -> Nat],
           \A p \in Pub, s \in Sub :
              Topic[p] = Topic[s] => Rank[Where(p)] < Rank[Where(s)]
    PROVE  Spec => []Unblocked
  <1>1. IInv /\ NoneLeft => Unblocked
    <2> SUFFICES ASSUME IInv, NoneLeft, NEW S \in SUBSET Loop, \E l \in S : call[l] # Idle,
                        \A l \in S : WaitsFor(l) \subseteq S,
                        \A l \in S : ~CanGoOn(l)
                 PROVE  FALSE
      BY DEF Unblocked
    <2>1. PICK l \in S : call[l] # Idle /\ \A m \in S : call[m] # Idle => ~(Rank[m] < Rank[l])
      <3> DEFINE Q == {m \in S : call[m] # Idle}
      <3>1. Q \in SUBSET Loop /\ Q # {}
        OBVIOUS
      <3>2. \E m \in Q : \A i \in Q : ~(Rank[i] < Rank[m])
        BY <3>1, LeastRank
      <3> QED BY <3>2
    <2>2. call[l] \in Calling /\ CallRight(l, call[l]) /\ call[l].stage \in {"request", "header"}
      <3>1. call[l] \in Calling /\ CallRight(l, call[l])
        BY <2>1 DEF IInv, CallsRight
      <3> QED BY <3>1 DEF CanGoOn, Calling, Stages
    <2>3. \E m \in WaitsFor(l) : m \in Loop /\ ~Free(m) /\ m \notin down
      <3>1. CASE call[l].stage = "request"
        <4>1. call[l].at \in Node /\ LoopOf[call[l].at] \notin down
              /\ ~Free(LoopOf[call[l].at])
          BY <2>2, <3>1 DEF CanGoOn, CallRight
        <4>2. LoopOf[call[l].at] \in Loop
          BY <4>1, DiscoveryAssumption
        <4> QED BY <3>1, <4>1, <4>2 DEF WaitsFor
      <3>2. CASE call[l].stage = "header"
        <4>1. call[l].pub \in Pub /\ state[call[l].pub] = "live" /\ ~Free(Where(call[l].pub))
          BY <2>2, <3>2 DEF CanGoOn, CallRight
        <4>2. Where(call[l].pub) \in Loop /\ Where(call[l].pub) \notin down
          BY <4>1, DiscoveryAssumption DEF Where, NoneLeft
        <4> QED BY <3>2, <4>1, <4>2 DEF WaitsFor
      <3> QED BY <2>2, <3>1, <3>2
    <2>4. PICK m \in WaitsFor(l) : m \in S /\ call[m] # Idle
      BY <2>3 DEF Free
    <2>5. Rank[m] < Rank[l]
      BY <2>4, WaitsForPublisher
    <2> QED BY <2>1, <2>4, <2>5
  <1> QED BY <1>1, Invariance, Gone, PTL

-----------------------------------------------------------------------------
(* What a blocking call does.                                              *)

\* From one URI a call goes on to the next, and through the stages of each.
Moves(c, d) ==
    /\ d.sub = c.sub
    /\ IF c.stage = "next"
         THEN d.stage = "request" /\ d.at \in c.todo /\ d.todo = c.todo \ {d.at}
         ELSE /\ d.todo = c.todo
              /\ \/ d.stage = "next"
                 \/ c.stage = "request" /\ d.stage = "connect"
                 \/ c.stage = "connect" /\ d.stage = "header"

\* A loop in a blocking call takes up nothing else before the call has ended,
\* and the call never goes back.
Forward ==
    [][\A l \in Loop :
          call[l] # Idle /\ call'[l] # Idle /\ call'[l] # call[l] => Moves(call[l], call'[l])]_vars

\* Steps of a loop in a call move the call on, or end it.
LEMMA CallMoves ==
    ASSUME IInv, NEW l \in Loop, call[l] # Idle,
           NextUri(l) \/ ServeRequestTopic(l) \/ RequestRefused(l) \/ Connect(l)
              \/ ServeHeader(l) \/ HeaderLost(l) \/ Kill(l),
           call'[l] # Idle
    PROVE  /\ Moves(call[l], call'[l])
           /\ \A k \in Loop \ {l} : call'[k] = call[k]
  <1>1. call \in [Loop -> {Idle} \cup Calling] /\ call[l] \in Calling
    BY DEF IInv, CallsRight
  <1>2. ASSUME GoOn(l), call[l].stage # "next"
        PROVE  Moves(call[l], call'[l]) /\ \A k \in Loop \ {l} : call'[k] = call[k]
    BY <1>1, <1>2 DEF GoOn, Busy, Moves
  <1>3. ASSUME Dies(l) PROVE FALSE
    BY <1>1, <1>3 DEF Dies
  <1>4. CASE NextUri(l)
    <2>1. PICK b \in call[l].todo :
             call' = [call EXCEPT ![l] = Busy(@.sub, "request", b, NoOne, @.todo \ {b})]
      BY <1>1, <1>4 DEF NextUri
    <2> QED BY <1>1, <1>4, <2>1 DEF NextUri, Busy, Moves
  <1>5. CASE ServeRequestTopic(l)
    <2>1. CASE GoOn(l)
      BY <1>2, <1>5, <2>1 DEF ServeRequestTopic
    <2>2. ASSUME NEW b, NEW p \in Pub,
                 call' = [call EXCEPT ![l] = Busy(@.sub, "connect", b, p, @.todo)]
          PROVE  Moves(call[l], call'[l]) /\ \A k \in Loop \ {l} : call'[k] = call[k]
      BY <1>1, <1>5, <2>2 DEF ServeRequestTopic, Busy, Moves
    <2>3. \/ GoOn(l) \/ Dies(l)
          \/ \E p \in m_topics :
                call' = [call EXCEPT ![l] = Busy(@.sub, "connect", call[l].at, p, @.todo)]
      BY <1>5 DEF ServeRequestTopic
    <2> QED BY <1>3, <2>1, <2>2, <2>3 DEF IInv, Registered
  <1>6. CASE RequestRefused(l)
    BY <1>2, <1>6 DEF RequestRefused
  <1>7. CASE Connect(l)
    <2>1. CASE GoOn(l)
      BY <1>2, <1>7, <2>1 DEF Connect
    <2>2. CASE call' = [call EXCEPT ![l].stage = "header"]
      BY <1>1, <1>7, <2>2 DEF Connect, Moves, Calling
    <2> QED BY <1>7, <2>1, <2>2 DEF Connect
  <1>8. CASE ServeHeader(l)
    BY <1>2, <1>8 DEF ServeHeader
  <1>9. CASE HeaderLost(l) \/ Kill(l)
    BY <1>2, <1>3, <1>9 DEF HeaderLost, Kill
  <1> QED BY <1>4, <1>5, <1>6, <1>7, <1>8, <1>9

\* Blocking calls only move forward.  With NeverStuck, which finds a loop that
\* can take the next step of its call, this is why calls end: each takes no
\* more than four steps for each URI.
THEOREM OnlyForward == Spec => Forward
  <1>1. IInv /\ [Next]_vars =>
           [\A l \in Loop : call[l] # Idle /\ call'[l] # Idle /\ call'[l] # call[l]
               => Moves(call[l], call'[l])]_vars
    <2> SUFFICES ASSUME IInv, Next, NEW l \in Loop,
                        call[l] # Idle, call'[l] # Idle, call'[l] # call[l]
                 PROVE  Moves(call[l], call'[l])
      OBVIOUS
    <2>1. call \in [Loop -> {Idle} \cup Calling]
      BY DEF IInv, CallsRight
    <2>2. ASSUME NEW k \in Loop,
                 NextUri(k) \/ ServeRequestTopic(k) \/ RequestRefused(k) \/ Connect(k)
                    \/ ServeHeader(k) \/ HeaderLost(k) \/ Kill(k)
          PROVE  Moves(call[l], call'[l])
      <3>1. CASE k = l
        BY <2>2, <3>1, CallMoves
      <3>2. CASE k # l
        <4>1. call'[l] = call[l]
          BY <2>1, <2>2, <3>2 DEF NextUri, ServeRequestTopic, RequestRefused, Connect,
                                  ServeHeader, HeaderLost, Kill, GoOn, Dies
        <4> QED BY <4>1
      <3> QED BY <3>1, <3>2
    <2>3. ASSUME NEW p \in Pub, CreatePublisher(p) \/ DestroyPublisher(p) PROVE FALSE
      BY <2>3 DEF CreatePublisher, RegisterPublisher, DestroyPublisher
    <2>4. ASSUME NEW s \in Sub, CreateSubscriber(s) \/ DestroySubscriber(s) PROVE FALSE
      BY <2>1, <2>4 DEF CreateSubscriber, RegisterSubscriber, DestroySubscriber, MayCreate, Free
    <2>5. ASSUME NEW n \in Node, PublisherUpdate(n) PROVE FALSE
      BY <2>1, <2>5 DEF PublisherUpdate, Free
    <2> QED BY <2>2, <2>3, <2>4, <2>5 DEF Next
  <1> QED BY <1>1, Invariance, PTL DEF Spec, Forward

\* A Subscriber that lives never forgets the URI of a node it has connected to,
\* and never connects to that node again.
NeverAgain ==
    [][\A s \in Sub : state[s] = "live" =>
          /\ state'[s] = "live" => Connected(s) \subseteq Connected(s)'
          /\ \A p \in Pub : Home[p] \in Connected(s) => feeds'[s][p] <= feeds[s][p]]_vars

\* That is why a node that gives a topic up and publishes it again is not
\* connected to again (notify_new_pubs looks its URI up and finds it).
THEOREM OnceOnly == Spec => NeverAgain
  <1>1. RInv /\ [Next]_vars =>
           [\A s \in Sub : state[s] = "live" =>
               /\ state'[s] = "live" => Connected(s) \subseteq Connected(s)'
               /\ \A p \in Pub : Home[p] \in Connected(s) => feeds'[s][p] <= feeds[s][p]]_vars
    <2> SUFFICES ASSUME RInv, Next, NEW s \in Sub, state[s] = "live"
                 PROVE  /\ state'[s] = "live" => Connected(s) \subseteq Connected(s)'
                        /\ \A p \in Pub : Home[p] \in Connected(s) => feeds'[s][p] <= feeds[s][p]
      OBVIOUS
    <2>1. /\ conns \in [Sub -> SUBSET (Node \X Pub)] /\ feeds \in [Sub -> [Pub -> Nat]]
          /\ state \in [Pub \cup Sub -> {"new", "live", "dead"}]
          /\ IInv /\ \A l \in Loop : CallLive(l)
      BY DEF RInv, FeedsRight, RegistryRight
    <2>2. ASSUME conns'[s] = conns[s], \A p \in Pub : feeds'[s][p] \in {feeds[s][p], 0}
          PROVE  /\ Connected(s) \subseteq Connected(s)'
                 /\ \A p \in Pub : feeds'[s][p] <= feeds[s][p]
      BY <2>1, <2>2 DEF Connected
    <2>3. ASSUME NEW l \in Loop, NEW b, NEW p, conns' = Emplaced(call[l].sub, b, p)
          PROVE  Connected(s) \subseteq Connected(s)'
      BY <2>1, <2>3 DEF Emplaced, Connected
    <2>4. ASSUME NEW l \in Loop, ServeHeader(l)
          PROVE  /\ Connected(s) \subseteq Connected(s)'
                 /\ \A p \in Pub : Home[p] \in Connected(s) => feeds'[s][p] <= feeds[s][p]
      <3>1. Connected(s) \subseteq Connected(s)'
        BY <2>3, <2>4 DEF ServeHeader
      <3>2. ASSUME NEW p \in Pub, Home[p] \in Connected(s) PROVE feeds'[s][p] = feeds[s][p]
        <4>1. /\ call[l].stage = "header"
              /\ feeds' = [feeds EXCEPT ![call[l].sub][call[l].pub] = @ + 1]
          BY <2>4 DEF ServeHeader
        <4>2. /\ Home[call[l].pub] = call[l].at
              /\ call[l].at \notin Connected(call[l].sub)
              /\ call[l].sub \in Sub /\ call[l].pub \in Pub
          BY <2>1, <4>1, CallFacts DEF CallLive, Stages, Calling, CallRight
        <4> QED BY <2>1, <3>2, <4>1, <4>2
      <3> QED BY <2>1, <3>1, <3>2
    <2>5. ASSUME NEW l \in Loop, Dies(l)
          PROVE  /\ Connected(s) \subseteq Connected(s)'
                 /\ \A p \in Pub : feeds'[s][p] <= feeds[s][p]
      <3>1. conns'[s] = conns[s] /\ \A p \in Pub : feeds'[s][p] \in {feeds[s][p], 0}
        BY <2>5 DEF Dies
      <3> QED BY <2>2, <3>1
    <2>6. ASSUME NEW l \in Loop, HeaderLost(l)
          PROVE  /\ Connected(s) \subseteq Connected(s)'
                 /\ \A p \in Pub : feeds'[s][p] <= feeds[s][p]
      <3>1. CASE Dies(l)
        BY <2>5, <3>1
      <3>2. CASE conns' = Emplaced(call[l].sub, call[l].at, call[l].pub) /\ feeds' = feeds
        <4>1. Connected(s) \subseteq Connected(s)'
          BY <2>3, <3>2
        <4> QED BY <2>1, <3>2, <4>1
      <3> QED BY <2>6, <3>1, <3>2 DEF HeaderLost
    <2>7. ASSUME NEW l \in Loop,
                 \/ NextUri(l) \/ ServeRequestTopic(l) \/ Kill(l)
                 \/ (RequestRefused(l) \/ Connect(l)) /\ Quiet
          PROVE  /\ Connected(s) \subseteq Connected(s)'
                 /\ \A p \in Pub : feeds'[s][p] <= feeds[s][p]
      BY <2>2, <2>5, <2>7 DEF NextUri, ServeRequestTopic, Quiet, Kill
    <2>8. ASSUME NEW p \in Pub, CreatePublisher(p) \/ DestroyPublisher(p)
          PROVE  /\ Connected(s) \subseteq Connected(s)'
                 /\ \A q \in Pub : feeds'[s][q] <= feeds[s][q]
      BY <2>1, <2>2, <2>8 DEF CreatePublisher, RegisterPublisher, DestroyPublisher
    <2>9. ASSUME NEW r \in Sub, CreateSubscriber(r) \/ DestroySubscriber(r)
          PROVE  /\ state'[s] = "live" => Connected(s) \subseteq Connected(s)'
                 /\ \A p \in Pub : feeds'[s][p] <= feeds[s][p]
      <3>1. feeds' = feeds /\ (state'[s] = "live" => conns'[s] = conns[s])
        BY <2>1, <2>9 DEF CreateSubscriber, RegisterSubscriber, DestroySubscriber
      <3> QED BY <2>1, <3>1 DEF Connected
    <2>10. ASSUME NEW n \in Node, PublisherUpdate(n)
           PROVE  /\ Connected(s) \subseteq Connected(s)'
                  /\ \A p \in Pub : feeds'[s][p] <= feeds[s][p]
      BY <2>2, <2>10 DEF PublisherUpdate
    <2> QED BY <2>4, <2>6, <2>7, <2>8, <2>9, <2>10 DEF Next
  <1> QED BY <1>1, RegistryInvariance, PTL DEF Spec, NeverAgain
=============================================================================
