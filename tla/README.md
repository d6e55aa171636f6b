# Specifications of rosasio

rosasio is a header-only C++ rewrite of the ROS 1 client library on top of
`boost::asio`: publishers, subscribers, services and timers whose handlers all
run on the event loop of one thread. These TLA+ modules model its protocol
handling, the TLC configurations check them on small instances, and the
`*Proofs` modules hold theorems about them that TLAPS has checked. Line numbers
refer to `include/rosasio/`.

## 1. The system

| Component | State it keeps | Operations | Interacts with |
|---|---|---|---|
| `Publisher`, `SubscriberPool`, `SubscriberConnection` (`publisher.hpp`) | acceptor, set of connections, last message of a latched topic; each connection keeps itself alive through its outstanding read | construct, `publish`, accept, handshake (`handle_read_len`, `handle_read`), `handle_close`, destroy | subscribers over TCP, `Node` to register |
| `Timer` (`timer.hpp`) | expiry of a `steady_timer` | construct, `timer_handler`, destroy | its owner's callback |
| `ThrottledPublisher`, `IntervalPublisher` | last message, a flag, a `Timer` | `publish`, `handle_interval`, destroy | the `Publisher` they derive from |
| `Node` (`node.hpp`) | maps from topics to ports and to callbacks, from services to ports; the XML-RPC server | register and unregister (blocking calls to the master); handlers `requestTopic`, `publisherUpdate`, `lookupService`, `getPid`, `shutdown` | the master, other nodes |
| `Subscriber` (`subscriber.hpp`) | `m_publisher_connections`, by the publisher's URI | construct, `notify_new_pubs`, `create_publisher_connection` (blocking), destroy | `Node`, the master, publishers' nodes |
| `PublisherConnection` (`subscriber.hpp`) | `msglen`, `buf`, one outstanding read | blocking handshake, then length / body / length / ... | a publisher over TCP, the user's callback |
| `ServiceServer`, `ClientConnection` (`service_server.hpp`) | acceptor; a chain of handlers for each connection | construct, accept, handshake, request, callback, reply, destroy | callers over TCP, `Node` to register |
| `ServiceClient` (`service_client.hpp`) | none between calls | `call`: lookup, connect, handshake, request, response, all blocking | the master, a server |
| `XmlRpcServer`, `Connection` (`xmlrpc_server.hpp`) | acceptor, list of connections, table of methods | accept, read a request, run a method, write the answer, close | carries the calls to `Node`'s handlers |
| `Message` (`header.hpp`) | a byte buffer | `add_field`, `finish` | used by every handshake |
| `Exec` (`node.hpp`) | the `io_context`, a signal set | `run`, stop on SIGINT and SIGTERM | everything |
| the ROS master | tables of publishers, subscribers, services | not in this repository | `Node`, `ServiceClient` |

What is hard here. The library has one thread, so no two handlers overlap, but
an operation completes in one step and its handler runs in a later one, and
anything else the loop runs may come between: a publish, the destruction of the
object the handler belongs to, the end of the peer. Three handlers
(`accept_handler` of `Publisher`, `ServiceServer` and `XmlRpcServer`) and a queued
`Timer::timer_handler` are bound to a raw `this`. Blocking calls, and blocking
writes into full buffers, stop a loop until another loop has done its part.
Errors are ignored in several reads. Objects outlive each other: connections
live on after the `Subscriber`, the `Publisher`, the `ServiceServer` or the `Node`
that made them, and the connections of an `XmlRpcServer` live as long as it does.

What makes each component correct:

- a topic: each subscriber gets the header, then every message from the moment
  it joins, once and in order, a latched one first; dead subscribers leave the
  pool, waiting ones join it; tearing down leaves nothing behind;
- timers: no more callbacks than intervals have passed, none skipped; what a
  throttled publisher is given gets out in time, newest last;
- discovery: what the master says of a node is true; a subscriber has one
  connection to each publisher of its topic, and blocking calls end;
- the receive loop: lengths and bodies stay in step whatever pieces they come in;
- the way of messages through several loops: none is lost or overtaken while
  buffers fill and callbacks publish in turn, and writes that wait come to an end;
- services: the callback runs at most once for a call, a call is answered only
  when it has run, and returns without an answer only when its server has ended;
  a server that ends takes back its own registration; calls and connections come
  to an end;
- the XML-RPC server: a method runs at most once for a request and before its
  answer; requests that have been dealt with cost no descriptor; an answer that
  is due arrives, that of `shutdown` too.

`PROJECT.json` lists the hazards line by line with the properties aimed at them.

## 2. Modules

| Module | Models | Instances for TLC | Theorems |
|---|---|---|---|
| `Topic` | what a topic promises (abstract) | | |
| `Publisher` | `publisher.hpp`; implements `Topic` | itself | `PublisherProofs` |
| `Timer` | `timer.hpp`; actions only, extended by the next two | | |
| `ThrottledPublisher` | `throttled_publisher.hpp` | itself | `ThrottledPublisherProofs` |
| `IntervalPublisher` | `interval_publisher.hpp` | itself | `IntervalPublisherProofs` |
| `Discovery` | registration in `node.hpp`, `Subscriber` in `subscriber.hpp`, the master | `MCDiscovery` | `DiscoveryProofs` |
| `Broadcast` | what a graph of topics promises, as if nothing waited (abstract) | | |
| `Receiver` | `PublisherConnection` in `subscriber.hpp`; implements `Broadcast` | itself | `ReceiverProofs` |
| `Rpc` | what a service promises (abstract) | | |
| `Service` | `service_server.hpp`, `service_client.hpp`; implements `Rpc` | `MCService` | `ServiceProofs` |
| `XmlRpcServer` | `xmlrpc_server.hpp`, the methods of `node.hpp`; implements `Rpc`, too | `MCXmlRpcServer` | `XmlRpcServerProofs` |
| `Flow` | publishers' writes and subscribers' callbacks of several loops (`publisher.hpp`, `subscriber.hpp`); implements `Broadcast` | `MCFlow` | `FlowProofs` |

### Publisher

`op[c]` is the operation a `SubscriberConnection` has outstanding and, with it,
the handler that runs next: `"accept"`, `"len"` (`handle_read_len`), `"body"`
(`handle_read`), `"rest"` (`handle_close`), or `"gone"` once the last handler
returned without starting a read and the object was destroyed. `ec[c]` is the
completion of that operation. `AcceptReady`, `AcceptFails` and `ReadReady` are
the kernel's and asio's steps, the other actions are whole handlers.
`m_buffer.reserve` leaves a buffer of size zero (publisher.hpp:112), so the read
of the header's body takes no byte; the header stays in the socket and
`handle_close` reads it, four bytes at a time, until the subscriber ends. Bytes
are therefore counted (`unread`). A reset is reported once, as an error of the
read or of a write that `publish` swallows, and the next read finds the end of
file: `peer[c]` goes from `"reset"` to `"dead"`.

Messages are their numbers, 0 is the header. `wire[c]` is what has been written
to a peer that was still there. Blocking writes are one step here; what they
wait for is in `Flow`. `loop` also
records how the process may end: a write of the header that throws
(publisher.hpp:136), a destructor that throws (publisher.hpp:200), a handler
that runs on a destroyed `Publisher`.

### Timer, ThrottledPublisher, IntervalPublisher

A clock of ticks, started at the construction of the timer. A busy loop serves a
timer late; `Lag` bounds how late, as a guard of `Tick`. The next expiry counts
from the last one (timer.hpp:25), so a late loop finds the timer due again at
once. The history variables say when messages were published and sent.

### Discovery

Publishers, subscribers and nodes are constants with their home and topic;
loops are the units that block. A `Subscriber` that connects keeps its loop busy
in `call[l]`, through the stages of `create_publisher_connection`: `"request"`
(the blocking `requestTopic`), `"connect"`, `"header"` (the blocking read of the
publisher's header), `"next"` (the next URI). `m_topics` and `m_subscribers`
are maps by node and topic: `Inserted` keeps an entry that is there, `Erased`
removes whichever is. An undefined outcome (an element read past the end of a
reply, subscriber.hpp:184; a length nobody wrote, subscriber.hpp:53) is a choice
between the end of the process and going on. The transport of XML-RPC calls is
one step of a loop that is free; `XmlRpcServer` has its parts. `RegisterPublisher`
and `RegisterSubscriber` are the two calls to the master that `node.hpp` writes out
twice; which of them a `Subscriber` makes decides who waits for whom.

The master is not in the repository. From the calls made to it: it answers
registrations at once, tells every subscribed node about every change of a
topic's publishers in order, and its calls to a process that has gone are lost.

### Receiver

The bytes of the stream are positions: message `i` ends at `ends[i]`, `taken` of
`arrived` bytes have been read. asio tries a read as soon as it is started, so
`OnMessageReceived` may find the next length in `msglen` when it comes to
deserialize. Deserialization runs out of its buffer, and throws, when `msglen`
is then smaller than the message. A length is taken whole from its first byte,
which below 256 determines it. Should framing be lost, `LengthsAt` and `BodyAt`
give any length and message 0.

The refinement of `Broadcast` has one topic and one link between two loops. A
message is in the link's queue from the write on, whole, until the callback has
it, wherever its bytes are; a subscriber that threw has ended.

### Service

`stage[k]` is the blocking step of the call `k`, `op[k]` the operation its
`ClientConnection` has outstanding, `request` and `reply` the tokens in the two
directions. `Handles` is what all handlers share: return on an error, otherwise
start the next operation. A node is a process with a loop, and may have several
servers of the service; `Thread[k]` says which loop a call is made from, if any.

`provider` is the server the master has, `m_services` what the nodes keep. The two
go different ways: `unregister_service` tells the master the URI with the server's
own port (`OwnUri`, node.hpp:414-422), while the map keeps the first of two
servers of a node (`Inserted`) and erases by name, whichever port is there
(`Erased`). That the master heeds an unregistration only of the URI it has
(`Unregister`) is the master's, and assumed.

`call_service` looks at no error of its reads (service_client.hpp:77-115). When the
server ends before it has answered, a length nobody wrote sizes a buffer on the
stack and what is in it is deserialized. `ReadNothing` has what may come of it: an
exception, or `"misled"`, a return that the caller cannot tell from an answer;
`ReadCrashes` and `CallerKilled` have the crash. `Rpc` has `Mislead` for it, and allows
it for calls in `unserved` only, whose server has ended (destroyed, killed, or about
to go down with an exception). `unserved` only grows, in any step: servers may end
at any time, but a server that is there never misleads a caller.

A request that does not deserialize, or a callback that throws, takes the
exception out of `io_context::run` (`HandleCallThrows`, service_server.hpp:117-122):
the loop is `"thrown"`, runs nothing more, and the process ends (`KillNode`). A
call to it waits until it has. The status byte is read and ignored
(service_client.hpp:107): that the callback refused is an answer like any other.

### XmlRpcServer

`op[c]` is what a `Connection` waits for: to be accepted, for its request
(`on_read`: `"request"` or `"error"`), for its answer to be written (`on_write`).
`"done"` means that its last handler has run; the object, and with it a socket
nobody closed, then lives as long as `m_connections` has it. `open` counts against
`MaxOpen`, the descriptors the process has left: without one no accept succeeds.
What a peer may send is `Asks[c]`: a method that returns, one that throws,
`shutdown`, a name that is not there, or no request at all. `xmlrpc_c::fault` is a
`std::exception`, so the `catch` of `on_read` has every failure of a method.
asio tries a write as soon as it is started, and an answer is short, so it is out
when `on_read` returns although `shutdown` has stopped the loop (node.hpp:194).
`Destroy` is `~Node`: handlers that run afterwards look at an object that has gone,
and `loop` becomes `"undefined"`. What the methods do to a node is in `Discovery`.

### Flow

`Publisher` has one publisher whose writes never wait, `Receiver` one connection
whose callback does nothing. `Flow` joins the ends: loops, the topics published
on them, and the connections from each to a subscriber on another loop, whose
callback may publish to a topic of its own loop (`Relay`). A publish writes to the
connections of the pool one after the other (`todo`), in the order of the
`std::set`, and waits while the kernel holds `Room` messages of one that is alive.
A loop in a publish runs no handler, one that was stopped keeps its sockets open
and reads no more, and the sockets of one that was killed are gone. Connections
are there from the start: joining and leaving is `Publisher`'s part.

### Broadcast

What `Flow` and `Receiver` both implement: a publish puts its message into the
queues of all subscribers at once, and a callback that publishes does so in the
step that takes the message. For `Flow` the queue of a link is its buffer and the
message that its publisher, in the middle of a publish, is about to write to it.
So waiting for room, and writing to one connection after the other while loops
run callbacks in between, cannot be told from an immediate broadcast. The one
exception is in `Kill`: a publisher that is killed in a publish takes its last
message from some of the subscribers. `Broadcast` bounds no queue, so what it
promises holds for any `Room`.

## 3. Runs

All runs are exhaustive within their bounds. `CHECK_DEADLOCK FALSE` is set since
every system may really stop: the user does nothing more, the loop is stopped,
the clock has reached `MaxTime`.

| Run | Bounds | Shows |
|---|---|---|
| `PublisherLatched` | 2 subscribers, 2 messages, latched | type correctness, order, the pool, refinement of `Topic`, whose latched message is the latest; dead peers leave, waiting ones join |
| `PublisherTearDown` | 1 subscriber | **violated**: `handle_close` reads a closed socket for ever |
| `ThrottledLate` | interval 4, lag 3, 18 ticks, 4 messages | rate, distance, delay, order |
| `ThrottledNoFaster` | interval 4, lag 1, 16 ticks | **violated**: two messages closer than the interval |
| `IntervalLate` | interval 3, lag 4, 16 ticks, 3 messages | never silent, never old, not too many |
| `DiscoveryChain` | 3 processes in a chain: 3 publishers of 2 nodes of the first, 2 subscribers and a publisher of another topic of the second, a subscriber to that of the third, of which any 4 are created; the first two processes may be killed | maps, master and connections agree; among loops that wait for each other one can go on; calls end, subscribers connect |
| `DiscoveryAgain` | a topic published, given up and published again | **violated**: not connected again |
| `ReceiverMixed` | sizes 0, 1, 3; 3 messages | refinement of `Broadcast`, what an overrun takes, delivery, end of connection |
| `ReceiverOverrun` | sizes 1, 2; 2 messages | **violated**: the early read of the next length |
| `ServiceCalls` | 3 servers, 2 of them of one node, of which 2 are created; 2 calls, one with an empty request from the loop of that node, one that may make the callback throw; the other node may be stopped and killed | steps, registrations, refinement of `Rpc`; calls and connections end |
| `NodeCalls` | 3 peers, one of which may send anything; descriptors for 2 | leaks, refinement of `Rpc`; requests are served and answers arrive |
| `FlowFan` | 3 loops; a topic to two of them, one of which relays it to the other; room for 2 of 4 messages | nothing lost or overtaken, refinement of `Broadcast`; some blocking write can always go on; messages arrive |

Why these bounds are enough. Connections of a publisher interact only through
the pool, the acceptor and the latched message, so two of them meet in every
way; with two messages one is latched and the next published before, while or
after a subscriber joins, and a pool of two has a member from before and one
from after. A header of six bytes leaves a rest that is no multiple of four, so
`handle_close` meets an incomplete read. `IntervalLate` has a lag longer than the
interval, which makes the timer due twice at once; `ThrottledLate` one just
shorter, where the distance `SpacedSends` promises is as small as it gets
without being void (`ThrottledPublisherProofs` covers every lag). 16 and 18
ticks are more than four intervals. Three messages of three sizes contain every
pair of a message and a longer, shorter or empty next one, in every cut.
`DiscoveryChain` has two publishers and two subscribers that share an entry of
their node's maps, a list of two URIs, a URI of each kind (of a node that goes on,
that stops publishing, that is killed), and a loop that waits for a loop that
waits: the third process reads the header of the second while that reads one of
the first, and the one in the middle may be killed. `MaxObjects` leaves out three
of the seven at a time; `DiscoveryProofs` has no such bound. In `ServiceCalls` two
servers and two calls let a call find the server another one has replaced, and a
loop wait for a call while it should serve; which two of the three servers are
created (`MaxServers`) decides whether they are of one node or of two. The call
that may make the callback throw is made by a thread, so that it may hit either
node; the empty request is that of the other call. In `NodeCalls` one leaked descriptor leaves one, which two peers then want.
In `FlowFan` a buffer of two fills with two messages waiting behind it, and the
subscriber of both topics is reached over two ways. No run uses symmetry.

Fairness. `io_context::run` (node.hpp:42-45) runs every queued handler, so each
handler is weakly fair, and the reactor reports what is ready, so completions
are. An accept is strongly fair: a failed accept may disable it in between, but
the backlog is served in order. So is `Flow`'s `OnMessage`: a loop that is in and
out of a publish still gets to every socket that is ready. Outcomes that end the process or are undefined
are excluded from the fair steps, so liveness is never owed to a crash. Nothing
is assumed of users and peers: they need not publish, connect, hang up or
destroy anything. `Receiver` has a network that carries what was written as long
as the connection lasts. In `Discovery` the master makes its calls, and a peer of
`XmlRpcServer` takes an answer that has come. Where no
fairness would do, the property says what it waits for: a loop that goes on
running, a peer that stays, a descriptor that is left.

## 4. Findings

Each is a run that TLC finds violated; `PROJECT.json` quotes the text it
contradicts.

1. A destroyed `Publisher` leaves each connected subscriber's connection in a
   loop of reads that fail at once (publisher.hpp:171; `PublisherTearDown`).
   `ShutReadsOn` proves that none of them ever ends, but for those whose peer's
   end of file had been read before.
2. `ThrottledPublisher` catches up after a late timer, and two messages may
   follow each other faster than the interval (timer.hpp:25;
   `ThrottledNoFaster`). What holds instead is `RateBound` and `SpacedSends`; with a
   loop that is never late the claim is true (`OnTimeNoFaster`).
3. A publisher that comes back on the same node is not connected to again
   (subscriber.hpp:159; `DiscoveryAgain`). What holds instead is `Connects`,
   of the first publisher a node has of a topic; `OnceOnly` proves that a
   `Subscriber` never forgets a node, nor connects to it again.
4. A next message that is shorter, and arrives early, makes deserialization
   throw out of the event loop (subscriber.hpp:101-110; `ReceiverOverrun`).
   What holds instead is `OverrunByNext`: nothing else makes it throw.

Limits the models show without a run of their own, to be seen by giving the
constants other values:

- Nodes that share an event loop and talk to each other, or processes that
  subscribe to each other's topics, can wait for each other for ever
  (subscriber.hpp:133, 162); `Unblocked` needs topics that lead one way.
- A service called from the loop that serves it never answers
  (service_client.hpp:56); `CallsEnd` needs callers elsewhere (`Stuck`).
- A callback that publishes back, or to its own loop, can wait for ever for a
  buffer only its own loop would empty (publisher.hpp:90); `Unblocked` of
  `Flow` needs topics that lead one way. A loop that is stopped but not ended
  stops every loop that publishes to it (`Flows`).
- A peer of the XML-RPC server that connects and sends no whole request costs a
  descriptor for the life of the node (xmlrpc_server.hpp:167);
  `OnlyUnfinishedLeak` says that nothing else does.
- `call()` may return with a response nobody sent when its server has ended
  (service_client.hpp:108-129): `Mislead` in `Rpc`.
- Of two servers of one service on a node the end of either erases the other's port
  from `m_services` (node.hpp:434), so that the node's `lookupService` (node.hpp:114)
  denies a service it has. `ServiceClient` asks the master, which was told the URI,
  and goes on finding the other.
- A destroyed `Subscriber`'s callback is still called (subscriber.hpp:150):
  `DestroySubscriber` leaves its feeds open.
- The end of one of a node's two publishers of a topic takes the other's
  advertisement away (node.hpp:290): `Erased` removes whichever entry is there.

## 5. Theorems

Every theorem holds for all values of the constants that satisfy the named
assumptions, hence for any number of subscribers, messages, nodes or bytes.

- `PublisherProofs`: the inductive invariant `IInv` adds to the properties what
  makes them inductive: which operation goes with which state of the peer, that
  a connection in the pool has been greeted and waits in `handle_close`, and
  that what a live one has been sent ends with the last message published.
  `TypeCorrect`, `Watched`, `InOrder`, `UpToDate` (on a latched topic whoever is in
  the pool has the latest message) follow, and `Implementation`, that `Publisher`
  implements `Topic`, action by action. `ShutReadsOn` is an action property, from the
  invariant that a connection which was shut has no read left that could wait.
- `ThrottledPublisherProofs`, `IntervalPublisherProofs`: the invariant ties the
  expiry to the clock and to the number of messages sent (the next expiry leaves
  room for `sends` intervals before it). From it the bounds on rate, delay and
  silence, and the action properties `Spaced` and `Newer`. `OnTimeNoFaster` assumes
  `Lag = 0`: lateness alone is what finding 2 needs.
- `DiscoveryProofs`: `NoCircle` assumes a rank of loops that grows from the
  publisher's to the subscriber's loop of each topic. The invariant follows the
  origin of every URI (the master's table, its updates on their way, the rest of
  a call's list, the callbacks in `m_subscribers`) to show that a busy loop only
  waits for loops of lower rank; in a circle the one with the least rank would
  wait for a lower one. `NeverStuck` says more, under the same assumption: in any
  set of loops closed under waiting the one of least rank can go on, because a
  loop it waits for would be in the set and of lower rank. `TypeCorrect`,
  `NothingStale`, `Agreement` and `SingleFeed` need no rank. Their invariant `RInv`
  adds that maps have one entry for a key, and that a call is made for a subscriber
  that lives, to nodes it is not connected to: that the URI is new was looked up
  before the blocking calls, and is still true after them because the loop ran
  nothing else. `OnceOnly` and `OnlyForward` are action properties; the second says
  that a call never goes back to an earlier stage or URI.
- `ReceiverProofs`: the invariant says where in the stream each outstanding read
  is, by the number of messages delivered. `Ordered` (what was delivered is 1, 2,
  3, ...) and `Overrun` hold for any sizes; `OneSize` follows from `Overrun`: finding 4
  needs two sizes. `Implementation`: the write of a message, whatever pieces it is
  read in, its delivery and the end of either side are the steps of `Broadcast`.
- `ServiceProofs`: the invariant says, for each operation a `ClientConnection` may
  have outstanding, what is on its way in both directions and whether the caller
  still waits. From it `Steps` (the two ends are in step). `Registered`: what the
  master has lives or was killed, and is lost only to a server that comes or by its
  own end; the second half is an action property, over the destruction of every
  server. `Placed` adds that what is in a backlog belongs to a server that lives, and
  that a connection whose caller still waits ends with its server only. Hence
  `NeverStuck`: a call that waits can go on unless its server's loop is halted or in
  a call, for the caller and the handlers are never both waiting for the other to
  write, and a server that listens has an accept. And `Implementation`, that `Service`
  implements `Rpc`: the callback runs on the way from the request to the reply, where
  it has not run before, and the caller finds nothing to read only where the
  server has ended, which it never takes back (`UnservedGrows`).
- `XmlRpcServerProofs`: a request arrives whole or not at all, a method runs in
  `on_read` only, and a read fails only where no request came. Hence
  `NoOtherLeak`, and `Implementation`, that `XmlRpcServer` implements `Rpc`.
  `NeverStuck`: a request whose method has returned has its answer, or its socket
  was closed, and any other one can go on, be accepted, or waits for a
  descriptor of a connection that can, unless all of them are held.
- `FlowProofs`: the messages delivered and held of a connection are the numbers
  from 1 on, as many as were published but for the one about to be written
  (`NoLoss`). `NoCircle` and `NeverStuck` assume that each connection leads to a lower
  loop; the lowest loop of a set closed under waiting can write, or has a message
  to take, or was stopped. `Implementation` needs no such assumption: entering the
  loop over the pool is the publish of `Broadcast`, each write is a stutter, and a
  callback that publishes is one step of it.

The theorems `NeverStuck` are what the liveness properties `CallsEnd`, `Served` and
`Flows` rest on as far as safety goes: wherever something is owed there is a step to
take; and in `Discovery` `OnlyForward` says that no call takes the same step twice. What is left to fairness is that
the step is taken.

Only checked by TLC: the liveness properties (`DeadPeerLeavesPool`, `HelloJoins`,
`CallsEnd`, `Connects`, `AllDelivered`, `EndNoticed`, `ConnectionsEnd`, `Served`,
`Flows`), which rest on fairness and so on ENABLED, out of the prover's reach.
The `CanGoOn` of the proofs are guards written out, not ENABLED. All safety
properties of the passing runs are proved, the two `Unblocked` that runs check
under the assumption on ranks.

## 6. Not modelled

- Serialization, MD5 sums, field names, logging, the parsing of XML and HTTP, host
  name resolution: data no property tells apart. A host has one address.
- The framing of the connection header in `header.hpp`: an encoder that appends to
  a buffer. The modules use that it writes a length of four bytes and a body.
- The signal set of `Exec`. A stop may come whenever the loop runs in `Publisher`,
  `Receiver`, `Service`, `XmlRpcServer` and `Flow`. `Discovery` has loops that are killed
  but none that is stopped and goes on living, and the timers' loop may be late,
  but is not stopped.
- Everything in `xmlrpc_server.hpp` after line 178, a commented-out example of the
  beast library.
- The example and performance programs: each creates one object and runs.
- What happens after undefined behaviour: a handler on a destroyed object, an
  element read past the end, ends the model's loop or process, where it is not
  followed in each of its outcomes.

## 7. Plan

Done, in this order, the most important behaviour first: `Topic` and `Publisher`;
the timers; `Discovery`; `Receiver`; `Rpc` and `Service`; `XmlRpcServer`; `Flow`;
the proofs named above.

What could follow:

1. One composition of `Discovery`, `Service` and `Flow`, with nodes that share a
   loop: which of the programs that README.md:20 wants can block.
2. `Publisher` joined to `Broadcast`, so that subscribers come and go while messages
   are on their way: today its connections refine `Topic`, and those of `Flow` and
   `Receiver`, which are there from the start, refine `Broadcast`.
3. A bound on the steps of a blocking call as a variant, from `OnlyForward`.
