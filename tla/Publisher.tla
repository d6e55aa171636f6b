----------------------------- MODULE Publisher -----------------------------
(***************************************************************************)
(* One rosasio::Publisher, its SubscriberPool and the SubscriberConnection *)
(* objects it accepts (include/rosasio/publisher.hpp), run by the single   *)
(* thread of the io_context.                                               *)
(*                                                                         *)
(* An asynchronous operation completes in one step (the kernel's) and its  *)
(* handler runs in a later one (the event loop's), so anything else the    *)
(* loop runs, the destructor of the Publisher included, may come between.  *)
(* Blocking writes are atomic: they fail at once on a connection the peer  *)
(* has reset, and never wait (see the README).                             *)
(***************************************************************************)
EXTENDS Naturals, Sequences

CONSTANTS
    Conn,        \* TCP connections made by subscribers, one object for each
    Latched,     \* the constructor's 'latched' argument
    BodyBytes,   \* bytes of a subscriber's header after its length field
    MaxMsgs      \* bound: how many messages the user publishes

ASSUME PublisherAssumption ==
    /\ Latched \in BOOLEAN
    /\ BodyBytes \in Nat
    /\ MaxMsgs \in Nat

VARIABLES
    loop,        \* "running", "stopped", or how the process died
    alive,       \* the Publisher, and with it its pool, exists
    accept,      \* completion of the acceptor's async_accept
    op,          \* op[c]: what the connection object of c waits for
    ec,          \* ec[c]: completion of that operation
    pool,        \* SubscriberPool::subscriber_connections
    shut,        \* connections closed by SubscriberPool::close
    peer,        \* peer[c]: the subscriber's end of the connection
    unread,      \* unread[c]: bytes of c received and not yet read
    published,   \* how many messages the user has published
    latchedMsg,  \* m_latched_msg, NoMsg while m_has_latched_msg is false
    wire         \* wire[c]: what has been written to the peer of c

vars == <<loop, alive, accept, op, ec, pool, shut, peer, unread,
          published, latchedMsg, wire>>

\* Messages are their numbers 1, 2, ...; on the wire 0 is the connection header.
Header == 0
NoMsg  == 0
LenBytes == 4

Live(c)   == peer[c] \in {"open", "hello"}
Broken(c) == peer[c] \in {"reset", "dead"}

\* A read of n bytes, or of none, left outstanding by the handler that ran.
Await(c, what, code) ==
    /\ op' = [op EXCEPT ![c] = what]
    /\ ec' = [ec EXCEPT ![c] = code]

\* The last handler of c returned without starting a read: c is destroyed.
Release(c) == Await(c, "gone", "pending")

Init ==
    /\ loop = "running"
    /\ alive = TRUE
    /\ accept = "pending"
    /\ op = [c \in Conn |-> "none"]
    /\ ec = [c \in Conn |-> "pending"]
    /\ pool = {}
    /\ shut = {}
    /\ peer = [c \in Conn |-> "away"]
    /\ unread = [c \in Conn |-> 0]
    /\ published = 0
    /\ latchedMsg = NoMsg
    /\ wire = [c \in Conn |-> <<>>]

-----------------------------------------------------------------------------
(* The subscribers: they connect, send their header, close or reset.       *)

Connect(c) ==
    /\ alive
    /\ peer[c] = "away"
    /\ peer' = [peer EXCEPT ![c] = "open"]
    /\ UNCHANGED <<loop, alive, accept, op, ec, pool, shut, unread,
                   published, latchedMsg, wire>>

SendHello(c) ==
    /\ peer[c] = "open"
    /\ peer' = [peer EXCEPT ![c] = "hello"]
    /\ unread' = [unread EXCEPT ![c] = @ + LenBytes + BodyBytes]
    /\ UNCHANGED <<loop, alive, accept, op, ec, pool, shut,
                   published, latchedMsg, wire>>

HangUp(c) ==
    /\ \/ Live(c) /\ peer' = [peer EXCEPT ![c] = "closed"]
       \/ (Live(c) \/ peer[c] = "closed") /\ peer' = [peer EXCEPT ![c] = "reset"]
    /\ UNCHANGED <<loop, alive, accept, op, ec, pool, shut, unread,
                   published, latchedMsg, wire>>

-----------------------------------------------------------------------------
(* The kernel and the reactor: outstanding operations complete.            *)

AcceptReady(c) ==
    /\ loop = "running"
    /\ alive
    /\ accept = "pending"
    /\ op[c] = "none"
    /\ peer[c] # "away"
    /\ accept' = "ok"
    /\ Await(c, "accept", "pending")
    /\ UNCHANGED <<loop, alive, pool, shut, peer, unread,
                   published, latchedMsg, wire>>

AcceptFails ==
    /\ loop = "running"
    /\ alive
    /\ accept = "pending"
    /\ accept' = "failed"
    /\ UNCHANGED <<loop, alive, op, ec, pool, shut, peer, unread,
                   published, latchedMsg, wire>>

\* What a completed read of a length field leaves to be read.
Remaining(c) == unread[c] - LenBytes

\* A 4-byte read completes with data, then with the error of a reset, once,
\* then with end of file; what is left of an incomplete read is lost.
ReadReady(c) ==
    /\ loop = "running"
    /\ op[c] \in {"len", "rest"}
    /\ ec[c] = "pending"
    /\ \/ /\ unread[c] >= LenBytes
          /\ unread' = [unread EXCEPT ![c] = Remaining(c)]
          /\ ec' = [ec EXCEPT ![c] = "ok"]
          /\ UNCHANGED peer
       \/ /\ unread[c] < LenBytes
          /\ peer[c] \in {"closed", "dead"}
          /\ unread' = [unread EXCEPT ![c] = 0]
          /\ ec' = [ec EXCEPT ![c] = "eof"]
          /\ UNCHANGED peer
       \/ /\ unread[c] < LenBytes
          /\ peer[c] = "reset"
          /\ unread' = [unread EXCEPT ![c] = 0]
          /\ ec' = [ec EXCEPT ![c] = "reset"]
          /\ peer' = [peer EXCEPT ![c] = "dead"]
    /\ UNCHANGED <<loop, alive, accept, op, pool, shut,
                   published, latchedMsg, wire>>

-----------------------------------------------------------------------------
(* The handlers, run one at a time by the event loop.                      *)

NextAcceptForgotten == "none"

\* start_accept: another connection object waits to be accepted.
NextAccept == "pending"

\* accept_handler is bound to the raw 'this'.  On a destroyed Publisher it may
\* crash, or start another accept on the dead acceptor, which fails at once.
AcceptHandler ==
    /\ loop = "running"
    /\ accept \in {"ok", "failed"}
    /\ op' = [c \in Conn |-> IF op[c] = "accept" THEN "len" ELSE op[c]]
    /\ \/ alive /\ accept' = NextAccept /\ UNCHANGED loop
       \/ ~alive /\ accept' = "failed" /\ UNCHANGED loop
       \/ ~alive /\ loop' = "undefined" /\ UNCHANGED accept
    /\ UNCHANGED <<alive, ec, pool, shut, peer, unread,
                   published, latchedMsg, wire>>

\* reserve() leaves the buffer empty, so the read of the header's body takes
\* no byte and completes at once: its handler is queued behind the others.
HandleReadLen(c) ==
    /\ loop = "running"
    /\ op[c] = "len"
    /\ \/ ec[c] = "ok" /\ Await(c, "body", "ok")
       \/ ec[c] \in {"eof", "reset"} /\ Release(c)
    /\ UNCHANGED <<loop, alive, accept, pool, shut, peer, unread,
                   published, latchedMsg, wire>>

GreetingSwapped ==
    IF Latched /\ latchedMsg # NoMsg THEN <<latchedMsg, Header>> ELSE <<Header>>

\* What handle_read writes: the header, then the latched message if any.
Greeting ==
    IF Latched /\ latchedMsg # NoMsg THEN <<Header, latchedMsg>> ELSE <<Header>>

HandleRead(c) ==
    /\ loop = "running"
    /\ op[c] = "body"
    /\ \/ /\ ~alive                      \* m_pool.lock() is null
          /\ Release(c)
          /\ UNCHANGED <<loop, pool, wire>>
       \/ /\ alive
          /\ Broken(c)                   \* boost::asio::write throws
          /\ loop' = "threw"
          /\ UNCHANGED <<op, ec, pool, wire>>
       \/ /\ alive
          /\ ~Broken(c)
          /\ wire' = IF Live(c) THEN [wire EXCEPT ![c] = Greeting] ELSE wire
          /\ pool' = pool \cup {c}
          /\ Await(c, "rest", "pending")
          /\ UNCHANGED loop
    /\ UNCHANGED <<alive, accept, shut, peer, unread, published, latchedMsg>>

PoolKept(c) == pool

PoolWithout(c) == pool \ {c}

ReadAgainForgotten(c) == Release(c)

ReadAgain(c) == Await(c, "rest", IF c \in shut THEN "badfd" ELSE "pending")

\* On end of file handle_close erases the connection; on anything else, the
\* unread header and every other error, it reads again.  A read of a socket
\* the pool has closed fails at once: that connection never ends.
HandleClose(c) ==
    /\ loop = "running"
    /\ op[c] = "rest"
    /\ \/ /\ ec[c] = "eof"
          /\ pool' = PoolWithout(c)
          /\ Release(c)
       \/ /\ ec[c] \notin {"pending", "eof"}
          /\ ReadAgain(c)
          /\ UNCHANGED pool
    /\ UNCHANGED <<loop, alive, accept, shut, peer, unread,
                   published, latchedMsg, wire>>

-----------------------------------------------------------------------------
(* The user: publishes, destroys the Publisher, stops the loop.            *)

Recipients == {c \in pool : Live(c)}

LatchOnce(msg) == IF Latched /\ latchedMsg = NoMsg THEN msg ELSE latchedMsg

\* SubscriberPool::publish stores the message it has just sent.
Latch(msg) == IF Latched THEN msg ELSE latchedMsg

\* A write that fails is swallowed; it reports the reset in the read's place.
Publish ==
    /\ loop \in {"running", "stopped"}
    /\ alive
    /\ published < MaxMsgs
    /\ published' = published + 1
    /\ wire' = [c \in Conn |->
                  IF c \in Recipients THEN Append(wire[c], published + 1) ELSE wire[c]]
    /\ latchedMsg' = Latch(published + 1)
    /\ peer' = [c \in Conn |->
                  IF c \in pool /\ peer[c] = "reset" THEN "dead" ELSE peer[c]]
    /\ UNCHANGED <<loop, alive, accept, op, ec, pool, shut, unread>>

\* ~Publisher: unregister, close the pool's connections, free the pool and
\* the acceptor.  A destructor whose unregister call throws ends the process.
Destroy ==
    /\ loop \in {"running", "stopped"}
    /\ alive
    /\ \/ /\ loop' = "terminated"
          /\ UNCHANGED <<alive, accept, ec, pool, shut>>
       \/ /\ alive' = FALSE
          /\ shut' = pool
          /\ pool' = {}
          /\ ec' = [c \in Conn |->
                      IF c \in pool /\ ec[c] = "pending" THEN "aborted" ELSE ec[c]]
          /\ accept' = IF accept = "pending" THEN "failed" ELSE accept
          /\ UNCHANGED loop
    /\ UNCHANGED <<op, peer, unread, published, latchedMsg, wire>>

\* SIGINT, SIGTERM or a shutdown request: io_context::stop.
Stop ==
    /\ loop = "running"
    /\ loop' = "stopped"
    /\ UNCHANGED <<alive, accept, op, ec, pool, shut, peer, unread,
                   published, latchedMsg, wire>>

Next ==
    \/ \E c \in Conn : Connect(c) \/ SendHello(c) \/ HangUp(c)
    \/ \E c \in Conn : AcceptReady(c) \/ ReadReady(c)
    \/ AcceptFails
    \/ AcceptHandler
    \/ \E c \in Conn : HandleReadLen(c) \/ HandleRead(c) \/ HandleClose(c)
    \/ Publish
    \/ Destroy
    \/ Stop

Spec == Init /\ [][Next]_vars

\* The loop runs every queued handler and the reactor notices what is ready;
\* the backlog is served in order once accepts succeed.  Users and peers are
\* free to do nothing, and no undefined outcome is ever forced.
Fairness ==
    /\ WF_vars(AcceptHandler /\ loop' # "undefined")
    /\ \A c \in Conn : /\ SF_vars(AcceptReady(c))
                       /\ WF_vars(ReadReady(c))
                       /\ WF_vars(HandleReadLen(c))
                       /\ WF_vars(HandleRead(c))
                       /\ WF_vars(HandleClose(c))

FairSpec == Spec /\ Fairness

-----------------------------------------------------------------------------
(* Properties.                                                             *)

\* Every variable keeps its type, and no read takes bytes that never came:
\* a subscriber's header, whose length handle_read_len ignores, is read as
\* four-byte "lengths" by handle_close (publisher.hpp:112-115, 150, 171).
TypeOK ==
    /\ loop \in {"running", "stopped", "threw", "terminated", "undefined"}
    /\ alive \in BOOLEAN
    /\ accept \in {"pending", "ok", "failed"}
    /\ op \in [Conn -> {"none", "accept", "len", "body", "rest", "gone"}]
    /\ ec \in [Conn -> {"pending", "ok", "eof", "reset", "aborted", "badfd"}]
    /\ pool \in SUBSET Conn
    /\ shut \in SUBSET Conn
    /\ peer \in [Conn -> {"away", "open", "hello", "closed", "reset", "dead"}]
    /\ unread \in [Conn -> 0 .. LenBytes + BodyBytes]
    /\ published \in 0 .. MaxMsgs
    /\ latchedMsg \in 0 .. MaxMsgs
    /\ wire \in [Conn -> Seq(0 .. MaxMsgs)]

\* s is a run of consecutive message numbers.
IsRun(s) == \A i \in 1 .. Len(s) - 1 : s[i + 1] = s[i] + 1

\* Each subscriber is sent the connection header first and once, and then
\* messages without a gap, a repetition or a change of order, the latched
\* one included (handle_read, SubscriberPool::publish).
HeaderThenRun ==
    \A c \in Conn : wire[c] # <<>> =>
        /\ Head(wire[c]) = Header
        /\ \A i \in 2 .. Len(wire[c]) : wire[c][i] # Header
        /\ IsRun(Tail(wire[c]))

\* handle_close waits on every connection of the pool: none
\* is there with its socket closed, its object released or its read missing,
\* so the end of each one will be noticed.
PoolWatched ==
    \A c \in pool : op[c] = "rest" /\ c \notin shut

\* What the subscriber of c has seen of the topic: it is part of it while its
\* connection is in the pool, and what it is sent after the header counts.
Status ==
    [c \in Conn |->
        CASE ~alive \/ peer[c] \in {"closed", "reset", "dead"} -> "left"
          [] alive /\ Live(c) /\ c \in pool -> "in"
          [] OTHER -> "out"]

Stream == [c \in Conn |-> IF wire[c] = <<>> THEN <<>> ELSE Tail(wire[c])]

T == INSTANCE Topic WITH count <- published, status <- Status, stream <- Stream

\* Sockets, handlers and handshakes together implement the promise of Topic:
\* who is in receives every message once, in order, after the replay of the
\* last one when the topic is latched.
TopicSpec == T!Spec

\* A subscriber that has gone does not stay in the pool, written to by every
\* publish: handle_close notices the end of file, after a reset too.
DeadPeerLeavesPool ==
    \A c \in Conn :
        (c \in pool /\ ~Live(c)) ~> (c \notin pool \/ loop # "running")

\* A subscriber that has sent its header and waits joins the pool, however
\* many others come and go and although accepts may fail in between.
HelloJoins ==
    \A c \in Conn :
        (peer[c] = "hello") ~> (\/ c \in pool
                               \/ peer[c] # "hello"
                               \/ ~alive
                               \/ loop # "running")

\* Once the Publisher is destroyed its connections end and the event loop is
\* left with nothing to do for them ("Setting up and tearing down
\* subscriptions should be more responsive", README.md:15).
TearDownEnds ==
    ~alive ~> (loop # "running" \/ \A c \in Conn : op[c] # "rest")
=============================================================================
