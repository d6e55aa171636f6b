------------------------------ MODULE Receiver ------------------------------
(***************************************************************************)
(* The receive loop of a rosasio::PublisherConnection, the subscriber's    *)
(* end of a connection (include/rosasio/subscriber.hpp), from the moment   *)
(* start() returns.  The publisher's byte stream is a length of four bytes *)
(* and a body for each message; it arrives, and is read, in pieces.        *)
(*                                                                         *)
(* Starting an asynchronous read lets asio try it at once, before the      *)
(* handler that starts it goes on: bytes that have arrived may then be     *)
(* in the buffer already.                                                  *)
(***************************************************************************)
EXTENDS Naturals, Sequences

CONSTANTS
    Sizes,      \* serialized sizes of the messages of the topic, in bytes
    MaxMsgs     \* bound: how many messages the publisher writes

\* Below 256 the first byte of a length, in memory order, is all of it.
ASSUME ReceiverAssumption ==
    /\ Sizes \subseteq 0 .. 255
    /\ MaxMsgs \in Nat

VARIABLES
    loop,       \* "running", "stopped", or "threw" out of io_context::run
    peer,       \* the publisher's end: "open", "closed" or "reset"
    ends,       \* ends[i]: where message i, written by the publisher, ends
    arrived,    \* how many bytes of the stream the kernel has received
    taken,      \* how many of them have been read from the socket
    op,         \* what is being read: "len", "body", or "gone": nothing
    need,       \* how many bytes the outstanding read still needs
    ec,         \* its completion: "pending", "ok" or "error"
    msglen,     \* the member msglen, overwritten by every read of a length
    buf,        \* the size of the member buf
    delivered   \* history: the messages m_cb was called with

vars == <<loop, peer, ends, arrived, taken, op, need, ec, msglen, buf, delivered>>

LenBytes == 4

Total    == IF ends = <<>> THEN 0 ELSE ends[Len(ends)]
Start(i) == IF i = 1 THEN 0 ELSE ends[i - 1]
Size(i)  == ends[i] - Start(i) - LenBytes

\* A length read where no message starts is whatever is there.
LengthsAt(pos) ==
    IF \E i \in 1 .. Len(ends) : Start(i) = pos
      THEN {Size(i) : i \in {j \in 1 .. Len(ends) : Start(j) = pos}}
      ELSE Sizes \cup {0}

\* The message whose body is n bytes from pos, 0 for bytes that are no body.
BodyAt(pos, n) ==
    IF \E i \in 1 .. Len(ends) : Start(i) + LenBytes = pos /\ Size(i) = n
      THEN CHOOSE i \in 1 .. Len(ends) : Start(i) + LenBytes = pos /\ Size(i) = n
      ELSE 0

Init ==
    /\ loop = "running"
    /\ peer = "open"
    /\ ends = <<>>
    /\ arrived = 0
    /\ taken = 0
    /\ op = "len"
    /\ need = LenBytes
    /\ ec = "pending"
    /\ msglen = 0
    /\ buf = 0
    /\ delivered = <<>>

-----------------------------------------------------------------------------
(* The publisher and the network.                                          *)

Write ==
    /\ peer = "open"
    /\ Len(ends) < MaxMsgs
    /\ \E size \in Sizes : ends' = Append(ends, Total + LenBytes + size)
    /\ UNCHANGED <<loop, peer, arrived, taken, op, need, ec, msglen, buf, delivered>>

Arrive ==
    /\ arrived < Total
    /\ arrived' = arrived + 1
    /\ UNCHANGED <<loop, peer, ends, taken, op, need, ec, msglen, buf, delivered>>

\* It closes the connection or is killed; what has not got out is lost.
HangUp ==
    /\ peer = "open"
    /\ peer' \in {"closed", "reset"}
    /\ UNCHANGED <<loop, ends, arrived, taken, op, need, ec, msglen, buf, delivered>>

-----------------------------------------------------------------------------
(* The socket.                                                             *)

\* A read of n bytes into msglen takes what there is, and may have to go on.
TakeLength(n) ==
    LET k == IF arrived - taken < n THEN arrived - taken ELSE n IN
    /\ peer # "reset"
    /\ k > 0
    /\ taken' = taken + k
    /\ need' = n - k
    /\ ec' = IF k = n THEN "ok" ELSE "pending"
    /\ IF n = LenBytes THEN msglen' \in LengthsAt(taken) ELSE UNCHANGED msglen

\* A read of the rest of the body; nothing can go wrong with an empty one.
TakeBody ==
    LET k == IF arrived - taken < need THEN arrived - taken ELSE need IN
    /\ need = 0 \/ (peer # "reset" /\ k > 0)
    /\ taken' = taken + k
    /\ need' = need - k
    /\ ec' = IF k = need THEN "ok" ELSE "pending"
    /\ UNCHANGED msglen

ReadReady ==
    /\ loop = "running"
    /\ ec = "pending"
    /\ \/ op = "len" /\ TakeLength(need)
       \/ op = "body" /\ TakeBody
       \/ /\ op # "gone"
          /\ need > 0
          /\ peer = "reset" \/ (peer = "closed" /\ taken = arrived)
          /\ ec' = "error"
          /\ UNCHANGED <<taken, need, msglen>>
    /\ UNCHANGED <<loop, peer, ends, arrived, op, buf, delivered>>

-----------------------------------------------------------------------------
(* The handlers.                                                           *)

ReadAgainOnError == "len"

\* On an error a handler returns, and the connection is not read any more.
AfterError == "gone"

BufferReserved(len) == 0

BufferShort(len) == IF len = 0 THEN 0 ELSE len - 1

\* buf.resize(msglen)
BufferFor(len) == len

OnMessageLengthReceived ==
    /\ loop = "running"
    /\ op = "len"
    /\ \/ /\ ec = "ok"
          /\ buf' = BufferFor(msglen)
          /\ op' = "body"
          /\ need' = buf'
          /\ ec' = "pending"
       \/ /\ ec = "error"
          /\ op' = AfterError
          /\ ec' = "pending"
          /\ UNCHANGED <<buf, need>>
    /\ UNCHANGED <<loop, peer, ends, arrived, taken, msglen, delivered>>

NextReadForgotten == "gone"

\* The read that on_message_received starts before anything else.
NextRead == "len"

\* The next length may be in msglen by the time the message is deserialized
\* from a stream that ends msglen bytes after the start of buf.
OnMessageReceived ==
    /\ loop = "running"
    /\ op = "body"
    /\ \/ /\ ec = "error"
          /\ op' = AfterError
          /\ ec' = "pending"
          /\ UNCHANGED <<loop, taken, need, msglen, delivered>>
       \/ /\ ec = "ok"
          /\ op' = NextRead
          /\ \/ TakeLength(LenBytes)
             \/ need' = LenBytes /\ ec' = "pending" /\ UNCHANGED <<taken, msglen>>
          /\ \/ /\ msglen' >= buf
                /\ delivered' = Append(delivered, BodyAt(taken - buf, buf))
                /\ UNCHANGED loop
             \/ /\ msglen' < buf
                /\ loop' = "threw"
                /\ UNCHANGED delivered
    /\ UNCHANGED <<peer, ends, arrived, buf>>

\* A signal or a shutdown request: io_context::stop.
Stop ==
    /\ loop = "running"
    /\ loop' = "stopped"
    /\ UNCHANGED <<peer, ends, arrived, taken, op, need, ec, msglen, buf, delivered>>

Next ==
    \/ Write \/ Arrive \/ HangUp
    \/ ReadReady
    \/ OnMessageLengthReceived \/ OnMessageReceived
    \/ Stop

Spec == Init /\ [][Next]_vars

\* The network carries what was written, the reactor notices what is ready
\* and the loop runs every queued handler.
Fairness ==
    /\ WF_vars(Arrive)
    /\ WF_vars(ReadReady)
    /\ WF_vars(OnMessageLengthReceived)
    /\ WF_vars(OnMessageReceived)

FairSpec == Spec /\ Fairness

-----------------------------------------------------------------------------
(* Properties.                                                             *)

\* Every variable keeps its type, and no more is read than has arrived.
TypeOK ==
    /\ loop \in {"running", "stopped", "threw"}
    /\ peer \in {"open", "closed", "reset"}
    /\ ends \in Seq(Nat)
    /\ arrived \in 0 .. Total
    /\ taken \in 0 .. arrived
    /\ op \in {"len", "body", "gone"}
    /\ need \in Nat
    /\ ec \in {"pending", "ok", "error"}
    /\ msglen \in Sizes \cup {0}
    /\ buf \in Sizes \cup {0}
    /\ delivered \in Seq(0 .. Len(ends))

\* The numbers after d and up to n, and the messages on their way with them.
After(d, n) == [i \in 1 .. n - d |-> d + i]

Queue == IF loop = "threw" THEN <<>> ELSE After(Len(delivered), Len(ends))

Killed ==
    {l \in {"publisher", "subscriber"} :
        IF l = "publisher" THEN peer # "open" ELSE loop = "threw"}

\* The connection is the only one of its topic, and its callback publishes
\* nothing.
Only(x, y) == [i \in {x} |-> y]

B == INSTANCE Broadcast WITH
        Loop      <- {"publisher", "subscriber"},
        Topic     <- {"topic"},
        Link      <- {"link"},
        At        <- Only("topic", "publisher"),
        From      <- Only("link", "topic"),
        To        <- Only("link", "subscriber"),
        Relay     <- Only("link", "none"),
        NoTopic   <- "none",
        killed    <- Killed,
        count     <- Only("topic", Len(ends)),
        queue     <- Only("link", Queue),
        delivered <- Only("link", delivered)

\* The bytes of a connection carry messages as Flow has it, one after the
\* other and each as a whole, until an end goes away: Receiver implements the
\* specification that Flow does, and no piece of a message is ever taken for
\* another one.
BroadcastSpec == B!Spec

\* Deserialization runs out of its buffer, and throws out of the event loop,
\* for one reason only: the message after the one being deserialized is shorter,
\* and its length has replaced msglen already (subscriber.hpp:101-110).
OverrunByNext ==
    loop = "threw" =>
        LET m == Len(delivered) + 1
        IN  m < Len(ends) /\ Size(m + 1) < Size(m)

\* No message makes deserialization run out of its buffer and throw out of the
\* event loop, which is single threaded and so free of "an entire category of
\* bugs" (README.md:14).  It holds only when all messages have one size.
NoOverrun == loop # "threw"

\* What is written is delivered, as long as the connection and the loop last.
AllDelivered ==
    \A i \in 1 .. MaxMsgs :
        (Len(ends) >= i) ~> (\/ Len(delivered) >= i
                             \/ peer # "open"
                             \/ loop # "running")

\* The end of the connection is noticed and the connection let go, whatever
\* part of a message it comes in.
EndNoticed == (peer # "open") ~> (op = "gone" \/ loop # "running")
=============================================================================
