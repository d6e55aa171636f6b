---------------------------- MODULE XmlRpcServer ----------------------------
(***************************************************************************)
(* rosasio::XmlRpcServer of a Node and the Connections it accepts          *)
(* (include/rosasio/xmlrpc_server.hpp), with the methods a Node registers  *)
(* (include/rosasio/node.hpp), run by the single thread of the io_context. *)
(*                                                                         *)
(* A peer makes a connection for each request.  An asynchronous operation  *)
(* completes in one step and its handler runs in a later one.  A response  *)
(* is short and the socket's buffer empty: asio tries the write at once,   *)
(* and only its completion is queued.                                      *)
(***************************************************************************)
EXTENDS Naturals, FiniteSets

CONSTANTS
    Conn,       \* connections peers may make, each for one request
    Asks,       \* bound: Asks[c]: what the peer of c may send
    MaxOpen     \* how many accepted sockets the process has descriptors for

\* A peer may ask for a method that returns, for one that throws (a parameter
\* is missing or of another type), for the method shutdown, or for nothing that
\* is registered or can be parsed.
Requests == {"method", "throws", "shutdown", "unknown"}

ASSUME XmlRpcServerAssumption ==
    /\ Asks \in [Conn -> SUBSET (Requests \cup {"garbage"})]
    /\ MaxOpen \in Nat

VARIABLES
    loop,           \* "running", "stopped" or "undefined"
    alive,          \* the Node, and with it its server, exists
    accept,         \* completion of the acceptor's async_accept
    m_connections,  \* XmlRpcServer::m_connections
    open,           \* accepted connections whose socket the server has not closed
    op,             \* op[c]: what the Connection object of c waits for
    peer,           \* peer[c]: what the peer of c has come to
    m_req,          \* m_req[c]: the request that has arrived whole, or "none"
    replied,        \* connections a response was written to
    ran             \* history: how often a method has run for c

vars == <<loop, alive, accept, m_connections, open, op, peer, m_req, replied, ran>>

Running == loop = "running"

Init ==
    /\ loop = "running"
    /\ alive = TRUE
    /\ accept = "pending"
    /\ m_connections = {}
    /\ open = {}
    /\ op = [c \in Conn |-> "none"]
    /\ peer = [c \in Conn |-> "away"]
    /\ m_req = [c \in Conn |-> "none"]
    /\ replied = {}
    /\ ran = [c \in Conn |-> 0]

-----------------------------------------------------------------------------
(* The peers.                                                              *)

PeerStep(c, from, to) ==
    /\ peer[c] \in from
    /\ peer' = [peer EXCEPT ![c] = to]
    /\ UNCHANGED <<loop, alive, accept, m_connections, open, op, replied, ran>>

\* The kernel of a server that listens completes the connection.
Connect(c) == alive /\ PeerStep(c, {"away"}, "open") /\ UNCHANGED m_req

SendRequest(c) ==
    /\ PeerStep(c, {"open"}, "sent")
    /\ \E r \in Asks[c] \ {"garbage"} : m_req' = [m_req EXCEPT ![c] = r]

\* It sends what is not HTTP, or part of a request.
SendGarbage(c) ==
    /\ "garbage" \in Asks[c]
    /\ PeerStep(c, {"open"}, "garbled")
    /\ UNCHANGED m_req

HangUp(c) == PeerStep(c, {"open", "sent", "garbled"}, "gone") /\ UNCHANGED m_req

\* It gets the response, or sees the connection end without one.
Receive(c) ==
    /\ PeerStep(c, {"sent"}, IF c \in replied THEN "answered" ELSE "failed")
    /\ \/ c \in replied
       \/ op[c] = "done" /\ c \notin open
       \/ op[c] = "none" /\ ~alive
    /\ UNCHANGED m_req

-----------------------------------------------------------------------------
(* The kernel and the reactor: outstanding operations complete.            *)

AcceptReady(c) ==
    /\ Running /\ alive
    /\ accept = "pending"
    /\ op[c] = "none" /\ peer[c] # "away"
    /\ Cardinality(open) < MaxOpen
    /\ accept' = "ok"
    /\ open' = open \cup {c}
    /\ op' = [op EXCEPT ![c] = "accept"]
    /\ UNCHANGED <<loop, alive, m_connections, peer, m_req, replied, ran>>

\* There is no descriptor left, or the connection was aborted.
AcceptFails ==
    /\ Running /\ alive
    /\ accept = "pending"
    /\ accept' = "failed"
    /\ UNCHANGED <<loop, alive, m_connections, open, op, peer, m_req, replied, ran>>

\* http::async_read ends with a whole request or with an error.
ReadReady(c) ==
    /\ Running
    /\ op[c] = "read"
    /\ \/ m_req[c] # "none" /\ op' = [op EXCEPT ![c] = "request"]
       \/ /\ m_req[c] = "none" /\ peer[c] \in {"garbled", "gone"}
          /\ op' = [op EXCEPT ![c] = "error"]
    /\ UNCHANGED <<loop, alive, accept, m_connections, open, peer, m_req, replied, ran>>

-----------------------------------------------------------------------------
(* The handlers.                                                           *)

NextAcceptForgotten == "none"

\* start_accept: another Connection waits to be accepted.
NextAccept == "pending"

\* accept_handler is bound to the raw 'this'.  Without it anything may happen,
\* or another accept fails at once on the dead acceptor.
AcceptHandler ==
    /\ Running
    /\ accept \in {"ok", "failed"}
    /\ \/ /\ alive
          /\ op' = [c \in Conn |-> IF op[c] = "accept" THEN "read" ELSE op[c]]
          /\ m_connections' = m_connections \cup {c \in Conn : op[c] = "accept"}
          /\ accept' = NextAccept
          /\ UNCHANGED loop
       \/ /\ ~alive
          /\ loop' = "undefined"
          /\ UNCHANGED <<op, m_connections, accept>>
       \/ ~alive /\ accept = "failed" /\ UNCHANGED <<loop, op, m_connections, accept>>
    /\ UNCHANGED <<alive, open, peer, m_req, replied, ran>>

\* The last handler of c has run.  Its object, and with it its socket, stays
\* while m_connections has it.
Finish(c) == op' = [op EXCEPT ![c] = "done"]

NotClosed(c) == Finish(c) /\ UNCHANGED open

\* m_sock.close().
Close(c) == Finish(c) /\ open' = open \ {c}

\* The method's outcome is written, unless the peer has gone.
Respond(c) ==
    /\ replied' = IF peer[c] = "sent" THEN replied \cup {c} ELSE replied
    /\ op' = [op EXCEPT ![c] = "write"]
    /\ UNCHANGED open

RespondUncalled(c) == Respond(c) /\ UNCHANGED <<loop, ran>>

Runs(c) == ran' = [ran EXCEPT ![c] = @ + 1]

\* lookupService and getPid answer from what the Node knows and change nothing;
\* requestTopic and publisherUpdate are actions of the Discovery module.
CallMethod(c) == Respond(c) /\ Runs(c) /\ UNCHANGED loop

ShutdownUnanswered(c) == NotClosed(c) /\ Runs(c) /\ loop' = "stopped" /\ UNCHANGED replied

\* shutdown stops the io_context, and returns; its response is still written.
Shutdown(c) == Respond(c) /\ Runs(c) /\ loop' = "stopped"

\* The exception is caught, and the socket closed.
MethodThrows(c) == Close(c) /\ Runs(c) /\ UNCHANGED <<loop, replied>>

\* No method runs, and the socket is closed.
UnknownMethod(c) == Close(c) /\ UNCHANGED <<loop, replied, ran>>

OnRequest(c) ==
    /\ Running
    /\ op[c] = "request"
    /\ \/ alive /\ m_req[c] = "method"   /\ CallMethod(c)
       \/ alive /\ m_req[c] = "shutdown" /\ Shutdown(c)
       \/ alive /\ m_req[c] = "throws"   /\ MethodThrows(c)
       \/ alive /\ m_req[c] = "unknown"  /\ UnknownMethod(c)
       \/ /\ ~alive                      \* m_callbacks has gone
          /\ loop' = "undefined"
          /\ UNCHANGED <<open, op, replied, ran>>
    /\ UNCHANGED <<alive, accept, m_connections, peer, m_req>>

\* on_read returns when it is given an error.  Only the end of the object
\* closes the socket, and m_connections keeps the object.
OnReadError(c) ==
    /\ Running
    /\ op[c] = "error"
    /\ IF c \in m_connections THEN NotClosed(c) ELSE Close(c)
    /\ UNCHANGED <<loop, alive, accept, m_connections, peer, m_req, replied, ran>>

OnWrite(c) ==
    /\ Running
    /\ op[c] = "write"
    /\ Close(c)
    /\ UNCHANGED <<loop, alive, accept, m_connections, peer, m_req, replied, ran>>

-----------------------------------------------------------------------------
(* The user.                                                               *)

\* ~Node: the acceptor is closed, and Connections that wait for nothing go.
\* The handlers of the others keep them alive.
Destroy ==
    /\ loop \in {"running", "stopped"}
    /\ alive
    /\ alive' = FALSE
    /\ m_connections' = {}
    /\ open' = {c \in open : op[c] # "done"}
    /\ accept' = IF accept = "pending" THEN "failed" ELSE accept
    /\ UNCHANGED <<loop, op, peer, m_req, replied, ran>>

Stop ==
    /\ Running
    /\ loop' = "stopped"
    /\ UNCHANGED <<alive, accept, m_connections, open, op, peer, m_req, replied, ran>>

Next ==
    \/ \E c \in Conn : \/ Connect(c) \/ SendRequest(c) \/ SendGarbage(c)
                       \/ HangUp(c) \/ Receive(c)
    \/ \E c \in Conn : AcceptReady(c) \/ ReadReady(c)
    \/ AcceptFails
    \/ AcceptHandler
    \/ \E c \in Conn : OnRequest(c) \/ OnReadError(c) \/ OnWrite(c)
    \/ Destroy
    \/ Stop

Spec == Init /\ [][Next]_vars

\* The loop runs every queued handler, the reactor notices what is ready, and
\* the backlog is served once accepts succeed.  A peer takes a response that
\* has come; else peers and the user are free to do nothing.
Fairness ==
    /\ WF_vars(AcceptHandler /\ UNCHANGED loop)
    /\ \A c \in Conn : /\ SF_vars(AcceptReady(c))
                       /\ WF_vars(ReadReady(c))
                       /\ WF_vars(OnRequest(c))
                       /\ WF_vars(OnReadError(c))
                       /\ WF_vars(OnWrite(c))
                       /\ WF_vars(Receive(c))

FairSpec == Spec /\ Fairness

-----------------------------------------------------------------------------
(* Properties.                                                             *)

\* Every variable keeps its type, and an accept is always outstanding or to be
\* handled (start_accept).
TypeOK ==
    /\ loop \in {"running", "stopped", "undefined"}
    /\ alive \in BOOLEAN
    /\ accept \in {"pending", "ok", "failed"}
    /\ m_connections \in SUBSET Conn
    /\ open \in SUBSET Conn
    /\ op \in [Conn -> {"none", "accept", "read", "request", "error", "write", "done"}]
    /\ peer \in [Conn -> {"away", "open", "sent", "garbled", "gone", "answered", "failed"}]
    /\ m_req \in [Conn -> Requests \cup {"none"}]
    /\ replied \in SUBSET Conn
    /\ ran \in [Conn -> Nat]

\* Sockets without an operation that will close them are those of peers that
\* did not send a whole request, which on_read leaves open, and nobody else's:
\* no request costs the Node a descriptor once it is dealt with, however the
\* method ended and whenever the peer went away.
OnlyUnfinishedLeak ==
    \A c \in open : op[c] = "done" => /\ m_req[c] = "none"
                                      /\ peer[c] \in {"garbled", "gone"}
                                      /\ c \in m_connections

Status ==
    [c \in Conn |-> CASE peer[c] \in {"away", "open"} -> "idle"
                      [] peer[c] = "sent"             -> "called"
                      [] peer[c] = "answered"         -> "answered"
                      [] OTHER                        -> "failed"]

R == INSTANCE Rpc WITH Call <- Conn, status <- Status, unserved <- {}

\* Like a service, a Node runs the method of a request at most once, and only
\* a peer whose method has run is answered.
RpcSpec == R!Spec

\* Sockets that stay open whatever the loop does: leaked, or without a request.
Held == {c \in open : op[c] = "done" \/ peer[c] = "open"}

\* A request is answered or its connection ended, also when accepts fail and
\* peers hang up, while the loop runs, the Node exists and idle and leaked
\* connections leave a descriptor; and once a method has returned its answer
\* arrives whatever becomes of the loop and the Node, that of shutdown too,
\* which has stopped the loop that would go on with the write (node.hpp:194).
Served ==
    \A c \in Conn : (peer[c] = "sent")
        ~> (\/ peer[c] # "sent"
            \/ /\ ran[c] = 0
               /\ \/ ~Running \/ ~alive
                  \/ Cardinality(Held) >= MaxOpen)
=============================================================================
