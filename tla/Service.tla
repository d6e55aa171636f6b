------------------------------ MODULE Service ------------------------------
(***************************************************************************)
(* rosasio::ServiceServer, the ClientConnections it accepts, and calls of  *)
(* rosasio::ServiceClient (include/rosasio/service_server.hpp,             *)
(* service_client.hpp).  Several ServiceServers, of one node or of         *)
(* several, may offer one service, one after the other or at the same      *)
(* time.  Every node is a process with one event loop.                     *)
(*                                                                         *)
(* A call blocks its thread, and makes a connection of its own.  A server  *)
(* is a chain of handlers: an asynchronous operation completes in one step *)
(* and its handler runs in a later one.  What goes over a connection are   *)
(* tokens: the length and the body of the caller's header and of its       *)
(* request ("zero" is a length without a body), the server's header and    *)
(* its reply.                                                              *)
(***************************************************************************)
EXTENDS Naturals, Sequences, FiniteSets

CONSTANTS
    Node,       \* nodes, a process and its loop for each
    Server,     \* ServiceServer objects of the service
    Home,       \* Home[v]: the node of v
    Call,       \* calls of the service that may be made, each by one thread
    Thread,     \* Thread[k]: the node whose loop call k is made from, or NoOne
    NoOne,
    Mortal,     \* nodes whose process may be killed,
    Stoppable,  \*   and those whose loop may be stopped
    Empty,      \* calls whose request is empty
    Throws,     \* calls whose request, or the callback, may make handle_call throw
    MaxServers  \* bound: how many servers are created

ASSUME ServiceAssumption ==
    /\ Home \in [Server -> Node]
    /\ Thread \in [Call -> Node \cup {NoOne}]
    /\ NoOne \notin Server \cup Node
    /\ Mortal \cup Stoppable \subseteq Node
    /\ Empty \cup Throws \subseteq Call
    /\ MaxServers \in Nat

VARIABLES
    loop,       \* loop[n]: "running", "stopped", "thrown", "killed" or "undefined"
    state,      \* state[v]: the ServiceServer is "new", "live" or "dead"
    accept,     \* accept[v]: completion of its async_accept
    provider,   \* the server the master has for the service, or NoOne
    m_services, \* Node::m_services of all nodes: the servers whose ports they hold
    stage,      \* stage[k]: what call k waits for, or how it ended
    to,         \* to[k]: the server it was told to go to
    op,         \* op[k]: what the ClientConnection of k waits for
    ec,         \* ec[k]: completion of that operation
    got,        \* got[k]: the last token it read
    request,    \* request[k]: tokens on their way to it
    reply,      \* reply[k]: tokens on their way back
    ran         \* history: how often the callback has run for k

vars == <<loop, state, accept, provider, m_services, stage, to, op, ec, got, request,
          reply, ran>>

Waiting == {"connect", "header", "response"}
Over    == {"answered", "threw", "misled", "killed"}
Reads   == {"hdrlen", "hdr", "reqlen", "req"}
Writes  == {"greet", "reply"}

\* The loop of n is not in the middle of a handler that makes a call.
Free(n) ==
    /\ loop[n] = "running"
    /\ \A k \in Call : Thread[k] = n => stage[k] \notin Waiting

Init ==
    /\ loop = [n \in Node |-> "running"]
    /\ state = [v \in Server |-> "new"]
    /\ accept = [v \in Server |-> "none"]
    /\ provider = NoOne
    /\ m_services = {}
    /\ stage = [k \in Call |-> "idle"]
    /\ to = [k \in Call |-> NoOne]
    /\ op = [k \in Call |-> "none"]
    /\ ec = [k \in Call |-> "pending"]
    /\ got = [k \in Call |-> "none"]
    /\ request = [k \in Call |-> <<>>]
    /\ reply = [k \in Call |-> <<>>]
    /\ ran = [k \in Call |-> 0]

-----------------------------------------------------------------------------
(* ServiceClient::call.                                                    *)

\* lookupService: the master answers at once.
LookupService(k) ==
    /\ stage[k] = "idle"
    /\ Thread[k] # NoOne => Free(Thread[k])
    /\ to' = [to EXCEPT ![k] = provider]
    /\ stage' = [stage EXCEPT ![k] = IF provider = NoOne THEN "threw" ELSE "connect"]
    /\ UNCHANGED <<loop, state, accept, provider, m_services, op, ec, got, request, reply, ran>>

\* The kernel of a server that listens takes the connection and the header.
Connect(k) ==
    /\ stage[k] = "connect"
    /\ \/ /\ state[to[k]] = "live"
          /\ stage' = [stage EXCEPT ![k] = "header"]
          /\ op' = [op EXCEPT ![k] = "backlog"]
          /\ request' = [request EXCEPT ![k] = <<"hdrlen", "hdr">>]
       \/ /\ state[to[k]] # "live"
          /\ stage' = [stage EXCEPT ![k] = "threw"]
          /\ UNCHANGED <<op, request>>
    /\ UNCHANGED <<loop, state, accept, provider, m_services, to, ec, got, reply, ran>>

\* The length of the request, and the request unless it serializes to nothing.
Request(k) == IF k \in Empty THEN <<"zero">> ELSE <<"len", "body">>

\* The header of the server is read and dropped, and the request written.  On a
\* connection that has ended the write may throw.
ReadHeader(k) ==
    /\ stage[k] = "header"
    /\ \/ /\ reply[k] # <<>>
          /\ reply' = [reply EXCEPT ![k] = Tail(@)]
          /\ stage' = [stage EXCEPT ![k] = "response"]
          /\ request' = [request EXCEPT ![k] = @ \o Request(k)]
       \/ /\ op[k] = "gone"
          /\ stage' = [stage EXCEPT ![k] = "threw"]
          /\ UNCHANGED <<request, reply>>
    /\ UNCHANGED <<loop, state, accept, provider, m_services, to, op, ec, got, ran>>

\* The status byte is read and ignored: that the callback refused is an answer
\* like any other.
ReadResponse(k) ==
    /\ stage[k] = "response"
    /\ reply[k] # <<>>
    /\ reply' = [reply EXCEPT ![k] = Tail(@)]
    /\ stage' = [stage EXCEPT ![k] = "answered"]
    /\ UNCHANGED <<loop, state, accept, provider, m_services, to, op, ec, got, request, ran>>

\* What the caller reads next does not come any more.
Severed(k) ==
    /\ stage[k] \in {"header", "response"}
    /\ reply[k] = <<>>
    /\ op[k] = "gone"

\* The errors of the reads are ignored: a buffer is sized with a length nobody
\* wrote, and what is in it is deserialized.  That throws, or call() returns,
\* with a response nobody sent ...
ReadNothing(k) ==
    /\ Severed(k)
    /\ \E outcome \in {"threw", "misled"} : stage' = [stage EXCEPT ![k] = outcome]
    /\ UNCHANGED <<loop, state, accept, provider, m_services, to, op, ec, got, request,
                   reply, ran>>

\* The process of n ends: nothing is unregistered, its sockets close, and what
\* was on its way to them is lost.
ProcessEnds(n) ==
    LET cut == {k \in Call : op[k] # "none" /\ Home[to[k]] = n} IN
    /\ loop' = [loop EXCEPT ![n] = "killed"]
    /\ state' = [v \in Server |-> IF Home[v] = n THEN "dead" ELSE state[v]]
    /\ accept' = [v \in Server |-> IF Home[v] = n /\ accept[v] # "none"
                                    THEN "failed" ELSE accept[v]]
    /\ m_services' = {v \in m_services : Home[v] # n}
    /\ stage' = [k \in Call |-> IF Thread[k] = n /\ stage[k] \notin Over
                                  THEN "killed" ELSE stage[k]]
    /\ op' = [k \in Call |-> IF k \in cut THEN "gone" ELSE op[k]]
    /\ ec' = [k \in Call |-> IF k \in cut THEN "pending" ELSE ec[k]]
    /\ got' = [k \in Call |-> IF k \in cut THEN "none" ELSE got[k]]
    /\ request' = [k \in Call |-> IF k \in cut THEN <<>> ELSE request[k]]
    /\ UNCHANGED <<provider, to, reply, ran>>

\* ... or the process crashes, and with it the loop the call was made from.
ReadCrashes(k) ==
    /\ Severed(k)
    /\ Thread[k] # NoOne
    /\ ProcessEnds(Thread[k])

\* The process of a caller with a thread of its own is killed, or crashes.
CallerKilled(k) ==
    /\ stage[k] \in Waiting
    /\ Thread[k] = NoOne
    /\ stage' = [stage EXCEPT ![k] = "killed"]
    /\ reply' = [reply EXCEPT ![k] = <<>>]
    /\ UNCHANGED <<loop, state, accept, provider, m_services, to, op, ec, got, request, ran>>

-----------------------------------------------------------------------------
(* The sockets of the servers.                                             *)

AcceptReady(k) ==
    /\ op[k] = "backlog"
    /\ Free(Home[to[k]])
    /\ accept[to[k]] = "pending"
    /\ accept' = [accept EXCEPT ![to[k]] = "ok"]
    /\ op' = [op EXCEPT ![k] = "accept"]
    /\ UNCHANGED <<loop, state, provider, m_services, stage, to, ec, got, request, reply, ran>>

AcceptFails(v) ==
    /\ Free(Home[v])
    /\ accept[v] = "pending"
    /\ accept' = [accept EXCEPT ![v] = "failed"]
    /\ UNCHANGED <<loop, state, provider, m_services, stage, to, op, ec, got, request, reply, ran>>

\* A read completes with the next token, or with the end of the connection.
ReadReady(k) ==
    /\ op[k] \in Reads
    /\ ec[k] = "pending"
    /\ Free(Home[to[k]])
    /\ \/ /\ request[k] # <<>>
          /\ got' = [got EXCEPT ![k] = Head(request[k])]
          /\ request' = [request EXCEPT ![k] = Tail(@)]
          /\ ec' = [ec EXCEPT ![k] = "ok"]
       \/ /\ request[k] = <<>>
          /\ stage[k] \in Over
          /\ ec' = [ec EXCEPT ![k] = "error"]
          /\ UNCHANGED <<got, request>>
    /\ UNCHANGED <<loop, state, accept, provider, m_services, stage, to, op, reply, ran>>

\* A write completes; when the caller has gone it may fail, and nobody reads it.
WriteReady(k) ==
    /\ op[k] \in Writes
    /\ ec[k] = "pending"
    /\ Free(Home[to[k]])
    /\ \/ /\ stage[k] \notin Over
          /\ reply' = [reply EXCEPT ![k] = Append(@, op[k])]
          /\ ec' = [ec EXCEPT ![k] = "ok"]
       \/ /\ stage[k] \in Over
          /\ ec' \in {[ec EXCEPT ![k] = e] : e \in {"ok", "error"}}
          /\ UNCHANGED reply
    /\ UNCHANGED <<loop, state, accept, provider, m_services, stage, to, op, got, request, ran>>

-----------------------------------------------------------------------------
(* The handlers.                                                           *)

NextAcceptForgotten == "none"

\* start_accept: another connection object waits to be accepted.
NextAccept == "pending"

\* accept_handler starts the connection; it is bound to the raw 'this', on
\* which start_accept may crash, or fail at once, when the server is destroyed.
AcceptHandler(v) ==
    /\ Free(Home[v])
    /\ accept[v] \in {"ok", "failed"}
    /\ op' = [k \in Call |-> IF op[k] = "accept" /\ to[k] = v THEN "hdrlen" ELSE op[k]]
    /\ \/ /\ state[v] = "live"
          /\ accept' = [accept EXCEPT ![v] = NextAccept]
          /\ UNCHANGED loop
       \/ /\ state[v] = "dead"
          /\ accept' = [accept EXCEPT ![v] = "failed"]
          /\ UNCHANGED loop
       \/ /\ state[v] = "dead"
          /\ loop' = [loop EXCEPT ![Home[v]] = "undefined"]
          /\ UNCHANGED accept
    /\ UNCHANGED <<state, provider, m_services, stage, to, ec, got, request, reply, ran>>

ReadAgainOnError == "reqlen"

\* A handler that is passed an error returns, and the connection is let go.
AfterError == "gone"

\* The handler of operation o of k runs and starts operation next.
Handles(k, o, next) ==
    /\ op[k] = o
    /\ ec[k] # "pending"
    /\ Free(Home[to[k]])
    /\ op' = [op EXCEPT ![k] = IF ec[k] = "ok" THEN next ELSE AfterError]
    /\ ec' = [ec EXCEPT ![k] = "pending"]
    /\ got' = [got EXCEPT ![k] = "none"]
    /\ UNCHANGED <<loop, state, accept, provider, m_services, stage, to, request, reply>>

\* handle_call: the callback runs and the write of its reply is started.
HandleCall(k, o) ==
    /\ Handles(k, o, "reply")
    /\ ran' = [ran EXCEPT ![k] = IF ec[k] = "ok" THEN @ + 1 ELSE @]

\* The request does not deserialize, or the callback throws: the exception
\* leaves io_context::run, and the connection's last reference is dropped.
HandleCallThrows(k) ==
    /\ k \in Throws
    /\ op[k] = "req" \/ (op[k] = "reqlen" /\ got[k] = "zero")
    /\ ec[k] = "ok"
    /\ Free(Home[to[k]])
    /\ loop' = [loop EXCEPT ![Home[to[k]]] = "thrown"]
    /\ op' = [op EXCEPT ![k] = "gone"]
    /\ ec' = [ec EXCEPT ![k] = "pending"]
    /\ got' = [got EXCEPT ![k] = "none"]
    /\ ran' \in {ran, [ran EXCEPT ![k] = @ + 1]}
    /\ UNCHANGED <<state, accept, provider, m_services, stage, to, request, reply>>

HeaderBodySkipped == "greet"

\* The body of the header, for which the buffer is resized, comes next.
AfterHeaderLength == "hdr"

HandleReadHeaderLength(k) == Handles(k, "hdrlen", AfterHeaderLength) /\ UNCHANGED ran

HandleReadHeader(k) == Handles(k, "hdr", "greet") /\ UNCHANGED ran

AfterGreetingReplies == "reply"

\* What handle_write_header waits for.
AfterGreeting == "reqlen"

HandleWriteHeader(k) == Handles(k, "greet", AfterGreeting) /\ UNCHANGED ran

HandleReadRequestLen(k) ==
    \/ got[k] = "zero" /\ HandleCall(k, "reqlen")
    \/ got[k] # "zero" /\ Handles(k, "reqlen", "req") /\ UNCHANGED ran

HandleReadRequest(k) == HandleCall(k, "req")

\* It waits for another request.
HandleWrite(k) == Handles(k, "reply", "reqlen") /\ UNCHANGED ran

-----------------------------------------------------------------------------
(* The life of the servers.                                                *)

\* Node::m_services: insert keeps the port that is there under the name.
Inserted(v) ==
    IF \E w \in m_services : Home[w] = Home[v] THEN m_services ELSE m_services \cup {v}

\* It erases by name, whichever server's port it is.
Erased(v) == {w \in m_services : Home[w] # Home[v]}

\* The master: the last to register is the service's, and only an unregistration
\* that names its URI is heeded.
Unregister(uri) == IF provider = uri THEN NoOne ELSE provider

CreateServer(v) ==
    /\ Free(Home[v])
    /\ state[v] = "new"
    /\ Cardinality({w \in Server : accept[w] # "none"}) < MaxServers
    /\ state' = [state EXCEPT ![v] = "live"]
    /\ accept' = [accept EXCEPT ![v] = "pending"]
    /\ provider' = v
    /\ m_services' = Inserted(v)
    /\ UNCHANGED <<loop, stage, to, op, ec, got, request, reply, ran>>

LookedUpUri(v) == provider

\* The URI a server unregisters has the port of its own acceptor.
OwnUri(v) == v

\* ~ServiceServer, in a handler or after the loop has returned: it unregisters
\* and the acceptor is closed, and with it the connections that were not
\* accepted.  Those that were keep themselves, and a copy of the callback, alive.
DestroyServer(v) ==
    /\ Free(Home[v]) \/ loop[Home[v]] = "stopped"
    /\ state[v] = "live"
    /\ state' = [state EXCEPT ![v] = "dead"]
    /\ provider' = Unregister(OwnUri(v))
    /\ m_services' = Erased(v)
    /\ accept' = [accept EXCEPT ![v] = IF @ = "pending" THEN "failed" ELSE @]
    /\ op' = [k \in Call |-> IF op[k] = "backlog" /\ to[k] = v THEN "gone" ELSE op[k]]
    /\ UNCHANGED <<loop, stage, to, ec, got, request, reply, ran>>

\* The process is killed, or ends of an exception nobody catches or of the
\* undefined behaviour; the master is not told.
KillNode(n) ==
    /\ \/ n \in Mortal /\ loop[n] # "killed"
       \/ loop[n] \in {"thrown", "undefined"}
    /\ ProcessEnds(n)

\* A signal or a shutdown request: io_context::stop.
StopLoop(n) ==
    /\ n \in Stoppable
    /\ Free(n)
    /\ loop' = [loop EXCEPT ![n] = "stopped"]
    /\ UNCHANGED <<state, accept, provider, m_services, stage, to, op, ec, got, request,
                   reply, ran>>

CallerStep(k) ==
    \/ Connect(k)
    \/ ReadHeader(k)
    \/ ReadResponse(k)
    \/ ReadNothing(k)

ConnectionStep(k) ==
    \/ ReadReady(k)
    \/ WriteReady(k)
    \/ HandleReadHeaderLength(k)
    \/ HandleReadHeader(k)
    \/ HandleWriteHeader(k)
    \/ HandleReadRequestLen(k)
    \/ HandleReadRequest(k)
    \/ HandleWrite(k)

Next ==
    \/ \E k \in Call : \/ LookupService(k) \/ CallerStep(k)
                       \/ ReadCrashes(k) \/ CallerKilled(k)
                       \/ AcceptReady(k) \/ ConnectionStep(k)
                       \/ HandleCallThrows(k)
    \/ \E v \in Server : \/ AcceptFails(v) \/ AcceptHandler(v)
                         \/ CreateServer(v) \/ DestroyServer(v)
    \/ \E n \in Node : KillNode(n) \/ StopLoop(n)

Spec == Init /\ [][Next]_vars

\* Calls go on as soon as they can, the reactors notice what is ready and the
\* loops run every queued handler.  Nobody has to make a call, and servers
\* need not be created, destroyed or killed.
Fairness ==
    /\ \A k \in Call : /\ WF_vars(CallerStep(k))
                       /\ SF_vars(AcceptReady(k))
                       /\ WF_vars(ConnectionStep(k))
    /\ \A v \in Server : WF_vars(AcceptHandler(v) /\ UNCHANGED loop)

FairSpec == Spec /\ Fairness

-----------------------------------------------------------------------------
(* Properties.                                                             *)

Tokens == {"hdrlen", "hdr", "len", "body", "zero"}

\* Every variable keeps its type, and from its construction on a server has an
\* accept outstanding or to be handled (start_accept).
TypeOK ==
    /\ loop \in [Node -> {"running", "stopped", "thrown", "killed", "undefined"}]
    /\ state \in [Server -> {"new", "live", "dead"}]
    /\ accept \in [Server -> {"none", "pending", "ok", "failed"}]
    /\ \A v \in Server : state[v] = "live" => accept[v] # "none"
    /\ provider \in Server \cup {NoOne}
    /\ m_services \in SUBSET Server
    /\ stage \in [Call -> {"idle"} \cup Waiting \cup Over]
    /\ to \in [Call -> Server \cup {NoOne}]
    /\ op \in [Call -> {"none", "backlog", "accept", "gone"} \cup Reads \cup Writes]
    /\ ec \in [Call -> {"pending", "ok", "error"}]
    /\ got \in [Call -> Tokens \cup {"none"}]
    /\ request \in [Call -> Seq(Tokens)]
    /\ reply \in [Call -> Seq(Writes)]
    /\ ran \in [Call -> Nat]

\* The two ends of a connection never lose step: every handler is given the
\* part of the header or of the request it takes it for, and the caller reads
\* the header of the server where it expects it and the reply where it expects
\* that (handle_read_header_length to handle_write, call_service).
InStep ==
    \A k \in Call :
        /\ op[k] \in Reads /\ ec[k] = "ok" =>
              got[k] \in (CASE op[k] = "hdrlen" -> {"hdrlen"}
                            [] op[k] = "hdr"    -> {"hdr"}
                            [] op[k] = "reqlen" -> {"len", "zero"}
                            [] op[k] = "req"    -> {"body"})
        /\ stage[k] = "header" => reply[k] \in {<<>>, <<"greet">>}
        /\ stage[k] = "response" => reply[k] \in {<<>>, <<"reply">>}

Status ==
    [k \in Call |-> CASE stage[k] = "idle"                  -> "idle"
                      [] stage[k] \in Waiting               -> "called"
                      [] stage[k] \in {"answered", "misled"} -> stage[k]
                      [] OTHER                              -> "failed"]

\* A server was destroyed, or its process ended or is about to.
Ended(v) == state[v] = "dead" \/ loop[Home[v]] = "thrown"

Unserved == {k \in Call : stage[k] # "idle" /\ to[k] # NoOne /\ Ended(to[k])}

R == INSTANCE Rpc WITH status <- Status, unserved <- Unserved

\* However calls, servers and their ends overlap, the callback runs at most
\* once for a call, an answer the server sent is only had when it has run, and
\* call() returns with a response nobody sent, which its caller cannot tell
\* from an answer, only when the server it had found has ended.
RpcSpec == R!Spec

\* What the master and the nodes have registered is there, unless, for the
\* master, its process was killed ...
RegistryLive ==
    /\ provider # NoOne => state[provider] = "live" \/ loop[Home[provider]] = "killed"
    /\ \A v \in m_services : state[v] = "live"

\* ... and a registration is lost to a server that comes or by its own end.
OwnRegistration ==
    provider' # provider =>
        \/ \E v \in Server : state[v] = "new" /\ provider' = v
        \/ provider # NoOne /\ state[provider] = "live" /\ state'[provider] = "dead"

\* A server that ends takes back its own registration with the master, and no
\* other, whichever came first and whichever node they are of; and no node
\* goes on giving out its port (register_service, unregister_service).
Registrations == []RegistryLive /\ [][OwnRegistration]_vars

Halted(n) == loop[n] \in {"stopped", "thrown", "undefined"}

\* The server of k serves nobody any more: its loop has come to a halt, or is
\* in a call to itself or to a server whose loop has.
Stuck(k) ==
    \/ to[k] # NoOne /\ Halted(Home[to[k]])
    \/ \E j \in Call : /\ stage[j] \in Waiting
                      /\ to[k] # NoOne /\ Thread[j] = Home[to[k]]
                      /\ (Home[to[j]] = Home[to[k]] \/ Halted(Home[to[j]]))

\* A call comes to an end, also when its server is destroyed or killed in the
\* middle of it, or makes a call of its own before it serves this one.  It
\* does not when it is made from the loop that serves it (README.md:20 wants
\* to "allow multiple nodes in the same process using the same event loop").
CallsEnd == \A k \in Call : (stage[k] \in Waiting) ~> (stage[k] \in Over \/ Stuck(k))

\* A connection is let go once its caller is gone, whatever it was doing.
ConnectionsEnd ==
    \A k \in Call : (stage[k] \in Over) ~> (op[k] \in {"none", "gone"} \/ Stuck(k))
=============================================================================
