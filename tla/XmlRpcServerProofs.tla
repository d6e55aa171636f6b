------------------------- MODULE XmlRpcServerProofs -------------------------
(***************************************************************************)
(* Proofs about XmlRpcServer, for any number of peers, whatever they send, *)
(* and any number of descriptors: which sockets are left open, and that    *)
(* the server implements Rpc.                                              *)
(***************************************************************************)
EXTENDS XmlRpcServer, TLAPS

USE XmlRpcServerAssumption

\* A request arrives whole when it is sent, and a read only fails without one.
RequestRight(c) ==
    /\ m_req[c] # "none" => peer[c] \notin {"away", "open", "garbled"}
    /\ op[c] = "error" => m_req[c] = "none" /\ peer[c] \in {"garbled", "gone"}

\* A method runs in on_read and nowhere else, and before its answer is written.
RanRight(c) ==
    /\ ran[c] \in {0, 1}
    /\ ran[c] = 1 => op[c] \in {"write", "done"}
    /\ c \in replied => ran[c] = 1
    /\ peer[c] = "answered" => c \in replied

IInv ==
    /\ TypeOK
    /\ OnlyUnfinishedLeak
    /\ \A c \in Conn : RequestRight(c) /\ RanRight(c)

-----------------------------------------------------------------------------
(* The inductive invariant.                                                *)

\* The initial state satisfies it.
LEMMA InitIInv == Init => IInv
  BY DEF Init, IInv, TypeOK, OnlyUnfinishedLeak, RequestRight, RanRight

\* The peers preserve it: what has been sent is not taken back.
LEMMA PeerSteps ==
    ASSUME IInv, NEW c \in Conn,
           Connect(c) \/ SendRequest(c) \/ SendGarbage(c) \/ HangUp(c) \/ Receive(c)
    PROVE  IInv'
  <1>1. TypeOK'
    BY DEF IInv, TypeOK, Connect, SendRequest, SendGarbage, HangUp, Receive, PeerStep
  <1>2. OnlyUnfinishedLeak'
    BY DEF IInv, TypeOK, OnlyUnfinishedLeak, RequestRight, Connect, SendRequest, SendGarbage,
           HangUp, Receive, PeerStep
  <1>3. \A d \in Conn : RequestRight(d)'
    BY DEF IInv, TypeOK, RequestRight, Connect, SendRequest, SendGarbage, HangUp, Receive,
           PeerStep
  <1>4. \A d \in Conn : RanRight(d)'
    BY DEF IInv, TypeOK, RanRight, Connect, SendRequest, SendGarbage, HangUp, Receive, PeerStep
  <1> QED BY <1>1, <1>2, <1>3, <1>4 DEF IInv

\* Completions preserve it.
LEMMA KernelSteps ==
    ASSUME IInv, NEW c \in Conn, AcceptReady(c) \/ ReadReady(c)
    PROVE  IInv'
  BY DEF IInv, TypeOK, OnlyUnfinishedLeak, RequestRight, RanRight, AcceptReady, ReadReady

\* A request that has been read runs its method, for the first time.
LEMMA OnRequestStep ==
    ASSUME IInv, NEW c \in Conn, OnRequest(c)
    PROVE  IInv'
  <1>1. /\ TypeOK /\ loop = "running" /\ op[c] = "request" /\ ran[c] = 0
        /\ m_connections' = m_connections /\ peer' = peer /\ m_req' = m_req
        /\ alive' = alive /\ accept' = accept
        /\ \/ m_req[c] # "none"
           \/ ~alive
    BY DEF IInv, RanRight, OnRequest, Running
  <1>2. CASE alive
    <2>1. /\ loop' \in {"running", "stopped"}
          /\ open' \in {open, open \ {c}}
          /\ \E o \in {"write", "done"} : op' = [op EXCEPT ![c] = o]
          /\ ran' \in {ran, [ran EXCEPT ![c] = @ + 1]}
          /\ replied' \in {replied, replied \cup {c}}
          /\ c \in replied' => ran'[c] = 1
          /\ op'[c] = "done" => c \notin open'
      BY <1>1, <1>2 DEF IInv, TypeOK, RanRight, OnRequest, CallMethod, Shutdown, MethodThrows,
                        UnknownMethod, Respond, Close, Finish, Runs
    <2> QED BY <1>1, <2>1 DEF IInv, TypeOK, OnlyUnfinishedLeak, RequestRight, RanRight
  <1>3. CASE ~alive
    <2>1. /\ open' = open /\ op' = op /\ replied' = replied /\ ran' = ran
          /\ loop' = "undefined"
      BY <1>3 DEF OnRequest
    <2> QED BY <1>1, <2>1 DEF IInv, TypeOK, OnlyUnfinishedLeak, RequestRight, RanRight
  <1> QED BY <1>2, <1>3

\* An accept that has completed or failed preserves it.
LEMMA AcceptSteps ==
    ASSUME IInv, AcceptFails \/ AcceptHandler
    PROVE  IInv'
  BY DEF IInv, TypeOK, OnlyUnfinishedLeak, RequestRight, RanRight, AcceptFails, AcceptHandler,
         NextAccept, Running

\* The other handlers preserve it: only on_read leaves a socket open, that of
\* a connection which ended without a request.
LEMMA EndSteps ==
    ASSUME IInv, NEW c \in Conn, OnReadError(c) \/ OnWrite(c)
    PROVE  IInv'
  BY DEF IInv, TypeOK, OnlyUnfinishedLeak, RequestRight, RanRight, OnReadError, OnWrite,
         NotClosed, Close, Finish, Running

\* The end of the Node and that of the loop preserve it.
LEMMA UserSteps ==
    ASSUME IInv, Destroy \/ Stop
    PROVE  IInv'
  BY DEF IInv, TypeOK, OnlyUnfinishedLeak, RequestRight, RanRight, Destroy, Stop, Running

\* It holds in every reachable state.
THEOREM Invariance == Spec => []IInv
  <1>1. IInv /\ [Next]_vars => IInv'
    <2>1. CASE UNCHANGED vars
      BY <2>1 DEF vars, IInv, TypeOK, OnlyUnfinishedLeak, RequestRight, RanRight
    <2> QED BY <2>1, PeerSteps, KernelSteps, AcceptSteps, OnRequestStep, EndSteps, UserSteps
            DEF Next
  <1> QED BY <1>1, InitIInv, PTL DEF Spec

-----------------------------------------------------------------------------
(* What follows from it.                                                   *)

\* Every variable keeps its type, and an accept is always outstanding or to be
\* handled.
THEOREM TypeCorrect == Spec => []TypeOK
  <1>1. IInv => TypeOK
    BY DEF IInv
  <1> QED BY <1>1, Invariance, PTL

\* Only connections that ended without a request leave a socket open.
THEOREM NoOtherLeak == Spec => []OnlyUnfinishedLeak
  <1>1. IInv => OnlyUnfinishedLeak
    BY DEF IInv
  <1> QED BY <1>1, Invariance, PTL

-----------------------------------------------------------------------------
(* The server implements Rpc: peers make calls and give them up, on_read    *)
(* runs them, and nothing else is seen.                                    *)

\* The status of a peer is a call's.
LEMMA StatusOf ==
    ASSUME NEW c \in Conn
    PROVE  /\ Status[c] = (CASE peer[c] \in {"away", "open"} -> "idle"
                              [] peer[c] = "sent"             -> "called"
                              [] peer[c] = "answered"         -> "answered"
                              [] OTHER                        -> "failed")
           /\ Status'[c] = (CASE peer'[c] \in {"away", "open"} -> "idle"
                               [] peer'[c] = "sent"             -> "called"
                               [] peer'[c] = "answered"         -> "answered"
                               [] OTHER                         -> "failed")
  BY DEF Status

\* A step of a peer makes a call, ends it or is not seen.
LEMMA PeerRefines ==
    ASSUME IInv, NEW c \in Conn,
           Connect(c) \/ SendRequest(c) \/ SendGarbage(c) \/ HangUp(c) \/ Receive(c)
    PROVE  [R!Next]_(R!rpcVars)
  <1>1. /\ ran' = ran /\ peer \in [Conn -> {"away", "open", "sent", "garbled", "gone",
                                            "answered", "failed"}]
        /\ \E p \in {"open", "sent", "garbled", "gone", "answered", "failed"} :
              peer' = [peer EXCEPT ![c] = p]
    BY DEF IInv, TypeOK, Connect, SendRequest, SendGarbage, HangUp, Receive, PeerStep
  <1>2. \A d \in Conn \ {c} : Status'[d] = Status[d]
    BY <1>1, StatusOf
  <1>3. CASE Status'[c] = Status[c]
    <2>1. Status' = Status
      BY <1>2, <1>3 DEF Status
    <2> QED BY <1>1, <2>1 DEF R!rpcVars
  <1>4. CASE Status'[c] = "called" /\ Status[c] = "idle"
    <2>1. Status' = [Status EXCEPT ![c] = "called"]
      BY <1>2, <1>4 DEF Status
    <2> QED BY <1>1, <1>4, <2>1 DEF R!Next, R!Make, R!Turns
  <1>5. CASE Status'[c] = "failed" /\ Status[c] \in {"idle", "called"}
    <2>1. Status' = [d \in Conn |-> IF d \in {c} THEN "failed" ELSE Status[d]]
      BY <1>2, <1>5 DEF Status
    <2>2. R!Fail({c})
      BY <1>1, <1>5, <2>1 DEF R!Fail
    <2> QED BY <2>2 DEF R!Next
  <1>6. CASE Status'[c] = "answered" /\ Status[c] = "called" /\ ran[c] = 1
    <2>1. Status' = [Status EXCEPT ![c] = "answered"]
      BY <1>2, <1>6 DEF Status
    <2> QED BY <1>1, <1>6, <2>1 DEF R!Next, R!Answer, R!Turns
  <1>7. \/ Status'[c] = Status[c]
        \/ Status'[c] = "called" /\ Status[c] = "idle"
        \/ Status'[c] = "failed" /\ Status[c] \in {"idle", "called"}
        \/ Status'[c] = "answered" /\ Status[c] = "called" /\ ran[c] = 1
    BY <1>1, StatusOf DEF IInv, RanRight, Connect, SendRequest, SendGarbage, HangUp, Receive,
                          PeerStep
  <1> QED BY <1>3, <1>4, <1>5, <1>6, <1>7

\* A method runs for a call that was made, and has not run.
LEMMA OnRequestRefines ==
    ASSUME IInv, NEW c \in Conn, OnRequest(c)
    PROVE  [R!Next]_(R!rpcVars)
  <1>1. Status' = Status
    BY DEF Status, OnRequest
  <1>2. CASE ran' = ran
    BY <1>1, <1>2 DEF R!rpcVars
  <1>3. CASE ran' # ran
    <2>1. ran' = [ran EXCEPT ![c] = @ + 1] /\ m_req[c] # "none" /\ op[c] = "request"
          /\ loop = "running"
      BY <1>3 DEF OnRequest, CallMethod, Shutdown, MethodThrows, UnknownMethod, Runs,
                  Running
    <2>2. ran[c] = 0 /\ peer[c] \notin {"away", "open", "garbled", "answered"}
      BY <2>1 DEF IInv, RequestRight, RanRight
    <2>3. Status[c] \in {"called", "failed"}
      BY <2>2, StatusOf
    <2>4. ran' = [ran EXCEPT ![c] = 1]
      BY <2>1, <2>2
    <2>5. R!Run(c)
      BY <1>1, <2>2, <2>3, <2>4 DEF R!Run
    <2> QED BY <2>5 DEF R!Next
  <1> QED BY <1>2, <1>3

\* The server implements the abstract remote procedure calls.
THEOREM Implementation == Spec => RpcSpec
  <1>1. Init => R!Init
    BY DEF Init, R!Init, Status
  <1>2. IInv /\ [Next]_vars => [R!Next]_(R!rpcVars)
    <2> SUFFICES ASSUME IInv, [Next]_vars PROVE [R!Next]_(R!rpcVars)
      OBVIOUS
    <2>1. CASE peer' = peer /\ ran' = ran
      <3>1. Status' = Status
        BY <2>1 DEF Status
      <3> QED BY <2>1, <3>1 DEF R!rpcVars
    <2>2. CASE \E c \in Conn : \/ Connect(c) \/ SendRequest(c) \/ SendGarbage(c)
                               \/ HangUp(c) \/ Receive(c)
      BY <2>2, PeerRefines
    <2>3. CASE \E c \in Conn : OnRequest(c)
      BY <2>3, OnRequestRefines
    <2> QED BY <2>1, <2>2, <2>3 DEF Next, AcceptReady, ReadReady, AcceptFails, AcceptHandler,
                                    OnReadError, OnWrite, Destroy, Stop, vars
  <1> QED BY Invariance, <1>1, <1>2, PTL DEF Spec, RpcSpec, R!Spec
-----------------------------------------------------------------------------
(* What Served rests on: a request never waits for what will not come.      *)

\* A step that Fairness speaks of can be taken for c.
CanGoOn(c) ==
    \/ c \in replied
    \/ op[c] = "done" /\ c \notin open
    \/ Running /\ op[c] \in {"request", "error", "write"}
    \/ Running /\ op[c] = "read" /\ (m_req[c] # "none" \/ peer[c] \in {"garbled", "gone"})
    \/ Running /\ alive /\ op[c] = "accept" /\ accept = "ok"

\* A request whose method has returned has its answer, or its connection has
\* ended, whatever became of the loop; and while the loop runs any other one
\* can go on or be accepted, or a connection whose descriptor it waits for can
\* go on, unless as many as there are descriptors are held.
Unblocked ==
    \A c \in Conn : peer[c] = "sent" =>
        IF ran[c] = 1
          THEN c \in replied \/ (op[c] = "done" /\ c \notin open)
          ELSE Running /\ alive =>
                 \/ CanGoOn(c)
                 \/ op[c] = "none" /\ (accept # "pending" \/ Cardinality(open) < MaxOpen)
                 \/ \E d \in open : CanGoOn(d)
                 \/ ~(Cardinality(Held) < MaxOpen)

\* Where a connection is, by what its peer and the server have done.
ConnRight(c) ==
    /\ c \in open => op[c] # "none"
    /\ op[c] # "none" => peer[c] # "away"
    /\ op[c] = "accept" => accept = "ok"
    /\ peer[c] \in {"sent", "answered", "failed"} => m_req[c] # "none"
    /\ op[c] = "request" \/ ran[c] = 1 => m_req[c] # "none"
    /\ peer[c] = "sent" /\ ran[c] = 1 => c \in replied \/ (op[c] = "done" /\ c \notin open)

\* Every step keeps the connections where they belong.
LEMMA ConnRightSteps ==
    ASSUME IInv, \A c \in Conn : ConnRight(c), Next
    PROVE  \A c \in Conn : ConnRight(c)'
  <1> SUFFICES ASSUME NEW c \in Conn PROVE ConnRight(c)'
    OBVIOUS
  <1>0. TypeOK /\ RanRight(c) /\ RequestRight(c) /\ ConnRight(c)
    BY DEF IInv
  <1>1. ASSUME NEW d \in Conn,
               Connect(d) \/ SendRequest(d) \/ SendGarbage(d) \/ HangUp(d) \/ Receive(d)
        PROVE  ConnRight(c)'
    <2>1. open' = open /\ op' = op /\ accept' = accept /\ replied' = replied /\ ran' = ran
      BY <1>1 DEF Connect, SendRequest, SendGarbage, HangUp, Receive, PeerStep
    <2>2. PICK p \in {"open", "sent", "garbled", "gone", "answered", "failed"} :
             /\ peer' = [peer EXCEPT ![d] = p]
             /\ p = "sent" => ran[d] # 1 /\ m_req'[d] # "none"
             /\ p \in {"answered", "failed"} => peer[d] = "sent" /\ m_req' = m_req
             /\ m_req[d] # "none" => m_req'[d] # "none"
             /\ \A e \in Conn \ {d} : m_req'[e] = m_req[e]
      <3>1. peer[d] = "open" => ran[d] # 1
        BY <1>0 DEF IInv, RanRight, ConnRight, RequestRight, OnlyUnfinishedLeak
      <3>2. CASE Connect(d) \/ SendGarbage(d) \/ HangUp(d)
        <4>1. /\ m_req' = m_req
              /\ \E p \in {"open", "garbled", "gone"} : peer' = [peer EXCEPT ![d] = p]
          BY <3>2 DEF Connect, SendGarbage, HangUp, PeerStep
        <4> QED BY <4>1
      <3>3. CASE SendRequest(d)
        BY <1>0, <3>1, <3>3 DEF TypeOK, SendRequest, PeerStep, Requests
      <3>4. CASE Receive(d)
        <4>1. /\ m_req' = m_req /\ peer[d] = "sent"
              /\ \E p \in {"answered", "failed"} : peer' = [peer EXCEPT ![d] = p]
          BY <3>4 DEF Receive, PeerStep
        <4> QED BY <4>1
      <3> QED BY <1>1, <3>2, <3>3, <3>4
    <2>3. CASE c = d
      BY <1>0, <2>1, <2>2, <2>3 DEF TypeOK, ConnRight
    <2>4. CASE c # d
      BY <1>0, <2>1, <2>2, <2>4 DEF TypeOK, ConnRight
    <2> QED BY <2>3, <2>4
  <1>2. ASSUME NEW d \in Conn, AcceptReady(d) \/ ReadReady(d)
        PROVE  ConnRight(c)'
    BY <1>0, <1>2 DEF TypeOK, ConnRight, RanRight, AcceptReady, ReadReady
  <1>3. CASE AcceptFails \/ AcceptHandler
    <2>1. /\ peer' = peer /\ open' = open /\ m_req' = m_req /\ replied' = replied /\ ran' = ran
          /\ \/ op' = [d \in Conn |-> IF op[d] = "accept" THEN "read" ELSE op[d]]
             \/ op' = op /\ (accept' = accept \/ accept = "pending")
      BY <1>3 DEF AcceptFails, AcceptHandler
    <2>2. CASE op' = [d \in Conn |-> IF op[d] = "accept" THEN "read" ELSE op[d]]
      BY <1>0, <2>1, <2>2 DEF ConnRight, RanRight
    <2>3. CASE op' = op /\ (accept' = accept \/ accept = "pending")
      BY <1>0, <2>1, <2>3 DEF ConnRight
    <2> QED BY <2>1, <2>2, <2>3
  <1>4. ASSUME NEW d \in Conn, OnRequest(d)
        PROVE  ConnRight(c)'
    <2>1. /\ peer' = peer /\ accept' = accept /\ m_req' = m_req /\ op[d] = "request"
          /\ open' \in {open, open \ {d}}
          /\ \E o \in {"write", "done", "request"} : op' = [op EXCEPT ![d] = o]
          /\ ran' \in {ran, [ran EXCEPT ![d] = @ + 1]}
          /\ replied' \in {replied, replied \cup {d}}
          /\ peer[d] = "sent" /\ op'[d] = "write" => d \in replied'
          /\ op'[d] = "done" => d \notin open'
          /\ ran' # ran => op'[d] # "request"
      BY <1>0, <1>4 DEF TypeOK, OnRequest, CallMethod, Shutdown, MethodThrows, UnknownMethod,
                        Respond, Close, Finish, Runs
    <2>2. CASE c = d
      BY <1>0, <2>1, <2>2 DEF TypeOK, ConnRight, RanRight
    <2>3. CASE c # d
      BY <1>0, <2>1, <2>3 DEF TypeOK, ConnRight
    <2> QED BY <2>2, <2>3
  <1>5. ASSUME NEW d \in Conn, OnReadError(d) \/ OnWrite(d)
        PROVE  ConnRight(c)'
    BY <1>0, <1>5 DEF TypeOK, ConnRight, RanRight, RequestRight, OnReadError, OnWrite, NotClosed,
                      Close, Finish
  <1>6. CASE Destroy \/ Stop
    BY <1>0, <1>6 DEF TypeOK, ConnRight, Destroy, Stop
  <1> QED BY <1>1, <1>2, <1>3, <1>4, <1>5, <1>6 DEF Next

\* The safety half of Served.
THEOREM NeverStuck == Spec => []Unblocked
  <1> DEFINE AllRight == \A c \in Conn : ConnRight(c)
  <1>1. Init => AllRight
    BY DEF Init, ConnRight
  <1>2. IInv /\ AllRight /\ [Next]_vars => AllRight'
    <2>1. ASSUME AllRight, UNCHANGED vars PROVE AllRight'
      BY <2>1 DEF vars, ConnRight
    <2> QED BY <2>1, ConnRightSteps
  <1>3. IInv /\ AllRight => Unblocked
    <2> SUFFICES ASSUME IInv, AllRight, NEW c \in Conn, peer[c] = "sent",
                        ran[c] # 1, Running, alive
                 PROVE  \/ CanGoOn(c)
                        \/ op[c] = "none" /\ (accept # "pending" \/ Cardinality(open) < MaxOpen)
                        \/ \E d \in open : CanGoOn(d)
                        \/ ~(Cardinality(Held) < MaxOpen)
      BY DEF Unblocked, ConnRight
    <2>0. TypeOK /\ OnlyUnfinishedLeak /\ RequestRight(c) /\ ConnRight(c)
      BY DEF IInv
    <2>1. CASE op[c] # "none"
      <3>1. op[c] \in {"accept", "read", "request", "error", "write", "done"}
        BY <2>0, <2>1 DEF TypeOK
      <3> QED BY <2>0, <3>1 DEF CanGoOn, OnlyUnfinishedLeak, RequestRight, ConnRight
    <2>2. CASE \E d \in open : d \notin Held
      <3>1. PICK d \in open : d \notin Held
        BY <2>2
      <3>2. d \in Conn /\ ConnRight(d) /\ op[d] \notin {"done", "none"} /\ peer[d] # "open"
        BY <2>0, <3>1 DEF TypeOK, Held, ConnRight
      <3>3. /\ op[d] \in {"accept", "read", "request", "error", "write"}
            /\ peer[d] \in {"sent", "garbled", "gone", "answered", "failed"}
        BY <2>0, <3>2 DEF TypeOK, ConnRight
      <3>4. CanGoOn(d)
        BY <3>2, <3>3 DEF CanGoOn, ConnRight
      <3> QED BY <3>1, <3>4
    <2>3. CASE op[c] = "none" /\ Held = open
      BY <2>3
    <2> QED BY <2>1, <2>2, <2>3 DEF Held
  <1>4. Spec => []AllRight
    BY <1>1, <1>2, Invariance, PTL DEF Spec
  <1> QED BY <1>3, <1>4, Invariance, PTL
=============================================================================
