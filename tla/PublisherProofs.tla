-------------------------- MODULE PublisherProofs --------------------------
(***************************************************************************)
(* Proofs about Publisher, for any number of connections and of messages.  *)
(***************************************************************************)
EXTENDS Publisher, SequenceTheorems, TLAPS

USE DEF Header, NoMsg, LenBytes

-----------------------------------------------------------------------------
(* The inductive invariant, in named parts.                                *)

LatchRight == latchedMsg = IF Latched THEN published ELSE NoMsg

\* The pool dies with the Publisher, which is what shuts connections.
PoolDies == (alive => shut = {}) /\ (~alive => pool = {})

\* Nothing is written to a connection, nor is it in the pool, before it has
\* greeted; no read of it succeeds before its peer has sent anything.
Ungreeted(c) ==
    op[c] \in {"none", "accept", "len", "body"} => wire[c] = <<>> /\ c \notin pool

\* End of file is only ever read once the peer has gone.
EofIsReal(c) == ec[c] = "eof" => peer[c] \in {"closed", "reset", "dead"}

\* Before it connects a subscriber is not accepted; before it has sent its
\* header there is nothing to read.
SilentAtFirst(c) ==
    /\ peer[c] = "away" => op[c] = "none"
    /\ peer[c] \in {"away", "open"} => unread[c] = 0

WireInOrder(c) ==
    /\ \A i \in 1 .. Len(wire[c]) : /\ wire[c][i] \in 0 .. published
                                    /\ wire[c][i] = Header <=> i = 1
    /\ \A i \in 2 .. Len(wire[c]) - 1 : wire[c][i + 1] = wire[c][i] + 1

CaughtUp(c) ==
    c \in Recipients =>
        /\ Len(wire[c]) >= 1
        /\ Len(wire[c]) > 1 => wire[c][Len(wire[c])] = published
        /\ Latched /\ published > 0 => Len(wire[c]) > 1

ConnInv(c) ==
    /\ Ungreeted(c)
    /\ EofIsReal(c)
    /\ SilentAtFirst(c)
    /\ WireInOrder(c)
    /\ CaughtUp(c)

IInv ==
    /\ TypeOK
    /\ LatchRight
    /\ PoolDies
    /\ PoolWatched
    /\ \A c \in Conn : ConnInv(c)

-----------------------------------------------------------------------------
(* It holds initially and every action preserves it.                       *)

\* The initial state satisfies the inductive invariant.
LEMMA InitIInv == Init => IInv
  <1> USE PublisherAssumption
  <1> SUFFICES ASSUME Init PROVE IInv
    OBVIOUS
  <1>1. TypeOK
    <2>1. <<>> \in Seq(0 .. MaxMsgs)
      OBVIOUS
    <2> QED BY <2>1 DEF Init, TypeOK
  <1>2. LatchRight /\ PoolDies /\ PoolWatched
    BY DEF Init, LatchRight, PoolDies, PoolWatched
  <1>3. ASSUME NEW c \in Conn PROVE ConnInv(c)
    BY DEF Init, ConnInv, Ungreeted, EofIsReal, SilentAtFirst, WireInOrder,
           CaughtUp, Recipients
  <1> QED BY <1>1, <1>2, <1>3 DEF IInv

\* The steps of the subscribers write nothing and move nobody into the pool:
\* they can only end a connection.
LEMMA PeerSteps ==
    ASSUME IInv, NEW c \in Conn, Connect(c) \/ SendHello(c) \/ HangUp(c)
    PROVE  IInv'
  <1> USE PublisherAssumption
  <1>0. TypeOK /\ ConnInv(c) /\ PoolWatched /\ LatchRight /\ PoolDies
    BY DEF IInv
  <1>1. TypeOK'
    <2>1. CASE Connect(c)
      BY <1>0, <2>1 DEF TypeOK, Connect
    <2>2. CASE SendHello(c)
      <3>1. unread[c] = 0
        BY <1>0, <2>2 DEF ConnInv, SilentAtFirst, SendHello
      <3>2. unread' \in [Conn -> 0 .. LenBytes + BodyBytes]
        BY <1>0, <2>2, <3>1 DEF TypeOK, SendHello
      <3> QED BY <1>0, <2>2, <3>2 DEF TypeOK, SendHello
    <2>3. CASE HangUp(c)
      BY <1>0, <2>3 DEF TypeOK, HangUp
    <2> QED BY <2>1, <2>2, <2>3
  <1>2. LatchRight' /\ PoolDies' /\ PoolWatched'
    BY <1>0 DEF LatchRight, PoolDies, PoolWatched, Connect, SendHello, HangUp
  <1>3. ASSUME NEW d \in Conn PROVE ConnInv(d)'
    <2>1. ConnInv(d)
      BY DEF IInv
    <2>2. d \in Recipients' => d \in Recipients
      BY <1>0, <2>1 DEF TypeOK, ConnInv, SilentAtFirst, Ungreeted, Recipients, Live,
                        Connect, SendHello, HangUp
    <2>3. Ungreeted(d)' /\ EofIsReal(d)' /\ SilentAtFirst(d)'
      BY <1>0, <2>1 DEF TypeOK, ConnInv, Ungreeted, EofIsReal, SilentAtFirst, Live,
                        Connect, SendHello, HangUp
    <2>4. WireInOrder(d)' /\ CaughtUp(d)'
      BY <2>1, <2>2 DEF ConnInv, WireInOrder, CaughtUp, Connect, SendHello, HangUp
    <2> QED BY <2>3, <2>4 DEF ConnInv
  <1> QED BY <1>1, <1>2, <1>3 DEF IInv

\* Accepting and completed reads leave the pool, the user and the wires alone;
\* end of file and the error of a reset come from peers that have gone.
LEMMA KernelSteps ==
    ASSUME IInv, NEW c \in Conn, AcceptReady(c) \/ ReadReady(c)
    PROVE  IInv'
  <1> USE PublisherAssumption
  <1>0. TypeOK /\ ConnInv(c) /\ PoolWatched /\ LatchRight /\ PoolDies
    BY DEF IInv
  <1>1. TypeOK'
    <2>1. CASE AcceptReady(c)
      BY <1>0, <2>1 DEF TypeOK, AcceptReady, Await
    <2>2. CASE ReadReady(c)
      <3>1. unread' \in [Conn -> 0 .. LenBytes + BodyBytes]
        <4>1. unread \in [Conn -> 0 .. LenBytes + BodyBytes] /\ BodyBytes \in Nat
          BY <1>0 DEF TypeOK
        <4>2. unread[c] >= LenBytes => unread[c] - LenBytes \in 0 .. LenBytes + BodyBytes
          BY <4>1
        <4>3. 0 \in 0 .. LenBytes + BodyBytes
          BY <4>1
        <4> QED BY <2>2, <4>1, <4>2, <4>3 DEF ReadReady, Remaining
      <3> QED BY <1>0, <2>2, <3>1 DEF TypeOK, ReadReady
    <2> QED BY <2>1, <2>2
  <1>2. LatchRight' /\ PoolDies'
    BY <1>0 DEF LatchRight, PoolDies, AcceptReady, ReadReady, Await
  <1>3. PoolWatched'
    BY <1>0 DEF TypeOK, PoolWatched, AcceptReady, ReadReady, Await
  <1>4. ASSUME NEW d \in Conn PROVE ConnInv(d)'
    <2>1. ConnInv(d)
      BY DEF IInv
    <2>2. d \in Recipients' => d \in Recipients
      BY <1>0 DEF TypeOK, Recipients, Live, AcceptReady, ReadReady
    <2>3. Ungreeted(d)' /\ EofIsReal(d)'
      BY <1>0, <2>1 DEF TypeOK, ConnInv, Ungreeted, EofIsReal,
                        AcceptReady, ReadReady, Await
    <2>4. SilentAtFirst(d)'
      BY <1>0, <2>1 DEF TypeOK, ConnInv, SilentAtFirst, Remaining,
                        AcceptReady, ReadReady, Await
    <2>5. WireInOrder(d)' /\ CaughtUp(d)'
      BY <2>1, <2>2 DEF ConnInv, WireInOrder, CaughtUp, AcceptReady, ReadReady
    <2> QED BY <2>3, <2>4, <2>5 DEF ConnInv
  <1> QED BY <1>1, <1>2, <1>3, <1>4 DEF IInv

\* An accept, whether it succeeded or failed, only starts a connection.
LEMMA AcceptSteps ==
    ASSUME IInv, AcceptFails \/ AcceptHandler
    PROVE  IInv'
  <1>0. TypeOK /\ PoolWatched /\ LatchRight /\ PoolDies
    BY DEF IInv
  <1>1. TypeOK'
    BY <1>0 DEF TypeOK, AcceptFails, AcceptHandler, NextAccept
  <1>2. LatchRight' /\ PoolDies' /\ PoolWatched'
    BY <1>0 DEF TypeOK, LatchRight, PoolDies, PoolWatched, AcceptFails, AcceptHandler
  <1>3. ASSUME NEW d \in Conn PROVE ConnInv(d)'
    <2>1. ConnInv(d) /\ (d \in Recipients' => d \in Recipients)
      BY DEF IInv, Recipients, Live, AcceptFails, AcceptHandler
    <2>2. EofIsReal(d)' /\ SilentAtFirst(d)' /\ Ungreeted(d)'
      BY <1>0, <2>1 DEF TypeOK, ConnInv, EofIsReal, SilentAtFirst, Ungreeted,
                        AcceptFails, AcceptHandler
    <2>3. WireInOrder(d)' /\ CaughtUp(d)'
      BY <2>1 DEF ConnInv, WireInOrder, CaughtUp, AcceptFails, AcceptHandler
    <2> QED BY <2>2, <2>3 DEF ConnInv
  <1> QED BY <1>1, <1>2, <1>3 DEF IInv

\* Handlers that write nothing: handle_read_len starts the next
\* read, handle_close reads again or takes the connection out of the pool.
LEMMA QuietHandlerSteps ==
    ASSUME IInv, NEW c \in Conn, HandleReadLen(c) \/ HandleClose(c)
    PROVE  IInv'
  <1> USE PublisherAssumption
  <1>0. TypeOK /\ ConnInv(c) /\ PoolWatched /\ LatchRight /\ PoolDies
    BY DEF IInv
  <1>1. TypeOK'
    <2>1. CASE HandleReadLen(c)
      BY <1>0, <2>1 DEF TypeOK, HandleReadLen, Await, Release
    <2>2. CASE HandleClose(c)
      BY <1>0, <2>2 DEF TypeOK, HandleClose, Await, Release, ReadAgain, PoolWithout
    <2> QED BY <2>1, <2>2
  <1>2. LatchRight' /\ PoolDies'
    BY <1>0 DEF LatchRight, PoolDies, PoolWithout,
                HandleReadLen, HandleClose
  <1>3. PoolWatched'
    BY <1>0 DEF TypeOK, PoolWatched, PoolWithout, ReadAgain, Await, Release,
                HandleReadLen, HandleClose
  <1>4. ASSUME NEW d \in Conn PROVE ConnInv(d)'
    <2>1. ConnInv(d)
      BY DEF IInv
    <2>2. d \in Recipients' => d \in Recipients
      BY <1>0 DEF TypeOK, Recipients, Live, PoolWithout,
                  HandleReadLen, HandleClose
    <2>3. EofIsReal(d)' /\ SilentAtFirst(d)'
      BY <1>0, <2>1 DEF TypeOK, ConnInv, EofIsReal, SilentAtFirst, ReadAgain, Await,
                        Release, HandleReadLen, HandleClose
    <2>4. Ungreeted(d)'
      BY <1>0, <2>1 DEF TypeOK, ConnInv, Ungreeted, PoolWithout, ReadAgain, Await,
                        Release, HandleReadLen, HandleClose
    <2>5. WireInOrder(d)' /\ CaughtUp(d)'
      BY <2>1, <2>2 DEF ConnInv, WireInOrder, CaughtUp, HandleReadLen,
                        HandleClose
    <2> QED BY <2>3, <2>4, <2>5 DEF ConnInv
  <1> QED BY <1>1, <1>2, <1>3, <1>4 DEF IInv

\* What handle_read writes to a subscriber brings it up to date.
LEMMA GreetingRight ==
    ASSUME TypeOK, LatchRight
    PROVE  /\ Greeting \in Seq(0 .. MaxMsgs)
           /\ Len(Greeting) = IF Latched /\ published > 0 THEN 2 ELSE 1
           /\ Greeting[1] = Header
           /\ Len(Greeting) = 2 => Greeting[2] = published
           /\ Tail(Greeting) = IF Latched /\ published > 0 THEN <<published>> ELSE <<>>
  <1> USE PublisherAssumption
  <1>1. published \in Nat /\ 0 \in 0 .. MaxMsgs /\ latchedMsg \in 0 .. MaxMsgs
    BY DEF TypeOK
  <1>2. CASE Latched /\ published > 0
    <2>1. Greeting = <<0, published>> /\ published \in 0 .. MaxMsgs
      BY <1>1, <1>2 DEF Greeting, LatchRight
    <2> QED BY <1>1, <1>2, <2>1
  <1>3. CASE ~(Latched /\ published > 0)
    <2>1. Greeting = <<0>>
      BY <1>1, <1>3 DEF Greeting, LatchRight
    <2> QED BY <1>1, <1>3, <2>1
  <1> QED BY <1>2, <1>3

\* handle_read greets a subscriber and puts it in the pool.
LEMMA HandleReadStep ==
    ASSUME IInv, NEW c \in Conn, HandleRead(c)
    PROVE  IInv'
  <1> USE PublisherAssumption
  <1>0. TypeOK /\ ConnInv(c) /\ PoolWatched /\ LatchRight /\ PoolDies
    BY DEF IInv
  <1>1. wire' \in [Conn -> Seq(0 .. MaxMsgs)]
    BY <1>0, GreetingRight DEF TypeOK, HandleRead
  <1>2. TypeOK'
    BY <1>0, <1>1 DEF TypeOK, HandleRead, Await, Release
  <1>3. LatchRight' /\ PoolDies'
    BY <1>0 DEF LatchRight, PoolDies, HandleRead
  <1>4. PoolWatched'
    BY <1>0 DEF TypeOK, PoolWatched, PoolDies, ConnInv, Ungreeted, HandleRead, Await, Release
  <1>5. ASSUME NEW d \in Conn PROVE ConnInv(d)'
    <2>1. ConnInv(d)
      BY DEF IInv
    <2>2. EofIsReal(d)' /\ SilentAtFirst(d)' /\ Ungreeted(d)'
      BY <1>0, <2>1 DEF TypeOK, ConnInv, EofIsReal, SilentAtFirst, Ungreeted,
                        HandleRead, Await, Release
    <2>3. CASE d = c /\ alive /\ Live(c)
      <3>1. wire'[d] = Greeting
        BY <1>0, <2>3 DEF TypeOK, HandleRead, Live, Broken
      <3>2. published' = published /\ published \in Nat
        BY <1>0 DEF TypeOK, HandleRead
      <3> QED BY <1>0, <2>2, <3>1, <3>2, GreetingRight DEF ConnInv, WireInOrder, CaughtUp
    <2>4. CASE ~(d = c /\ alive /\ Live(c))
      <3>1. wire'[d] = wire[d] /\ published' = published
        BY <1>0, <2>4 DEF TypeOK, HandleRead
      <3>2. d \in Recipients' => d \in Recipients
        BY <2>4 DEF Recipients, Live, HandleRead
      <3> QED BY <2>1, <2>2, <3>1, <3>2 DEF ConnInv, WireInOrder, CaughtUp
    <2> QED BY <2>3, <2>4
  <1> QED BY <1>2, <1>3, <1>4, <1>5 DEF IInv

\* A publish appends the next number to what every recipient has.
LEMMA PublishStep ==
    ASSUME IInv, Publish
    PROVE  IInv'
  <1> USE PublisherAssumption
  <1>0. TypeOK /\ PoolWatched /\ LatchRight /\ PoolDies
    BY DEF IInv
  <1>1. published \in Nat /\ published' = published + 1 /\ published + 1 \in 0 .. MaxMsgs
    BY <1>0 DEF TypeOK, Publish
  <1>2. \A d \in Conn :
          /\ wire[d] \in Seq(0 .. MaxMsgs)
          /\ wire'[d] = IF d \in Recipients THEN Append(wire[d], published + 1) ELSE wire[d]
    BY <1>0 DEF TypeOK, Publish
  <1>3. TypeOK'
    <2>1. wire' \in [Conn -> Seq(0 .. MaxMsgs)]
      <3>1. ASSUME NEW d \in Conn
            PROVE  (IF d \in Recipients THEN Append(wire[d], published + 1) ELSE wire[d])
                       \in Seq(0 .. MaxMsgs)
        <4>1. wire[d] \in Seq(0 .. MaxMsgs) /\ published + 1 \in 0 .. MaxMsgs
          BY <1>1, <1>2
        <4>2. Append(wire[d], published + 1) \in Seq(0 .. MaxMsgs)
          BY <4>1, AppendProperties
        <4> QED BY <4>1, <4>2
      <3> QED BY <3>1 DEF Publish
    <2>2. latchedMsg' \in 0 .. MaxMsgs
      BY <1>0, <1>1 DEF TypeOK, Publish, Latch
    <2> QED BY <1>0, <1>1, <2>1, <2>2 DEF TypeOK, Publish
  <1>4. LatchRight' /\ PoolDies' /\ PoolWatched'
    BY <1>0 DEF LatchRight, PoolDies, PoolWatched, Publish, Latch
  <1>5. ASSUME NEW d \in Conn PROVE ConnInv(d)'
    <2>1. ConnInv(d)
      BY DEF IInv
    <2>2. EofIsReal(d)' /\ SilentAtFirst(d)' /\ Ungreeted(d)'
      BY <1>0, <2>1 DEF TypeOK, ConnInv, EofIsReal, SilentAtFirst, Ungreeted, Publish,
                        Recipients
    <2>3. d \in Recipients' <=> d \in Recipients
      BY <1>0 DEF TypeOK, Recipients, Live, Publish
    <2>4. CASE d \in Recipients
      <3>1. /\ wire[d] \in Seq(0 .. MaxMsgs)
            /\ wire'[d] = Append(wire[d], published + 1)
        BY <1>2, <2>4
      <3>2. WireInOrder(d) /\ CaughtUp(d)
        BY <2>1 DEF ConnInv
      <3>3. Len(wire[d]) \in Nat /\ Len(wire'[d]) = Len(wire[d]) + 1
        BY <3>1
      <3>4. /\ \A i \in 1 .. Len(wire[d]) : wire'[d][i] = wire[d][i]
            /\ wire'[d][Len(wire[d]) + 1] = published + 1
        BY <3>1
      <3>5. Len(wire[d]) >= 1 /\ (Len(wire[d]) > 1 => wire[d][Len(wire[d])] = published)
        BY <2>4, <3>2 DEF CaughtUp
      <3>6. WireInOrder(d)'
        <4>1. ASSUME NEW i \in 1 .. Len(wire'[d])
              PROVE  wire'[d][i] \in 0 .. published + 1 /\ (wire'[d][i] = Header <=> i = 1)
          <5>1. CASE i \in 1 .. Len(wire[d])
            BY <1>1, <3>2, <3>4, <5>1 DEF WireInOrder
          <5>2. CASE i = Len(wire[d]) + 1
            BY <1>1, <3>3, <3>4, <3>5, <5>2
          <5> QED BY <3>3, <5>1, <5>2
        <4>2. ASSUME NEW i \in 2 .. Len(wire'[d]) - 1
              PROVE  wire'[d][i + 1] = wire'[d][i] + 1
          <5>1. CASE i \in 2 .. Len(wire[d]) - 1
            BY <3>2, <3>3, <3>4, <5>1 DEF WireInOrder
          <5>2. CASE i = Len(wire[d])
            BY <1>1, <3>3, <3>4, <3>5, <5>2
          <5> QED BY <3>3, <5>1, <5>2
        <4> QED BY <1>1, <4>1, <4>2 DEF WireInOrder
      <3>7. CaughtUp(d)'
        BY <1>1, <3>3, <3>4, <3>5 DEF CaughtUp
      <3> QED BY <2>2, <3>6, <3>7 DEF ConnInv
    <2>5. CASE d \notin Recipients
      <3>1. wire'[d] = wire[d] /\ wire[d] \in Seq(0 .. MaxMsgs)
        BY <1>2, <2>5
      <3> QED BY <1>1, <2>1, <2>2, <2>3, <2>5, <3>1 DEF ConnInv, WireInOrder, CaughtUp
    <2> QED BY <2>4, <2>5
  <1> QED BY <1>3, <1>4, <1>5 DEF IInv

\* ~Publisher empties the pool; stopping the loop, or doing nothing, changes
\* nothing the invariant is about.
LEMMA DestroyAndStopSteps ==
    ASSUME IInv, Destroy \/ Stop \/ UNCHANGED vars
    PROVE  IInv'
  <1> USE PublisherAssumption
  <1>0. TypeOK /\ PoolWatched /\ LatchRight /\ PoolDies
    BY DEF IInv
  <1>1. TypeOK'
    BY <1>0 DEF TypeOK, Destroy, Stop, vars
  <1>2. LatchRight' /\ PoolDies' /\ PoolWatched'
    BY <1>0 DEF LatchRight, PoolDies, PoolWatched, Destroy, Stop, vars
  <1>3. ASSUME NEW d \in Conn PROVE ConnInv(d)'
    <2>1. ConnInv(d) /\ (d \in Recipients' => d \in Recipients)
      BY DEF IInv, Recipients, Live, Destroy, Stop, vars
    <2>2. EofIsReal(d)' /\ SilentAtFirst(d)' /\ Ungreeted(d)'
      BY <1>0, <2>1 DEF TypeOK, ConnInv, EofIsReal, SilentAtFirst, Ungreeted,
                        Destroy, Stop, vars
    <2>3. WireInOrder(d)' /\ CaughtUp(d)'
      BY <2>1 DEF ConnInv, WireInOrder, CaughtUp, Destroy, Stop, vars
    <2> QED BY <2>2, <2>3 DEF ConnInv
  <1> QED BY <1>1, <1>2, <1>3 DEF IInv

\* The inductive invariant holds in every reachable state.
THEOREM Invariance == Spec => []IInv
  <1>1. IInv /\ [Next]_vars => IInv'
    <2> SUFFICES ASSUME IInv, [Next]_vars PROVE IInv'
      OBVIOUS
    <2>1. ASSUME NEW c \in Conn, Connect(c) \/ SendHello(c) \/ HangUp(c) PROVE IInv'
      BY <2>1, PeerSteps
    <2>2. ASSUME NEW c \in Conn, AcceptReady(c) \/ ReadReady(c) PROVE IInv'
      BY <2>2, KernelSteps
    <2>3. CASE AcceptFails \/ AcceptHandler
      BY <2>3, AcceptSteps
    <2>4. ASSUME NEW c \in Conn, HandleReadLen(c) \/ HandleClose(c) PROVE IInv'
      BY <2>4, QuietHandlerSteps
    <2>5. ASSUME NEW c \in Conn, HandleRead(c) PROVE IInv'
      BY <2>5, HandleReadStep
    <2>6. CASE Publish
      BY <2>6, PublishStep
    <2>7. CASE Destroy \/ Stop \/ UNCHANGED vars
      BY <2>7, DestroyAndStopSteps
    <2> QED BY <2>1, <2>2, <2>3, <2>4, <2>5, <2>6, <2>7 DEF Next
  <1> QED BY InitIInv, <1>1, PTL DEF Spec

-----------------------------------------------------------------------------
(* What follows from it.                                                   *)

\* Variables keep their types and reads never take bytes that were not sent.
THEOREM TypeCorrect == Spec => []TypeOK
  BY Invariance, PTL DEF IInv

\* A connection in the pool is always being watched for its end.
THEOREM Watched == Spec => []PoolWatched
  BY Invariance, PTL DEF IInv

\* Every subscriber is sent the header once and first, then consecutive
\* messages.
THEOREM InOrder == Spec => []HeaderThenRun
  <1>1. IInv => HeaderThenRun
    <2> SUFFICES ASSUME IInv, NEW c \in Conn, wire[c] # <<>>
                 PROVE  /\ Head(wire[c]) = Header
                        /\ \A i \in 2 .. Len(wire[c]) : wire[c][i] # Header
                        /\ IsRun(Tail(wire[c]))
      BY DEF HeaderThenRun
    <2>1. wire[c] \in Seq(0 .. MaxMsgs) /\ WireInOrder(c)
      BY DEF IInv, TypeOK, ConnInv
    <2>2. Len(wire[c]) \in Nat /\ Len(wire[c]) >= 1
      BY <2>1
    <2>3. Head(wire[c]) = Header /\ \A i \in 2 .. Len(wire[c]) : wire[c][i] # Header
      BY <2>1, <2>2 DEF WireInOrder
    <2>4. /\ Len(Tail(wire[c])) = Len(wire[c]) - 1
          /\ \A i \in 1 .. Len(wire[c]) - 1 : Tail(wire[c])[i] = wire[c][i + 1]
      BY <2>1, <2>2
    <2>5. IsRun(Tail(wire[c]))
      <3> SUFFICES ASSUME NEW i \in 1 .. Len(Tail(wire[c])) - 1
                   PROVE  Tail(wire[c])[i + 1] = Tail(wire[c])[i] + 1
        BY DEF IsRun
      <3>1. i + 1 \in 2 .. Len(wire[c]) - 1
        BY <2>2, <2>4
      <3>2. wire[c][(i + 1) + 1] = wire[c][i + 1] + 1
        BY <2>1, <3>1 DEF WireInOrder
      <3> QED BY <2>2, <2>4, <3>1, <3>2
    <2> QED BY <2>3, <2>5
  <1> QED BY Invariance, <1>1, PTL

\* On a latched topic whoever is in the pool has the latest message, the
\* subscribers that arrived after it was published included.
LatchedUpToDate ==
    \A c \in Recipients : Latched /\ published > 0 =>
        /\ wire[c] # <<>>
        /\ wire[c][Len(wire[c])] = published

\* It has it whatever the order of publishing, joining and leaving.
THEOREM UpToDate == Spec => []LatchedUpToDate
  <1>1. IInv => LatchedUpToDate
    <2> SUFFICES ASSUME IInv, NEW c \in Recipients, Latched, published > 0
                 PROVE  wire[c] # <<>> /\ wire[c][Len(wire[c])] = published
      BY DEF LatchedUpToDate
    <2>1. c \in Conn /\ wire[c] \in Seq(0 .. MaxMsgs)
      BY DEF IInv, TypeOK, Recipients
    <2>2. CaughtUp(c)
      BY <2>1 DEF IInv, ConnInv
    <2> QED BY <2>1, <2>2 DEF CaughtUp
  <1> QED BY Invariance, <1>1, PTL

-----------------------------------------------------------------------------
(* The Publisher implements Topic: every step joins, leaves, publishes or   *)
(* is not seen by the topic at all.                                        *)

\* A step that touches neither who is in nor what is written is not seen.
LEMMA Unseen ==
    ASSUME published' = published, wire' = wire, \A c \in Conn : Status'[c] = Status[c]
    PROVE  UNCHANGED T!topicVars
  <1>1. Status' = Status
    BY DEF Status
  <1> QED BY <1>1 DEF T!topicVars, Stream

\* The steps of subscribers and kernel: hanging up leaves the topic.
LEMMA PeerAndKernelRefine ==
    ASSUME IInv, NEW c \in Conn,
           Connect(c) \/ SendHello(c) \/ HangUp(c) \/ AcceptReady(c) \/ ReadReady(c)
    PROVE  [T!Next]_(T!topicVars)
  <1>0. TypeOK /\ ConnInv(c)
    BY DEF IInv
  <1>1. CASE HangUp(c)
    <2>1. Status' = [d \in Conn |-> IF d \in {c} THEN "left" ELSE Status[d]]
      <3>1. ASSUME NEW d \in Conn
            PROVE  Status'[d] = IF d \in {c} THEN "left" ELSE Status[d]
        BY <1>0, <1>1 DEF TypeOK, Status, HangUp, Live
      <3> QED BY <3>1 DEF Status
    <2>2. published' = published /\ Stream' = Stream
      BY <1>1 DEF HangUp, Stream
    <2>3. T!Leave({c})
      BY <2>1, <2>2 DEF T!Leave
    <2> QED BY <2>3 DEF T!Next
  <1>2. CASE Connect(c) \/ SendHello(c)
    <2>1. \A d \in Conn : Status'[d] = Status[d]
      BY <1>0, <1>2 DEF TypeOK, ConnInv, SilentAtFirst, Ungreeted, Status, Live, Connect,
                        SendHello
    <2> QED BY <1>2, <2>1, Unseen DEF Connect, SendHello
  <1>3. CASE AcceptReady(c) \/ ReadReady(c)
    <2>1. \A d \in Conn : Status'[d] = Status[d]
      BY <1>0, <1>3 DEF TypeOK, Status, Live, AcceptReady, ReadReady
    <2> QED BY <1>3, <2>1, Unseen DEF AcceptReady, ReadReady
  <1> QED BY <1>1, <1>2, <1>3

\* The handlers that write nothing are not seen: whoever handle_close erases
\* has already left.
LEMMA QuietHandlersRefine ==
    ASSUME IInv, NEW c \in Conn, HandleReadLen(c) \/ HandleClose(c)
    PROVE  [T!Next]_(T!topicVars)
  <1>1. TypeOK /\ EofIsReal(c)
    BY DEF IInv, ConnInv
  <1>2. \A d \in Conn : Status'[d] = Status[d]
    BY <1>1 DEF TypeOK, EofIsReal, Status, Live, HandleReadLen, HandleClose, PoolWithout
  <1> QED BY <1>2, Unseen DEF HandleReadLen, HandleClose

\* Being greeted is joining, unless the subscriber or the Publisher has gone.
LEMMA HandleReadRefines ==
    ASSUME IInv, NEW c \in Conn, HandleRead(c)
    PROVE  [T!Next]_(T!topicVars)
  <1>0. TypeOK /\ ConnInv(c) /\ LatchRight
    BY DEF IInv
  <1>1. CASE alive /\ Live(c)
    <2>1. Status[c] = "out"
      BY <1>0, <1>1 DEF ConnInv, Ungreeted, Status, HandleRead, Live
    <2>2. Status' = [Status EXCEPT ![c] = "in"]
      <3>1. \A d \in Conn : Status'[d] = IF d = c THEN "in" ELSE Status[d]
        BY <1>0, <1>1 DEF Status, HandleRead, Live, Broken
      <3> QED BY <3>1 DEF Status
    <2>3. wire' = [wire EXCEPT ![c] = Greeting] /\ published' = published
      BY <1>1 DEF HandleRead, Live, Broken
    <2>4. Tail(Greeting) = T!Replay /\ Greeting # <<>>
      BY <1>0, GreetingRight DEF T!Replay
    <2>5. Stream' = [Stream EXCEPT ![c] = T!Replay]
      BY <1>0, <2>3, <2>4 DEF Stream, TypeOK
    <2>6. T!Join(c)
      BY <2>1, <2>2, <2>3, <2>5 DEF T!Join
    <2> QED BY <2>6 DEF T!Next
  <1>2. CASE ~(alive /\ Live(c))
    <2>1. \A d \in Conn : Status'[d] = Status[d]
      BY <1>0, <1>2 DEF TypeOK, ConnInv, Ungreeted, SilentAtFirst, Status, Live, HandleRead
    <2>2. wire' = wire /\ published' = published
      BY <1>2 DEF HandleRead
    <2> QED BY <2>1, <2>2, Unseen
  <1> QED BY <1>1, <1>2

\* A publish of the code is a publish of the topic.
LEMMA PublishRefines ==
    ASSUME IInv, Publish
    PROVE  T!Publish
  <1>0. TypeOK /\ \A c \in Conn : ConnInv(c)
    BY DEF IInv
  <1>1. Status' = Status
    <2>1. \A d \in Conn : Status'[d] = Status[d]
      BY <1>0 DEF TypeOK, Status, Live, Publish
    <2> QED BY <2>1 DEF Status
  <1>2. ASSUME NEW d \in Conn
        PROVE  Stream'[d] = IF Status[d] = "in" THEN Append(Stream[d], published + 1)
                                                ELSE Stream[d]
    <2>1. wire[d] \in Seq(0 .. MaxMsgs) /\ CaughtUp(d)
      BY <1>0 DEF TypeOK, ConnInv
    <2>2. Status[d] = "in" <=> d \in Recipients
      BY <1>0 DEF TypeOK, Status, Recipients, Live, Publish
    <2>3. CASE d \in Recipients
      <3>1. wire'[d] = Append(wire[d], published + 1) /\ wire[d] # <<>>
        BY <2>1, <2>3 DEF Publish, CaughtUp
      <3>2. Tail(Append(wire[d], published + 1)) = Append(Tail(wire[d]), published + 1)
        BY <2>1, <3>1, HeadTailAppend
      <3>3. wire'[d] # <<>>
        <4>1. published + 1 \in 0 .. MaxMsgs
          BY <1>0, PublisherAssumption DEF TypeOK, Publish
        <4> QED BY <2>1, <3>1, <4>1, AppendProperties
      <3>4. Stream'[d] = Tail(wire'[d]) /\ Stream[d] = Tail(wire[d])
        BY <3>1, <3>3 DEF Stream
      <3> QED BY <2>2, <2>3, <3>1, <3>2, <3>4
    <2>4. CASE d \notin Recipients
      BY <2>2, <2>4 DEF Stream, Publish
    <2> QED BY <2>3, <2>4
  <1>3. Stream' = [c \in Conn |-> IF Status[c] = "in" THEN Append(Stream[c], published + 1)
                                                     ELSE Stream[c]]
    BY <1>2 DEF Stream
  <1> QED BY <1>1, <1>3 DEF Publish, T!Publish

\* The Publisher implements the abstract topic.
THEOREM Implementation == Spec => TopicSpec
  <1>1. Init => T!Init
    BY DEF Init, T!Init, Status, Stream, Live
  <1>2. IInv /\ [Next]_vars => [T!Next]_(T!topicVars)
    <2> SUFFICES ASSUME IInv, [Next]_vars PROVE [T!Next]_(T!topicVars)
      OBVIOUS
    <2>1. ASSUME NEW c \in Conn,
                 Connect(c) \/ SendHello(c) \/ HangUp(c) \/ AcceptReady(c) \/ ReadReady(c)
          PROVE  [T!Next]_(T!topicVars)
      BY <2>1, PeerAndKernelRefine
    <2>2. CASE AcceptFails \/ AcceptHandler \/ Stop \/ UNCHANGED vars
      <3>1. \A d \in Conn : Status'[d] = Status[d]
        BY <2>2 DEF Status, Live, AcceptFails, AcceptHandler, Stop, vars
      <3> QED BY <2>2, <3>1, Unseen DEF AcceptFails, AcceptHandler, Stop, vars
    <2>3. ASSUME NEW c \in Conn, HandleReadLen(c) \/ HandleClose(c)
          PROVE  [T!Next]_(T!topicVars)
      BY <2>3, QuietHandlersRefine
    <2>4. ASSUME NEW c \in Conn, HandleRead(c) PROVE [T!Next]_(T!topicVars)
      BY <2>4, HandleReadRefines
    <2>5. CASE Publish
      BY <2>5, PublishRefines DEF T!Next
    <2>6. CASE Destroy
      <3>1. CASE alive' = alive
        <4>1. \A d \in Conn : Status'[d] = Status[d]
          BY <2>6, <3>1 DEF Destroy, Status, Live
        <4> QED BY <2>6, <4>1, Unseen DEF Destroy
      <3>2. CASE alive' # alive
        <4>1. Status' = [d \in Conn |-> IF d \in Conn THEN "left" ELSE Status[d]]
          BY <2>6, <3>2 DEF Destroy, Status
        <4>2. T!Leave(Conn)
          BY <2>6, <4>1 DEF Destroy, Stream, T!Leave
        <4> QED BY <4>2 DEF T!Next
      <3> QED BY <3>1, <3>2
    <2> QED BY <2>1, <2>2, <2>3, <2>4, <2>5, <2>6 DEF Next
  <1> QED BY Invariance, <1>1, <1>2, PTL DEF Spec, TopicSpec, T!Spec

-----------------------------------------------------------------------------
(* Why TearDownEnds fails: what the pool has closed reads on for ever.      *)

\* The reads of the connections the pool has closed have all completed.
ReadsFailed ==
    \A c \in shut : op[c] \in {"rest", "gone"} /\ (op[c] = "rest" => ec[c] # "pending")

\* A connection the pool has closed never ends, and never fires another end of
\* file, unless it had read one before it was closed (handle_close, close).
NeverEnds ==
    [][\A c \in shut : op[c] = "rest" /\ ec[c] # "eof" =>
          op'[c] = "rest" /\ ec'[c] # "eof"]_vars

\* What ~Publisher shuts is the pool, whose reads it aborts; after that no
\* read is started on a socket that could wait.
LEMMA ReadsFailedStep ==
    ASSUME IInv, ReadsFailed, [Next]_vars
    PROVE  ReadsFailed'
  <1>0. TypeOK /\ PoolWatched /\ PoolDies
    BY DEF IInv
  <1>1. CASE Destroy
    <2>1. /\ op' = op
          /\ ~ alive' => /\ shut' = pool
                         /\ ec' = [c \in Conn |-> IF c \in pool /\ ec[c] = "pending"
                                                    THEN "aborted" ELSE ec[c]]
          /\ alive' => shut' = shut /\ ec' = ec
      BY <1>0, <1>1 DEF Destroy, TypeOK
    <2>2. alive' \in BOOLEAN
      BY <1>0, <1>1 DEF Destroy, TypeOK
    <2>3. CASE alive'
      BY <2>1, <2>3 DEF ReadsFailed
    <2>4. CASE ~ alive'
      BY <1>0, <2>1, <2>4 DEF ReadsFailed, PoolWatched, TypeOK
    <2> QED BY <2>2, <2>3, <2>4
  <1>2. CASE ~ Destroy
    <2> SUFFICES ASSUME NEW c \in shut
                 PROVE  op'[c] \in {"rest", "gone"} /\ (op'[c] = "rest" => ec'[c] # "pending")
      BY <1>2 DEF ReadsFailed, Next, Connect, SendHello, HangUp, AcceptReady, ReadReady,
             AcceptFails, AcceptHandler, HandleReadLen, HandleRead, HandleClose, Publish,
             Stop, vars
    <2>1. c \in Conn /\ op[c] \in {"rest", "gone"} /\ (op[c] = "rest" => ec[c] # "pending")
      BY <1>0 DEF TypeOK, ReadsFailed
    <2>2. ASSUME NEW d \in Conn, HandleReadLen(d) \/ HandleRead(d) \/ HandleClose(d)
          PROVE  op'[c] \in {"rest", "gone"} /\ (op'[c] = "rest" => ec'[c] # "pending")
      BY <1>0, <2>1, <2>2 DEF TypeOK, HandleReadLen, HandleRead, HandleClose, Release,
             ReadAgain, Await
    <2>3. ASSUME NEW d \in Conn, AcceptReady(d) \/ ReadReady(d)
          PROVE  op'[c] \in {"rest", "gone"} /\ (op'[c] = "rest" => ec'[c] # "pending")
      BY <1>0, <2>1, <2>3 DEF TypeOK, AcceptReady, ReadReady, Await
    <2>4. CASE AcceptHandler
      BY <1>0, <2>1, <2>4 DEF TypeOK, AcceptHandler
    <2>5. CASE op' = op /\ ec' = ec
      BY <2>1, <2>5
    <2> QED BY <1>2, <2>2, <2>3, <2>4, <2>5 DEF Next, Connect, SendHello, HangUp,
                AcceptFails, Publish, Stop, vars
  <1> QED BY <1>1, <1>2

\* This is the cause of the defect that TearDownEnds shows: destroying the
\* Publisher of subscribers that are still there leaves its handlers running.
THEOREM ShutReadsOn == Spec => NeverEnds
  <1>1. Init => ReadsFailed
    BY DEF Init, ReadsFailed
  <1>2. Spec => []ReadsFailed
    BY <1>1, ReadsFailedStep, Invariance, PTL DEF Spec
  <1>3. IInv /\ ReadsFailed /\ [Next]_vars =>
          [\A c \in shut : op[c] = "rest" /\ ec[c] # "eof" =>
              op'[c] = "rest" /\ ec'[c] # "eof"]_vars
    <2> SUFFICES ASSUME IInv, ReadsFailed, Next,
                        NEW c \in shut, op[c] = "rest", ec[c] # "eof"
                 PROVE  op'[c] = "rest" /\ ec'[c] # "eof"
      OBVIOUS
    <2>1. TypeOK /\ c \in Conn /\ c \in shut /\ ec[c] # "pending" /\ PoolDies /\ alive = FALSE
      BY DEF IInv, TypeOK, ReadsFailed, PoolDies
    <2>2. ASSUME NEW d \in Conn, HandleReadLen(d) \/ HandleRead(d) \/ HandleClose(d)
          PROVE  op'[c] = "rest" /\ ec'[c] # "eof"
      BY <2>1, <2>2 DEF TypeOK, HandleReadLen, HandleRead, HandleClose, Release,
             ReadAgain, Await
    <2>3. ASSUME NEW d \in Conn, AcceptReady(d) \/ ReadReady(d)
          PROVE  op'[c] = "rest" /\ ec'[c] # "eof"
      BY <2>1, <2>3 DEF TypeOK, AcceptReady, ReadReady, Await
    <2>4. CASE AcceptHandler
      BY <2>1, <2>4 DEF TypeOK, AcceptHandler
    <2>5. CASE op' = op /\ ec' = ec
      BY <2>5
    <2> QED BY <2>1, <2>2, <2>3, <2>4, <2>5 DEF Next, Connect, SendHello, HangUp,
                AcceptFails, Publish, Destroy, Stop
  <1> QED BY <1>2, <1>3, Invariance, PTL DEF Spec, NeverEnds
=============================================================================
