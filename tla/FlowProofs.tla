----------------------------- MODULE FlowProofs -----------------------------
(***************************************************************************)
(* Proofs about Flow, for any loops, topics, connections, callbacks that   *)
(* publish, room in the kernel and number of messages: no message is lost  *)
(* or overtaken, and where topics lead from higher loops to lower ones no  *)
(* blocking writes wait for each other in a circle.                        *)
(***************************************************************************)
EXTENDS Flow, SequenceTheorems, WellFoundedInduction, TLAPS

USE FlowAssumption

\* The numbers of the messages of k, those delivered and then those held.
OrderRight(k) ==
    /\ \A i \in 1 .. Len(delivered[k]) : delivered[k][i] = i
    /\ \A i \in 1 .. Len(buffer[k]) : buffer[k][i] = Len(delivered[k]) + i

\* What is missing of the topic of k is the message about to be written.
CountRight(k) ==
    ~Dead(k) /\ loop[At[From[k]]] # "killed" =>
        Len(delivered[k]) + Len(buffer[k]) =
            IF k \in todo[At[From[k]]] THEN count[From[k]] - 1 ELSE count[From[k]]

IInv ==
    /\ TypeOK
    /\ \A l \in Loop : todo[l] # {} => loop[l] # "killed"
    /\ \A k \in Link : OrderRight(k) /\ CountRight(k)

\* A set of numbers has a least one.
LEMMA Least ==
    ASSUME NEW S \in SUBSET Nat, S # {}
    PROVE  \E m \in S : \A i \in S : m <= i
  <1>1. PICK m \in S : \A i \in S : ~(<<i, m>> \in OpToRel(<, Nat))
    BY NatLessThanWellFounded, WFMin
  <1>2. \A i \in S : ~(i < m)
    BY <1>1 DEF OpToRel
  <1> QED BY <1>2

\* The connection a publish writes to next is one it has not written to.
LEMMA FirstRight ==
    ASSUME NEW S \in SUBSET Link, S # {}
    PROVE  First(S) \in S
  BY Least DEF First

-----------------------------------------------------------------------------
(* The inductive invariant.                                                *)

\* The initial state satisfies it.
LEMMA InitIInv == Init => IInv
  BY DEF Init, IInv, TypeOK, OrderRight, CountRight

\* The rest of a state that a step which enters a publish leaves alone.
LEMMA EnterRight ==
    ASSUME TypeOK, NEW t \in Topic, loop[At[t]] # "killed", todo[At[t]] = {}, Enter(t)
    PROVE  /\ count' \in [Topic -> Nat]
           /\ todo' \in [Loop -> SUBSET Link]
           /\ \A l \in Loop : \A k \in todo'[l] : At[From[k]] = l
           /\ \A l \in Loop : todo'[l] # {} => todo[l] # {} \/ loop[l] # "killed"
           /\ \A k \in Link :
                 (IF k \in todo'[At[From[k]]] THEN count'[From[k]] - 1 ELSE count'[From[k]])
                    = (IF k \in todo[At[From[k]]] THEN count[From[k]] - 1 ELSE count[From[k]])
  <1>1. /\ count' = [count EXCEPT ![t] = @ + 1] /\ count \in [Topic -> Nat]
        /\ todo' = [todo EXCEPT ![At[t]] = Pool(t)] /\ todo \in [Loop -> SUBSET Link]
        /\ Pool(t) \subseteq Link /\ At[t] \in Loop
    BY DEF Enter, TypeOK, Pool
  <1>2. ASSUME NEW k \in Link
        PROVE  (IF k \in todo'[At[From[k]]] THEN count'[From[k]] - 1 ELSE count'[From[k]])
                  = (IF k \in todo[At[From[k]]] THEN count[From[k]] - 1 ELSE count[From[k]])
    <2>1. CASE From[k] = t
      BY <1>1, <2>1 DEF Pool
    <2>2. CASE From[k] # t
      BY <1>1, <2>2 DEF Pool
    <2> QED BY <2>1, <2>2
  <1>3. \A l \in Loop : \A k \in todo'[l] : At[From[k]] = l
    BY <1>1 DEF TypeOK, Pool
  <1> QED BY <1>1, <1>2, <1>3

\* Publishing preserves it.
LEMMA PublishStep ==
    ASSUME IInv, NEW t \in Topic, Publish(t)
    PROVE  IInv'
  <1>1. TypeOK /\ Enter(t) /\ loop[At[t]] # "killed" /\ todo[At[t]] = {}
    BY DEF IInv, Publish
  <1>2. TypeOK'
    BY <1>1, EnterRight DEF TypeOK, Publish
  <1> QED BY <1>1, <1>2, EnterRight DEF IInv, Publish, OrderRight, CountRight, Dead

\* A write preserves it: what is written comes next.
LEMMA WriteStep ==
    ASSUME IInv, NEW l \in Loop, PublishNext(l)
    PROVE  IInv'
  <1> DEFINE f == First(todo[l])
  <1>1. /\ f \in todo[l] /\ f \in Link /\ At[From[f]] = l /\ loop[l] # "killed"
        /\ todo' = [todo EXCEPT ![l] = @ \ {f}]
        /\ loop' = loop /\ count' = count /\ delivered' = delivered
    BY FirstRight DEF IInv, TypeOK, PublishNext
  <1>2. /\ todo \in [Loop -> SUBSET Link] /\ buffer \in [Link -> Seq(Nat)]
        /\ delivered \in [Link -> Seq(Nat)] /\ count \in [Topic -> Nat]
    BY DEF IInv, TypeOK
  <1>3. \/ Dead(f) /\ buffer' = buffer
        \/ ~Dead(f) /\ ~Full(f) /\ buffer' = [buffer EXCEPT ![f] = Append(@, count[From[f]])]
    BY DEF PublishNext, Write, Send
  <1> HIDE DEF f
  <1>4. TypeOK'
    <2>1. buffer' \in [Link -> Seq(Nat)]
      <3>1. count[From[f]] \in Nat /\ buffer[f] \in Seq(Nat)
        BY <1>1, <1>2
      <3>2. Append(buffer[f], count[From[f]]) \in Seq(Nat)
        BY <3>1
      <3> QED BY <1>1, <1>2, <1>3, <3>2
    <2>2. ASSUME NEW k \in Link PROVE Len(buffer'[k]) <= Room
      <3>1. Len(buffer[k]) <= Room /\ Len(buffer[k]) \in Nat /\ buffer[k] \in Seq(Nat)
        BY <1>2 DEF IInv, TypeOK
      <3>2. CASE buffer'[k] = buffer[k]
        BY <3>1, <3>2
      <3>3. CASE k = f /\ ~Full(k) /\ buffer'[k] = Append(buffer[k], count[From[k]])
        <4>1. Len(buffer'[k]) = Len(buffer[k]) + 1
          BY <3>1, <3>3
        <4> QED BY <3>1, <3>3, <4>1 DEF Full
      <3> QED BY <1>2, <1>3, <3>2, <3>3
    <2> QED BY <1>1, <1>2, <2>1, <2>2 DEF IInv, TypeOK
  <1>5. ASSUME NEW k \in Link PROVE OrderRight(k)' /\ CountRight(k)'
    <2>1. OrderRight(k) /\ CountRight(k)
      BY DEF IInv
    <2>2. CASE k # f
      BY <1>1, <1>2, <1>3, <2>1, <2>2 DEF OrderRight, CountRight, Dead
    <2>3. CASE k = f /\ Dead(f)
      BY <1>1, <1>3, <2>1, <2>3 DEF OrderRight, CountRight, Dead
    <2>4. CASE k = f /\ ~Dead(f)
      <3>1. buffer'[k] = Append(buffer[k], count[From[k]]) /\ count[From[k]] \in Nat
        BY <1>1, <1>2, <1>3, <2>4
      <3>2. Len(delivered[k]) + Len(buffer[k]) = count[From[k]] - 1
        BY <1>1, <2>1, <2>4 DEF CountRight, Dead
      <3>3. Len(buffer'[k]) = Len(buffer[k]) + 1 /\ Len(buffer[k]) \in Nat /\ Len(delivered[k]) \in Nat
        BY <1>2, <3>1
      <3>4. k \notin todo'[At[From[k]]]
        BY <1>1, <1>2, <2>4
      <3>5. Len(delivered'[k]) + Len(buffer'[k]) = count'[From[k]]
        <4> DEFINE d == Len(delivered[k])
                   b == Len(buffer[k])
                   c == count[From[k]]
        <4>1. d \in Nat /\ b \in Nat /\ c \in Nat /\ d + b = c - 1
          BY <3>1, <3>2, <3>3
        <4>2. Len(delivered'[k]) = d /\ Len(buffer'[k]) = b + 1 /\ count'[From[k]] = c
          BY <1>1, <3>3
        <4> HIDE DEF d, b, c
        <4>3. d + (b + 1) = c
          BY <4>1
        <4> QED BY <4>2, <4>3
      <3>6. CountRight(k)'
        BY <3>4, <3>5 DEF CountRight
      <3>7. ASSUME NEW i \in 1 .. Len(buffer'[k]) PROVE buffer'[k][i] = Len(delivered'[k]) + i
        <4>1. buffer[k] \in Seq(Nat)
          BY <1>2
        <4>2. CASE i <= Len(buffer[k])
          <5>1. buffer'[k][i] = buffer[k][i] /\ i \in 1 .. Len(buffer[k])
            BY <3>1, <3>3, <4>1, <4>2
          <5> QED BY <1>1, <2>1, <5>1 DEF OrderRight
        <4>3. CASE i = Len(buffer[k]) + 1
          <5>1. buffer'[k][i] = count[From[k]]
            BY <3>1, <3>3, <4>1, <4>3
          <5> DEFINE d == Len(delivered[k])
                     b == Len(buffer[k])
                     c == count[From[k]]
          <5>2. d \in Nat /\ b \in Nat /\ c \in Nat /\ d + b = c - 1 /\ i = b + 1
            BY <3>1, <3>2, <3>3, <4>3
          <5>3. Len(delivered'[k]) = d /\ buffer'[k][i] = c
            BY <1>1, <5>1
          <5> HIDE DEF d, b, c
          <5>4. c = d + i
            BY <5>2
          <5> QED BY <5>3, <5>4
        <4> QED BY <3>3, <4>2, <4>3
      <3>8. OrderRight(k)'
        BY <1>1, <2>1, <3>7 DEF OrderRight
      <3> QED BY <3>6, <3>8
    <2> QED BY <2>2, <2>3, <2>4
  <1> QED BY <1>1, <1>2, <1>4, <1>5 DEF IInv

\* A callback preserves it, that it publishes in turn included.
LEMMA MessageStep ==
    ASSUME IInv, NEW j \in Link, OnMessage(j)
    PROVE  IInv'
  <1>1. /\ TypeOK /\ loop' = loop /\ loop[To[j]] = "running" /\ todo[To[j]] = {}
        /\ buffer \in [Link -> Seq(Nat)] /\ delivered \in [Link -> Seq(Nat)]
        /\ buffer[j] # <<>>
        /\ buffer' = [buffer EXCEPT ![j] = Tail(@)]
        /\ delivered' = [delivered EXCEPT ![j] = Append(@, Head(buffer[j]))]
    BY DEF IInv, TypeOK, OnMessage
  <1>2. /\ count' \in [Topic -> Nat]
        /\ todo' \in [Loop -> SUBSET Link]
        /\ \A l \in Loop : \A k \in todo'[l] : At[From[k]] = l
        /\ \A l \in Loop : todo'[l] # {} => todo[l] # {} \/ loop[l] # "killed"
        /\ \A k \in Link :
              (IF k \in todo'[At[From[k]]] THEN count'[From[k]] - 1 ELSE count'[From[k]])
                 = (IF k \in todo[At[From[k]]] THEN count[From[k]] - 1 ELSE count[From[k]])
    <2>1. CASE Relay[j] = NoTopic
      BY <1>1, <2>1 DEF OnMessage, TypeOK
    <2>2. CASE Relay[j] # NoTopic
      <3>1. Relay[j] \in Topic /\ At[Relay[j]] = To[j] /\ Enter(Relay[j])
        BY <2>2 DEF OnMessage
      <3> QED BY <1>1, <3>1, EnterRight
    <2> QED BY <2>1, <2>2
  <1>3. /\ Head(buffer[j]) = buffer[j][1] /\ Head(buffer[j]) \in Nat
        /\ Tail(buffer[j]) \in Seq(Nat) /\ Len(buffer[j]) \in Nat \ {0}
        /\ Len(Tail(buffer[j])) = Len(buffer[j]) - 1
        /\ \A i \in 1 .. Len(buffer[j]) - 1 : Tail(buffer[j])[i] = buffer[j][i + 1]
    BY <1>1
  <1>4. TypeOK'
    BY <1>1, <1>2, <1>3 DEF TypeOK
  <1>5. ASSUME NEW k \in Link PROVE OrderRight(k)' /\ CountRight(k)'
    <2>1. OrderRight(k) /\ CountRight(k)
      BY DEF IInv
    <2>2. CASE k # j
      BY <1>1, <1>2, <2>1, <2>2 DEF OrderRight, CountRight, Dead
    <2>3. CASE k = j
      <3>1. /\ Len(delivered'[j]) = Len(delivered[j]) + 1 /\ Len(delivered[j]) \in Nat
            /\ Len(buffer'[j]) = Len(buffer[j]) - 1
        BY <1>1, <1>3
      <3>2. CountRight(k)'
        BY <1>1, <1>2, <1>3, <2>1, <2>3, <3>1 DEF CountRight, Dead
      <3>3. ASSUME NEW i \in 1 .. Len(delivered'[j]) PROVE delivered'[j][i] = i
        <4>1. buffer[j][1] = Len(delivered[j]) + 1 /\ delivered[j] \in Seq(Nat)
          <5>1. 1 \in 1 .. Len(buffer[j]) /\ delivered[j] \in Seq(Nat)
            BY <1>1, <1>3
          <5>2. \A n \in 1 .. Len(buffer[j]) : buffer[j][n] = Len(delivered[j]) + n
            BY <2>1, <2>3 DEF OrderRight
          <5> QED BY <5>1, <5>2
        <4>2. CASE i <= Len(delivered[j])
          <5>1. delivered'[j][i] = delivered[j][i] /\ i \in 1 .. Len(delivered[j])
            BY <1>1, <1>3, <3>1, <4>1, <4>2
          <5> QED BY <2>1, <2>3, <5>1 DEF OrderRight
        <4>3. CASE i = Len(delivered[j]) + 1
          <5>1. delivered'[j][i] = buffer[j][1]
            BY <1>1, <1>3, <3>1, <4>1, <4>3
          <5> QED BY <4>1, <4>3, <5>1
        <4> QED BY <3>1, <4>2, <4>3
      <3>4. \A i \in 1 .. Len(buffer'[j]) : buffer'[j][i] = Len(delivered'[j]) + i
        BY <1>1, <1>3, <2>1, <2>3, <3>1 DEF OrderRight
      <3> QED BY <2>3, <3>2, <3>3, <3>4 DEF OrderRight
    <2> QED BY <2>2, <2>3
  <1> QED BY <1>1, <1>2, <1>4, <1>5 DEF IInv

\* The end of a loop preserves it.
LEMMA EndSteps ==
    ASSUME IInv, NEW l \in Loop, Stop(l) \/ Kill(l)
    PROVE  IInv'
  <1>1. CASE Stop(l)
    BY <1>1 DEF IInv, TypeOK, Stop, OrderRight, CountRight, Dead
  <1>2. CASE Kill(l)
    <2>1. /\ loop' = [loop EXCEPT ![l] = "killed"] /\ todo' = [todo EXCEPT ![l] = {}]
          /\ buffer' = [k \in Link |-> IF To[k] = l THEN <<>> ELSE buffer[k]]
          /\ count' = count /\ delivered' = delivered
      BY <1>2 DEF Kill
    <2>2. TypeOK'
      BY <2>1 DEF IInv, TypeOK
    <2>3. ASSUME NEW k \in Link PROVE OrderRight(k)' /\ CountRight(k)'
      BY <2>1 DEF IInv, TypeOK, OrderRight, CountRight, Dead
    <2> QED BY <2>1, <2>2, <2>3 DEF IInv, TypeOK
  <1> QED BY <1>1, <1>2

\* It holds in every reachable state.
THEOREM Invariance == Spec => []IInv
  <1>1. IInv /\ [Next]_vars => IInv'
    <2>1. CASE UNCHANGED vars
      BY <2>1 DEF vars, IInv, TypeOK, OrderRight, CountRight, Dead
    <2> QED BY <2>1, PublishStep, WriteStep, MessageStep, EndSteps DEF Next
  <1> QED BY <1>1, InitIInv, PTL DEF Spec

-----------------------------------------------------------------------------
(* What follows from it.                                                   *)

\* Every variable keeps its type, and the kernel holds no more than it can.
THEOREM TypeCorrect == Spec => []TypeOK
  <1>1. IInv => TypeOK
    BY DEF IInv
  <1> QED BY <1>1, Invariance, PTL

\* Whatever waits and whoever ends, callbacks get each topic in order and
\* without a gap, and all of it while both ends are there.
THEOREM NoLoss == Spec => []NothingLost
  <1>1. IInv => NothingLost
    <2> SUFFICES ASSUME IInv, NEW k \in Link
                 PROVE  /\ Numbered(Sent(k))
                        /\ ~Dead(k) /\ loop[At[From[k]]] # "killed" =>
                             Len(Sent(k)) = IF k \in todo[At[From[k]]]
                                              THEN count[From[k]] - 1 ELSE count[From[k]]
      BY DEF NothingLost
    <2>1. delivered[k] \in Seq(Nat) /\ buffer[k] \in Seq(Nat) /\ OrderRight(k) /\ CountRight(k)
      BY DEF IInv, TypeOK
    <2>2. Len(Sent(k)) = Len(delivered[k]) + Len(buffer[k])
      BY <2>1 DEF Sent
    <2>3. ASSUME NEW i \in 1 .. Len(Sent(k)) PROVE Sent(k)[i] = i
      <3>1. CASE i <= Len(delivered[k])
        <4>1. Sent(k)[i] = delivered[k][i] /\ i \in 1 .. Len(delivered[k])
          BY <2>1, <2>2, <3>1 DEF Sent
        <4> QED BY <2>1, <4>1 DEF OrderRight
      <3>2. CASE i > Len(delivered[k])
        <4> DEFINE n == i - Len(delivered[k])
        <4>1. n \in 1 .. Len(buffer[k])
          <5> DEFINE d == Len(delivered[k])
                     b == Len(buffer[k])
          <5>1. Len(Sent(k)) = d + b
            BY <2>2
          <5>2. i \in 1 .. Len(Sent(k)) /\ i > d
            BY <3>2
          <5>3. d \in Nat /\ b \in Nat
            BY <2>1
          <5> HIDE DEF d, b
          <5>4. i \in 1 .. (d + b)
            BY <5>1, <5>2, Zenon
          <5>5. i - d \in 1 .. b
            BY <5>4, <5>2, <5>3
          <5> QED BY <5>5 DEF d, b
        <4>3. Sent(k)[i] = buffer[k][n]
          BY <2>1, <2>2, <3>2 DEF Sent
        <4>2. buffer[k][n] = Len(delivered[k]) + n
          BY <2>1, <4>1 DEF OrderRight
        <4> QED BY <2>1, <4>1, <4>2, <4>3
      <3> QED BY <2>1, <2>2, <3>1, <3>2
    <2> QED BY <2>1, <2>2, <2>3 DEF CountRight, Numbered
  <1> QED BY <1>1, Invariance, PTL

\* No loops wait for each other in a circle with their blocking writes.
NoCircularWait ==
    \A S \in SUBSET Loop : S # {} => \E l \in S : WaitsFor(l) \cap S = {}

\* Where topics lead from higher loops to lower ones no loops wait for each
\* other in a circle: the lowest of any set only waits for loops outside it.
THEOREM NoCircle ==
    ASSUME \A k \in Link : To[k] < At[From[k]]
    PROVE  Spec => []NoCircularWait
  <1>1. IInv => NoCircularWait
    <2> SUFFICES ASSUME IInv, NEW S \in SUBSET Loop, S # {}
                 PROVE  \E l \in S : WaitsFor(l) \cap S = {}
      BY DEF NoCircularWait
    <2>1. PICK l \in S : \A m \in S : l <= m
      BY Least
    <2>2. ASSUME NEW k \in todo[l] PROVE To[k] \in Nat /\ To[k] < l
      <3>1. k \in Link /\ At[From[k]] = l
        BY DEF IInv, TypeOK
      <3> QED BY <3>1
    <2>3. ASSUME NEW m \in WaitsFor(l) PROVE m \in Nat /\ m < l
      <3>1. PICK k \in todo[l] : m = To[k]
        BY DEF WaitsFor
      <3> QED BY <2>2, <3>1
    <2> QED BY <2>1, <2>3
  <1> QED BY <1>1, Invariance, PTL

\* Nor are they stuck in any other way: the lowest loop in a publish can write,
\* or the loop it waits for has a message to take, or has stopped.
THEOREM NeverStuck ==
    ASSUME \A k \in Link : To[k] < At[From[k]]
    PROVE  Spec => []Unblocked
  <1>1. IInv => Unblocked
    <2> SUFFICES ASSUME IInv, NEW S \in SUBSET Loop, \E l \in S : todo[l] # {},
                        \A l \in S : WaitsFor(l) \subseteq S,
                        \A l \in S : ~CanGoOn(l)
                 PROVE  \E l \in S : loop[l] = "stopped" /\ todo[l] = {}
      BY DEF Unblocked
    <2>1. PICK l \in S : todo[l] # {} /\ \A m \in S : todo[m] # {} => l <= m
      <3> DEFINE P == {m \in S : todo[m] # {}}
      <3>1. P \in SUBSET Nat /\ P # {}
        OBVIOUS
      <3>2. \E m \in P : \A i \in P : m <= i
        BY <3>1, Least
      <3> QED BY <3>2
    <2>2. PICK k \in todo[l] : k = First(todo[l]) /\ k \in Link /\ At[From[k]] = l
      <3>1. todo[l] \in SUBSET Link /\ \A k \in todo[l] : At[From[k]] = l
        BY DEF IInv, TypeOK
      <3>2. First(todo[l]) \in todo[l]
        BY <2>1, <3>1, FirstRight
      <3> QED BY <3>1, <3>2
    <2>3. ~Dead(k) /\ Full(k)
      BY <2>2 DEF CanGoOn
    <2>4. To[k] \in S /\ To[k] \in Nat /\ l \in Nat /\ To[k] < l
      <3>1. To[k] \in WaitsFor(l)
        BY <2>2, <2>3 DEF WaitsFor
      <3> QED BY <2>2, <3>1
    <2>5. todo[To[k]] = {}
      BY <2>1, <2>4
    <2>6. buffer[k] # <<>>
      BY <2>2, <2>3 DEF Full
    <2>7. loop[To[k]] # "running"
      BY <2>2, <2>4, <2>5, <2>6 DEF CanGoOn
    <2>8. loop[To[k]] = "stopped"
      BY <2>3, <2>4, <2>7 DEF IInv, TypeOK, Dead
    <2> QED BY <2>4, <2>5, <2>8
  <1> QED BY <1>1, Invariance, PTL

-----------------------------------------------------------------------------
(* Flow implements Broadcast.                                              *)

\* The connections a publish has yet to write to are of one topic.
OneTopic == \A l \in Loop : \A j, k \in todo[l] : From[j] = From[k]

\* It holds in every reachable state.
LEMMA Topical == Spec => []OneTopic
  <1>1. Init => OneTopic
    BY DEF Init, OneTopic
  <1>2. IInv /\ OneTopic /\ [Next]_vars => OneTopic'
    <2> SUFFICES ASSUME IInv, OneTopic, [Next]_vars PROVE OneTopic'
      OBVIOUS
    <2>1. todo \in [Loop -> SUBSET Link]
      BY DEF IInv, TypeOK
    <2>2. ASSUME NEW t \in Topic, Enter(t) PROVE OneTopic'
      BY <2>1, <2>2 DEF Enter, OneTopic, Pool
    <2>3. ASSUME NEW t \in Topic, Publish(t) PROVE OneTopic'
      BY <2>2, <2>3 DEF Publish
    <2>4. ASSUME NEW k \in Link, OnMessage(k) PROVE OneTopic'
      <3>1. CASE UNCHANGED todo
        BY <3>1 DEF OneTopic
      <3>2. CASE Relay[k] # NoTopic /\ Enter(Relay[k])
        <4>1. Relay[k] \in Topic
          BY <3>2
        <4> QED BY <2>2, <3>2, <4>1
      <3> QED BY <2>4, <3>1, <3>2 DEF OnMessage
    <2>5. ASSUME NEW l \in Loop, PublishNext(l) PROVE OneTopic'
      BY <2>1, <2>5 DEF PublishNext, OneTopic
    <2>6. ASSUME NEW l \in Loop, Stop(l) \/ Kill(l) PROVE OneTopic'
      BY <2>1, <2>6 DEF Stop, Kill, OneTopic
    <2>7. CASE UNCHANGED vars
      BY <2>7 DEF vars, OneTopic
    <2> QED BY <2>3, <2>4, <2>5, <2>6, <2>7 DEF Next
  <1> QED BY <1>1, <1>2, Invariance, PTL DEF Spec

\* What is on its way on k when buffers have changed and no publish has begun.
Rest(k) ==
    IF Dead(k) THEN <<>>
    ELSE IF k \in todo[At[From[k]]] THEN Append(buffer'[k], count[From[k]])
    ELSE buffer'[k]

\* A sequence with a number appended has its old self in front.
LEMMA Appended ==
    ASSUME NEW s \in Seq(Nat), NEW e \in Nat
    PROVE  /\ Append(s, e) # <<>>
           /\ SubSeq(Append(s, e), 1, Len(Append(s, e)) - 1) = s
  <1>1. /\ Append(s, e) \in Seq(Nat) /\ Append(s, e) # <<>>
        /\ Len(Append(s, e)) = Len(s) + 1
        /\ \A i \in 1 .. Len(s) : Append(s, e)[i] = s[i]
    BY AppendProperties
  <1>2. Len(s) \in Nat /\ Len(Append(s, e)) - 1 = Len(s)
    BY <1>1
  <1> DEFINE t == SubSeq(Append(s, e), 1, Len(s))
  <1>3. t \in Seq(Nat) /\ Len(t) = Len(s) /\ \A i \in 1 .. Len(s) : t[i] = s[i]
    BY <1>1, <1>2
  <1>4. t = s
    BY <1>3, SeqEqual
  <1> QED BY <1>1, <1>2, <1>4

\* To enter a publish puts its message on its way to every subscriber at once.
LEMMA EnterRefines ==
    ASSUME TypeOK, NEW t \in Topic, todo[At[t]] = {}, Enter(t), loop' = loop, NEW k \in Link
    PROVE  Queue'[k] = IF From[k] = t /\ To[k] \notin Killed
                         THEN Append(Rest(k), count[t] + 1) ELSE Rest(k)
  <1>1. /\ count' = [count EXCEPT ![t] = @ + 1] /\ count \in [Topic -> Nat]
        /\ todo' = [todo EXCEPT ![At[t]] = Pool(t)] /\ todo \in [Loop -> SUBSET Link]
        /\ At[t] \in Loop /\ At[From[k]] \in Loop /\ From[k] \in Topic /\ To[k] \in Loop
    BY DEF Enter, TypeOK
  <1>2. Dead(k)' = Dead(k) /\ (To[k] \in Killed <=> Dead(k))
    BY <1>1 DEF Dead, Killed
  <1>3. Queue'[k] = IF Dead(k) THEN <<>>
                    ELSE IF k \in todo'[At[From[k]]] THEN Append(buffer'[k], count'[From[k]])
                    ELSE buffer'[k]
    BY <1>2 DEF Queue
  <1>4. CASE From[k] = t
    <2>1. k \in todo'[At[t]] /\ k \notin todo[At[t]] /\ count'[t] = count[t] + 1
      BY <1>1, <1>4 DEF Pool
    <2> QED BY <1>2, <1>3, <1>4, <2>1 DEF Rest
  <1>5. CASE From[k] # t
    <2>1. count'[From[k]] = count[From[k]]
      BY <1>1, <1>5
    <2>2. k \in todo'[At[From[k]]] <=> k \in todo[At[From[k]]]
      BY <1>1, <1>5 DEF Pool
    <2> QED BY <1>3, <1>5, <2>1, <2>2 DEF Rest
  <1> QED BY <1>4, <1>5

\* A publish by the user is one of the abstract topic.
LEMMA PublishRefines ==
    ASSUME IInv, NEW t \in Topic, Publish(t)
    PROVE  B!Publish(t)
  <1>1. /\ TypeOK /\ todo[At[t]] = {} /\ loop[At[t]] # "killed" /\ Enter(t)
        /\ UNCHANGED <<loop, buffer, delivered>>
    BY DEF IInv, Publish
  <1>2. ASSUME NEW k \in Link
        PROVE  Queue'[k] = IF From[k] = t /\ To[k] \notin Killed
                             THEN Append(Queue[k], count[t] + 1) ELSE Queue[k]
    <2>1. Rest(k) = Queue[k]
      BY <1>1 DEF Rest, Queue
    <2> QED BY <1>1, <2>1, EnterRefines
  <1>3. Queue' = [k \in Link |-> IF From[k] = t /\ To[k] \notin Killed
                                   THEN Append(Queue[k], count[t] + 1) ELSE Queue[k]]
    BY <1>2 DEF Queue
  <1>4. Killed' = Killed /\ At[t] \notin Killed
    BY <1>1 DEF Killed
  <1> QED BY <1>1, <1>3, <1>4 DEF B!Publish, B!Enqueue, Enter

\* What a write puts into a buffer was on its way already.
LEMMA WriteRefines ==
    ASSUME IInv, NEW l \in Loop, PublishNext(l)
    PROVE  Queue' = Queue /\ Killed' = Killed /\ UNCHANGED <<count, delivered>>
  <1> DEFINE f == First(todo[l])
  <1>1. /\ f \in todo[l] /\ f \in Link /\ At[From[f]] = l /\ todo \in [Loop -> SUBSET Link]
        /\ todo' = [todo EXCEPT ![l] = @ \ {f}]
        /\ UNCHANGED <<loop, count, delivered>>
    BY FirstRight DEF IInv, TypeOK, PublishNext
  <1>2. /\ buffer \in [Link -> Seq(Nat)]
        /\ \/ Dead(f) /\ buffer' = buffer
           \/ ~Dead(f) /\ buffer' = [buffer EXCEPT ![f] = Append(@, count[From[f]])]
    BY DEF IInv, TypeOK, PublishNext, Write, Send
  <1> HIDE DEF f
  <1>3. ASSUME NEW k \in Link PROVE Queue'[k] = Queue[k]
    <2>1. CASE k = f
      BY <1>1, <1>2, <2>1 DEF Queue, Dead
    <2>2. CASE k # f
      BY <1>1, <1>2, <2>2 DEF Queue, Dead
    <2> QED BY <2>1, <2>2
  <1> QED BY <1>1, <1>3 DEF Queue, Killed

\* A callback takes what is first on its way, and publishes in the same step.
LEMMA MessageRefines ==
    ASSUME IInv, NEW j \in Link, OnMessage(j)
    PROVE  B!Deliver(j)
  <1>1. /\ TypeOK /\ loop' = loop /\ loop[To[j]] = "running" /\ todo[To[j]] = {}
        /\ buffer \in [Link -> Seq(Nat)] /\ buffer[j] # <<>>
        /\ buffer' = [buffer EXCEPT ![j] = Tail(@)]
        /\ delivered' = [delivered EXCEPT ![j] = Append(@, Head(buffer[j]))]
    BY DEF IInv, TypeOK, OnMessage
  <1>2. ~Dead(j) /\ To[j] \notin Killed /\ Killed' = Killed
    BY <1>1 DEF Dead, Killed
  <1>3. /\ Queue[j] # <<>> /\ Head(Queue[j]) = Head(buffer[j])
        /\ Rest(j) = Tail(Queue[j])
    <2> DEFINE c == count[From[j]]
    <2>1. /\ Head(Append(buffer[j], c)) = Head(buffer[j])
          /\ Tail(Append(buffer[j], c)) = Append(Tail(buffer[j]), c)
      BY <1>1, HeadTailAppend
    <2>2. buffer'[j] = Tail(buffer[j])
      BY <1>1
    <2>3. Append(buffer[j], c) # <<>>
      <3>1. c \in Nat
        BY <1>1 DEF TypeOK
      <3>2. buffer[j] \in Seq(Nat)
        BY <1>1
      <3> HIDE DEF c
      <3> QED BY <3>1, <3>2, Appended
    <2> QED BY <1>1, <1>2, <2>1, <2>2, <2>3 DEF Queue, Rest
  <1> DEFINE rest == [Queue EXCEPT ![j] = Tail(@)]
  <1>4. ASSUME NEW k \in Link PROVE Rest(k) = rest[k]
    <2>1. CASE k # j
      BY <1>1, <2>1 DEF Rest, Queue
    <2>2. CASE k = j
      BY <1>3, <2>2 DEF Queue
    <2> QED BY <2>1, <2>2
  <1>5. CASE Relay[j] = NoTopic
    <2>1. UNCHANGED <<count, todo>>
      BY <1>5 DEF OnMessage
    <2>2. ASSUME NEW k \in Link PROVE Queue'[k] = Rest(k)
      BY <1>1, <2>1 DEF Queue, Rest, Dead
    <2>3. Queue' = rest
      BY <1>4, <2>2 DEF Queue
    <2> QED BY <1>1, <1>2, <1>3, <1>5, <2>1, <2>3 DEF B!Deliver
  <1>6. CASE Relay[j] # NoTopic
    <2>1. PICK t \in Topic : t = Relay[j] /\ At[t] = To[j] /\ Enter(t)
      BY <1>6 DEF OnMessage
    <2>2. ASSUME NEW k \in Link
          PROVE  Queue'[k] = IF From[k] = t /\ To[k] \notin Killed
                               THEN Append(rest[k], count[t] + 1) ELSE rest[k]
      BY <1>1, <1>4, <2>1, EnterRefines
    <2>3. Queue' = [k \in Link |-> IF From[k] = t /\ To[k] \notin Killed
                                     THEN Append(rest[k], count[t] + 1) ELSE rest[k]]
      BY <2>2 DEF Queue
    <2>4. B!Enqueue(t, rest)
      BY <2>1, <2>3 DEF B!Enqueue, Enter
    <2> QED BY <1>1, <1>2, <1>3, <1>6, <2>1, <2>4 DEF B!Deliver
  <1> QED BY <1>5, <1>6

\* A loop that is killed in a publish cuts the message short for the
\* connections it has not written to.
LEMMA KillRefines ==
    ASSUME IInv, OneTopic, NEW l \in Loop, Kill(l)
    PROVE  B!Kill(l)
  <1>1. /\ loop \in [Loop -> {"running", "stopped", "killed"}] /\ loop[l] # "killed"
        /\ todo \in [Loop -> SUBSET Link] /\ \A k \in todo[l] : k \in Link /\ At[From[k]] = l
        /\ buffer \in [Link -> Seq(Nat)] /\ count \in [Topic -> Nat]
        /\ loop' = [loop EXCEPT ![l] = "killed"] /\ todo' = [todo EXCEPT ![l] = {}]
        /\ buffer' = [k \in Link |-> IF To[k] = l THEN <<>> ELSE buffer[k]]
        /\ count' = count /\ delivered' = delivered
    BY DEF IInv, TypeOK, Kill
  <1>2. l \notin Killed /\ Killed' = Killed \cup {l}
    BY <1>1 DEF Killed
  <1> DEFINE cut == {k \in todo[l] : ~Dead(k)}
  <1>3. ASSUME NEW k \in cut
        PROVE  /\ k \in Link /\ At[From[k]] = l /\ Queue[k] # <<>>
               /\ SubSeq(Queue[k], 1, Len(Queue[k]) - 1) = buffer[k]
    <2>1. k \in Link /\ At[From[k]] = l /\ k \in todo[l] /\ ~Dead(k)
      BY <1>1
    <2>2. Queue[k] = Append(buffer[k], count[From[k]])
      BY <2>1 DEF Queue
    <2>3. buffer[k] \in Seq(Nat) /\ count[From[k]] \in Nat
      BY <1>1, <2>1
    <2> QED BY <2>1, <2>2, <2>3, Appended
  <1>4. ASSUME NEW k \in Link
        PROVE  Queue'[k] = IF To[k] = l THEN <<>>
                           ELSE IF k \in cut THEN SubSeq(Queue[k], 1, Len(Queue[k]) - 1)
                           ELSE Queue[k]
    <2>1. CASE To[k] = l
      BY <1>1, <2>1 DEF Queue, Dead
    <2>2. CASE To[k] # l /\ Dead(k)
      BY <1>1, <2>2 DEF Queue, Dead
    <2>3. CASE To[k] # l /\ ~Dead(k) /\ k \in todo[l]
      <3>1. k \in cut /\ At[From[k]] = l
        BY <1>1, <2>3
      <3>2. k \notin todo'[At[From[k]]] /\ buffer'[k] = buffer[k]
        BY <1>1, <2>3, <3>1
      <3>3. Queue'[k] = buffer[k]
        BY <1>1, <2>3, <3>2 DEF Queue, Dead
      <3> QED BY <1>3, <2>3, <3>1, <3>3
    <2>4. CASE To[k] # l /\ ~Dead(k) /\ k \notin todo[l]
      <3>1. k \in todo'[At[From[k]]] <=> k \in todo[At[From[k]]]
        BY <1>1, <2>4
      <3> QED BY <1>1, <2>4, <3>1 DEF Queue, Dead
    <2> QED BY <2>1, <2>2, <2>3, <2>4
  <1>5. Queue' = [k \in Link |->
                    IF To[k] = l THEN <<>>
                    ELSE IF k \in cut THEN SubSeq(Queue[k], 1, Len(Queue[k]) - 1)
                    ELSE Queue[k]]
    BY <1>4 DEF Queue
  <1>6. \A j, k \in cut : From[j] = From[k]
    BY DEF OneTopic
  <1>7. cut \in SUBSET {k \in Link : At[From[k]] = l /\ Queue[k] # <<>>}
    BY <1>3
  <1> HIDE DEF cut
  <1> QED BY <1>1, <1>2, <1>5, <1>6, <1>7 DEF B!Kill

\* Flow implements the abstract broadcast: nobody can tell writes that follow
\* and wait for each other from messages handed to everyone at once.
THEOREM Implementation == Spec => BroadcastSpec
  <1>1. Init => B!Init
    BY DEF Init, B!Init, Queue, Killed
  <1>2. IInv /\ OneTopic /\ [Next]_vars => [B!Next]_(B!broadcastVars)
    <2> SUFFICES ASSUME IInv, OneTopic, [Next]_vars PROVE [B!Next]_(B!broadcastVars)
      OBVIOUS
    <2>1. ASSUME NEW t \in Topic, Publish(t) PROVE B!Next
      BY <2>1, PublishRefines DEF B!Next
    <2>2. ASSUME NEW k \in Link, OnMessage(k) PROVE B!Next
      BY <2>2, MessageRefines DEF B!Next
    <2>3. ASSUME NEW l \in Loop, PublishNext(l) PROVE UNCHANGED B!broadcastVars
      BY <2>3, WriteRefines DEF B!broadcastVars
    <2>4. ASSUME NEW l \in Loop, Stop(l) PROVE UNCHANGED B!broadcastVars
      <3>1. Killed' = Killed /\ \A k \in Link : Dead(k)' = Dead(k)
        BY <2>4 DEF Stop, Killed, Dead, IInv, TypeOK
      <3> QED BY <2>4, <3>1 DEF Stop, B!broadcastVars, Queue
    <2>5. ASSUME NEW l \in Loop, Kill(l) PROVE B!Next
      BY <2>5, KillRefines DEF B!Next
    <2>6. CASE UNCHANGED vars
      BY <2>6 DEF vars, B!broadcastVars, Queue, Killed, Dead
    <2> QED BY <2>1, <2>2, <2>3, <2>4, <2>5, <2>6 DEF Next
  <1> QED BY <1>1, <1>2, Invariance, Topical, PTL DEF Spec, BroadcastSpec, B!Spec
=============================================================================
