---------------------- MODULE ThrottledPublisherProofs ----------------------
(***************************************************************************)
(* Proofs about ThrottledPublisher, for every interval, every lateness of  *)
(* the loop and any number of messages.                                    *)
(***************************************************************************)
EXTENDS ThrottledPublisher, TLAPS

\* The clock relative to the expiry: handlers are late by Lag at most, never
\* early, and the expiry is at most one interval ahead.
ClockInv ==
    /\ alive => wait \in {"waiting", "due"}
    /\ wait \in {"waiting", "due"} => now <= expiry + Lag
    /\ wait = "due" => now >= expiry
    /\ expiry - Interval <= now

\* Every send was charged to an expiry of its own.
SendInv ==
    /\ sends * Interval <= expiry - Interval
    /\ sends > 0 => sentAt <= expiry - Interval + Lag

\* A dirty message was published after the last time the timer was served.
DirtyInv ==
    /\ dirty => since >= expiry - Interval
    /\ dirty => sentMsg < latest

\* What is not waiting has been sent.
NothingForgotten == dirty \/ sentMsg = latest

IInv == TypeOK /\ ClockInv /\ SendInv /\ DirtyInv /\ RateBound /\ NothingForgotten

USE TimerAssumption, MaxMsgsAssumption

\* The initial state satisfies the inductive invariant.
LEMMA InitIInv == Init => IInv
  <1> SUFFICES ASSUME Init PROVE IInv
    OBVIOUS
  <1>1. TypeOK /\ ClockInv
    <2>1. TimerTypeOK
      BY DEF Init, TimerInit, TimerTypeOK
    <2>2. alive \in BOOLEAN /\ dirty \in BOOLEAN
      BY DEF Init
    <2>3. latest \in 0 .. MaxMsgs /\ since \in 0 .. now /\ sentMsg \in 0 .. latest
      BY DEF Init, TimerInit
    <2>4. sends \in Nat /\ sentAt \in 0 .. now
      BY DEF Init, TimerInit
    <2>5. ClockInv
      BY DEF Init, TimerInit, ClockInv
    <2> QED BY <2>1, <2>2, <2>3, <2>4, <2>5 DEF TypeOK
  <1>2. 0 * Interval = 0
    OBVIOUS
  <1>3. SendInv /\ DirtyInv /\ RateBound /\ NothingForgotten
    BY <1>2 DEF Init, TimerInit, SendInv, DirtyInv, RateBound, NothingForgotten
  <1> QED BY <1>1, <1>3 DEF IInv

\* The arithmetic of one more interval.
LEMMA OneMore == \A n \in Nat : (n + 1) * Interval = n * Interval + Interval
  OBVIOUS

\* Serving the timer preserves the inductive invariant.
LEMMA HandleIntervalStep ==
    ASSUME IInv, HandleInterval
    PROVE  IInv'
  <1>0. TypeOK /\ ClockInv /\ SendInv /\ DirtyInv /\ RateBound /\ NothingForgotten
    BY DEF IInv
  <1>1. /\ now \in Nat /\ now' = now /\ now >= expiry /\ now <= expiry + Lag
        /\ expiry \in Nat /\ expiry' = expiry + Interval /\ wait' = "waiting"
        /\ sends \in Nat /\ latest \in Nat /\ latest' = latest /\ since' = since
    BY <1>0 DEF TypeOK, TimerTypeOK, ClockInv, HandleInterval, TimerHandler, NextExpiry
  <1>2. TypeOK'
    <2>1. TimerTypeOK'
      BY <1>0, <1>1 DEF TypeOK, TimerTypeOK
    <2>2. CASE dirty
      <3>1. dirty' \in BOOLEAN /\ alive' \in BOOLEAN
        BY <1>0, <2>2 DEF TypeOK, HandleInterval, DirtyAfterInterval
      <3>2. latest' \in 0 .. MaxMsgs /\ since' \in 0 .. now' /\ sentMsg' \in 0 .. latest'
        BY <1>0, <1>1, <2>2 DEF TypeOK, HandleInterval
      <3>3. sends' \in Nat /\ sentAt' \in 0 .. now'
        BY <1>0, <1>1, <2>2 DEF TypeOK, HandleInterval
      <3> QED BY <2>1, <3>1, <3>2, <3>3 DEF TypeOK
    <2>3. CASE ~dirty
      BY <1>0, <1>1, <2>1, <2>3 DEF TypeOK, HandleInterval
    <2> QED BY <2>2, <2>3
  <1>3. ClockInv'
    BY <1>0, <1>1 DEF ClockInv, HandleInterval
  <1>4. SendInv' /\ RateBound'
    <2>1. CASE dirty
      <3>1. sends' = sends + 1 /\ sentAt' = now
        BY <2>1 DEF HandleInterval
      <3>2. sends' * Interval = sends * Interval + Interval /\ sends * Interval \in Nat
        BY <1>1, <3>1, OneMore
      <3>3. sends' * Interval <= expiry
        BY <1>0, <1>1, <3>2 DEF SendInv
      <3> QED BY <1>1, <3>1, <3>2, <3>3 DEF SendInv, RateBound
    <2>2. CASE ~dirty
      <3>1. sends' = sends /\ sentAt' = sentAt /\ sends * Interval \in Nat /\ sentAt \in Nat
        BY <1>0, <1>1, <2>2 DEF HandleInterval, TypeOK
      <3> QED BY <1>0, <1>1, <3>1 DEF SendInv, RateBound
    <2> QED BY <2>1, <2>2
  <1>5. DirtyInv' /\ NothingForgotten'
    BY <1>0, <1>1 DEF DirtyInv, NothingForgotten, HandleInterval, DirtyAfterInterval
  <1> QED BY <1>2, <1>3, <1>4, <1>5 DEF IInv

\* Every other step preserves it.
LEMMA OtherSteps ==
    ASSUME IInv, [Next]_vars, ~HandleInterval
    PROVE  IInv'
  <1>0. TypeOK /\ ClockInv /\ SendInv /\ DirtyInv /\ RateBound /\ NothingForgotten
    BY DEF IInv
  <1>1. CASE Tick /\ UNCHANGED <<alive, latest, dirty, since, sends, sentMsg, sentAt>>
    <2>1. sends * Interval \in Nat
      BY <1>0 DEF TypeOK
    <2>2. TypeOK' /\ ClockInv'
      BY <1>0, <1>1 DEF TypeOK, TimerTypeOK, ClockInv, Tick
    <2>3. SendInv' /\ RateBound'
      BY <1>0, <1>1, <2>1 DEF TypeOK, TimerTypeOK, SendInv, RateBound, Tick
    <2>4. DirtyInv' /\ NothingForgotten'
      BY <1>0, <1>1 DEF DirtyInv, NothingForgotten, Tick
    <2> QED BY <2>2, <2>3, <2>4 DEF IInv
  <1>2. CASE Publish
    <2>1. TypeOK' /\ DirtyInv' /\ NothingForgotten'
      BY <1>0, <1>2 DEF TypeOK, TimerTypeOK, ClockInv, DirtyInv, NothingForgotten, Publish,
                        DirtyAfterPublish
    <2>2. ClockInv' /\ SendInv' /\ RateBound'
      BY <1>0, <1>2 DEF ClockInv, SendInv, RateBound, Publish
    <2> QED BY <2>1, <2>2 DEF IInv
  <1>3. CASE \/ TimerDue /\ UNCHANGED <<alive, latest, dirty, since, sends, sentMsg, sentAt>>
             \/ Destroy
             \/ /\ ~alive /\ TimerHandlerAfter
                /\ UNCHANGED <<alive, latest, dirty, since, sends, sentMsg, sentAt>>
             \/ UNCHANGED vars
    <2>0. TypeOK'
      BY <1>0, <1>3 DEF TypeOK, TimerTypeOK, TimerDue, Destroy, TimerCancelled,
                        TimerHandlerAfter, vars
    <2>1. ClockInv'
      <3>1. now' = now /\ expiry' = expiry
        BY <1>3 DEF TimerDue, Destroy, TimerCancelled, TimerHandlerAfter, vars
      <3>2. alive' => wait' \in {"waiting", "due"}
        BY <1>0, <1>3 DEF ClockInv, TimerDue, Destroy, TimerHandlerAfter, vars
      <3>3. wait' \in {"waiting", "due"} => wait \in {"waiting", "due"}
        BY <1>3 DEF TimerDue, Destroy, TimerCancelled, TimerHandlerAfter, vars
      <3>4. wait' = "due" => now >= expiry
        BY <1>0, <1>3 DEF ClockInv, TimerDue, Destroy, TimerCancelled, TimerHandlerAfter, vars
      <3> QED BY <1>0, <3>1, <3>2, <3>3, <3>4 DEF ClockInv
    <2>2. SendInv' /\ RateBound' /\ DirtyInv' /\ NothingForgotten'
      BY <1>0, <1>3 DEF SendInv, RateBound, DirtyInv, NothingForgotten, TimerDue, Destroy,
                        TimerCancelled, TimerHandlerAfter, vars
    <2> QED BY <2>0, <2>1, <2>2 DEF IInv
  <1> QED BY <1>1, <1>2, <1>3 DEF Next

\* The inductive invariant holds in every reachable state.
THEOREM Invariance == Spec => []IInv
  <1>1. IInv /\ [Next]_vars => IInv'
    BY HandleIntervalStep, OtherSteps
  <1> QED BY InitIInv, <1>1, PTL DEF Spec

\* Every variable keeps its type.
THEOREM TypeCorrect == Spec => []TypeOK
  BY Invariance, PTL DEF IInv

\* No more messages are sent than intervals have passed.
THEOREM RateBounded == Spec => []RateBound
  BY Invariance, PTL DEF IInv

\* The last message published waits no longer than an interval and the lateness
\* of the loop.
THEOREM SentInTime == Spec => []Timely
  <1>1. IInv => Timely
    BY DEF IInv, TypeOK, TimerTypeOK, ClockInv, DirtyInv, NothingForgotten, Timely
  <1> QED BY Invariance, <1>1, PTL

\* Two messages in a row are an interval apart, less the lateness of the loop.
THEOREM Spaced == Spec => SpacedSends
  <1>1. IInv /\ [Next]_vars => [sends' # sends /\ sends > 0 => now - sentAt >= Interval - Lag]_vars
    <2> SUFFICES ASSUME IInv, Next, sends' # sends, sends > 0
                 PROVE  now - sentAt >= Interval - Lag
      OBVIOUS
    <2>1. HandleInterval
      BY DEF Next, Publish, Destroy
    <2> QED BY <2>1 DEF IInv, TypeOK, TimerTypeOK, ClockInv, SendInv, HandleInterval, TimerHandler
  <1> QED BY Invariance, <1>1, PTL DEF Spec, SpacedSends

\* No message is sent twice, or after one that was published later.
THEOREM Newer == Spec => OnlyNewer
  <1>1. IInv /\ [Next]_vars => [sends' # sends => sentMsg' > sentMsg]_vars
    BY DEF IInv, TypeOK, DirtyInv, Next, Publish, Destroy, HandleInterval
  <1> QED BY Invariance, <1>1, PTL DEF Spec, OnlyNewer

\* The claim of throttled_publisher.hpp:10, which a late loop refutes, holds
\* of a loop that is never late: the lateness is all that breaks it.
THEOREM OnTimeNoFaster == ASSUME Lag = 0 PROVE Spec => NoFaster
  <1>1. IInv /\ [Next]_vars => [sends' # sends /\ sends > 0 => now - sentAt >= Interval]_vars
    <2> SUFFICES ASSUME IInv, Next, sends' # sends, sends > 0
                 PROVE  now - sentAt >= Interval
      OBVIOUS
    <2>1. HandleInterval
      BY DEF Next, Publish, Destroy
    <2> QED BY <2>1 DEF IInv, TypeOK, TimerTypeOK, ClockInv, SendInv, HandleInterval, TimerHandler
  <1> QED BY Invariance, <1>1, PTL DEF Spec, NoFaster
=============================================================================
