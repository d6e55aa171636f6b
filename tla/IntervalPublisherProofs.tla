---------------------- MODULE IntervalPublisherProofs ----------------------
(***************************************************************************)
(* Proofs about IntervalPublisher, for every interval, every lateness of   *)
(* the loop and any number of messages.                                    *)
(***************************************************************************)
EXTENDS IntervalPublisher, TLAPS

\* The clock relative to the expiry, as served by the loop.
ClockInv ==
    /\ alive => wait \in {"waiting", "due"}
    /\ wait \in {"waiting", "due"} => now <= expiry + Lag
    /\ wait = "due" => now >= expiry
    /\ expiry - Interval <= now

\* The timer repeats what was published last, and has sent something since it
\* was last served.
RepeatInv ==
    /\ initial <=> published > 0
    /\ latest = published
    /\ published > 0 => sentAt >= expiry - Interval
    /\ repeats * Interval <= expiry - Interval

IInv == TypeOK /\ ClockInv /\ RepeatInv /\ MostRecent

USE TimerAssumption, MaxMsgsAssumption

\* The initial state satisfies the inductive invariant.
LEMMA InitIInv == Init => IInv
  <1> SUFFICES ASSUME Init PROVE IInv
    OBVIOUS
  <1>1. TypeOK
    <2>1. TimerTypeOK
      BY DEF Init, TimerInit, TimerTypeOK
    <2>2. alive \in BOOLEAN /\ initial \in BOOLEAN
      BY DEF Init
    <2>3. published \in 0 .. MaxMsgs /\ latest \in 0 .. published /\ sentMsg \in 0 .. published
      BY DEF Init
    <2>4. repeats \in Nat /\ sentAt \in 0 .. now
      BY DEF Init, TimerInit
    <2> QED BY <2>1, <2>2, <2>3, <2>4 DEF TypeOK
  <1>2. ClockInv
    BY DEF Init, TimerInit, ClockInv
  <1>3. 0 * Interval = 0
    OBVIOUS
  <1>4. RepeatInv /\ MostRecent
    BY <1>3 DEF Init, TimerInit, RepeatInv, MostRecent
  <1> QED BY <1>1, <1>2, <1>4 DEF IInv

\* The arithmetic of one more interval.
LEMMA OneMore == \A n \in Nat : (n + 1) * Interval = n * Interval + Interval
  OBVIOUS

\* Serving the timer preserves the inductive invariant.
LEMMA HandleIntervalStep ==
    ASSUME IInv, HandleInterval
    PROVE  IInv'
  <1>0. TypeOK /\ ClockInv /\ RepeatInv /\ MostRecent
    BY DEF IInv
  <1>1. /\ now \in Nat /\ now' = now /\ now >= expiry /\ now <= expiry + Lag
        /\ expiry \in Nat /\ expiry' = expiry + Interval /\ wait' = "waiting"
        /\ repeats \in Nat /\ published \in Nat /\ published' = published /\ latest' = latest
        /\ alive' = alive /\ initial' = initial
    BY <1>0 DEF TypeOK, TimerTypeOK, ClockInv, HandleInterval, TimerHandler, NextExpiry
  <1>2. TimerTypeOK' /\ ClockInv'
    BY <1>0, <1>1 DEF TypeOK, TimerTypeOK, ClockInv
  <1>3. CASE initial
    <2>1. repeats' = repeats + 1 /\ sentMsg' = latest /\ sentAt' = now
      BY <1>3 DEF HandleInterval
    <2>2. repeats' * Interval = repeats * Interval + Interval /\ repeats * Interval \in Nat
      BY <1>1, <2>1, OneMore
    <2>3. repeats' \in Nat /\ sentAt' \in 0 .. now' /\ sentMsg' \in 0 .. published'
      BY <1>0, <1>1, <2>1 DEF TypeOK
    <2>4. TypeOK'
      BY <1>0, <1>1, <1>2, <2>3 DEF TypeOK
    <2>5. repeats' * Interval <= expiry' - Interval
      BY <1>0, <1>1, <2>2 DEF RepeatInv
    <2>6. RepeatInv' /\ MostRecent'
      BY <1>0, <1>1, <1>3, <2>1, <2>5 DEF RepeatInv, MostRecent
    <2> QED BY <1>2, <2>4, <2>6 DEF IInv
  <1>4. CASE ~initial
    <2>1. repeats' = repeats /\ sentMsg' = sentMsg /\ sentAt' = sentAt
      BY <1>4 DEF HandleInterval
    <2>2. repeats * Interval \in Nat
      BY <1>1
    <2>3. TypeOK'
      BY <1>0, <1>1, <1>2, <2>1 DEF TypeOK
    <2>4. repeats' * Interval <= expiry' - Interval
      BY <1>0, <1>1, <2>1, <2>2 DEF RepeatInv
    <2>5. RepeatInv' /\ MostRecent'
      BY <1>0, <1>1, <1>4, <2>1, <2>4 DEF RepeatInv, MostRecent
    <2> QED BY <1>2, <2>3, <2>5 DEF IInv
  <1> QED BY <1>3, <1>4

\* Every other step preserves it.
LEMMA OtherSteps ==
    ASSUME IInv, [Next]_vars, ~HandleInterval
    PROVE  IInv'
  <1>0. TypeOK /\ ClockInv /\ RepeatInv /\ MostRecent
    BY DEF IInv
  <1>1. CASE Tick /\ UNCHANGED <<alive, initial, latest, published, repeats, sentMsg, sentAt>>
    <2>1. TypeOK' /\ ClockInv'
      BY <1>0, <1>1 DEF TypeOK, TimerTypeOK, ClockInv, Tick
    <2>2. RepeatInv' /\ MostRecent'
      BY <1>0, <1>1 DEF RepeatInv, MostRecent, Tick
    <2> QED BY <2>1, <2>2 DEF IInv
  <1>2. CASE Publish
    <2>1. TypeOK'
      BY <1>0, <1>2 DEF TypeOK, TimerTypeOK, Publish, Kept
    <2>2. ClockInv' /\ RepeatInv' /\ MostRecent'
      BY <1>0, <1>2 DEF TypeOK, TimerTypeOK, ClockInv, RepeatInv, MostRecent, Publish, Kept
    <2> QED BY <2>1, <2>2 DEF IInv
  <1>3. CASE \/ TimerDue /\ UNCHANGED <<alive, initial, latest, published, repeats, sentMsg, sentAt>>
             \/ Destroy
             \/ /\ ~alive /\ TimerHandlerAfter
                /\ UNCHANGED <<alive, initial, latest, published, repeats, sentMsg, sentAt>>
             \/ UNCHANGED vars
    <2>1. TypeOK'
      BY <1>0, <1>3 DEF TypeOK, TimerTypeOK, TimerDue, Destroy, TimerCancelled,
                        TimerHandlerAfter, vars
    <2>2. ClockInv'
      <3>1. now' = now /\ expiry' = expiry
        BY <1>3 DEF TimerDue, Destroy, TimerCancelled, TimerHandlerAfter, vars
      <3>2. alive' => wait' \in {"waiting", "due"}
        BY <1>0, <1>3 DEF ClockInv, TimerDue, Destroy, TimerHandlerAfter, vars
      <3>3. wait' \in {"waiting", "due"} => wait \in {"waiting", "due"}
        BY <1>3 DEF TimerDue, Destroy, TimerCancelled, TimerHandlerAfter, vars
      <3>4. wait' = "due" => now >= expiry
        BY <1>0, <1>3 DEF ClockInv, TimerDue, Destroy, TimerCancelled, TimerHandlerAfter, vars
      <3> QED BY <1>0, <3>1, <3>2, <3>3, <3>4 DEF ClockInv
    <2>3. RepeatInv' /\ MostRecent'
      BY <1>0, <1>3 DEF RepeatInv, MostRecent, TimerDue, Destroy, TimerCancelled,
                        TimerHandlerAfter, vars
    <2> QED BY <2>1, <2>2, <2>3 DEF IInv
  <1> QED BY <1>1, <1>2, <1>3 DEF Next

\* The inductive invariant holds in every reachable state.
THEOREM Invariance == Spec => []IInv
  <1>1. IInv /\ [Next]_vars => IInv'
    BY HandleIntervalStep, OtherSteps
  <1> QED BY InitIInv, <1>1, PTL DEF Spec

\* Every variable keeps its type.
THEOREM TypeCorrect == Spec => []TypeOK
  BY Invariance, PTL DEF IInv

\* From the first message on the topic is never silent for longer than an
\* interval and the lateness of the loop.
THEOREM MinimumRate == Spec => []NeverSilent
  <1>1. IInv => NeverSilent
    BY DEF IInv, TypeOK, TimerTypeOK, ClockInv, RepeatInv, NeverSilent
  <1> QED BY Invariance, <1>1, PTL

\* The last thing sent is always the most recently published message.
THEOREM LatestSent == Spec => []MostRecent
  BY Invariance, PTL DEF IInv

\* The timer adds no more than one message for each interval.
THEOREM RepeatRate == Spec => []RepeatsBounded
  <1>1. IInv => RepeatsBounded
    <2> SUFFICES ASSUME IInv PROVE repeats * Interval <= now
      BY DEF RepeatsBounded
    <2>1. repeats * Interval \in Nat /\ now \in Nat /\ expiry \in Nat
      BY DEF IInv, TypeOK, TimerTypeOK
    <2> QED BY <2>1 DEF IInv, ClockInv, RepeatInv
  <1> QED BY Invariance, <1>1, PTL
=============================================================================
