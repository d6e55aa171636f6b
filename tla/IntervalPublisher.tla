------------------------- MODULE IntervalPublisher -------------------------
(***************************************************************************)
(* rosasio::IntervalPublisher (include/rosasio/interval_publisher.hpp):    *)
(* publish() hands the message to the Publisher at once and keeps it, the  *)
(* callback of a Timer publishes it again.                                 *)
(***************************************************************************)
EXTENDS Timer

CONSTANT MaxMsgs    \* bound: how many messages the user publishes

ASSUME MaxMsgsAssumption == MaxMsgs \in Nat

VARIABLES
    alive,      \* the IntervalPublisher exists
    initial,    \* m_initial_message_published
    latest,     \* m_latest_message: messages are numbered from 1, 0 is none
    published,  \* how many messages the user has published
    repeats,    \* history: how many messages the timer has sent,
    sentMsg,    \*          the last message sent by either
    sentAt      \*          and when it went

vars == <<now, expiry, wait, alive, initial, latest, published, repeats, sentMsg, sentAt>>

Init ==
    /\ TimerInit
    /\ alive = TRUE
    /\ initial = FALSE
    /\ latest = 0
    /\ published = 0
    /\ repeats = 0
    /\ sentMsg = 0
    /\ sentAt = 0

KeptOnce(msg) == IF initial THEN latest ELSE msg

\* What publish() keeps for the timer to repeat.
Kept(msg) == msg

Publish ==
    /\ alive
    /\ published < MaxMsgs
    /\ published' = published + 1
    /\ initial' = TRUE
    /\ latest' = Kept(published + 1)
    /\ sentMsg' = published + 1
    /\ sentAt' = now
    /\ UNCHANGED <<now, expiry, wait, alive, repeats>>

\* timer_handler with the callback handle_interval.
HandleInterval ==
    /\ alive
    /\ TimerHandler
    /\ IF initial
         THEN repeats' = repeats + 1 /\ sentMsg' = latest /\ sentAt' = now
         ELSE UNCHANGED <<repeats, sentMsg, sentAt>>
    /\ UNCHANGED <<alive, initial, latest, published>>

Destroy ==
    /\ alive
    /\ alive' = FALSE
    /\ TimerCancelled
    /\ UNCHANGED <<initial, latest, published, repeats, sentMsg, sentAt>>

Next ==
    \/ (Tick \/ TimerDue) /\ UNCHANGED <<alive, initial, latest, published, repeats, sentMsg, sentAt>>
    \/ Publish
    \/ HandleInterval
    \/ Destroy
    \/ ~alive /\ TimerHandlerAfter
              /\ UNCHANGED <<alive, initial, latest, published, repeats, sentMsg, sentAt>>

Spec == Init /\ [][Next]_vars

-----------------------------------------------------------------------------
\* Every variable keeps its type; what was sent had been published.
TypeOK ==
    /\ TimerTypeOK
    /\ alive \in BOOLEAN
    /\ initial \in BOOLEAN
    /\ published \in 0 .. MaxMsgs
    /\ latest \in 0 .. published
    /\ repeats \in Nat
    /\ sentMsg \in 0 .. published
    /\ sentAt \in 0 .. now

\* "ensures the most recently published message is re-published at a minimum
\* rate" (interval_publisher.hpp:10): from the first message on, the topic is
\* silent for no longer than an interval and the lateness of the loop.
NeverSilent == alive /\ published > 0 => now - sentAt <= Interval + Lag

\* The last thing on the topic is always the most recently published message:
\* a repetition never brings back an older one.
MostRecent == sentMsg = published

\* The timer adds no more than one message for each interval that has passed,
\* also when it catches up after the loop was busy.
RepeatsBounded == repeats * Interval <= now
=============================================================================
