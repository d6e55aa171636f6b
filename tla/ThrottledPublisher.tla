------------------------- MODULE ThrottledPublisher -------------------------
(***************************************************************************)
(* rosasio::ThrottledPublisher (include/rosasio/throttled_publisher.hpp):  *)
(* publish() only keeps the message, the callback of a Timer hands the     *)
(* latest one to the Publisher underneath.                                 *)
(***************************************************************************)
EXTENDS Timer

CONSTANT MaxMsgs    \* bound: how many messages the user publishes

ASSUME MaxMsgsAssumption == MaxMsgs \in Nat

VARIABLES
    alive,      \* the ThrottledPublisher exists
    latest,     \* m_latest_message: messages are numbered from 1, 0 is none
    dirty,      \* m_message_is_dirty
    since,      \* history: when the oldest unsent publish() was called
    sends,      \* history: how many messages went to the Publisher,
    sentMsg,    \*          the last of them
    sentAt      \*          and when it went

vars == <<now, expiry, wait, alive, latest, dirty, since, sends, sentMsg, sentAt>>

Init ==
    /\ TimerInit
    /\ alive = TRUE
    /\ latest = 0
    /\ dirty = FALSE
    /\ since = 0
    /\ sends = 0
    /\ sentMsg = 0
    /\ sentAt = 0

DirtyForgotten == dirty

\* What publish() leaves in m_message_is_dirty.
DirtyAfterPublish == TRUE

Publish ==
    /\ alive
    /\ latest < MaxMsgs
    /\ latest' = latest + 1
    /\ dirty' = DirtyAfterPublish
    /\ since' = IF dirty THEN since ELSE now
    /\ UNCHANGED <<now, expiry, wait, alive, sends, sentMsg, sentAt>>

DirtyKept == dirty

\* What handle_interval leaves in it.
DirtyAfterInterval == FALSE

\* timer_handler with the callback handle_interval.
HandleInterval ==
    /\ alive
    /\ TimerHandler
    /\ IF dirty
         THEN /\ sends' = sends + 1
              /\ sentMsg' = latest
              /\ sentAt' = now
              /\ dirty' = DirtyAfterInterval
         ELSE UNCHANGED <<sends, sentMsg, sentAt, dirty>>
    /\ UNCHANGED <<alive, latest, since>>

\* The timer goes before the Publisher; an unsent message goes with it.
Destroy ==
    /\ alive
    /\ alive' = FALSE
    /\ TimerCancelled
    /\ UNCHANGED <<latest, dirty, since, sends, sentMsg, sentAt>>

Next ==
    \/ (Tick \/ TimerDue) /\ UNCHANGED <<alive, latest, dirty, since, sends, sentMsg, sentAt>>
    \/ Publish
    \/ HandleInterval
    \/ Destroy
    \/ ~alive /\ TimerHandlerAfter
              /\ UNCHANGED <<alive, latest, dirty, since, sends, sentMsg, sentAt>>

Spec == Init /\ [][Next]_vars

-----------------------------------------------------------------------------
\* Every variable keeps its type; what was sent had been published.
TypeOK ==
    /\ TimerTypeOK
    /\ alive \in BOOLEAN
    /\ dirty \in BOOLEAN
    /\ latest \in 0 .. MaxMsgs
    /\ since \in 0 .. now
    /\ sends \in Nat
    /\ sentMsg \in 0 .. latest
    /\ sentAt \in 0 .. now

\* However late the loop and however far it has to catch up, no more messages
\* have gone out than intervals have passed (timer.hpp:25, handle_interval).
RateBound == sends * Interval <= now

\* Two messages in a row are at least an interval apart, less the lateness
\* with which the loop served the first one.
SpacedSends ==
    [][sends' # sends /\ sends > 0 => now - sentAt >= Interval - Lag]_vars

\* A published message, or one that replaced it, is sent within an interval and
\* the lateness of the loop: the dirty flag, which publish sets and the timer
\* clears, neither forgets nor delays the last one.
Timely == alive /\ sentMsg # latest => now - since <= Interval + Lag

\* What is sent is newer than what was sent before: no message goes out twice
\* and none after one that was published later.
OnlyNewer == [][sends' # sends => sentMsg' > sentMsg]_vars

\* "messages can only be published no faster than a given interval regardless
\* of the actual publish rate" (throttled_publisher.hpp:10).
NoFaster == [][sends' # sends /\ sends > 0 => now - sentAt >= Interval]_vars
=============================================================================
