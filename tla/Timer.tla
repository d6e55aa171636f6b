------------------------------- MODULE Timer -------------------------------
(***************************************************************************)
(* One rosasio::Timer (include/rosasio/timer.hpp) on the io_context that   *)
(* runs its handler.  Time is counted in ticks from the construction of    *)
(* the timer.  The loop may be busy with other handlers, but never so long *)
(* that a timer is served more than Lag ticks late.  The module gives the  *)
(* actions of the timer; a module that owns one conjoins its callback to   *)
(* TimerHandler and its destructor to TimerCancelled.                      *)
(***************************************************************************)
EXTENDS Integers

CONSTANTS
    Interval,   \* m_interval, in ticks
    Lag,        \* how late the loop may serve a timer
    MaxTime     \* bound: where the clock stops

ASSUME TimerAssumption ==
    /\ Interval \in Nat \ {0}
    /\ Lag \in Nat
    /\ MaxTime \in Nat

VARIABLES
    now,        \* the steady clock
    expiry,     \* m_timer.expiry()
    wait        \* the async_wait: "waiting", "due", "aborted", "ended", "undefined"

timerVars == <<now, expiry, wait>>

TimerInit ==
    /\ now = 0
    /\ expiry = Interval
    /\ wait = "waiting"

\* A wait that has not been served yet holds the clock back at Lag.
Tick ==
    /\ now < MaxTime
    /\ wait \in {"waiting", "due"} => now < expiry + Lag
    /\ now' = now + 1
    /\ UNCHANGED <<expiry, wait>>

\* The wait completes: its handler is queued and can no longer be cancelled.
TimerDue ==
    /\ wait = "waiting"
    /\ now >= expiry
    /\ wait' = "due"
    /\ UNCHANGED <<now, expiry>>

NextExpiryForgotten == expiry

NextExpiryBackwards == expiry - Interval

NextExpirySkips == expiry + Interval + Interval

\* The next expiry counts from the last one, not from now.
NextExpiry == expiry + Interval

\* timer_handler of a timer that exists: it waits again, then calls m_cb().
TimerHandler ==
    /\ wait = "due"
    /\ expiry' = NextExpiry
    /\ wait' = "waiting"
    /\ UNCHANGED now

\* The destructor of the steady_timer cancels a wait that has not completed.
TimerCancelled ==
    /\ wait' = IF wait = "waiting" THEN "aborted" ELSE wait
    /\ UNCHANGED <<now, expiry>>

\* timer_handler after the destructor: on operation_aborted it returns without
\* looking at the object; when it was already queued it runs on a dead 'this'.
TimerHandlerAfter ==
    /\ \/ wait = "aborted" /\ wait' = "ended"
       \/ wait = "due" /\ wait' = "undefined"
    /\ UNCHANGED <<now, expiry>>

TimerTypeOK ==
    /\ now \in 0 .. MaxTime
    /\ expiry \in Nat
    /\ wait \in {"waiting", "due", "aborted", "ended", "undefined"}
=============================================================================
