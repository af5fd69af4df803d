---------------------------- MODULE TimerContract ---------------------------
(***************************************************************************)
(* What Timer and TaskTimer (timer/Timer.h, timer/TaskTimer.h) promise to  *)
(* the one thread that uses them: calls back, one at a time, when as many  *)
(* polls have passed as the interval has periods of 100 ms, and as often   *)
(* as was asked for; Stop returns when that is over, and it is over only   *)
(* when all calls were made or Stop asked for it.  Nothing is said of      *)
(* flags, of threads, or of the mutex.                                     *)
(***************************************************************************)
EXTENDS Integers

CONSTANTS
  Periods,    \* periods between calls
  Limits      \* numbers of calls, Forever may be one of them

VARIABLES
  active,     \* what IsActive says
  calling,    \* a callback is in progress
  stopping,   \* Stop has made its request and has not returned
  gone,       \* the destructor has returned
  schedule    \* left, the calls to be made; period; polls, since the last call

timerVars == <<active, calling, stopping, gone, schedule>>

Forever == -1

Unscheduled == [left |-> 0, period |-> 0, polls |-> 0]

TimerInit ==
  /\ active = FALSE /\ calling = FALSE /\ stopping = FALSE /\ gone = FALSE
  /\ schedule = Unscheduled

\* There is a poll before each call.
Due(p) == IF p = 0 THEN 1 ELSE p

Without(n) == IF n = Forever THEN n ELSE n - 1

\* Start and StartOnce of a timer that is not active.
Begin(n, p) ==
  /\ ~active /\ ~stopping /\ ~gone
  /\ active' = TRUE
  /\ schedule' = [left |-> n, period |-> p, polls |-> 0]
  /\ UNCHANGED <<calling, stopping, gone>>

Poll ==
  /\ active /\ ~calling
  /\ schedule.left # 0 /\ schedule.polls < Due(schedule.period)
  /\ schedule' = [schedule EXCEPT !.polls = @ + 1]
  /\ UNCHANGED <<active, calling, stopping, gone>>

\* No call begins early, or late, or after the request to stop.
CallBack ==
  /\ active /\ ~calling /\ ~stopping
  /\ schedule.left # 0 /\ schedule.polls = Due(schedule.period)
  /\ calling' = TRUE
  /\ schedule' = [schedule EXCEPT !.left = Without(@)]
  /\ UNCHANGED <<active, stopping, gone>>

Return ==
  /\ calling
  /\ calling' = FALSE
  /\ schedule' = [schedule EXCEPT !.polls = 0]
  /\ UNCHANGED <<active, stopping, gone>>

\* The timer runs out, or gives in to Stop.
End ==
  /\ active /\ ~calling
  /\ schedule.left = 0 \/ stopping
  /\ active' = FALSE /\ schedule' = Unscheduled
  /\ UNCHANGED <<calling, stopping, gone>>

AskToStop == ~stopping /\ ~gone /\ stopping' = TRUE /\ UNCHANGED <<active, calling, gone, schedule>>

StopReturns ==
  /\ stopping /\ ~active
  /\ stopping' = FALSE
  /\ UNCHANGED <<active, calling, gone, schedule>>

\* The destructor returns, like a Stop or at once.
Vanish ==
  /\ ~gone /\ ~active
  /\ stopping' = FALSE /\ gone' = TRUE
  /\ UNCHANGED <<active, calling, schedule>>

TimerNext ==
  \/ \E n \in Limits, p \in Periods : Begin(n, p)
  \/ Poll \/ CallBack \/ Return \/ End
  \/ AskToStop \/ StopReturns \/ Vanish

TimerSpec == TimerInit /\ [][TimerNext]_timerVars
=============================================================================
