------------------------------ MODULE SvcBackoff ------------------------------
(***************************************************************************)
(* The restart backoff of one service, src/internal/services/backoff.c:    *)
(* the times of its last failures, and the circuit breaker that opens when *)
(* so many of them lie within a window.  The times are the caller's wall   *)
(* clock, which may be set forwards and backwards between two failures.    *)
(*                                                                         *)
(* SvcSupervisor leaves time out: there, whether the breaker opens at the  *)
(* limit is open.  Here it is what the code computes.  The delays, and the *)
(* record that keeps the state across a restart of the daemon unchanged,   *)
(* are left out.                                                           *)
(***************************************************************************)
EXTENDS Integers, Sequences

CONSTANTS
    Tracked,    \* JW_SVC_BACKOFF_TRACKED
    Window,     \* JW_SVC_BACKOFF_WINDOW_MS
    MaxTime,    \* LLONG_MAX
    MaxLog      \* bound: failures of a streak

ASSUME BackoffAssumption ==
    /\ Tracked \in Nat \ {0} /\ Window \in Nat /\ MaxTime \in Nat /\ MaxLog \in Nat

VARIABLES
    times,      \* failure_times_ms, the first count of them
    open,       \* breaker_open
    log         \* what the clock showed at each failure since the last reset

backoffVars == <<times, open, log>>

\* Every value of the clock's type.
Stamps == (-MaxTime - 1)..MaxTime

BackoffTypeOK ==
    /\ times \in Seq(Stamps) /\ Len(times) <= Tracked
    /\ open \in BOOLEAN
    /\ log \in Seq(Stamps) /\ Len(log) <= MaxLog

BackoffInit == times = <<>> /\ open = FALSE /\ log = <<>>

\* Mutant of Within: the window's last instant is outside.
WithinStrictly(oldest, newest) ==
    newest <= oldest \/ oldest > MaxTime - Window \/ newest < oldest + Window

\* jw__timestamps_within_window, which adds only where the sum exists.
Within(oldest, newest) ==
    newest <= oldest \/ oldest > MaxTime - Window \/ newest <= oldest + Window

\* A clock that was set back counts as the failure before.
Clamped(t) == IF times # <<>> /\ t < times[Len(times)] THEN times[Len(times)] ELSE t

\* The oldest failure makes room once Tracked are kept.
Pushed(t) == Append(IF Len(times) < Tracked THEN times ELSE Tail(times), t)

\* jw_svc_backoff_record_failure; an open breaker records nothing.
RecordAt(t) ==
    /\ ~open /\ Len(log) < MaxLog
    /\ times' = Pushed(Clamped(t))
    /\ open' = (Len(times') = Tracked /\ Within(times'[1], times'[Tracked]))
    /\ log' = Append(log, t)

\* jw_svc_backoff_reset, for a Run or Restart of the user.
ResetBackoff == times' = <<>> /\ open' = FALSE /\ log' = <<>>

BackoffNext == (\E t \in Stamps : RecordAt(t)) \/ ResetBackoff

BackoffSpec == BackoffInit /\ [][BackoffNext]_backoffVars

-----------------------------------------------------------------------------
(* Properties *)

\* Of the failures l, m is the latest time that the clock had shown at the i-th.
IsPeak(l, m, i) == (\E j \in 1..i : l[j] = m) /\ \A j \in 1..i : l[j] <= m

\* Tracked failures of l in a row, from the i-th on, within the window.
Burst(l, i) ==
    \E a, b \in Stamps :
        IsPeak(l, a, i) /\ IsPeak(l, b, i + Tracked - 1) /\ b - a <= Window

\* Wherever the clock is set, the breaker is open exactly when so many failures
\* in a row since the last reset lay within the window of the latest times shown.
BreakerFair == open <=> \E i \in 1..(Len(log) - Tracked + 1) : Burst(log, i)
=============================================================================
