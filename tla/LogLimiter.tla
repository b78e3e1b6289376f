----------------------------- MODULE LogLimiter -----------------------------
(***************************************************************************)
(* The limiter of repeated log lines of src/server/loglimit.go: at most one *)
(* line per key and interval.  Logf reads the time before it takes the      *)
(* mutex and prints after it has released it, so callers can pass each      *)
(* other on either side of the decision.                                    *)
(***************************************************************************)
EXTENDS Integers

CONSTANTS Proc,             \* the goroutines that log
          LogKey,           \* what lines are told apart by
          None,             \* no call, the zero time
          ConfigInterval,   \* the interval newLogLimiter is given
          DefaultInterval,  \* the ten seconds that replace one that is not positive
          MaxDelay,         \* bound on the wait between time.Now() and the mutex
          MaxTime           \* bound on the clock

ASSUME LogAssumption ==
  /\ ConfigInterval \in Int /\ DefaultInterval \in Nat \ {0}
  /\ MaxDelay \in Nat /\ MaxTime \in Nat

Times == 0..MaxTime

ASSUME NoTimeAssumption ==
  None \notin Times \cup [key : LogKey, now : Times, step : {"decide", "print"}]

VARIABLES clock,    \* what time.Now() returns
          last,     \* last[k]: the time of the latest line with key k
          logging,  \* logging[p]: the call of Logf that p is in
          printed   \* history: printed[k][t]: lines with key k decided for time t

logVars == <<clock, last, logging, printed>>

\* newLogLimiter.
Interval == IF ConfigInterval <= 0 THEN DefaultInterval ELSE ConfigInterval

LogInit == /\ clock = 0
           /\ last = [k \in LogKey |-> None]
           /\ logging = [p \in Proc |-> None]
           /\ printed = [k \in LogKey |-> [t \in Times |-> 0]]

\* Logf up to l.mu.Lock().
Logf(p, k) == /\ logging[p] = None
              /\ logging' = [logging EXCEPT ![p] = [key |-> k, now |-> clock, step |-> "decide"]]
              /\ UNCHANGED <<clock, last, printed>>

At(p, step) == logging[p] # None /\ logging[p].step = step

\* Fault: a call that comes late is let through.
TooSoonUnlessLate(before, now) == before # None /\ now - before \in 0..(Interval - 1)

\* The time since the zero time is as long as a duration can be.
TooSoon(before, now) == before # None /\ now - before < Interval

\* Fault: a line that is held back puts the next one off.
SuppressPostponing(p) ==
  /\ At(p, "decide")
  /\ TooSoon(last[logging[p].key], logging[p].now)
  /\ last' = [last EXCEPT ![logging[p].key] = logging[p].now]
  /\ logging' = [logging EXCEPT ![p] = None]
  /\ UNCHANGED <<clock, printed>>

\* The decision, under the mutex: the line is held back, or its time recorded.
Suppress(p) ==
  /\ At(p, "decide")
  /\ TooSoon(last[logging[p].key], logging[p].now)
  /\ logging' = [logging EXCEPT ![p] = None]
  /\ UNCHANGED <<clock, last, printed>>

Record(p) ==
  /\ At(p, "decide")
  /\ ~TooSoon(last[logging[p].key], logging[p].now)
  /\ last' = [last EXCEPT ![logging[p].key] = logging[p].now]
  /\ logging' = [logging EXCEPT ![p].step = "print"]
  /\ UNCHANGED <<clock, printed>>

\* log.Printf, after the mutex is released.
Printf(p) ==
  /\ At(p, "print")
  /\ printed' = [printed EXCEPT ![logging[p].key][logging[p].now] = @ + 1]
  /\ logging' = [logging EXCEPT ![p] = None]
  /\ UNCHANGED <<clock, last>>

LogStep(p) == Suppress(p) \/ Record(p) \/ Printf(p)

\* Time passes, but no call waits for the mutex longer than MaxDelay.
LogTick == /\ clock < MaxTime
           /\ \A p \in Proc : At(p, "decide") => clock - logging[p].now < MaxDelay
           /\ clock' = clock + 1
           /\ UNCHANGED <<last, logging, printed>>

LogNext == \/ LogTick
           \/ \E p \in Proc : LogStep(p) \/ \E k \in LogKey : Logf(p, k)

LogSpec == LogInit /\ [][LogNext]_logVars

-----------------------------------------------------------------------------
\* The lines with key k that are printed, or decided and about to be, for time t.
Lines(k, t) == printed[k][t] > 0 \/ \E p \in Proc :
                 logging[p] = [key |-> k, now |-> t, step |-> "print"]

\* Two lines with one key are an interval apart in the times they were decided for,
\* although calls come to the mutex out of the order of their times and a line may
\* still be unprinted when the next is decided; no time gets two lines.
LinesApart ==
  \A k \in LogKey : \A t \in Times :
    /\ printed[k][t] <= 1
    /\ \A u \in Times : t < u /\ Lines(k, t) /\ Lines(k, u) => u - t >= Interval
=============================================================================
