----------------------------- MODULE LogosProofs -----------------------------
(***************************************************************************)
(* Proofs about LogLimiter, LogoCache and Logos, for any goroutines, keys,   *)
(* intervals, delays, files and logos: lines with one key are an interval    *)
(* apart, an image without its logo has a line in the log, and the cache of  *)
(* logos keeps its books and is a forgetful map.                            *)
(*                                                                          *)
(* The argument about lines rests on last[k]: it is the time of a line, every *)
(* other line with key k is older, and it never goes back, because a caller  *)
(* whose time is before last[k] is held back.                               *)
(*                                                                          *)
(* The argument about the cache rests on CacheOK: a file is in the list once  *)
(* (Shelf), and the count is the sum over the list, which is a sum over a set. *)
(***************************************************************************)
EXTENDS Logos, FiniteSetTheorems, SequenceTheorems, TLAPS

\* The calls of Logf.
LogCalls == [key : LogKey, now : Times, step : {"decide", "print"}]

LogTypeOK == /\ clock \in Times
             /\ last \in [LogKey -> Times \cup {None}]
             /\ logging \in [Proc -> LogCalls \cup {None}]
             /\ printed \in [LogKey -> [Times -> Nat]]

\* A line is printed or pending; last is the latest of them.
LastIsLatest ==
  \A k \in LogKey :
    /\ last[k] # None => Lines(k, last[k])
    /\ \A t \in Times : Lines(k, t) => last[k] # None /\ t <= last[k]

\* A pending line is the only one for its time.
PendingAlone ==
  \A p \in Proc : At(p, "print") =>
    /\ printed[logging[p].key][logging[p].now] = 0
    /\ \A q \in Proc : q # p => logging[q] # logging[p]

\* Nobody waits for the mutex longer than MaxDelay.
CallsAreRecent == \A p \in Proc : logging[p] # None =>
                    /\ logging[p].now <= clock
                    /\ At(p, "decide") => clock - logging[p].now <= MaxDelay

LastIsPast == \A k \in LogKey : last[k] # None => last[k] <= clock

LogInv == /\ LogTypeOK /\ LastIsLatest /\ PendingAlone /\ CallsAreRecent /\ LastIsPast
          /\ LinesApart

\* No line is unprinted.
LinesStay == \A k \in LogKey : \A t \in Times : Lines(k, t) => Lines(k, t)'

-----------------------------------------------------------------------------
LEMMA IntervalPositive == Interval \in Int /\ Interval > 0
  BY LogAssumption DEF Interval

LEMMA NoneIsNoTime == None \notin Times /\ None \notin LogCalls
  BY NoTimeAssumption DEF LogCalls

LEMMA LogInitInvariant == LogInit => LogInv
<1> SUFFICES ASSUME LogInit PROVE LogInv
  OBVIOUS
<1>1. LogTypeOK
  BY LogAssumption DEF LogInit, LogTypeOK, Times
<1>2. \A k \in LogKey : \A t \in Times : ~Lines(k, t) /\ printed[k][t] = 0
  BY NoneIsNoTime, LogAssumption DEF LogInit, Lines, LogCalls, Times
<1>3. \A p \in Proc : logging[p] = None
  BY DEF LogInit
<1>4. \A k \in LogKey : last[k] = None
  BY DEF LogInit
<1>5. QED
  BY <1>1, <1>2, <1>3, <1>4
     DEF LogInv, LastIsLatest, PendingAlone, CallsAreRecent, LastIsPast, LinesApart, At

\* The time at which p's call is decided; the types of what a step uses.
LEMMA CallTypes ==
  ASSUME LogInv, NEW p \in Proc, logging[p] # None
  PROVE  /\ logging[p] \in LogCalls
         /\ logging[p].key \in LogKey /\ logging[p].now \in Times
         /\ logging[p].now \in Int /\ clock \in Int
         /\ last[logging[p].key] \in Times \cup {None}
<1>1. logging[p] \in LogCalls
  BY DEF LogInv, LogTypeOK
<1>2. QED
  BY <1>1 DEF LogCalls, LogInv, LogTypeOK, Times

LEMMA LogfStep ==
  ASSUME LogInv, NEW p \in Proc, NEW k \in LogKey, Logf(p, k)
  PROVE  LogInv' /\ LinesStay
<1> DEFINE c == [key |-> k, now |-> clock, step |-> "decide"]
<1>1. /\ logging[p] = None /\ logging' = [logging EXCEPT ![p] = c]
      /\ clock' = clock /\ last' = last /\ printed' = printed
  BY DEF Logf
<1>2. c \in LogCalls /\ c.step = "decide" /\ c.now = clock /\ c.key = k
  BY DEF LogCalls, LogInv, LogTypeOK
<1> HIDE DEF c
<1>3. /\ logging'[p] = c
      /\ \A q \in Proc : q # p => logging'[q] = logging[q]
  BY <1>1 DEF LogInv, LogTypeOK
<1>4. LogTypeOK'
  BY <1>1, <1>2 DEF LogInv, LogTypeOK
<1>5. \A j \in LogKey : \A t \in Times : Lines(j, t)' <=> Lines(j, t)
  BY <1>1, <1>2, <1>3, NoneIsNoTime DEF Lines, LogCalls
<1>6. LastIsLatest' /\ LastIsPast' /\ LinesApart'
  BY <1>1, <1>5 DEF LogInv, LogTypeOK, LastIsLatest, LastIsPast, LinesApart
<1>7. \A q \in Proc : At(q, "print")' <=> At(q, "print") /\ q # p
  BY <1>1, <1>2, <1>3 DEF At
<1>8. PendingAlone'
  BY <1>1, <1>2, <1>3, <1>7 DEF LogInv, PendingAlone, At
<1>9. CallsAreRecent'
  BY <1>1, <1>2, <1>3, LogAssumption DEF LogInv, LogTypeOK, CallsAreRecent, At, Times
<1>10. QED
  BY <1>4, <1>5, <1>6, <1>8, <1>9 DEF LogInv, LinesStay

LEMMA SuppressStep ==
  ASSUME LogInv, NEW p \in Proc, Suppress(p)
  PROVE  LogInv' /\ LinesStay
<1>1. /\ At(p, "decide") /\ logging' = [logging EXCEPT ![p] = None]
      /\ clock' = clock /\ last' = last /\ printed' = printed
  BY DEF Suppress
<1>2. /\ logging'[p] = None
      /\ \A q \in Proc : q # p => logging'[q] = logging[q]
  BY <1>1 DEF LogInv, LogTypeOK
<1>3. LogTypeOK'
  BY <1>1 DEF LogInv, LogTypeOK
<1>4. \A j \in LogKey : \A t \in Times : Lines(j, t)' <=> Lines(j, t)
  BY <1>1, <1>2, NoneIsNoTime DEF Lines, LogCalls, At
<1>5. LastIsLatest' /\ LastIsPast' /\ LinesApart'
  BY <1>1, <1>4 DEF LogInv, LogTypeOK, LastIsLatest, LastIsPast, LinesApart
<1>6. PendingAlone' /\ CallsAreRecent'
  BY <1>1, <1>2 DEF LogInv, PendingAlone, CallsAreRecent, At
<1>7. QED
  BY <1>3, <1>4, <1>5, <1>6 DEF LogInv, LinesStay

\* A line is recorded only when an interval has passed since the latest of them.
LEMMA RecordStep ==
  ASSUME LogInv, NEW p \in Proc, Record(p)
  PROVE  /\ LogInv' /\ LinesStay
         /\ \A k \in LogKey : \A t \in Times :
              k = logging[p].key /\ t = logging[p].now => Lines(k, t)'
<1> DEFINE k == logging[p].key
           now == logging[p].now
           c == [key |-> k, now |-> now, step |-> "print"]
<1>1. /\ At(p, "decide") /\ ~TooSoon(last[k], now)
      /\ last' = [last EXCEPT ![k] = now]
      /\ logging' = [logging EXCEPT ![p].step = "print"]
      /\ clock' = clock /\ printed' = printed
  BY DEF Record
<1>2. /\ logging[p] \in LogCalls /\ k \in LogKey /\ now \in Times /\ now \in Int
      /\ last[k] \in Times \cup {None} /\ now <= clock
  BY <1>1, CallTypes DEF At, LogInv, CallsAreRecent
<1>3. c \in LogCalls
  BY <1>2 DEF LogCalls
<1>4. /\ logging'[p] = c
      /\ \A q \in Proc : q # p => logging'[q] = logging[q]
  BY <1>1, <1>2 DEF LogInv, LogTypeOK, LogCalls
<1>5. last'[k] = now /\ \A j \in LogKey : j # k => last'[j] = last[j]
  BY <1>1, <1>2 DEF LogInv, LogTypeOK
<1>6. LogTypeOK'
  <2>1. logging' \in [Proc -> LogCalls \cup {None}]
    BY <1>1, <1>3, <1>4 DEF LogInv, LogTypeOK
  <2>2. last' \in [LogKey -> Times \cup {None}]
    BY <1>1, <1>2 DEF LogInv, LogTypeOK
  <2>3. QED
    BY <1>1, <2>1, <2>2 DEF LogInv, LogTypeOK
<1>7. \A j \in LogKey : \A t \in Times : Lines(j, t)' <=> Lines(j, t) \/ (j = k /\ t = now)
  <2> SUFFICES ASSUME NEW j \in LogKey, NEW t \in Times
               PROVE  Lines(j, t)' <=> Lines(j, t) \/ (j = k /\ t = now)
    OBVIOUS
  <2> DEFINE d == [key |-> j, now |-> t, step |-> "print"]
  <2>1. (\E q \in Proc : logging'[q] = d) <=> (\E q \in Proc : logging[q] = d) \/ c = d
    BY <1>1, <1>4 DEF At
  <2>2. c = d <=> j = k /\ t = now
    OBVIOUS
  <2>3. QED
    BY <1>1, <2>1, <2>2 DEF Lines
<1>8. \A t \in Times : Lines(k, t) => now - t >= Interval /\ t < now
  <2> SUFFICES ASSUME NEW t \in Times, Lines(k, t) PROVE now - t >= Interval /\ t < now
    OBVIOUS
  <2>1. last[k] # None /\ t <= last[k]
    BY <1>2 DEF LogInv, LastIsLatest
  <2>2. last[k] \in Int /\ t \in Int /\ now - last[k] >= Interval
    BY <1>1, <1>2, <2>1, IntervalPositive DEF TooSoon, Times
  <2>3. QED
    BY <1>2, <2>1, <2>2, IntervalPositive
<1>9. LastIsLatest'
  <2> SUFFICES ASSUME NEW j \in LogKey
               PROVE  /\ last'[j] # None => Lines(j, last[j])'
                      /\ \A t \in Times : Lines(j, t)' => last'[j] # None /\ t <= last'[j]
    BY DEF LastIsLatest
  <2>1. CASE j = k
    <3>1. last'[j] = now /\ now # None
      BY <1>2, <1>5, <2>1, NoneIsNoTime
    <3>2. \A t \in Times : t = last'[j] => Lines(j, t)'
      BY <1>7, <2>1, <3>1
    <3>3. \A t \in Times : Lines(j, t)' => t <= now
      BY <1>2, <1>7, <1>8, <2>1 DEF Times
    <3>4. QED
      BY <1>2, <3>1, <3>2, <3>3
  <2>2. CASE j # k
    <3>1. last'[j] = last[j] /\ last[j] \in Times \cup {None}
      BY <1>5, <2>2 DEF LogInv, LogTypeOK
    <3>2. \A t \in Times : Lines(j, t)' <=> Lines(j, t)
      BY <1>7, <2>2
    <3>3. last[j] # None => Lines(j, last[j])
      BY DEF LogInv, LastIsLatest
    <3>4. \A t \in Times : t = last'[j] => Lines(j, t)'
      BY <3>1, <3>2, <3>3, NoneIsNoTime
    <3>5. \A t \in Times : Lines(j, t)' => last'[j] # None /\ t <= last'[j]
      BY <3>1, <3>2 DEF LogInv, LastIsLatest
    <3>6. QED
      BY <3>1, <3>4, <3>5
  <2>3. QED
    BY <2>1, <2>2
<1>10. LastIsPast'
  BY <1>1, <1>2, <1>5 DEF LogInv, LastIsPast
<1>11. LinesApart'
  BY <1>1, <1>2, <1>7, <1>8 DEF LogInv, LinesApart, Times
<1>12. PendingAlone'
  <2>1. printed[k][now] = 0 /\ \A q \in Proc : logging[q] # c
    <3>1. ~Lines(k, now)
      BY <1>2, <1>8
    <3>2. printed[k][now] \in Nat
      BY <1>2 DEF LogInv, LogTypeOK
    <3>3. QED
      BY <3>1, <3>2 DEF Lines
  <2>2. \A q \in Proc : At(q, "print")' <=> At(q, "print") \/ q = p
    BY <1>1, <1>3, <1>4, NoneIsNoTime DEF At
  <2>3. QED
    BY <1>1, <1>4, <2>1, <2>2 DEF LogInv, PendingAlone, At
<1>13. CallsAreRecent'
  BY <1>1, <1>2, <1>4 DEF LogInv, CallsAreRecent, At
<1>14. QED
  BY <1>6, <1>7, <1>9, <1>10, <1>11, <1>12, <1>13 DEF LogInv, LinesStay

LEMMA PrintfStep ==
  ASSUME LogInv, NEW p \in Proc, Printf(p)
  PROVE  LogInv' /\ LinesStay
<1> DEFINE k == logging[p].key
           now == logging[p].now
<1>1. /\ At(p, "print")
      /\ printed' = [printed EXCEPT ![k][now] = @ + 1]
      /\ logging' = [logging EXCEPT ![p] = None]
      /\ clock' = clock /\ last' = last
  BY DEF Printf
<1>2. /\ logging[p] \in LogCalls /\ k \in LogKey /\ now \in Times
      /\ logging[p] = [key |-> k, now |-> now, step |-> "print"]
  BY <1>1, CallTypes DEF At, LogCalls
<1>3. /\ logging'[p] = None
      /\ \A q \in Proc : q # p => logging'[q] = logging[q]
  BY <1>1 DEF LogInv, LogTypeOK
<1>4. printed[k][now] = 0 /\ printed'[k][now] = 1
  BY <1>1, <1>2 DEF LogInv, LogTypeOK, PendingAlone
<1>5. \A j \in LogKey : \A t \in Times : j # k \/ t # now => printed'[j][t] = printed[j][t]
  BY <1>1, <1>2 DEF LogInv, LogTypeOK
<1>6. LogTypeOK'
  <2>1. logging' \in [Proc -> LogCalls \cup {None}]
    BY <1>1 DEF LogInv, LogTypeOK
  <2>2. printed[k] \in [Times -> Nat]
    BY <1>2 DEF LogInv, LogTypeOK
  <2>3. [printed[k] EXCEPT ![now] = @ + 1] \in [Times -> Nat]
    BY <1>2, <2>2
  <2>4. printed' = [printed EXCEPT ![k] = [printed[k] EXCEPT ![now] = @ + 1]]
    BY <1>1
  <2>5. printed' \in [LogKey -> [Times -> Nat]]
    BY <1>2, <2>3, <2>4 DEF LogInv, LogTypeOK
  <2>6. QED
    BY <1>1, <2>1, <2>5 DEF LogInv, LogTypeOK
<1>7. \A j \in LogKey : \A t \in Times : Lines(j, t)' <=> Lines(j, t)
  <2> SUFFICES ASSUME NEW j \in LogKey, NEW t \in Times PROVE Lines(j, t)' <=> Lines(j, t)
    OBVIOUS
  <2>1. CASE j = k /\ t = now
    <3>1. printed'[j][t] > 0 /\ logging[p] = [key |-> j, now |-> t, step |-> "print"]
      BY <1>2, <1>4, <2>1
    <3>2. QED
      BY <3>1 DEF Lines
  <2>2. CASE j # k \/ t # now
    <3> DEFINE d == [key |-> j, now |-> t, step |-> "print"]
    <3>1. printed'[j][t] = printed[j][t]
      BY <1>5, <2>2
    <3>2. logging[p] # d
      BY <1>2, <2>2
    <3>3. logging'[p] # d
      BY <1>3, NoneIsNoTime DEF LogCalls
    <3>4. QED
      BY <1>3, <3>1, <3>2, <3>3 DEF Lines
  <2>3. QED
    BY <2>1, <2>2
<1>8. LastIsLatest' /\ LastIsPast'
  BY <1>1, <1>7 DEF LogInv, LogTypeOK, LastIsLatest, LastIsPast
<1>9. LinesApart'
  BY <1>4, <1>5, <1>7 DEF LogInv, LinesApart
<1>10. PendingAlone'
  <2> SUFFICES ASSUME NEW q \in Proc, At(q, "print")'
               PROVE  /\ printed'[logging'[q].key][logging'[q].now] = 0
                      /\ \A r \in Proc : r # q => logging'[r] # logging'[q]
    BY DEF PendingAlone
  <2>1. q # p /\ logging'[q] = logging[q] /\ At(q, "print")
    BY <1>3 DEF At
  <2>2. logging[q] # logging[p] /\ logging[q] \in LogCalls
    BY <2>1, <1>1, CallTypes DEF LogInv, PendingAlone, At
  <2>3. logging[q].key # k \/ logging[q].now # now
    BY <1>2, <2>1, <2>2 DEF LogCalls, At
  <2>4. printed'[logging[q].key][logging[q].now] = printed[logging[q].key][logging[q].now]
    BY <1>5, <2>2, <2>3 DEF LogCalls
  <2>5. QED
    BY <1>3, <2>1, <2>4 DEF LogInv, PendingAlone, At
<1>11. CallsAreRecent'
  BY <1>1, <1>3 DEF LogInv, CallsAreRecent, At
<1>12. QED
  BY <1>6, <1>7, <1>8, <1>9, <1>10, <1>11 DEF LogInv, LinesStay

LEMMA LogTickStep == ASSUME LogInv, LogTick PROVE LogInv' /\ LinesStay
<1>1. /\ clock < MaxTime /\ clock' = clock + 1
      /\ \A p \in Proc : At(p, "decide") => clock - logging[p].now < MaxDelay
      /\ last' = last /\ logging' = logging /\ printed' = printed
  BY DEF LogTick
<1>2. clock \in Int /\ clock' \in Times
  BY <1>1, LogAssumption DEF LogInv, LogTypeOK, Times
<1>3. LogTypeOK'
  BY <1>1, <1>2 DEF LogInv, LogTypeOK
<1>4. \A k \in LogKey : \A t \in Times : Lines(k, t)' <=> Lines(k, t)
  BY <1>1 DEF Lines
<1>5. LastIsLatest' /\ LinesApart' /\ PendingAlone'
  BY <1>1, <1>4 DEF LogInv, LogTypeOK, LastIsLatest, LinesApart, PendingAlone, At
<1>6. LastIsPast'
  BY <1>1, <1>2 DEF LogInv, LogTypeOK, LastIsPast, Times
<1>7. CallsAreRecent'
  <2> SUFFICES ASSUME NEW p \in Proc, logging[p] # None
               PROVE  /\ logging[p].now <= clock'
                      /\ At(p, "decide") => clock' - logging[p].now <= MaxDelay
    BY <1>1 DEF CallsAreRecent, At
  <2>1. logging[p].now \in Int /\ logging[p].now <= clock
    BY CallTypes DEF LogInv, CallsAreRecent
  <2>2. QED
    BY <1>1, <1>2, <2>1, LogAssumption
<1>8. QED
  BY <1>3, <1>4, <1>5, <1>6, <1>7 DEF LogInv, LinesStay

LEMMA LogStepInvariant ==
  ASSUME LogInv, NEW p \in Proc, LogStep(p)
  PROVE  LogInv' /\ LinesStay
BY SuppressStep, RecordStep, PrintfStep DEF LogStep

\* A step that leaves the limiter alone.
LEMMA LogStutter == ASSUME LogInv, UNCHANGED logVars PROVE LogInv' /\ LinesStay
<1> USE DEF logVars
<1>1. \A k \in LogKey : \A t \in Times : Lines(k, t)' <=> Lines(k, t)
  BY DEF Lines
<1>2. LogTypeOK' /\ PendingAlone' /\ CallsAreRecent' /\ LastIsPast'
  BY DEF LogInv, LogTypeOK, PendingAlone, CallsAreRecent, LastIsPast, At
<1>3. LastIsLatest' /\ LinesApart'
  BY <1>1 DEF LogInv, LogTypeOK, LastIsLatest, LinesApart
<1>4. QED
  BY <1>1, <1>2, <1>3 DEF LogInv, LinesStay

\* Callers in any order, with any delay before the mutex and before the line is
\* printed: lines with one key are an interval apart.
THEOREM LogLimiterKeepsLinesApart == LogSpec => []LinesApart
<1>1. LogInit => LogInv
  BY LogInitInvariant
<1>2. LogInv /\ [LogNext]_logVars => LogInv'
  <2> SUFFICES ASSUME LogInv, [LogNext]_logVars PROVE LogInv'
    OBVIOUS
  <2>1. CASE LogTick
    BY <2>1, LogTickStep
  <2>2. CASE \E p \in Proc : LogStep(p)
    BY <2>2, LogStepInvariant
  <2>3. CASE \E p \in Proc, k \in LogKey : Logf(p, k)
    BY <2>3, LogfStep
  <2>4. CASE UNCHANGED logVars
    BY <2>4, LogStutter
  <2>5. QED
    BY <2>1, <2>2, <2>3, <2>4 DEF LogNext
<1>3. LogInv => LinesApart
  BY DEF LogInv
<1>4. QED
  BY <1>1, <1>2, <1>3, PTL DEF LogSpec

-----------------------------------------------------------------------------
(* The handlers around the limiter.                                         *)

\* The log has, or is about to have, a line for p's failed load.
Covered(p) == \E t \in Times : /\ Lines(cfg[p].name, t)
                               /\ missed[p] - Interval < t /\ t <= missed[p] + MaxDelay

\* p is in the call of Logf for its failed load, before the mutex.
Telling(p) == logging[p] = [key |-> cfg[p].name, now |-> missed[p], step |-> "decide"]

HandlersOK == /\ pc \in [Proc -> {"idle", "lookup", "load", "keep", "log"}]
              /\ missed \in [Proc -> Times \cup {None}]
              /\ cfg \in [Proc -> Config \cup {None}]
              /\ \A p \in Proc : pc[p] # "idle" \/ missed[p] # None => cfg[p] \in Config

FailuresTold == \A p \in Proc : missed[p] # None => Telling(p) \/ Covered(p)

LogosInv == LogInv /\ HandlersOK /\ FailuresTold

LEMMA NamesAreKeys == ASSUME NEW k \in Config PROVE k.name \in LogKey
BY LogosAssumption

\* What is told of other handlers stays told.
LEMMA CoveredStays ==
  ASSUME LinesStay, NEW p \in Proc, cfg[p] \in Config, Covered(p),
         cfg'[p] = cfg[p], missed'[p] = missed[p]
  PROVE  Covered(p)'
<1>1. cfg[p].name \in LogKey
  BY NamesAreKeys
<1>2. Interval' = Interval
  BY DEF Interval
<1>3. QED
  BY <1>1, <1>2 DEF Covered, LinesStay

\* A step that changes neither the limiter nor a handler's key and failure.
LEMMA QuietStep ==
  ASSUME LogosInv, UNCHANGED <<logVars, cfg, missed>>
  PROVE  FailuresTold'
<1>1. LinesStay
  BY LogStutter DEF LogosInv
<1>2. ASSUME NEW p \in Proc, missed'[p] # None PROVE Telling(p)' \/ Covered(p)'
  <2>1. missed[p] # None /\ cfg[p] \in Config
    BY <1>2 DEF LogosInv, HandlersOK
  <2>2. CASE Telling(p)
    BY <2>2 DEF Telling, logVars
  <2>3. CASE Covered(p)
    BY <1>1, <2>1, <2>3, CoveredStays
  <2>4. QED
    BY <2>1, <2>2, <2>3 DEF LogosInv, FailuresTold
<1>3. QED
  BY <1>2 DEF FailuresTold

LEMMA BeginStep ==
  ASSUME LogosInv, NEW p \in Proc, Begin(p)
  PROVE  HandlersOK' /\ FailuresTold'
<1>1. PICK k \in Config : cfg' = [cfg EXCEPT ![p] = k]
  BY DEF Begin
<1>2. /\ pc' = [pc EXCEPT ![p] = "lookup"] /\ missed' = [missed EXCEPT ![p] = None]
      /\ UNCHANGED logVars
  BY DEF Begin, Goto
<1>3. HandlersOK'
  BY <1>1, <1>2 DEF LogosInv, HandlersOK
<1>4. LinesStay
  BY <1>2, LogStutter DEF LogosInv
<1>5. ASSUME NEW q \in Proc, missed'[q] # None PROVE Telling(q)' \/ Covered(q)'
  <2>1. q # p /\ missed'[q] = missed[q] /\ cfg'[q] = cfg[q]
    BY <1>1, <1>2, <1>5 DEF LogosInv, HandlersOK
  <2>2. missed[q] # None /\ cfg[q] \in Config
    BY <1>5, <2>1 DEF LogosInv, HandlersOK
  <2>3. CASE Telling(q)
    BY <1>2, <2>1, <2>3 DEF Telling, logVars
  <2>4. CASE Covered(q)
    BY <1>4, <2>1, <2>2, <2>4, CoveredStays
  <2>5. QED
    BY <2>2, <2>3, <2>4 DEF LogosInv, FailuresTold
<1>6. QED
  BY <1>3, <1>5 DEF FailuresTold

LEMMA LoadFailsStep ==
  ASSUME LogosInv, NEW p \in Proc, LoadFails(p)
  PROVE  LogosInv'
<1>1. /\ Logf(p, cfg[p].name) /\ missed' = [missed EXCEPT ![p] = clock]
      /\ pc[p] = "load" /\ pc' = [pc EXCEPT ![p] = "log"] /\ cfg' = cfg
  BY DEF LoadFails, Goto
<1>2. cfg[p] \in Config /\ cfg[p].name \in LogKey /\ clock \in Times
  BY <1>1, NamesAreKeys DEF LogosInv, HandlersOK, LogInv, LogTypeOK
<1>3. LogInv' /\ LinesStay
  BY <1>1, <1>2, LogfStep DEF LogosInv
<1>4. HandlersOK'
  BY <1>1, <1>2 DEF LogosInv, HandlersOK
<1>5. logging' = [logging EXCEPT ![p] = [key |-> cfg[p].name, now |-> clock, step |-> "decide"]]
  BY <1>1 DEF Logf
<1>6. Telling(p)'
  BY <1>1, <1>5 DEF Telling, LogosInv, HandlersOK, LogInv, LogTypeOK
<1>7. ASSUME NEW q \in Proc, q # p, missed'[q] # None PROVE Telling(q)' \/ Covered(q)'
  <2>1. missed'[q] = missed[q] /\ logging'[q] = logging[q]
    BY <1>1, <1>5, <1>7 DEF LogosInv, HandlersOK, LogInv, LogTypeOK
  <2>2. missed[q] # None /\ cfg[q] \in Config
    BY <1>7, <2>1 DEF LogosInv, HandlersOK
  <2>3. CASE Telling(q)
    BY <1>1, <2>1, <2>3 DEF Telling
  <2>4. CASE Covered(q)
    BY <1>1, <1>3, <2>1, <2>2, <2>4, CoveredStays
  <2>5. QED
    BY <2>2, <2>3, <2>4 DEF LogosInv, FailuresTold
<1>8. QED
  BY <1>3, <1>4, <1>6, <1>7 DEF LogosInv, FailuresTold

\* Logf decides on p's line: the line is recorded, or held back by one that is recent.
LEMMA DecisionCovers ==
  ASSUME LogosInv, NEW p \in Proc, missed[p] # None, Telling(p),
         Suppress(p) \/ Record(p), cfg' = cfg, missed' = missed
  PROVE  Covered(p)'
<1> DEFINE k == cfg[p].name
           now == missed[p]
<1>1. /\ cfg[p] \in Config /\ k \in LogKey /\ now \in Times /\ now \in Int
      /\ clock \in Int /\ logging[p] # None
  BY NamesAreKeys, NoneIsNoTime DEF LogosInv, HandlersOK, Times, Suppress, Record, At,
     LogInv, LogTypeOK
<1>2. logging[p].key = k /\ logging[p].now = now /\ At(p, "decide")
  BY <1>1 DEF Telling, At
<1>3. now <= clock /\ clock - now <= MaxDelay
  BY <1>1, <1>2 DEF LogosInv, LogInv, CallsAreRecent
<1>4. \A t \in Times : now - Interval < t /\ t <= now + MaxDelay /\ Lines(k, t)' => Covered(p)'
  BY DEF Covered, Interval
<1>5. CASE Record(p)
  <2>1. \A t \in Times : t = now => Lines(k, t)'
    BY <1>1, <1>2, <1>5, RecordStep DEF LogosInv
  <2>2. now - Interval < now /\ now <= now + MaxDelay
    BY <1>1, IntervalPositive, LogAssumption
  <2>3. QED
    BY <1>1, <1>4, <2>1, <2>2
<1>6. CASE Suppress(p)
  <2>1. last[k] # None /\ now - last[k] < Interval
    BY <1>2, <1>6 DEF Suppress, TooSoon
  <2>2. last[k] \in Times /\ last[k] \in Int /\ last[k] <= clock /\ Lines(k, last[k])
    BY <1>1, <2>1 DEF LogosInv, LogInv, LogTypeOK, LastIsPast, LastIsLatest, Times
  <2>3. now - Interval < last[k] /\ last[k] <= now + MaxDelay
    BY <1>1, <1>3, <2>1, <2>2, IntervalPositive, LogAssumption
  <2>4. \A t \in Times : t = last[k] => Lines(k, t)'
    BY <1>1, <1>6, <2>2, SuppressStep DEF LogosInv, LinesStay
  <2>5. QED
    BY <1>4, <2>2, <2>3, <2>4
<1>7. QED
  BY <1>5, <1>6

LEMMA LoggingStep ==
  ASSUME LogosInv, NEW p \in Proc, Logging(p)
  PROVE  LogosInv'
<1>1. /\ LogStep(p) /\ pc[p] = "log" /\ cfg' = cfg /\ missed' = missed
      /\ \E l \in {"idle", "log"} : pc' = [pc EXCEPT ![p] = l]
  BY DEF Logging, Goto
<1>2. LogInv' /\ LinesStay
  BY <1>1, LogStepInvariant DEF LogosInv
<1>3. HandlersOK'
  BY <1>1 DEF LogosInv, HandlersOK
<1>4. ASSUME NEW q \in Proc, missed'[q] # None PROVE Telling(q)' \/ Covered(q)'
  <2>1. missed[q] # None /\ cfg[q] \in Config
    BY <1>1, <1>4 DEF LogosInv, HandlersOK
  <2>2. CASE Covered(q)
    BY <1>1, <1>2, <2>1, <2>2, CoveredStays
  <2>3. CASE Telling(q) /\ q # p
    <3>1. logging'[q] = logging[q]
      BY <1>1, <2>3 DEF LogStep, Suppress, Record, Printf, LogosInv, LogInv, LogTypeOK
    <3>2. QED
      BY <1>1, <2>3, <3>1 DEF Telling
  <2>4. CASE Telling(q) /\ q = p
    <3>1. ~At(p, "print")
      BY <2>4 DEF Telling, At
    <3>2. Suppress(p) \/ Record(p)
      BY <1>1, <3>1 DEF LogStep, Printf
    <3>3. QED
      BY <1>1, <2>1, <2>4, <3>2, DecisionCovers
  <2>5. QED
    BY <2>1, <2>2, <2>3, <2>4 DEF LogosInv, FailuresTold
<1>5. QED
  BY <1>2, <1>3, <1>4 DEF LogosInv, FailuresTold

LEMMA LogosInitInvariant == LogosInit => LogosInv
<1> SUFFICES ASSUME LogosInit PROVE LogosInv
  OBVIOUS
<1>1. LogInv
  BY LogInitInvariant DEF LogosInit
<1>2. HandlersOK /\ FailuresTold
  BY DEF LogosInit, HandlersOK, FailuresTold
<1>3. QED
  BY <1>1, <1>2 DEF LogosInv

LEMMA LogosStepInvariant == LogosInv /\ [LogosNext]_<<logVars, logosVars>> => LogosInv'
<1> SUFFICES ASSUME LogosInv, [LogosNext]_<<logVars, logosVars>> PROVE LogosInv'
  OBVIOUS
<1>1. CASE UNCHANGED <<logVars, cfg, missed>> /\ HandlersOK'
  BY <1>1, QuietStep, LogStutter DEF LogosInv
<1>2. ASSUME NEW p \in Proc, Lookup(p) \/ Load(p) \/ Keep(p)
      PROVE  UNCHANGED <<logVars, cfg, missed>> /\ HandlersOK'
  <2>1. UNCHANGED <<logVars, cfg, missed>>
    BY <1>2 DEF Lookup, Load, Keep
  <2>2. cfg[p] \in Config /\ \E l \in {"idle", "load", "keep"} : pc' = [pc EXCEPT ![p] = l]
    BY <1>2 DEF Lookup, Load, Keep, Goto, LogosInv, HandlersOK
  <2>3. QED
    BY <2>1, <2>2 DEF LogosInv, HandlersOK
<1>3. CASE \E p \in Proc : Begin(p)
  <2>1. UNCHANGED logVars
    BY <1>3 DEF Begin
  <2>2. QED
    BY <1>3, <2>1, BeginStep, LogStutter DEF LogosInv
<1>4. CASE \E p \in Proc : LoadFails(p) \/ Logging(p)
  BY <1>4, LoadFailsStep, LoggingStep
<1>5. CASE FileChanges \/ UNCHANGED <<logVars, logosVars>>
  <2>1. UNCHANGED <<logVars, cfg, missed, pc>>
    BY <1>5 DEF FileChanges, logosVars
  <2>2. QED
    BY <1>1, <2>1 DEF LogosInv, HandlersOK
<1>6. CASE LogTick /\ UNCHANGED logosVars
  <2>1. LogInv' /\ LinesStay /\ logging' = logging /\ UNCHANGED <<cfg, missed, pc>>
    BY <1>6, LogTickStep DEF LogosInv, LogTick, logosVars
  <2>2. HandlersOK'
    BY <2>1 DEF LogosInv, HandlersOK
  <2>3. ASSUME NEW q \in Proc, missed'[q] # None PROVE Telling(q)' \/ Covered(q)'
    <3>1. missed[q] # None /\ cfg[q] \in Config
      BY <2>1, <2>3 DEF LogosInv, HandlersOK
    <3>2. Telling(q) => Telling(q)'
      BY <2>1 DEF Telling
    <3>3. Covered(q) => Covered(q)'
      BY <2>1, <3>1, CoveredStays
    <3>4. QED
      BY <3>1, <3>2, <3>3 DEF LogosInv, FailuresTold
  <2>4. QED
    BY <2>1, <2>2, <2>3 DEF LogosInv, FailuresTold
<1>7. QED
  BY <1>1, <1>2, <1>3, <1>4, <1>5, <1>6 DEF LogosNext

\* The limiter is the same one when handlers call it, over any logo cache and files.
THEOREM HandlersKeepLinesApart == LogosSpec => []LinesApart
<1>1. LogosInv => LinesApart
  BY DEF LogosInv, LogInv
<1>2. QED
  BY <1>1, LogosInitInvariant, LogosStepInvariant, PTL DEF LogosSpec

\* Every image without its logo has a line in the log, its own or one that is close.
THEOREM MissingLogosAreLogged == LogosSpec => []MissingLogoIsLogged
<1>1. LogosInv => MissingLogoIsLogged
  <2> SUFFICES ASSUME LogosInv, NEW p \in Proc, missed[p] # None, logging[p] = None
               PROVE  Covered(p)
    BY DEF MissingLogoIsLogged, Covered
  <2>1. ~Telling(p)
    <3>1. cfg[p] \in Config /\ missed[p] \in Times
      BY DEF LogosInv, HandlersOK
    <3>2. [key |-> cfg[p].name, now |-> missed[p], step |-> "decide"] \in LogCalls
      BY <3>1, NamesAreKeys DEF LogCalls
    <3>3. QED
      BY <3>2, NoneIsNoTime DEF Telling
  <2>2. QED
    BY <2>1 DEF LogosInv, FailuresTold
<1>2. QED
  BY <1>1, LogosInitInvariant, LogosStepInvariant, PTL DEF LogosSpec
-----------------------------------------------------------------------------
(* Finite sets and sums.  Induction is on sets: every set of subsets of a   *)
(* finite set has a least element (WFMin).                                  *)

\* A property of subsets of a finite set, given as the set of those that have it.
LEMMA SubsetInduction ==
  ASSUME NEW D, IsFiniteSet(D), NEW Good \in SUBSET (SUBSET D),
         ASSUME NEW s \in SUBSET D, \A r \in SUBSET s : r # s => r \in Good
         PROVE  s \in Good
  PROVE  Good = SUBSET D
<1> DEFINE Bad == (SUBSET D) \ Good
<1>1. IsWellFoundedOn(StrictSubsetOrdering(D), FiniteSubsetsOf(D))
  BY FS_StrictSubsetOrderingWellFounded
<1>2. Bad \subseteq FiniteSubsetsOf(D)
  BY FS_FiniteSubsetsOfFinite
<1>3. ASSUME Bad # {} PROVE FALSE
  <2>1. PICK s \in Bad : \A r \in Bad : ~(<<r, s>> \in StrictSubsetOrdering(D))
    <3> HIDE DEF Bad
    <3> QED BY <1>1, <1>2, <1>3, WFMin
  <2>2. ASSUME NEW r \in SUBSET s, r # s PROVE r \in Good
    <3>1. r \in SUBSET D /\ s \in SUBSET D
      BY <2>1
    <3>2. <<r, s>> \in StrictSubsetOrdering(D)
      BY <2>2, <3>1 DEF StrictSubsetOrdering
    <3> QED BY <2>1, <3>1, <3>2
  <2>3. s \in SUBSET D
    BY <2>1
  <2>4. s \in Good
    BY <2>2, <2>3
  <2> QED BY <2>1, <2>4
<1> QED BY <1>3

\* A finite set of numbers has a greatest one.
LEMMA Greatest ==
  ASSUME NEW D \in SUBSET Int, IsFiniteSet(D)
  PROVE  \A s \in SUBSET D : s # {} => Max(s) \in s /\ \A m \in s : m <= Max(s)
<1> DEFINE Good == {s \in SUBSET D : s # {} => \E m \in s : \A k \in s : m >= k}
<1>1. ASSUME NEW s \in SUBSET D, \A r \in SUBSET s : r # s => r \in Good
      PROVE  s \in Good
  <2>1. CASE s = {}
    BY <2>1
  <2>2. CASE \E x \in s : s = {x}
    BY <2>2
  <2>3. CASE \E x \in s : s \ {x} # {}
    <3>1. PICK x \in s : s \ {x} # {}
      BY <2>3
    <3>2. s \ {x} \in Good
      BY <1>1, <3>1
    <3>3. PICK m \in s \ {x} : \A k \in s \ {x} : m >= k
      BY <3>1, <3>2
    <3>4. m \in Int /\ x \in Int
      BY <3>1, <3>3
    <3>5. CASE m >= x
      BY <3>3, <3>5
    <3>6. CASE x >= m
      BY <3>1, <3>3, <3>4, <3>6
    <3> QED BY <3>4, <3>5, <3>6
  <2> QED BY <2>1, <2>2, <2>3
<1>2. Good = SUBSET D
  <2>1. Good \in SUBSET (SUBSET D)
    OBVIOUS
  <2> HIDE DEF Good
  <2> QED BY <1>1, <2>1, SubsetInduction
<1>3. ASSUME NEW s \in SUBSET D, s # {}
      PROVE  Max(s) \in s /\ \A m \in s : m <= Max(s)
  <2>1. \E m \in s : \A k \in s : m >= k
    BY <1>2, <1>3
  <2>2. Max(s) \in s /\ \A k \in s : Max(s) >= k
    BY <2>1 DEF Max
  <2> QED BY <2>2
<1> QED BY <1>3

\* Sums over subsets do not depend on the order of summation.
SumsUp(h, w, D) == h[{}] = 0 /\ \A s \in SUBSET D : \A x \in s : h[s] = w[x] + h[s \ {x}]

AddsUp(g, w, D) ==
  g[{}] = 0 /\ \A s \in SUBSET D : s # {} => \E x \in s : g[s] = w[x] + g[s \ {x}]

LEMMA OneSum ==
  ASSUME NEW D, NEW w, NEW h, NEW g, IsFiniteSet(D), SumsUp(h, w, D), AddsUp(g, w, D)
  PROVE  g[D] = h[D]
<1> DEFINE Good == {s \in SUBSET D : g[s] = h[s]}
<1>1. ASSUME NEW s \in SUBSET D, \A r \in SUBSET s : r # s => r \in Good
      PROVE  s \in Good
  <2>1. CASE s = {}
    BY <2>1 DEF SumsUp, AddsUp
  <2>2. CASE s # {}
    <3>1. PICK x \in s : g[s] = w[x] + g[s \ {x}]
      BY <2>2 DEF AddsUp
    <3>2. g[s \ {x}] = h[s \ {x}]
      BY <1>1, <3>1
    <3> QED BY <3>1, <3>2 DEF SumsUp
  <2> QED BY <2>1, <2>2
<1>2. Good = SUBSET D
  <2>1. Good \in SUBSET (SUBSET D)
    OBVIOUS
  <2> HIDE DEF Good
  <2> QED BY <1>1, <2>1, SubsetInduction
<1> QED BY <1>2

-----------------------------------------------------------------------------
(* The bytes that a set of files holds in the cache.                        *)

Cells(ent, S) == UNION {{f} \X (1..ent[f].size) : f \in S}

Held(ent, S) == Cardinality(Cells(ent, S))

LEMMA HeldOne ==
  ASSUME NEW ent, NEW f, ent[f].size \in Nat
  PROVE  IsFiniteSet(Cells(ent, {f})) /\ Held(ent, {f}) = ent[f].size
<1> DEFINE n == ent[f].size
<1>1. IsFiniteSet(1..n) /\ Cardinality(1..n) = n
  <2>1. IsFiniteSet(1..n) /\ Cardinality(1..n) = IF 1 > n THEN 0 ELSE n - 1 + 1
    <3>1. 1 \in Int /\ n \in Int
      OBVIOUS
    <3> HIDE DEF n
    <3> QED BY <3>1, FS_Interval, Zenon
  <2> QED BY <2>1
<1>2. IsFiniteSet({f}) /\ Cardinality({f}) = 1
  BY FS_Singleton
<1>3. IsFiniteSet({f} \X (1..n)) /\ Cardinality({f} \X (1..n)) = Cardinality({f}) * Cardinality(1..n)
  BY <1>1, <1>2, FS_Product, Zenon
<1>4. Cells(ent, {f}) = {f} \X (1..n)
  BY DEF Cells
<1>5. Cardinality({f} \X (1..n)) = n
  <2>1. n \in Nat /\ \A k \in Nat : 1 * k = k
    OBVIOUS
  <2> HIDE DEF n
  <2>2. Cardinality({f} \X (1..n)) = 1 * n
    BY <1>1, <1>2, <1>3, Zenon
  <2> QED BY <2>1, <2>2
<1> QED BY <1>3, <1>4, <1>5, Zenon DEF Held

LEMMA CellsFinite ==
  ASSUME NEW ent, NEW S, IsFiniteSet(S), \A f \in S : ent[f].size \in Nat
  PROVE  IsFiniteSet(Cells(ent, S)) /\ Held(ent, S) \in Nat
<1> DEFINE Good == {s \in SUBSET S : IsFiniteSet(Cells(ent, s))}
<1>1. ASSUME NEW s \in SUBSET S, \A r \in SUBSET s : r # s => r \in Good
      PROVE  s \in Good
  <2>1. CASE s = {}
    <3>1. Cells(ent, s) = {}
      BY <2>1 DEF Cells
    <3> QED BY <3>1, FS_EmptySet
  <2>2. CASE s # {}
    <3>1. PICK f \in s : TRUE
      BY <2>2
    <3>2. IsFiniteSet(Cells(ent, s \ {f}))
      BY <1>1, <3>1
    <3>3. IsFiniteSet(Cells(ent, {f}))
      BY <3>1, HeldOne
    <3>4. Cells(ent, s) = Cells(ent, s \ {f}) \cup Cells(ent, {f})
      BY <3>1 DEF Cells
    <3> QED BY <3>2, <3>3, <3>4, FS_Union
  <2> QED BY <2>1, <2>2
<1>2. Good = SUBSET S
  <2>1. Good \in SUBSET (SUBSET S)
    OBVIOUS
  <2> HIDE DEF Good
  <2> QED BY <1>1, <2>1, SubsetInduction
<1>3. IsFiniteSet(Cells(ent, S))
  BY <1>2
<1> QED BY <1>3, FS_CardinalityType DEF Held

LEMMA HeldUnion ==
  ASSUME NEW ent, NEW S, NEW T, IsFiniteSet(S), IsFiniteSet(T), S \cap T = {},
         \A f \in S \cup T : ent[f].size \in Nat
  PROVE  Held(ent, S \cup T) = Held(ent, S) + Held(ent, T)
<1> DEFINE s == Cells(ent, S)
           t == Cells(ent, T)
<1>1. IsFiniteSet(s) /\ IsFiniteSet(t) /\ Cardinality(s) \in Nat /\ Cardinality(t) \in Nat
  BY CellsFinite DEF Held
<1>2. Cells(ent, S \cup T) = s \cup t
  BY DEF Cells
<1>3. s \cap t = {}
  BY DEF Cells
<1> HIDE DEF s, t
<1>4. Cardinality(s \cup t) = Cardinality(s) + Cardinality(t) - Cardinality(s \cap t)
  BY <1>1, FS_Union
<1>5. Cardinality(s \cap t) = 0
  BY <1>3, FS_EmptySet
<1>6. Cardinality(s \cup t) = Cardinality(s) + Cardinality(t)
  BY <1>1, <1>4, <1>5
<1> QED BY <1>2, <1>6 DEF Held, s, t

LEMMA HeldNone == ASSUME NEW ent PROVE Held(ent, {}) = 0
<1>1. Cells(ent, {}) = {}
  BY DEF Cells
<1> QED BY <1>1, FS_EmptySet DEF Held

LEMMA HeldSame ==
  ASSUME NEW ent1, NEW ent2, NEW S, \A f \in S : ent1[f].size = ent2[f].size
  PROVE  Held(ent1, S) = Held(ent2, S)
<1>1. Cells(ent1, S) = Cells(ent2, S)
  BY DEF Cells
<1> QED BY <1>1 DEF Held

\* One file more.
LEMMA HeldAdd ==
  ASSUME NEW ent, NEW S, IsFiniteSet(S), \A g \in S : ent[g].size \in Nat,
         NEW f, f \notin S, ent[f].size \in Nat
  PROVE  Held(ent, S \cup {f}) = Held(ent, S) + ent[f].size
<1>1. IsFiniteSet({f}) /\ S \cap {f} = {}
  BY FS_Singleton
<1>2. Held(ent, S \cup {f}) = Held(ent, S) + Held(ent, {f})
  BY <1>1, HeldUnion
<1> QED BY <1>2, HeldOne

-----------------------------------------------------------------------------
(* The list.                                                                *)

Distinct(ll) == \A i, j \in DOMAIN ll : ll[i] = ll[j] => i = j

\* The files of the elements of the list beyond the n-th, and up to it.
Beyond(ll, n) == {ll[i] : i \in (n + 1)..Len(ll)}

UpTo(ll, n) == {ll[i] : i \in 1..n}

\* evict counts what it removes, element by element; the order does not matter.
LEMMA BytesBeyondIsHeld ==
  ASSUME NEW c, c.ll \in Seq(Path), Distinct(c.ll), NEW n \in 0..Len(c.ll),
         \A f \in UpTo(c.ll, Len(c.ll)) : c.ent[f].size \in Nat
  PROVE  BytesBeyond(c, n) = Held(c.ent, Beyond(c.ll, n))
<1> DEFINE ll == c.ll
           D == (n + 1)..Len(ll)
           size(i) == c.ent[ll[i]].size
           w == [i \in D |-> size(i)]
           Files(s) == {ll[i] : i \in s}
           h == [s \in SUBSET D |-> Held(c.ent, Files(s))]
           one(s) == CHOOSE x \in s : TRUE
           step(g, s) == IF s = {} THEN 0 ELSE size(one(s)) + g[s \ {one(s)}]
           g == CHOOSE g : g = [s \in SUBSET D |-> step(g, s)]
<1>1. Len(ll) \in Nat /\ DOMAIN ll = 1..Len(ll) /\ D \subseteq DOMAIN ll /\ IsFiniteSet(D)
  <2>1. Len(ll) \in Nat /\ DOMAIN ll = 1..Len(ll)
    BY LenProperties
  <2>2. n + 1 \in Int /\ Len(ll) \in Int
    BY <2>1
  <2>3. IsFiniteSet((n + 1)..Len(ll))
    BY <2>2, FS_Interval, Zenon
  <2> QED BY <2>1, <2>3
<1>2. BytesBeyond(c, n) = g[D]
  BY DEF BytesBeyond, MapThenSumSet, MapThenFoldSet
<1>3. \A i \in D : size(i) \in Nat
  BY <1>1 DEF UpTo
<1>4. ASSUME NEW s \in SUBSET D, NEW x \in s PROVE h[s] = w[x] + h[s \ {x}]
  <2>1. Files(s) = Files(s \ {x}) \cup {ll[x]} /\ ll[x] \notin Files(s \ {x})
    BY <1>1, <1>4 DEF Distinct
  <2>2. IsFiniteSet(Files(s \ {x}))
    <3>1. IsFiniteSet(s \ {x})
      BY <1>1, FS_Subset
    <3>2. [i \in s \ {x} |-> ll[i]] \in Surjection(s \ {x}, Files(s \ {x}))
      BY DEF Surjection
    <3> QED BY <3>1, <3>2, FS_Surjection
  <2>3. \A f \in Files(s \ {x}) \cup {ll[x]} : c.ent[f].size \in Nat
    BY <1>3
  <2>4. Held(c.ent, Files(s)) = Held(c.ent, Files(s \ {x})) + c.ent[ll[x]].size
    <3> HIDE DEF Files, D
    <3> QED BY <2>1, <2>2, <2>3, HeldAdd
  <2>5. s \ {x} \in SUBSET D /\ w[x] = size(x) /\ Held(c.ent, Files(s \ {x})) \in Nat
    BY <2>2, <2>3, CellsFinite
  <2>6. h[s] = Held(c.ent, Files(s)) /\ h[s \ {x}] = Held(c.ent, Files(s \ {x}))
    BY <1>4, <2>5, Zenon
  <2>7. c.ent[ll[x]].size = w[x] /\ w[x] \in Nat
    BY <1>3, <1>4
  <2> HIDE DEF h, w, Files, D, ll
  <2> QED BY <2>4, <2>5, <2>6, <2>7
<1>5. h[{}] = 0
  BY HeldNone
<1>6. g = [s \in SUBSET D |-> step(g, s)]
  <2>1. h = [s \in SUBSET D |-> step(h, s)]
    <3>1. ASSUME NEW s \in SUBSET D PROVE h[s] = step(h, s)
      <4>1. CASE s = {}
        BY <1>5, <4>1
      <4>2. CASE s # {}
        <5>1. one(s) \in s
          BY <4>2
        <5>2. h[s] = w[one(s)] + h[s \ {one(s)}] /\ w[one(s)] = size(one(s))
          <6> HIDE DEF h
          <6> QED BY <1>4, <5>1
        <5> HIDE DEF h, w, size, one, D
        <5> QED BY <4>2, <5>2
      <4> QED BY <4>1, <4>2
    <3>2. h = [s \in SUBSET D |-> h[s]]
      OBVIOUS
    <3> HIDE DEF h, step
    <3> QED BY <3>1, <3>2
  <2> HIDE DEF h, D, step
  <2> QED BY <2>1
<1>7. g[D] = h[D]
  <2>1. g[{}] = 0
    <3> HIDE DEF g, D, size, one
    <3> QED BY <1>6
  <2>2. ASSUME NEW s \in SUBSET D, s # {}
        PROVE  \E x \in s : g[s] = w[x] + g[s \ {x}]
    <3>1. one(s) \in s
      BY <2>2
    <3>2. g[s] = size(one(s)) + g[s \ {one(s)}] /\ w[one(s)] = size(one(s))
      <4> HIDE DEF g, size, one
      <4> QED BY <1>6, <2>2, <3>1
    <3> HIDE DEF g, w, size
    <3> QED BY <3>1, <3>2
  <2>3. SumsUp(h, w, D)
    <3> HIDE DEF h, w, D
    <3> QED BY <1>4, <1>5 DEF SumsUp
  <2>4. AddsUp(g, w, D)
    <3> HIDE DEF g, w, D
    <3> QED BY <2>1, <2>2 DEF AddsUp
  <2> HIDE DEF g, h, w, D
  <2> QED BY <1>1, <2>3, <2>4, OneSum
<1>8. Files(D) = Beyond(ll, n)
  BY DEF Beyond
<1> QED BY <1>2, <1>7, <1>8

-----------------------------------------------------------------------------
(* The list in order of use.                                                *)

LEMMA ListFacts ==
  ASSUME NEW ll, ll \in Seq(Path)
  PROVE  /\ Len(ll) \in Nat /\ DOMAIN ll = 1..Len(ll)
         /\ ll = [i \in 1..Len(ll) |-> ll[i]]
         /\ \A i \in 1..Len(ll) : ll[i] \in Path
         /\ \A n \in 0..Len(ll) : IsFiniteSet(UpTo(ll, n)) /\ IsFiniteSet(Beyond(ll, n))
         /\ \A n \in 0..Len(ll) : UpTo(ll, n) \cup Beyond(ll, n) = UpTo(ll, Len(ll))
<1>1. /\ Len(ll) \in Nat /\ DOMAIN ll = 1..Len(ll)
      /\ ll \in [1..Len(ll) -> Path]
  BY LenProperties
<1>2. IsFiniteSet(1..Len(ll))
  <2>1. 1 \in Int /\ Len(ll) \in Int
    BY <1>1
  <2> QED BY <2>1, FS_Interval, Zenon
<1>3. IsFiniteSet(UpTo(ll, Len(ll)))
  <2>1. ll \in Surjection(1..Len(ll), UpTo(ll, Len(ll)))
    BY <1>1 DEF Surjection, UpTo
  <2> QED BY <1>2, <2>1, FS_Surjection
<1>4. ASSUME NEW n \in 0..Len(ll)
      PROVE  /\ UpTo(ll, n) \cup Beyond(ll, n) = UpTo(ll, Len(ll))
             /\ IsFiniteSet(UpTo(ll, n)) /\ IsFiniteSet(Beyond(ll, n))
  <2>1. UpTo(ll, n) \cup Beyond(ll, n) = UpTo(ll, Len(ll))
    BY <1>1 DEF UpTo, Beyond
  <2> QED BY <1>3, <2>1, FS_Subset
<1> QED BY <1>1, <1>4

\* A list of n elements over a set of files.
LEMMA MakeList ==
  ASSUME NEW n \in Nat, NEW ll \in [1..n -> Path]
  PROVE  ll \in Seq(Path) /\ Len(ll) = n
<1>1. ll \in Seq(Path)
  BY SeqDef
<1>2. DOMAIN ll = 1..n /\ DOMAIN ll = 1..Len(ll) /\ Len(ll) \in Nat
  BY <1>1, LenProperties
<1> QED BY <1>1, <1>2

\* The list after a use holds the same files once each, the one used in front.
LEMMA MovedToFront ==
  ASSUME NEW ll, ll \in Seq(Path), Distinct(ll), NEW f \in UpTo(ll, Len(ll))
  PROVE  LET m == MoveToFront(ll, f)
         IN  /\ m \in Seq(Path) /\ Distinct(m) /\ Len(m) = Len(ll)
             /\ UpTo(m, Len(m)) = UpTo(ll, Len(ll))
<1> DEFINE L == Len(ll)
           at == CHOOSE i \in DOMAIN ll : ll[i] = f
           m == [i \in DOMAIN ll |-> IF i = 1 THEN f ELSE IF i <= at THEN ll[i - 1] ELSE ll[i]]
           from(i) == IF i = 1 THEN at ELSE IF i <= at THEN i - 1 ELSE i
           to(j) == IF j = at THEN 1 ELSE IF j < at THEN j + 1 ELSE j
<1>1. L \in Nat /\ DOMAIN ll = 1..L /\ \A i \in 1..L : ll[i] \in Path
  BY ListFacts
<1>2. at \in 1..L /\ ll[at] = f
  BY <1>1 DEF UpTo
<1>3. MoveToFront(ll, f) = m
  BY DEF MoveToFront
<1> HIDE DEF at, L
<1>4. \A i \in 1..L : from(i) \in 1..L /\ m[i] = ll[from(i)]
  BY <1>1, <1>2
<1>5. \A i, j \in 1..L : from(i) = from(j) => i = j
  BY <1>1, <1>2
<1>6. \A j \in 1..L : to(j) \in 1..L /\ from(to(j)) = j
  BY <1>1, <1>2
<1>7. m \in [1..L -> Path]
  <2>1. m = [i \in 1..L |-> m[i]]
    BY <1>1
  <2> HIDE DEF m, from
  <2> QED BY <1>1, <1>4, <2>1
<1>8. m \in Seq(Path) /\ Len(m) = L /\ DOMAIN m = 1..L
  <2> HIDE DEF m
  <2> QED BY <1>1, <1>7, MakeList
<1> HIDE DEF m, from, to
<1>9. Distinct(m)
  BY <1>1, <1>4, <1>5, <1>8 DEF Distinct
<1>10. UpTo(m, L) = UpTo(ll, L)
  <2>1. ASSUME NEW i \in 1..L PROVE m[i] \in UpTo(ll, L)
    BY <1>4 DEF UpTo
  <2>2. ASSUME NEW j \in 1..L PROVE ll[j] \in UpTo(m, L)
    BY <1>4, <1>6 DEF UpTo
  <2>3. UpTo(m, L) \subseteq UpTo(ll, L)
    BY <2>1 DEF UpTo
  <2>4. UpTo(ll, L) \subseteq UpTo(m, L)
    BY <2>2 DEF UpTo
  <2> QED BY <2>3, <2>4
<1> QED BY <1>3, <1>8, <1>9, <1>10 DEF L

\* A new element in front.
LEMMA PushedToFront ==
  ASSUME NEW ll, ll \in Seq(Path), Distinct(ll), NEW f \in Path, f \notin UpTo(ll, Len(ll))
  PROVE  LET m == <<f>> \o ll
         IN  /\ m \in Seq(Path) /\ Distinct(m)
             /\ UpTo(m, Len(m)) = UpTo(ll, Len(ll)) \cup {f}
<1> DEFINE m == <<f>> \o ll
           L == Len(ll)
<1>1. L \in Nat /\ DOMAIN ll = 1..L
  BY ListFacts
<1>2. <<f>> \in Seq(Path) /\ Len(<<f>>) = 1 /\ <<f>>[1] = f
  OBVIOUS
<1>3. /\ m \in Seq(Path) /\ Len(m) = 1 + L
      /\ \A i \in 1..(1 + L) : m[i] = IF i <= 1 THEN <<f>>[i] ELSE ll[i - 1]
  BY <1>2, ConcatProperties
<1>4. DOMAIN m = 1..(1 + L)
  <2> HIDE DEF m
  <2> QED BY <1>3, LenProperties
<1> HIDE DEF m, L
<1>5. m[1] = f /\ \A i \in 2..(1 + L) : i - 1 \in 1..L /\ m[i] = ll[i - 1]
  BY <1>1, <1>2, <1>3
<1>6. \A i \in 1..(1 + L) : i = 1 \/ i \in 2..(1 + L)
  BY <1>1
<1>7. \A j \in 1..L : j + 1 \in 2..(1 + L) /\ m[j + 1] = ll[j]
  BY <1>1, <1>5
<1>8. Distinct(m)
  <2> SUFFICES ASSUME NEW i \in 1..(1 + L), NEW j \in 1..(1 + L), m[i] = m[j] PROVE i = j
    BY <1>4 DEF Distinct
  <2>1. CASE i = 1 /\ j # 1
    BY <1>5, <1>6, <2>1 DEF UpTo, L
  <2>2. CASE j = 1 /\ i # 1
    BY <1>5, <1>6, <2>2 DEF UpTo, L
  <2>3. CASE i # 1 /\ j # 1
    <3>1. ll[i - 1] = ll[j - 1] /\ i - 1 \in DOMAIN ll /\ j - 1 \in DOMAIN ll
      BY <1>1, <1>5, <1>6, <2>3
    <3>2. i - 1 = j - 1
      BY <3>1 DEF Distinct
    <3> QED BY <1>1, <3>2
  <2> QED BY <2>1, <2>2, <2>3
<1>9. UpTo(m, 1 + L) = UpTo(ll, L) \cup {f}
  <2>1. ASSUME NEW i \in 1..(1 + L) PROVE m[i] \in UpTo(ll, L) \cup {f}
    BY <1>5, <1>6 DEF UpTo
  <2>2. ASSUME NEW j \in 1..L PROVE ll[j] \in UpTo(m, 1 + L)
    <3>1. j + 1 \in 1..(1 + L) /\ m[j + 1] = ll[j]
      BY <1>1, <1>7
    <3> QED BY <3>1 DEF UpTo
  <2>3. f \in UpTo(m, 1 + L)
    <3>1. 1 \in 1..(1 + L)
      BY <1>1
    <3> QED BY <1>5, <3>1 DEF UpTo
  <2>4. UpTo(m, 1 + L) \subseteq UpTo(ll, L) \cup {f}
    BY <2>1 DEF UpTo
  <2>5. UpTo(ll, L) \subseteq UpTo(m, 1 + L)
    BY <2>2 DEF UpTo
  <2> QED BY <2>3, <2>4, <2>5
<1> QED BY <1>3, <1>8, <1>9 DEF m, L

\* The first n elements.
LEMMA CutShort ==
  ASSUME NEW ll, ll \in Seq(Path), Distinct(ll), NEW n \in 0..Len(ll)
  PROVE  LET m == SubSeq(ll, 1, n)
         IN  /\ m \in Seq(Path) /\ Distinct(m)
             /\ UpTo(m, Len(m)) = UpTo(ll, n)
             /\ UpTo(ll, n) \cap Beyond(ll, n) = {}
<1> DEFINE m == SubSeq(ll, 1, n)
<1>1. Len(ll) \in Nat /\ DOMAIN ll = 1..Len(ll) /\ \A i \in 1..Len(ll) : ll[i] \in Path
  BY ListFacts
<1>2. m = [i \in 1..n |-> ll[i]]
  BY <1>1
<1>3. m \in [1..n -> Path] /\ n \in Nat /\ \A i \in 1..n : i \in DOMAIN ll /\ m[i] = ll[i]
  <2>1. n \in Nat /\ \A i \in 1..n : i \in DOMAIN ll /\ ll[i] \in Path
    BY <1>1
  <2> HIDE DEF m
  <2> QED BY <1>2, <2>1
<1> HIDE DEF m
<1>4. m \in Seq(Path) /\ Len(m) = n /\ DOMAIN m = 1..n
  BY <1>3, MakeList
<1>5. Distinct(m)
  BY <1>3, <1>4 DEF Distinct
<1>6. UpTo(m, n) = UpTo(ll, n)
  BY <1>3 DEF UpTo
<1>7. UpTo(ll, n) \cap Beyond(ll, n) = {}
  BY <1>1 DEF UpTo, Beyond, Distinct
<1> QED BY <1>4, <1>5, <1>6, <1>7 DEF m

-----------------------------------------------------------------------------
(* The cache.                                                               *)

\* The list names each file of the index once, each file has an entry with its image
\* and the size of that image, and the count is what the entries hold.
Shelf(c) ==
  /\ c = [ll |-> c.ll, items |-> c.items, ent |-> c.ent, curBytes |-> c.curBytes]
  /\ c.ll \in Seq(Path) /\ Distinct(c.ll)
  /\ c.items = UpTo(c.ll, Len(c.ll))
  /\ DOMAIN c.ent = c.items
  /\ \A f \in c.items : c.ent[f].value \in Logo /\ c.ent[f].size = c.ent[f].value.size
  /\ c.curBytes = Held(c.ent, c.items)

CacheOK(c) == Shelf(c) /\ c.curBytes <= MaxBytes

LEMMA ShelfFacts ==
  ASSUME NEW c, Shelf(c)
  PROVE  /\ c.items \subseteq Path /\ IsFiniteSet(c.items)
         /\ \A f \in c.items : c.ent[f].size \in Nat
         /\ \A S \in SUBSET c.items : IsFiniteSet(S) /\ Held(c.ent, S) \in Nat
<1>1. c.items \subseteq Path /\ IsFiniteSet(c.items)
  <2>1. /\ Len(c.ll) \in 0..Len(c.ll) /\ \A i \in 1..Len(c.ll) : c.ll[i] \in Path
        /\ IsFiniteSet(UpTo(c.ll, Len(c.ll)))
    BY ListFacts DEF Shelf
  <2> QED BY <2>1 DEF Shelf, UpTo
<1>2. \A f \in c.items : c.ent[f].size \in Nat
  BY LogosAssumption DEF Shelf
<1>3. ASSUME NEW S \in SUBSET c.items PROVE IsFiniteSet(S) /\ Held(c.ent, S) \in Nat
  <2>1. IsFiniteSet(S)
    BY <1>1, FS_Subset
  <2> QED BY <1>2, <2>1, CellsFinite
<1> QED BY <1>1, <1>2, <1>3

LEMMA EmptyCacheOK == CacheOK(NewLogoCache)
<1> DEFINE c == NewLogoCache
<1>1. c.ll = <<>> /\ c.items = {} /\ DOMAIN c.ent = {} /\ c.curBytes = 0
  BY DEF NewLogoCache
<1>2. c.ll \in Seq(Path) /\ Len(c.ll) = 0 /\ DOMAIN c.ll = {} /\ UpTo(c.ll, Len(c.ll)) = {}
  BY <1>1 DEF UpTo
<1>3. c = [ll |-> c.ll, items |-> c.items, ent |-> c.ent, curBytes |-> c.curBytes]
  BY DEF NewLogoCache
<1> HIDE DEF c
<1> QED BY <1>1, <1>2, <1>3, HeldNone, LogosAssumption DEF CacheOK, Shelf, Distinct, c

\* Get changes the order of use and nothing else.
LEMMA GetKeepsBooks ==
  ASSUME NEW c, CacheOK(c), NEW f
  PROVE  /\ CacheOK(AfterGet(c, f))
         /\ AfterGet(c, f).items = c.items /\ AfterGet(c, f).ent = c.ent
<1>1. CASE ~Hit(c, f)
  BY <1>1 DEF AfterGet
<1>2. CASE Hit(c, f)
  <2> DEFINE d == [c EXCEPT !.ll = MoveToFront(@, f)]
  <2>1. AfterGet(c, f) = d
    BY <1>2 DEF AfterGet
  <2>2. /\ d.ll = MoveToFront(c.ll, f) /\ d.items = c.items /\ d.ent = c.ent
        /\ d.curBytes = c.curBytes
        /\ d = [ll |-> d.ll, items |-> d.items, ent |-> d.ent, curBytes |-> d.curBytes]
    BY DEF CacheOK, Shelf
  <2>3. /\ d.ll \in Seq(Path) /\ Distinct(d.ll)
        /\ UpTo(d.ll, Len(d.ll)) = UpTo(c.ll, Len(c.ll))
    BY <1>2, <2>2, MovedToFront DEF CacheOK, Shelf, Hit
  <2> HIDE DEF d
  <2> QED BY <2>1, <2>2, <2>3 DEF CacheOK, Shelf
<1> QED BY <1>1, <1>2

LEMMA ReplacedShelf ==
  ASSUME NEW c, Shelf(c), NEW f \in c.items, NEW logo \in Logo
  PROVE  /\ Shelf(Replaced(c, f, logo))
         /\ Replaced(c, f, logo).items = c.items
         /\ \A g \in c.items :
              Replaced(c, f, logo).ent[g].value = IF g = f THEN logo ELSE c.ent[g].value
<1> DEFINE e == [value |-> logo, size |-> logo.size]
           d == Replaced(c, f, logo)
           rest == c.items \ {f}
<1>1. /\ d.ll = MoveToFront(c.ll, f) /\ d.items = c.items
      /\ d.ent = WithEntry(c.ent, f, e)
      /\ d.curBytes = (c.curBytes - c.ent[f].size) + logo.size
      /\ d = [ll |-> d.ll, items |-> d.items, ent |-> d.ent, curBytes |-> d.curBytes]
  <2>1. c = [ll |-> c.ll, items |-> c.items, ent |-> c.ent, curBytes |-> c.curBytes]
    BY DEF Shelf
  <2>2. d = [ll |-> MoveToFront(c.ll, f), items |-> c.items, ent |-> WithEntry(c.ent, f, e),
             curBytes |-> (c.curBytes - c.ent[f].size) + logo.size]
    <3> DEFINE after(a, i, n, b) ==
                 [ll |-> MoveToFront(a, f), items |-> i, ent |-> WithEntry(n, f, e),
                  curBytes |-> (b - n[f].size) + logo.size]
    <3>1. ASSUME NEW a, NEW i, NEW n, NEW b
          PROVE  Replaced([ll |-> a, items |-> i, ent |-> n, curBytes |-> b], f, logo)
                   = after(a, i, n, b)
      <4> HIDE DEF e
      <4>1. Replaced([ll |-> a, items |-> i, ent |-> n, curBytes |-> b], f, logo)
              = [[[[ll |-> a, items |-> i, ent |-> n, curBytes |-> b]
                   EXCEPT !.ll = MoveToFront(a, f)] EXCEPT !.ent = WithEntry(n, f, e)]
                   EXCEPT !.curBytes = (b - n[f].size) + logo.size]
        BY DEF Replaced, e
      <4> QED BY <4>1
    <3>2. Replaced([ll |-> c.ll, items |-> c.items, ent |-> c.ent, curBytes |-> c.curBytes], f, logo)
            = after(c.ll, c.items, c.ent, c.curBytes)
      BY <3>1
    <3> QED BY <2>1, <3>2, Zenon
  <2> HIDE DEF d, e
  <2> QED BY <2>2
<1> HIDE DEF d
<1>2. /\ d.ll \in Seq(Path) /\ Distinct(d.ll)
      /\ UpTo(d.ll, Len(d.ll)) = UpTo(c.ll, Len(c.ll))
  BY <1>1, MovedToFront DEF Shelf
<1>3. DOMAIN d.ent = c.items /\ \A g \in c.items : d.ent[g] = IF g = f THEN e ELSE c.ent[g]
  BY <1>1 DEF WithEntry, Shelf
<1>4. \A g \in c.items : d.ent[g].value \in Logo /\ d.ent[g].size = d.ent[g].value.size
  BY <1>3 DEF Shelf
<1>5. \A g \in c.items : d.ent[g].size \in Nat
  BY <1>4, LogosAssumption
<1>6. c.items = rest \cup {f} /\ f \notin rest /\ IsFiniteSet(rest) /\ Held(c.ent, rest) \in Nat
  BY ShelfFacts
<1>7. Held(c.ent, c.items) = Held(c.ent, rest) + c.ent[f].size /\ c.ent[f].size \in Nat
  <2>1. \A g \in c.items : c.ent[g].size \in Nat
    BY ShelfFacts
  <2> HIDE DEF rest
  <2> QED BY <1>6, <2>1, HeldAdd
<1>8. Held(d.ent, c.items) = Held(d.ent, rest) + d.ent[f].size
  <2> HIDE DEF rest
  <2> QED BY <1>5, <1>6, HeldAdd
<1>9. Held(d.ent, rest) = Held(c.ent, rest)
  BY <1>3, HeldSame
<1>10. d.ent[f].size = logo.size /\ logo.size \in Nat
  BY <1>3, LogosAssumption
<1>11. d.curBytes = Held(d.ent, d.items)
  <2>1. d.curBytes = (Held(c.ent, c.items) - c.ent[f].size) + logo.size
    BY <1>1 DEF Shelf
  <2>2. Held(d.ent, d.items) = Held(c.ent, rest) + logo.size
    BY <1>1, <1>8, <1>9, <1>10
  <2>3. Held(c.ent, rest) \in Nat
    BY <1>6
  <2> HIDE DEF rest
  <2> QED BY <2>1, <2>2, <2>3, <1>7, <1>10
<1>12. d.items = UpTo(d.ll, Len(d.ll)) /\ DOMAIN d.ent = d.items
  BY <1>1, <1>2, <1>3 DEF Shelf
<1>13. Shelf(d)
  BY <1>1, <1>2, <1>4, <1>11, <1>12 DEF Shelf
<1> QED BY <1>1, <1>3, <1>13 DEF d

LEMMA InsertedShelf ==
  ASSUME NEW c, Shelf(c), NEW f \in Path, f \notin c.items, NEW logo \in Logo
  PROVE  /\ Shelf(Inserted(c, f, logo))
         /\ Inserted(c, f, logo).items = c.items \cup {f}
         /\ \A g \in c.items \cup {f} :
              Inserted(c, f, logo).ent[g].value = IF g = f THEN logo ELSE c.ent[g].value
<1> DEFINE e == [value |-> logo, size |-> logo.size]
           d == Inserted(c, f, logo)
<1>1. /\ d.ll = <<f>> \o c.ll /\ d.items = c.items \cup {f}
      /\ d.ent = WithEntry(c.ent, f, e) /\ d.curBytes = c.curBytes + logo.size
      /\ d = [ll |-> d.ll, items |-> d.items, ent |-> d.ent, curBytes |-> d.curBytes]
  BY DEF Inserted
<1> HIDE DEF d
<1>2. /\ d.ll \in Seq(Path) /\ Distinct(d.ll)
      /\ UpTo(d.ll, Len(d.ll)) = UpTo(c.ll, Len(c.ll)) \cup {f}
  BY <1>1, PushedToFront DEF Shelf
<1>3. DOMAIN d.ent = d.items /\ \A g \in d.items : d.ent[g] = IF g = f THEN e ELSE c.ent[g]
  BY <1>1 DEF WithEntry, Shelf
<1>4. \A g \in d.items : d.ent[g].value \in Logo /\ d.ent[g].size = d.ent[g].value.size
  BY <1>1, <1>3 DEF Shelf
<1>5. d.ent[f].size = logo.size /\ logo.size \in Nat
  BY <1>1, <1>3, LogosAssumption
<1>6. Held(d.ent, d.items) = Held(d.ent, c.items) + d.ent[f].size
  <2>1. IsFiniteSet(c.items) /\ \A g \in c.items : d.ent[g].size \in Nat
    <3>1. IsFiniteSet(c.items) /\ c.items \subseteq d.items
      BY <1>1, ShelfFacts
    <3> QED BY <1>4, <3>1, LogosAssumption
  <2>2. d.ent[f].size \in Nat
    BY <1>5
  <2>3. Held(d.ent, c.items \cup {f}) = Held(d.ent, c.items) + d.ent[f].size
    BY <2>1, <2>2, HeldAdd
  <2> QED BY <1>1, <2>3
<1>7. Held(d.ent, c.items) = Held(c.ent, c.items)
  <2>1. \A g \in c.items : d.ent[g].size = c.ent[g].size
    BY <1>1, <1>3
  <2> QED BY <2>1, HeldSame
<1>8. d.curBytes = Held(d.ent, d.items)
  BY <1>1, <1>5, <1>6, <1>7 DEF Shelf
<1>9. d.items = UpTo(d.ll, Len(d.ll))
  BY <1>1, <1>2 DEF Shelf
<1>10. Shelf(d)
  BY <1>1, <1>2, <1>3, <1>4, <1>8, <1>9 DEF Shelf
<1>11. \A g \in c.items \cup {f} : d.ent[g].value = IF g = f THEN logo ELSE c.ent[g].value
  BY <1>1, <1>3
<1> QED BY <1>1, <1>10, <1>11 DEF d

\* What is left of the count when the elements beyond the n-th are gone.
LEMMA CountAfterEviction ==
  ASSUME NEW c, Shelf(c), NEW n \in 0..Len(c.ll)
  PROVE  c.curBytes - BytesBeyond(c, n) = Held(c.ent, UpTo(c.ll, n))
<1> DEFINE here == UpTo(c.ll, n)
           gone == Beyond(c.ll, n)
<1>1. c.items = here \cup gone /\ here \cap gone = {}
  BY ListFacts, CutShort DEF Shelf
<1>2. here \in SUBSET c.items /\ gone \in SUBSET c.items
  BY <1>1
<1>3. BytesBeyond(c, n) = Held(c.ent, gone)
  BY ShelfFacts, BytesBeyondIsHeld DEF Shelf
<1> HIDE DEF here, gone
<1>4. /\ IsFiniteSet(here) /\ IsFiniteSet(gone)
      /\ Held(c.ent, here) \in Nat /\ Held(c.ent, gone) \in Nat
  BY <1>2, ShelfFacts
<1>5. \A f \in here \cup gone : c.ent[f].size \in Nat
  BY <1>1, ShelfFacts
<1>6. Held(c.ent, c.items) = Held(c.ent, here) + Held(c.ent, gone)
  BY <1>1, <1>4, <1>5, HeldUnion
<1> QED BY <1>3, <1>4, <1>6 DEF Shelf, here

LEMMA TruncatedShelf ==
  ASSUME NEW c, Shelf(c), NEW n \in 0..Len(c.ll)
  PROVE  LET d == Truncated(c, n)
         IN  /\ Shelf(d) /\ d.items \subseteq c.items
             /\ \A f \in d.items : d.ent[f] = c.ent[f]
             /\ d.curBytes = c.curBytes - BytesBeyond(c, n)
<1> DEFINE d == Truncated(c, n)
<1>1. /\ d.ll = SubSeq(c.ll, 1, n) /\ d.items = UpTo(c.ll, n)
      /\ d.ent = [f \in UpTo(c.ll, n) |-> c.ent[f]]
      /\ d.curBytes = c.curBytes - BytesBeyond(c, n)
      /\ d = [ll |-> d.ll, items |-> d.items, ent |-> d.ent, curBytes |-> d.curBytes]
  BY DEF Truncated, UpTo
<1> HIDE DEF d
<1>2. d.ll \in Seq(Path) /\ Distinct(d.ll) /\ UpTo(d.ll, Len(d.ll)) = UpTo(c.ll, n)
  BY <1>1, CutShort DEF Shelf
<1>3. d.items \subseteq c.items
  BY <1>1, ListFacts DEF Shelf
<1>4. DOMAIN d.ent = d.items /\ \A f \in d.items : d.ent[f] = c.ent[f]
  BY <1>1
<1>5. \A f \in d.items : d.ent[f].value \in Logo /\ d.ent[f].size = d.ent[f].value.size
  BY <1>3, <1>4 DEF Shelf
<1>6. d.curBytes = Held(c.ent, d.items)
  BY <1>1, CountAfterEviction
<1>7. Held(d.ent, d.items) = Held(c.ent, d.items)
  BY <1>4, HeldSame
<1>8. Shelf(d)
  BY <1>1, <1>2, <1>4, <1>5, <1>6, <1>7 DEF Shelf
<1> QED BY <1>1, <1>3, <1>4, <1>8 DEF d

\* Eviction leaves a prefix of the list that is within the limit.
LEMMA EvictedOK ==
  ASSUME NEW c, Shelf(c)
  PROVE  /\ CacheOK(Evicted(c)) /\ Evicted(c).items \subseteq c.items
         /\ \A f \in Evicted(c).items : Evicted(c).ent[f] = c.ent[f]
<1> DEFINE K == {n \in 0..Len(c.ll) : n = 0 \/ c.curBytes - BytesBeyond(c, n) <= MaxBytes}
           n == KeptLength(c)
<1>1. Len(c.ll) \in Nat
  BY ListFacts DEF Shelf
<1>2. n \in K
  <2>1. K \in SUBSET (0..Len(c.ll)) /\ 0 \in K
    BY <1>1
  <2>2. IsFiniteSet(0..Len(c.ll)) /\ 0..Len(c.ll) \subseteq Int
    <3>1. 0 \in Int /\ Len(c.ll) \in Int
      BY <1>1
    <3>2. IsFiniteSet(0..Len(c.ll))
      BY <3>1, FS_Interval, Zenon
    <3> QED BY <3>2
  <2>3. n = Max(K)
    BY DEF KeptLength
  <2> HIDE DEF K, n
  <2>4. Max(K) \in K
    BY <2>1, <2>2, Greatest
  <2> QED BY <2>3, <2>4
<1>3. c.curBytes - BytesBeyond(c, n) <= MaxBytes
  <2>1. CASE n = 0
    <3>1. c.curBytes - BytesBeyond(c, 0) = Held(c.ent, UpTo(c.ll, 0))
      BY <1>1, CountAfterEviction
    <3>2. UpTo(c.ll, 0) = {}
      BY DEF UpTo
    <3> HIDE DEF n
    <3> QED BY <2>1, <3>1, <3>2, HeldNone, LogosAssumption
  <2>2. CASE n # 0
    BY <1>2, <2>2
  <2> QED BY <2>1, <2>2
<1>4. n \in 0..Len(c.ll) /\ Evicted(c) = Truncated(c, n)
  BY <1>2 DEF Evicted
<1> HIDE DEF n, K
<1> QED BY <1>3, <1>4, TruncatedShelf DEF CacheOK

\* Set keeps the logo unless it is evicted at once, and no other entry changes but
\* that it may be gone.
LEMMA SetKeepsBooks ==
  ASSUME NEW c, CacheOK(c), NEW f \in Path, NEW logo \in Logo, Admissible(logo)
  PROVE  LET d == AfterSet(c, f, logo)
         IN  /\ CacheOK(d) /\ d.items \subseteq c.items \cup {f}
             /\ \A g \in d.items : d.ent[g].value = IF g = f THEN logo ELSE c.ent[g].value
<1> DEFINE b == IF f \in c.items THEN Replaced(c, f, logo) ELSE Inserted(c, f, logo)
<1>1. /\ Shelf(b) /\ b.items = c.items \cup {f}
      /\ \A g \in b.items : b.ent[g].value = IF g = f THEN logo ELSE c.ent[g].value
  <2>1. CASE f \in c.items
    <3>1. b = Replaced(c, f, logo) /\ c.items = c.items \cup {f}
      BY <2>1
    <3> HIDE DEF b
    <3> QED BY <2>1, <3>1, ReplacedShelf DEF CacheOK
  <2>2. CASE f \notin c.items
    <3>1. b = Inserted(c, f, logo)
      BY <2>2
    <3> HIDE DEF b
    <3> QED BY <2>2, <3>1, InsertedShelf DEF CacheOK
  <2> QED BY <2>1, <2>2
<1>2. AfterSet(c, f, logo) = Evicted(b)
  BY DEF AfterSet
<1> HIDE DEF b
<1>3. /\ CacheOK(Evicted(b)) /\ Evicted(b).items \subseteq b.items
      /\ \A g \in Evicted(b).items : Evicted(b).ent[g] = b.ent[g]
  BY <1>1, EvictedOK
<1> QED BY <1>1, <1>2, <1>3

LEMMA BalancedBooks == ASSUME NEW c, CacheOK(c) PROVE BooksBalance(c)
<1> DEFINE L == Len(c.ll)
<1>1. L \in Nat /\ DOMAIN c.ll = 1..L /\ c.items = UpTo(c.ll, L)
  BY ListFacts DEF CacheOK, Shelf
<1>2. L = Cardinality(c.items)
  <2>1. c.ll \in Surjection(1..L, c.items)
    BY <1>1, ListFacts DEF CacheOK, Shelf, Surjection, UpTo
  <2>2. c.ll \in Injection(1..L, c.items)
    BY <1>1, <2>1 DEF CacheOK, Shelf, Distinct, Surjection, Injection, IsInjective
  <2>3. ExistsBijection(1..L, c.items)
    BY <2>1, <2>2 DEF ExistsBijection, Bijection
  <2>4. IsFiniteSet(1..L) /\ Cardinality(1..L) = L
    <3>1. 1 \in Int /\ L \in Int
      BY <1>1
    <3>2. IsFiniteSet(1..L) /\ Cardinality(1..L) = IF 1 > L THEN 0 ELSE L - 1 + 1
      <4> HIDE DEF L
      <4> QED BY <3>1, FS_Interval, Zenon
    <3> QED BY <1>1, <3>2
  <2> QED BY <2>3, <2>4, FS_Bijection
<1>3. {c.ll[i] : i \in DOMAIN c.ll} = c.items
  BY <1>1 DEF UpTo
<1>4. c.curBytes = BytesBeyond(c, 0)
  <2>1. c.curBytes - BytesBeyond(c, 0) = Held(c.ent, UpTo(c.ll, 0))
    BY <1>1, CountAfterEviction DEF CacheOK
  <2>2. UpTo(c.ll, 0) = {}
    BY DEF UpTo
  <2>3. BytesBeyond(c, 0) = Held(c.ent, Beyond(c.ll, 0))
    BY <1>1, ShelfFacts, BytesBeyondIsHeld DEF CacheOK, Shelf
  <2>4. Beyond(c.ll, 0) = c.items
    BY <1>1 DEF UpTo, Beyond
  <2> QED BY <2>3, <2>4 DEF CacheOK, Shelf
<1> QED BY <1>2, <1>3, <1>4 DEF BooksBalance, CacheOK, Shelf

-----------------------------------------------------------------------------
(* The handlers around the cache.                                           *)

BooksInv == /\ disk \in [Path -> Logo \cup {Missing}]
            /\ logoImg \in [Proc -> Logo \cup {Missing}]
            /\ \A p \in Proc : pc[p] = "keep" => logoImg[p] \in Logo
            /\ CacheOK(logoCache)

ServingInv == LogosInv /\ BooksInv

LEMMA KeysHaveFiles == ASSUME NEW k \in Config PROVE k.logoPath \in Path
BY LogosAssumption

LEMMA ServingInit == LogosInit => ServingInv
<1>1. LogosInit => BooksInv
  BY EmptyCacheOK DEF LogosInit, BooksInv
<1> QED BY <1>1, LogosInitInvariant DEF ServingInv

\* A lookup gives a logo or nothing, and what it leaves is in order.
LEMMA LookupStep ==
  ASSUME ServingInv, NEW p \in Proc, Lookup(p)
  PROVE  BooksInv' /\ [f \in Path |-> Got(logoCache, f)]' = [f \in Path |-> Got(logoCache, f)]
<1>1. cfg[p].logoPath \in Path
  BY KeysHaveFiles DEF ServingInv, LogosInv, HandlersOK, Lookup
<1>2. /\ CacheOK(logoCache') /\ logoCache'.items = logoCache.items
      /\ logoCache'.ent = logoCache.ent
  BY GetKeepsBooks DEF ServingInv, BooksInv, Lookup
<1>3. Got(logoCache, cfg[p].logoPath) \in Logo \cup {Missing}
  BY DEF Got, Hit, ServingInv, BooksInv, CacheOK, Shelf
<1>4. logoImg' \in [Proc -> Logo \cup {Missing}]
  BY <1>3 DEF ServingInv, BooksInv, Lookup
<1>5. \A q \in Proc : pc'[q] = "keep" => logoImg'[q] \in Logo
  BY DEF ServingInv, LogosInv, HandlersOK, BooksInv, Lookup, Goto
<1>6. \A f \in Path : Got(logoCache, f)' = Got(logoCache, f)
  BY <1>2 DEF Got, Hit
<1> QED BY <1>2, <1>4, <1>5, <1>6 DEF ServingInv, BooksInv, Lookup

\* What is kept is there afterwards unless something was forgotten.
LEMMA KeepStep ==
  ASSUME ServingInv, NEW p \in Proc, NEW f \in Path, f = cfg[p].logoPath, Keep(p)
  PROVE  BooksInv' /\ Map!Keep(p, f)
<1> DEFINE logo == logoImg[p]
           lost == Path \ logoCache'.items
           now == [g \in Path |-> Got(logoCache, g)]
           gone == [g \in Path |-> IF g \in lost THEN Missing ELSE IF g = f THEN logo ELSE now[g]]
<1>1. f \in Path /\ logo \in Logo /\ pc[p] = "keep"
  BY KeysHaveFiles DEF ServingInv, LogosInv, HandlersOK, BooksInv, Keep
<1>2. CacheOK(logoCache) /\ logoCache' = AfterSet(logoCache, f, logo)
  BY DEF ServingInv, BooksInv, Keep
<1>3. CacheOK(logoCache')
  BY <1>1, <1>2, SetKeepsBooks DEF AfterSet
<1>4. BooksInv'
  BY <1>3 DEF ServingInv, LogosInv, HandlersOK, BooksInv, Keep, Goto
<1>5. [q \in Proc |-> IF pc'[q] = "keep" THEN cfg'[q].logoPath ELSE Missing]
        = [[q \in Proc |-> IF pc[q] = "keep" THEN cfg[q].logoPath ELSE Missing]
           EXCEPT ![p] = Missing]
  BY DEF ServingInv, LogosInv, HandlersOK, Keep, Goto
<1>6. CASE Admissible(logo)
  <2>1. /\ logoCache'.items \subseteq logoCache.items \cup {f} /\ MaxBytes > 0
        /\ \A g \in logoCache'.items :
             logoCache'.ent[g].value = IF g = f THEN logo ELSE logoCache.ent[g].value
    BY <1>1, <1>2, <1>6, SetKeepsBooks DEF Admissible
  <2>2. ASSUME NEW g \in Path PROVE Got(logoCache, g)' = gone[g]
    BY <2>1 DEF Got, Hit
  <2>3. [g \in Path |-> Got(logoCache, g)]' = gone
    BY <2>2
  <2>4. logo \in {l \in Logo : Admissible(l)} /\ lost \in SUBSET Path
    BY <1>1, <1>6
  <2> QED BY <1>1, <1>4, <1>5, <2>3, <2>4 DEF Map!Keep, Keep
<1>7. CASE ~Admissible(logo)
  <2>1. logo \notin {l \in Logo : Admissible(l)} /\ logoCache' = logoCache
    BY <1>2, <1>7 DEF AfterSet
  <2> QED BY <1>1, <1>4, <1>5, <2>1 DEF Map!Keep, Keep
<1> QED BY <1>6, <1>7

\* Every step of the handlers and of the files is one of the map, or none.
LEMMA ServingStep ==
  ASSUME ServingInv, [LogosNext]_<<logVars, logosVars>>
  PROVE  BooksInv' /\ (Map!Next \/ UNCHANGED Map!mapVars)
<1> DEFINE logos == [f \in Path |-> Got(logoCache, f)]
           keeping == [p \in Proc |-> IF pc[p] = "keep" THEN cfg[p].logoPath ELSE Missing]
<1>1. logoCache' = logoCache => logos' = logos
  BY DEF Got, Hit
<1>2. ASSUME NEW p \in Proc, Begin(p) PROVE BooksInv' /\ Map!Start(p)
  <2>1. keeping' = keeping /\ keeping[p] = Missing
    BY <1>2 DEF Begin, Goto, ServingInv, LogosInv, HandlersOK
  <2>2. BooksInv'
    BY <1>2 DEF Begin, Goto, ServingInv, LogosInv, HandlersOK, BooksInv
  <2> QED BY <1>1, <1>2, <2>1, <2>2 DEF Begin, Map!Start, Map!Hold
<1>3. ASSUME NEW p \in Proc, Lookup(p) PROVE BooksInv' /\ Map!Look(p, cfg[p].logoPath)
  <2>1. keeping' = keeping /\ keeping[p] = Missing
    BY <1>3 DEF Lookup, Goto, ServingInv, LogosInv, HandlersOK
  <2>2. cfg[p].logoPath \in Path
    BY <1>3, KeysHaveFiles DEF ServingInv, LogosInv, HandlersOK, Lookup
  <2>3. logos[cfg[p].logoPath] = Got(logoCache, cfg[p].logoPath)
    BY <2>2
  <2> QED BY <1>3, <2>1, <2>3, LookupStep DEF Lookup, Map!Look, Map!Hold
<1>4. ASSUME NEW p \in Proc, NEW f \in Path, f = cfg[p].logoPath, Load(p)
      PROVE  BooksInv' /\ Map!Read(p, f)
  <2>1. keeping' = [keeping EXCEPT ![p] = cfg[p].logoPath] /\ keeping[p] = Missing
    BY <1>4 DEF Load, Goto, ServingInv, LogosInv, HandlersOK
  <2>2. cfg[p].logoPath \in Path
    BY <1>4, KeysHaveFiles DEF ServingInv, LogosInv, HandlersOK, Load
  <2>3. disk[cfg[p].logoPath] \in Logo
    BY <1>4, <2>2 DEF Load, ServingInv, BooksInv
  <2>4. BooksInv'
    BY <1>4, <2>3 DEF Load, Goto, ServingInv, LogosInv, HandlersOK, BooksInv
  <2> QED BY <1>1, <1>4, <2>1, <2>4 DEF Load, Map!Read, Map!Hold
<1>5. ASSUME NEW p \in Proc, NEW f \in Path, f = cfg[p].logoPath, Keep(p)
      PROVE  BooksInv' /\ Map!Keep(p, f)
  BY <1>5, KeepStep
<1>6. ASSUME NEW p \in Proc, LoadFails(p) \/ Logging(p)
      PROVE  BooksInv' /\ UNCHANGED Map!mapVars
  <2>1. /\ UNCHANGED <<logoCache, disk, cfg, logoImg>> /\ pc[p] \in {"load", "log"}
        /\ \E l \in {"idle", "log"} : pc' = [pc EXCEPT ![p] = l]
    BY <1>6 DEF LoadFails, Logging, Goto
  <2>2. keeping' = keeping
    BY <2>1 DEF ServingInv, LogosInv, HandlersOK
  <2>3. BooksInv'
    BY <2>1 DEF ServingInv, LogosInv, HandlersOK, BooksInv
  <2> QED BY <1>1, <2>1, <2>2, <2>3 DEF Map!mapVars
<1>7. ASSUME FileChanges PROVE BooksInv' /\ \E f \in Path : Map!Change(f)
  <2>1. BooksInv'
    BY <1>7 DEF FileChanges, ServingInv, BooksInv
  <2>2. keeping' = keeping
    BY <1>7 DEF FileChanges
  <2> QED BY <1>1, <1>7, <2>1, <2>2 DEF FileChanges, Map!Change
<1>8. ASSUME UNCHANGED logosVars PROVE BooksInv' /\ UNCHANGED Map!mapVars
  <2>1. keeping' = keeping
    BY <1>8 DEF logosVars
  <2> QED BY <1>1, <1>8, <2>1 DEF logosVars, ServingInv, BooksInv, Map!mapVars
<1>9. ASSUME NEW p \in Proc, Lookup(p) \/ Load(p) \/ Keep(p)
      PROVE  cfg[p].logoPath \in Path
  BY <1>9, KeysHaveFiles DEF ServingInv, LogosInv, HandlersOK, Lookup, Load, Keep
<1>10. CASE \E p \in Proc : Begin(p) \/ Lookup(p) \/ Load(p) \/ Keep(p)
  <2>1. PICK p \in Proc : Begin(p) \/ Lookup(p) \/ Load(p) \/ Keep(p)
    BY <1>10
  <2>2. CASE Begin(p)
    BY <2>2, <1>2 DEF Map!Next
  <2>3. CASE Lookup(p)
    <3>1. cfg[p].logoPath \in Path
      BY <2>3, <1>9
    <3> QED BY <2>3, <3>1, <1>3 DEF Map!Next
  <2>4. CASE Load(p)
    <3>1. PICK f \in Path : f = cfg[p].logoPath
      BY <2>4, <1>9
    <3>2. BooksInv' /\ Map!Read(p, f)
      BY <2>4, <3>1, <1>4
    <3> QED BY <3>2 DEF Map!Next
  <2>5. CASE Keep(p)
    <3>1. PICK f \in Path : f = cfg[p].logoPath
      BY <2>5, <1>9
    <3>2. BooksInv' /\ Map!Keep(p, f)
      BY <2>5, <3>1, <1>5
    <3> QED BY <3>2 DEF Map!Next
  <2> QED BY <2>1, <2>2, <2>3, <2>4, <2>5
<1>11. CASE FileChanges
  BY <1>7, <1>11 DEF Map!Next
<1> QED BY <1>6, <1>8, <1>10, <1>11 DEF LogosNext

\* Whatever the handlers read, keep and replace, the list, the index and the byte
\* count of the logo cache describe one another, and the count is within its limit.
THEOREM BooksAlwaysAgree == LogosSpec => []BooksAgree
<1>1. ServingInv /\ [LogosNext]_<<logVars, logosVars>> => ServingInv'
  BY LogosStepInvariant, ServingStep DEF ServingInv
<1>2. ServingInv => BooksAgree
  BY BalancedBooks DEF ServingInv, BooksInv, BooksAgree
<1> QED BY <1>1, <1>2, ServingInit, PTL DEF LogosSpec

\* For its callers the logo cache is a map that may forget.
THEOREM LogoCacheIsAMap == LogosSpec => ImplementsLogoMap
<1>1. ServingInv /\ [LogosNext]_<<logVars, logosVars>> => ServingInv'
  BY LogosStepInvariant, ServingStep DEF ServingInv
<1>2. LogosInit => Map!Init
  BY DEF LogosInit, Map!Init, NewLogoCache, Got, Hit
<1>3. ServingInv /\ [LogosNext]_<<logVars, logosVars>> => [Map!Next]_(Map!mapVars)
  BY ServingStep
<1> QED BY <1>1, <1>2, <1>3, ServingInit, PTL DEF LogosSpec, ImplementsLogoMap, Map!Spec
=============================================================================
