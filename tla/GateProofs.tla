---------------------------- MODULE GateProofs ----------------------------
(***************************************************************************)
(* Proofs about IpLimiter and Gate.                                         *)
(*                                                                          *)
(* The limiter, for every rate, burst, lifetime, delay, number of           *)
(* goroutines and number of addresses: the bound on what an address is      *)
(* admitted in any interval of time, the end of idle buckets, and that the  *)
(* calls which are not overtaken are answered as the ideal bucket would.    *)
(*                                                                          *)
(* The gate in front of it: whatever the trusted proxies, the texts of      *)
(* addresses and the headers, a peer that is no trusted proxy is bounded by *)
(* the one bucket of its own address.                                       *)
(***************************************************************************)
EXTENDS Gate, TLAPS

-----------------------------------------------------------------------------
(* Arithmetic.                                                              *)

LEMMA Parameters ==
  /\ Rate \in Nat /\ Rate > 0
  /\ Burst \in Nat /\ Burst >= Cost /\ Cost \in Nat /\ Cost > 0
  /\ GcEvery \in Nat
<1>1. Rate \in Nat /\ Rate > 0
  BY LimiterAssumption DEF Rate
<1>2. Cost \in Nat /\ Cost > 0
  BY LimiterAssumption
<1>3. Burst \in Nat /\ Burst >= Cost
  <2>1. PICK n \in Nat : n = (IF ConfigBurst < 1 THEN 1 ELSE ConfigBurst) /\ n >= 1
    BY LimiterAssumption
  <2>2. n * Cost >= Cost /\ n * Cost \in Nat
    BY <1>2, <2>1
  <2> QED BY <2>1, <2>2 DEF Burst
<1>4. GcEvery \in Nat
  BY LimiterAssumption DEF GcEvery
<1> QED BY <1>1, <1>2, <1>3, <1>4

LEMMA RateMonotone ==
  ASSUME NEW x \in Int, NEW y \in Int, x <= y
  PROVE  Rate * x <= Rate * y /\ Rate * x \in Int /\ Rate * y \in Int
BY Parameters

LEMMA RateDistributes ==
  ASSUME NEW x \in Int, NEW y \in Int
  PROVE  /\ Rate * (x + y) = Rate * x + Rate * y
         /\ Rate * (x - y) = Rate * x - Rate * y
         /\ (x - y) * Rate = Rate * x - Rate * y
         /\ Rate * x \in Int /\ Rate * y \in Int
BY Parameters

LEMMA RateOfTick ==
  ASSUME NEW t \in Int
  PROVE  Rate * (t + 1) = Rate * t + Rate
BY Parameters

LEMMA CostDistributes ==
  ASSUME NEW n \in Nat
  PROVE  Cost * (n + 1) = Cost * n + Cost /\ Cost * n \in Nat
BY Parameters

-----------------------------------------------------------------------------
(* One bucket.                                                              *)

\* The time a call read, when it gets the mutex.
Sampled(now) == now \in 0..MaxTime /\ now <= clock /\ clock - now <= MaxDelay

LEMMA BucketBalance ==
  ASSUME NEW t \in Int, NEW now \in Int
  PROVE  /\ Balance([tokens |-> t, last |-> now]) = t - Rate * now
         /\ Balance([tokens |-> t, last |-> now]) \in Int
<1>1. Rate * now \in Int
  BY RateMonotone
<1>2. Balance([tokens |-> t, last |-> now]) = t - Rate * now
  BY DEF Balance
<1> QED BY <1>1, <1>2

\* A refill leaves the balance as it is, or caps it.
LEMMA RefillBalance ==
  ASSUME NEW b \in Buckets, NEW now \in 0..MaxTime
  PROVE  /\ Refilled(b, now) \in Int /\ Refilled(b, now) <= Burst
         /\ Refilled(b, now) - Rate * now <= Balance(b)
         /\ \/ Refilled(b, now) - Rate * now = Balance(b)
            \/ Refilled(b, now) = Burst
         /\ Balance(b) \in Int
<1>1. b.tokens \in Int /\ b.last \in Int /\ now \in Int
  BY LimiterAssumption DEF Buckets
<1>2. /\ (now - b.last) * Rate = Rate * now - Rate * b.last
      /\ Rate * now \in Int /\ Rate * b.last \in Int
  BY <1>1, RateDistributes
<1>3. Burst \in Int
  BY Parameters
<1> QED BY <1>1, <1>2, <1>3 DEF Refilled, Balance

\* What a request does to a bucket that stays sound: it is refilled and loses
\* cost tokens, none or Cost, and must not go below zero if it loses any.
LEMMA ServedIsSound ==
  ASSUME NEW b \in Buckets, NEW now, Sampled(now), Sound(b), clock \in Nat,
         NEW cost \in {0, Cost}, cost > 0 => Refilled(b, now) >= cost,
         NEW nb, nb = [tokens |-> Refilled(b, now) - cost, last |-> now]
  PROVE  /\ nb \in Buckets
         /\ Sound(nb)
         /\ Balance(nb) <= Balance(b) - cost
         /\ Balance(nb) <= (Burst - Rate * now) - cost
         /\ Balance(nb) \in Int /\ Balance(b) \in Int
         /\ cost > 0 => Balance(nb) >= -(Rate * now)
<1> DEFINE r == Refilled(b, now)
<1>1. now \in 0..MaxTime /\ now \in Int /\ clock \in Int /\ MaxDelay \in Int
  BY LimiterAssumption DEF Sampled
<1>2. /\ r \in Int /\ r <= Burst
      /\ r - Rate * now <= Balance(b)
      /\ r - Rate * now = Balance(b) \/ r = Burst
      /\ Balance(b) \in Int
  BY <1>1, RefillBalance
<1> HIDE DEF r
<1>3. /\ Rate * now <= Rate * clock /\ Rate * clock <= Rate * (now + MaxDelay)
      /\ Rate * now \in Int /\ Rate * clock \in Int /\ Rate * (now + MaxDelay) \in Int
  <2>1. now <= clock /\ clock <= now + MaxDelay /\ now + MaxDelay \in Int
    BY <1>1 DEF Sampled
  <2> QED BY <1>1, <2>1, RateMonotone
<1>4. cost \in Nat /\ Burst \in Nat
  BY Parameters
<1>5. nb = [tokens |-> r - cost, last |-> now] /\ r - cost \in Int
  BY <1>2, <1>4 DEF r
<1>6. Balance(nb) = (r - cost) - Rate * now
  BY <1>1, <1>5, BucketBalance
<1>7. nb \in Buckets
  BY <1>1, <1>2, <1>4, <1>5 DEF Buckets
<1>8. cost > 0 => r >= cost
  BY DEF r
<1>9. Balance(b) >= -(Rate * clock)
  BY DEF Sound
<1>10. nb.last = now
  BY <1>5
<1>11. Balance(nb) >= -(Rate * clock)
  <2>1. CASE cost > 0
    BY <1>2, <1>3, <1>4, <1>6, <1>8, <2>1
  <2>2. CASE cost = 0
    BY <1>2, <1>3, <1>4, <1>6, <1>9, <2>2
  <2> QED BY <1>4, <2>1, <2>2
<1>12. Sound(nb)
  <2>1. Balance(nb) >= -(Rate * (now + MaxDelay))
    BY <1>2, <1>3, <1>4, <1>6, <1>11
  <2>2. now <= clock
    BY DEF Sampled
  <2> QED BY <1>10, <1>11, <2>1, <2>2 DEF Sound
<1>13. /\ Balance(nb) <= Balance(b) - cost
       /\ Balance(nb) <= (Burst - Rate * now) - cost
       /\ Balance(nb) \in Int
       /\ cost > 0 => Balance(nb) >= -(Rate * now)
  BY <1>2, <1>3, <1>4, <1>6, <1>8
<1> QED BY <1>2, <1>7, <1>12, <1>13

\* The bucket of an unknown address.
LEMMA FreshIsSound ==
  ASSUME NEW now, Sampled(now), clock \in Nat,
         NEW nb, nb = [tokens |-> FreshTokens, last |-> now]
  PROVE  /\ nb \in Buckets
         /\ Sound(nb)
         /\ Balance(nb) = (Burst - Rate * now) - Cost
         /\ Balance(nb) \in Int
         /\ Balance(nb) >= -(Rate * now)
<1>1. now \in 0..MaxTime /\ now \in Int /\ clock \in Int /\ MaxDelay \in Int
  BY LimiterAssumption DEF Sampled
<1>2. /\ Rate * now <= Rate * clock /\ Rate * clock <= Rate * (now + MaxDelay)
      /\ Rate * now \in Int /\ Rate * clock \in Int /\ Rate * (now + MaxDelay) \in Int
  <2>1. now <= clock /\ clock <= now + MaxDelay /\ now + MaxDelay \in Int
    BY <1>1 DEF Sampled
  <2> QED BY <1>1, <2>1, RateMonotone
<1>3. FreshTokens \in Nat /\ FreshTokens <= Burst /\ FreshTokens = Burst - Cost
  BY Parameters DEF FreshTokens
<1>4. Balance(nb) = FreshTokens - Rate * now
  BY <1>1, <1>3, BucketBalance
<1>5. nb \in Buckets /\ nb.last = now
  BY <1>1, <1>3 DEF Buckets
<1>6. Balance(nb) >= -(Rate * now) /\ Balance(nb) \in Int
  BY <1>2, <1>3, <1>4
<1>7. Balance(nb) >= -(Rate * clock) /\ Balance(nb) >= -(Rate * (now + MaxDelay))
  BY <1>2, <1>6
<1>8. Sound(nb)
  BY <1>5, <1>7 DEF Sound, Sampled
<1>9. Balance(nb) = (Burst - Rate * now) - Cost
  BY <1>2, <1>3, <1>4, Parameters
<1> QED BY <1>5, <1>6, <1>8, <1>9

-----------------------------------------------------------------------------
(* Counting admissions.                                                     *)

WindowOK == window.from \in Int /\ window.to \in Int /\ window.from <= window.to

\* An admission charged to a bucket that was there.
LEMMA SpendIsPaid ==
  ASSUME WindowOK, NEW n \in Nat, NEW now \in Int, NEW B \in Int, NEW b,
         Paid(b, n), Balance(b) \in Int,
         B <= Balance(b) - Cost, B <= (Burst - Rate * now) - Cost,
         NEW m, m = IF InWindow(now) THEN n + 1 ELSE n
  PROVE  m > 0 => B + Cost * m <= Burst - Rate * window.from
<1>1. /\ Cost * (n + 1) = Cost * n + Cost /\ Cost * n \in Nat /\ Cost \in Nat
      /\ Burst \in Nat
  BY CostDistributes, Parameters
<1>2. InWindow(now) => Rate * window.from <= Rate * now
  BY RateMonotone DEF InWindow, WindowOK
<1>3. Rate * window.from \in Int /\ Rate * now \in Int
  BY RateDistributes DEF WindowOK
<1>4. n > 0 => Balance(b) + Cost * n <= Burst - Rate * window.from
  BY DEF Paid
<1>5. n = 0 => Cost * n = 0
  BY <1>1, Parameters
<1>6. CASE InWindow(now) /\ n > 0
  BY <1>1, <1>3, <1>4, <1>6
<1>7. CASE InWindow(now) /\ n = 0
  BY <1>1, <1>2, <1>3, <1>5, <1>7
<1>8. CASE ~InWindow(now)
  BY <1>1, <1>3, <1>4, <1>8
<1> QED BY <1>6, <1>7, <1>8

\* An admission charged to a fresh bucket.
LEMMA FreshIsPaid ==
  ASSUME WindowOK, NEW n \in Nat, NEW now \in Int, clock \in Int,
         clock - now <= MaxDelay, PaidByTime(n),
         NEW m, m = IF InWindow(now) THEN n + 1 ELSE n
  PROVE  m > 0 => ((Burst - Rate * now) - Cost) + Cost * m <= Burst - Rate * window.from
<1>1. /\ Cost * (n + 1) = Cost * n + Cost /\ Cost * n \in Nat /\ Cost \in Nat
      /\ Burst \in Nat /\ MaxDelay \in Nat
  BY CostDistributes, Parameters, LimiterAssumption
<1>2. InWindow(now) => Rate * window.from <= Rate * now
  BY RateMonotone DEF InWindow, WindowOK
<1>3. Rate * window.from \in Int /\ Rate * now \in Int
  BY RateDistributes DEF WindowOK
<1>4. n > 0 => Cost * n <= Rate * now - Rate * window.from
  <2>1. (clock - MaxDelay) - window.from <= now - window.from
    BY <1>1 DEF WindowOK
  <2>2. Rate * ((clock - MaxDelay) - window.from) <= Rate * (now - window.from)
    BY <1>1, <2>1, RateMonotone DEF WindowOK
  <2>3. Rate * (now - window.from) = Rate * now - Rate * window.from
    BY RateDistributes DEF WindowOK
  <2>4. Rate * ((clock - MaxDelay) - window.from) \in Int
    BY <1>1, <2>1, RateMonotone DEF WindowOK
  <2> QED BY <1>1, <1>3, <2>2, <2>3, <2>4 DEF PaidByTime
<1>5. n = 0 => Cost * n = 0
  BY <1>1, Parameters
<1>6. CASE InWindow(now) /\ n > 0
  BY <1>1, <1>3, <1>4, <1>6
<1>7. CASE InWindow(now) /\ n = 0
  BY <1>1, <1>2, <1>3, <1>5, <1>7
<1>8. CASE ~InWindow(now)
  BY <1>1, <1>3, <1>4, <1>8
<1> QED BY <1>6, <1>7, <1>8

\* An admission that is paid for keeps to the bound.
LEMMA PaidIsBounded ==
  ASSUME WindowOK, NEW now \in Int, InWindow(now), NEW m \in Nat, NEW B \in Int,
         B >= -(Rate * now), B + Cost * m <= Burst - Rate * window.from
  PROVE  Cost * m <= Burst + Rate * (window.to - window.from)
<1>1. Rate * now <= Rate * window.to /\ Rate * now \in Int /\ Rate * window.to \in Int
  BY RateMonotone DEF InWindow, WindowOK
<1>2. /\ Rate * (window.to - window.from) = Rate * window.to - Rate * window.from
      /\ Rate * window.from \in Int
  BY RateDistributes DEF WindowOK
<1>3. Cost * m \in Nat /\ Burst \in Nat
  BY CostDistributes, Parameters
<1> QED BY <1>1, <1>2, <1>3

\* A bucket is forgotten only when time has paid for all that was spent.
LEMMA ForgottenIsPaid ==
  ASSUME WindowOK, NEW b \in Buckets, NEW n \in Nat, NEW now, Sampled(now),
         clock \in Nat, TTL > 0, TTLCoversBurst, Sound(b), Paid(b, n), Idle(b, now)
  PROVE  PaidByTime(n)
<1> SUFFICES ASSUME n > 0
             PROVE  Cost * n <= Rate * ((clock - MaxDelay) - window.from)
  BY DEF PaidByTime
<1>1. /\ Balance(b) + Cost * n <= Burst - Rate * window.from
      /\ Balance(b) >= -(Rate * (b.last + MaxDelay))
      /\ Rate * (TTL - 2 * MaxDelay) >= Burst
  BY LimiterAssumption DEF Paid, Sound, TTLCoversBurst
<1>2. b.last \in Int /\ MaxDelay \in Int /\ TTL \in Int /\ clock \in Int /\ now \in Int
      /\ Balance(b) \in Int /\ Cost * n \in Nat /\ Burst \in Nat
  <2>1. b.last \in 0..MaxTime /\ b.tokens \in Int
    BY DEF Buckets
  <2>2. b.last \in Int /\ MaxDelay \in Int /\ TTL \in Int /\ now \in Int
    BY <2>1, LimiterAssumption DEF Sampled
  <2>3. Rate * b.last \in Int
    BY <2>2, RateMonotone
  <2>4. Balance(b) \in Int
    BY <2>1, <2>3 DEF Balance
  <2>5. Cost * n \in Nat /\ Burst \in Nat
    BY CostDistributes, Parameters
  <2> QED BY <2>2, <2>4, <2>5
<1>3. b.last + MaxDelay <= (clock - TTL) + MaxDelay
  BY <1>2 DEF Idle, Sampled
<1>4. Rate * (b.last + MaxDelay) <= Rate * ((clock - TTL) + MaxDelay)
  BY <1>2, <1>3, RateMonotone
<1>5. /\ Rate * ((clock - TTL) + MaxDelay) = Rate * (clock - TTL) + Rate * MaxDelay
      /\ Rate * (clock - TTL) = Rate * clock - Rate * TTL
      /\ Rate * (TTL - 2 * MaxDelay) = Rate * TTL - Rate * (2 * MaxDelay)
      /\ Rate * ((clock - MaxDelay) - window.from)
           = Rate * (clock - MaxDelay) - Rate * window.from
      /\ Rate * (clock - MaxDelay) = Rate * clock - Rate * MaxDelay
      /\ Rate * (MaxDelay + MaxDelay) = Rate * MaxDelay + Rate * MaxDelay
      /\ 2 * MaxDelay = MaxDelay + MaxDelay
  <2>1. PICK f \in Int, d \in Int, l \in Int, t \in Int, c \in Int :
          f = window.from /\ d = MaxDelay /\ l = b.last /\ t = TTL /\ c = clock
    BY <1>2 DEF WindowOK
  <2>2. /\ Rate * ((c - t) + d) = Rate * (c - t) + Rate * d
        /\ Rate * (c - t) = Rate * c - Rate * t
        /\ Rate * (t - 2 * d) = Rate * t - Rate * (2 * d)
        /\ Rate * ((c - d) - f) = Rate * (c - d) - Rate * f
        /\ Rate * (c - d) = Rate * c - Rate * d
        /\ Rate * (d + d) = Rate * d + Rate * d
        /\ 2 * d = d + d
    BY Parameters
  <2> QED BY <2>1, <2>2, Zenon
<1>6. /\ Rate * clock \in Int /\ Rate * TTL \in Int /\ Rate * MaxDelay \in Int
      /\ Rate * window.from \in Int /\ Rate * (b.last + MaxDelay) \in Int
  BY <1>2, RateMonotone DEF WindowOK
<1> QED BY <1>1, <1>2, <1>4, <1>5, <1>6

-----------------------------------------------------------------------------
(* The invariant.                                                           *)

LEMMA InitInvariant == Init => IInv
<1> SUFFICES ASSUME Init PROVE IInv
  OBVIOUS
<1> USE DEF Init
<1>1. TypeOK
  BY LimiterAssumption DEF TypeOK
<1>2. Waiting /\ NotOverdrawn /\ Spent
  BY DEF Waiting, NotOverdrawn, Spent, PaidByTime
<1>3. RateBound
  <2>1. window.from \in Int /\ window.to \in Int /\ 0 <= window.to - window.from
    BY LimiterAssumption
  <2>2. Rate * 0 <= Rate * (window.to - window.from)
    BY <2>1, RateMonotone
  <2>3. Rate * 0 = 0 /\ Cost * 0 = 0 /\ Burst \in Nat
    BY Parameters
  <2>4. Rate * (window.to - window.from) \in Int
    BY <2>1, RateMonotone, SMTT(30)
  <2>5. 0 <= Burst + Rate * (window.to - window.from)
    BY <2>2, <2>3, <2>4
  <2> QED BY <2>3, <2>5 DEF RateBound
<1> QED BY <1>1, <1>2, <1>3 DEF IInv

LEMMA WindowFacts ==
  ASSUME TypeOK
  PROVE  WindowOK /\ clock \in Nat /\ clock \in Int
BY LimiterAssumption DEF TypeOK, WindowOK

\* What needs no assumption about lifetimes.
Core == TypeOK /\ Waiting /\ NotOverdrawn

\* What is known of a call in progress.
LEMMA CoreOfCall ==
  ASSUME Core, NEW p \in Proc, call[p] # None
  PROVE  /\ call[p].ip \in Ip /\ Sampled(call[p].now) /\ call[p].now \in Int
         /\ admitted[call[p].ip] \in Nat
<1>1. call[p] \in Calls
  BY DEF Core, TypeOK
<1> QED BY <1>1, LimiterAssumption DEF Core, TypeOK, Calls, Waiting, Sampled

LEMMA OfCall ==
  ASSUME IInv, NEW p \in Proc, call[p] # None
  PROVE  /\ call[p].ip \in Ip /\ Sampled(call[p].now) /\ call[p].now \in Int
         /\ admitted[call[p].ip] \in Nat
<1>1. Core
  BY DEF IInv, Core
<1> QED BY <1>1, CoreOfCall

\* p's call, at time now, has left bucket nb to ip and m admissions in its count.
Served(p, ip, now, nb, m) ==
  /\ call[p] # None /\ Finish(ip, nb, now) /\ UNCHANGED <<clock, window>>
  /\ \E a \in {"allowed", "refused"} : Reply(p, a)
  /\ Sampled(now) /\ nb \in Buckets /\ Sound(nb) /\ nb.last = now
  /\ admitted' = [admitted EXCEPT ![ip] = m]
  /\ m = admitted[ip] \/ InWindow(now)
  /\ Spent => Paid(nb, m)
  /\ Spent /\ m # admitted[ip] => Cost * m <= Burst + Rate * (window.to - window.from)

\* The three outcomes of Allow.
LEMMA AllowNewServes ==
  ASSUME Core, NEW p \in Proc, AllowNew(p)
  PROVE  \E ip \in Ip, now \in Int, nb \in Buckets, m \in Nat : Served(p, ip, now, nb, m)
<1>a. PICK ip \in Ip, now \in Int, n \in Nat :
        ip = call[p].ip /\ now = call[p].now /\ n = admitted[ip] /\ Sampled(now)
  BY CoreOfCall DEF AllowNew
<1>b. PICK nb : nb = [tokens |-> FreshTokens, last |-> now]
  OBVIOUS
<1>1. /\ ip = call[p].ip /\ now = call[p].now /\ n = admitted[ip]
      /\ nb = [tokens |-> FreshTokens, last |-> now] /\ Sampled(now)
  BY <1>a, <1>b
<1>2. PICK m \in Nat : m = IF InWindow(now) THEN n + 1 ELSE n
  OBVIOUS
<1>3. /\ call[p] # None /\ ip \notin DOMAIN byIP /\ Finish(ip, nb, now)
      /\ CountAdmission(ip, now) /\ Reply(p, "allowed") /\ UNCHANGED <<clock, window>>
      /\ TypeOK /\ WindowOK /\ clock \in Nat
  BY <1>1, WindowFacts DEF AllowNew, Core
<1>4. /\ nb \in Buckets /\ Sound(nb) /\ Balance(nb) \in Int
      /\ Balance(nb) = (Burst - Rate * now) - Cost
      /\ Balance(nb) >= -(Rate * now)
  BY <1>1, <1>3, FreshIsSound
<1>5. ASSUME Spent
      PROVE  m > 0 => Balance(nb) + Cost * m <= Burst - Rate * window.from
  <2>1. PaidByTime(n) /\ clock - now <= MaxDelay
    BY <1>1, <1>3, <1>5 DEF Spent, Sampled
  <2>2. m > 0 => ((Burst - Rate * now) - Cost) + Cost * m <= Burst - Rate * window.from
    BY <1>2, <1>3, <2>1, FreshIsPaid
  <2> QED BY <1>4, <2>2
<1>6. ASSUME Spent, m # n PROVE Cost * m <= Burst + Rate * (window.to - window.from)
  <2>1. InWindow(now) /\ m > 0
    BY <1>2, <1>6
  <2> QED BY <1>3, <1>4, <1>5, <1>6, <2>1, PaidIsBounded
<1>7. admitted' = [admitted EXCEPT ![ip] = m] /\ (m = n \/ InWindow(now))
  BY <1>1, <1>2, <1>3 DEF CountAdmission, TypeOK
<1>8. nb.last = now
  BY <1>1
<1> QED BY <1>1, <1>3, <1>4, <1>5, <1>6, <1>7, <1>8 DEF Served, Paid

LEMMA AllowSpendServes ==
  ASSUME Core, NEW p \in Proc, AllowSpend(p)
  PROVE  \E ip \in Ip, now \in Int, nb \in Buckets, m \in Nat : Served(p, ip, now, nb, m)
<1>1. PICK ip \in Ip, now \in Int, n \in Nat :
        /\ ip = call[p].ip /\ now = call[p].now /\ n = admitted[ip] /\ Sampled(now)
  BY CoreOfCall DEF AllowSpend
<1>2. PICK m \in Nat : m = IF InWindow(now) THEN n + 1 ELSE n
  OBVIOUS
<1>3. PICK b, nb : b = byIP[ip] /\ nb = [tokens |-> Refilled(b, now) - Cost, last |-> now]
  OBVIOUS
<1>4. /\ call[p] # None /\ ip \in DOMAIN byIP /\ Finish(ip, nb, now)
      /\ Refilled(b, now) >= Cost
      /\ CountAdmission(ip, now) /\ Reply(p, "allowed") /\ UNCHANGED <<clock, window>>
      /\ TypeOK /\ WindowOK /\ clock \in Nat
  BY <1>1, <1>3, WindowFacts DEF AllowSpend, Core
<1>5. b \in Buckets /\ Sound(b)
  BY <1>1, <1>3, <1>4 DEF Core, TypeOK, NotOverdrawn
<1>6. /\ nb \in Buckets /\ Sound(nb) /\ Balance(nb) \in Int /\ Balance(b) \in Int
      /\ Balance(nb) <= Balance(b) - Cost
      /\ Balance(nb) <= (Burst - Rate * now) - Cost
      /\ Balance(nb) >= -(Rate * now)
  <2>1. Cost \in {0, Cost} /\ Cost > 0
    BY Parameters
  <2> QED BY <1>1, <1>3, <1>4, <1>5, <2>1, ServedIsSound
<1>7. ASSUME Spent
      PROVE  m > 0 => Balance(nb) + Cost * m <= Burst - Rate * window.from
  <2>1. Paid(b, n)
    BY <1>1, <1>3, <1>4, <1>7 DEF Spent
  <2> QED BY <1>2, <1>4, <1>5, <1>6, <2>1, SpendIsPaid
<1>8. ASSUME Spent, m # n PROVE Cost * m <= Burst + Rate * (window.to - window.from)
  <2>1. InWindow(now) /\ m > 0
    BY <1>2, <1>8
  <2> QED BY <1>4, <1>6, <1>7, <1>8, <2>1, PaidIsBounded
<1>9. admitted' = [admitted EXCEPT ![ip] = m] /\ (m = n \/ InWindow(now))
  BY <1>1, <1>2, <1>4 DEF CountAdmission, TypeOK
<1>10. nb.last = now
  BY <1>3
<1> QED BY <1>1, <1>4, <1>6, <1>7, <1>8, <1>9, <1>10 DEF Served, Paid

LEMMA AllowRefuseServes ==
  ASSUME Core, NEW p \in Proc, AllowRefuse(p)
  PROVE  \E ip \in Ip, now \in Int, nb \in Buckets, m \in Nat : Served(p, ip, now, nb, m)
<1>1. PICK ip \in Ip, now \in Int, n \in Nat :
        /\ ip = call[p].ip /\ now = call[p].now /\ n = admitted[ip] /\ Sampled(now)
  BY CoreOfCall DEF AllowRefuse
<1>2. PICK b, nb : b = byIP[ip] /\ nb = [tokens |-> Refilled(b, now) - 0, last |-> now]
  OBVIOUS
<1>3. /\ call[p] # None /\ ip \in DOMAIN byIP
      /\ Reply(p, "refused") /\ UNCHANGED <<clock, window, admitted>>
      /\ TypeOK /\ WindowOK /\ clock \in Nat
  BY <1>1, WindowFacts DEF AllowRefuse, Core
<1>4. b \in Buckets /\ Sound(b)
  BY <1>1, <1>2, <1>3 DEF Core, TypeOK, NotOverdrawn
<1>5. /\ nb \in Buckets /\ Sound(nb) /\ Balance(nb) \in Int /\ Balance(b) \in Int
      /\ Balance(nb) <= Balance(b) - 0
  <2>1. 0 \in {0, Cost} /\ ~(0 > 0)
    OBVIOUS
  <2> QED BY <1>1, <1>2, <1>3, <1>4, <2>1, ServedIsSound
<1>6. ASSUME Spent PROVE Paid(nb, n)
  <2>1. Cost * n \in Nat /\ Burst - Rate * window.from \in Int
    BY <1>3, CostDistributes, RateDistributes, Parameters DEF WindowOK
  <2>2. Paid(b, n)
    BY <1>1, <1>2, <1>3, <1>6 DEF Spent
  <2> QED BY <1>5, <2>1, <2>2 DEF Paid
<1>7. admitted' = [admitted EXCEPT ![ip] = n]
  BY <1>1, <1>3 DEF TypeOK
<1>8. Finish(ip, nb, now)
  <2>1. Refilled(b, now) - 0 = Refilled(b, now)
    BY <1>1, <1>4, RefillBalance DEF Sampled
  <2> QED BY <1>1, <1>2, <2>1 DEF AllowRefuse, RefusedBucket
<1>9. nb.last = now
  BY <1>2
<1> QED BY <1>1, <1>3, <1>5, <1>6, <1>7, <1>8, <1>9 DEF Served

\* What is stored and collected at the end of a call.
LEMMA AfterCall ==
  ASSUME Core, NEW p \in Proc, NEW ip \in Ip, NEW now \in Int, NEW nb \in Buckets, NEW m \in Nat,
         Served(p, ip, now, nb, m)
  PROVE  /\ DOMAIN byIP' \subseteq DOMAIN byIP \cup {ip}
         /\ DOMAIN byIP' \subseteq Ip /\ byIP' \in [DOMAIN byIP' -> Buckets]
         /\ \A i \in DOMAIN byIP' : byIP'[i] = IF i = ip THEN nb ELSE byIP[i]
         /\ \A i \in (DOMAIN byIP \cup {ip}) \ DOMAIN byIP' :
              TTL > 0 /\ Idle(IF i = ip THEN nb ELSE byIP[i], now)
         /\ lastGC' \in 0..MaxTime \cup {None}
<1> DEFINE buckets == [i \in DOMAIN byIP \cup {ip} |-> IF i = ip THEN nb ELSE byIP[i]]
<1>1. PICK held : held = buckets
  OBVIOUS
<1>2. /\ DOMAIN held = DOMAIN byIP \cup {ip} /\ DOMAIN held \subseteq Ip
      /\ \A i \in DOMAIN held : /\ held[i] \in Buckets
                                /\ held[i] = IF i = ip THEN nb ELSE byIP[i]
      /\ held \in [DOMAIN held -> Buckets]
  BY <1>1 DEF Core, TypeOK
<1>3. /\ lastGC' = GcTime(now)
      /\ byIP' = IF GcDue(now) THEN Collected(held, now) ELSE held
  BY <1>1 DEF Served, Finish
<1> HIDE DEF buckets
<1>4. lastGC' \in 0..MaxTime \cup {None}
  BY <1>3 DEF GcTime, Core, TypeOK, Served, Sampled
<1>5. CASE GcDue(now)
  <2>1. byIP' = Collected(held, now) /\ TTL > 0
    BY <1>3, <1>5 DEF GcDue
  <2> QED BY <1>2, <1>4, <2>1 DEF Collected
<1>6. CASE ~GcDue(now)
  <2>1. byIP' = held
    BY <1>3, <1>6
  <2> QED BY <1>2, <1>4, <2>1
<1> QED BY <1>5, <1>6

LEMMA ServedKeepsCore ==
  ASSUME Core, NEW p \in Proc, NEW ip \in Ip, NEW now \in Int, NEW nb \in Buckets, NEW m \in Nat,
         Served(p, ip, now, nb, m)
  PROVE  Core'
<1>1. /\ DOMAIN byIP' \subseteq DOMAIN byIP \cup {ip}
      /\ DOMAIN byIP' \subseteq Ip /\ byIP' \in [DOMAIN byIP' -> Buckets]
      /\ \A i \in DOMAIN byIP' : byIP'[i] = IF i = ip THEN nb ELSE byIP[i]
      /\ lastGC' \in 0..MaxTime \cup {None}
  BY AfterCall
<1>2. /\ UNCHANGED <<clock, window>> /\ admitted' = [admitted EXCEPT ![ip] = m] /\ Sound(nb)
  BY DEF Served
<1>3. PICK a \in {"allowed", "refused"} : Reply(p, a)
  BY DEF Served
<1>4. TypeOK'
  BY <1>1, <1>2, <1>3 DEF Core, TypeOK, Reply
<1>5. Waiting'
  BY <1>2, <1>3 DEF Core, Waiting, Reply, TypeOK
<1>6. NotOverdrawn'
  BY <1>1, <1>2 DEF Core, NotOverdrawn, Sound, Balance
<1> QED BY <1>4, <1>5, <1>6 DEF Core

\* An address that is served stays within the bound while all is paid for.
LEMMA ServedKeepsBound ==
  ASSUME Core, RateBound, NEW p \in Proc,
         NEW ip \in Ip, NEW now \in Int, NEW nb \in Buckets, NEW m \in Nat,
         Served(p, ip, now, nb, m), Spent \/ m = admitted[ip]
  PROVE  RateBound'
<1>1. /\ UNCHANGED window /\ admitted' = [admitted EXCEPT ![ip] = m]
      /\ admitted \in [Ip -> Nat]
  BY DEF Served, Core, TypeOK
<1>2. Cost * m <= Burst + Rate * (window.to - window.from)
  BY DEF Served, RateBound
<1> QED BY <1>1, <1>2 DEF RateBound

LEMMA ServedKeepsSpent ==
  ASSUME Core, Spent, TTLCoversBurst, NEW p \in Proc,
         NEW ip \in Ip, NEW now \in Int, NEW nb \in Buckets, NEW m \in Nat,
         Served(p, ip, now, nb, m)
  PROVE  Spent'
<1> DEFINE b(i) == IF i = ip THEN nb ELSE byIP[i]
<1>1. /\ DOMAIN byIP' \subseteq DOMAIN byIP \cup {ip}
      /\ \A i \in DOMAIN byIP' : byIP'[i] = b(i)
      /\ \A i \in (DOMAIN byIP \cup {ip}) \ DOMAIN byIP' : TTL > 0 /\ Idle(b(i), now)
  BY AfterCall
<1>2. /\ UNCHANGED <<clock, window>> /\ admitted' = [admitted EXCEPT ![ip] = m]
      /\ Sampled(now) /\ Sound(nb) /\ Paid(nb, m)
      /\ WindowOK /\ clock \in Nat /\ admitted \in [Ip -> Nat]
  BY WindowFacts DEF Served, Core, TypeOK
<1>3. \A i \in DOMAIN byIP \cup {ip} :
        /\ b(i) \in Buckets /\ Sound(b(i)) /\ Paid(b(i), admitted'[i]) /\ admitted'[i] \in Nat
  <2>1. \A i \in DOMAIN byIP : /\ byIP[i] \in Buckets /\ Sound(byIP[i]) /\ i \in Ip
                               /\ Paid(byIP[i], admitted[i]) /\ admitted[i] \in Nat
    BY <1>2 DEF Core, TypeOK, NotOverdrawn, Spent
  <2> QED BY <1>2, <2>1
<1> HIDE DEF b
<1>4. \A i \in (DOMAIN byIP \cup {ip}) \ DOMAIN byIP' : PaidByTime(admitted'[i])
  <2> SUFFICES ASSUME NEW i \in (DOMAIN byIP \cup {ip}) \ DOMAIN byIP'
               PROVE  PaidByTime(admitted'[i])
    OBVIOUS
  <2>1. PICK n \in Nat : n = admitted'[i]
    BY <1>3
  <2>2. PICK c \in Buckets : c = b(i)
    BY <1>3
  <2>3. Sound(c) /\ Paid(c, n) /\ TTL > 0 /\ Idle(c, now)
    BY <1>1, <1>3, <2>1, <2>2
  <2>4. PaidByTime(n)
    BY <1>2, <2>3, ForgottenIsPaid
  <2> QED BY <2>1, <2>4
<1>5. \A i \in Ip \ (DOMAIN byIP \cup {ip}) : PaidByTime(admitted'[i])
  BY <1>2 DEF Spent
<1> QED BY <1>1, <1>2, <1>3, <1>4, <1>5 DEF Spent, Paid, PaidByTime, Balance

\* An interval that is shorter than the lifetime is over before what was used in it is idle.
LEMMA ServedKeepsShort ==
  ASSUME ShortInv, WindowsWithinTTL, NEW p \in Proc,
         NEW ip \in Ip, NEW now \in Int, NEW nb \in Buckets, NEW m \in Nat,
         Served(p, ip, now, nb, m)
  PROVE  ShortInv'
<1>1. Core /\ RateBound /\ Begun /\ (~Over => Spent /\ Kept)
  BY DEF ShortInv, Core
<1>2. /\ UNCHANGED <<clock, window>> /\ admitted' = [admitted EXCEPT ![ip] = m]
      /\ Sampled(now) /\ nb.last = now /\ (m = admitted[ip] \/ InWindow(now))
      /\ WindowOK /\ clock \in Nat /\ admitted \in [Ip -> Nat]
      /\ MaxDelay \in Nat /\ TTL \in Nat /\ window.to - window.from <= TTL - 2 * MaxDelay
  BY <1>1, WindowFacts, LimiterAssumption DEF Served, Core, TypeOK, WindowsWithinTTL
<1>3. now <= clock /\ clock - now <= MaxDelay /\ now \in Int
  BY <1>2 DEF Sampled
<1>4. Core'
  BY <1>1, ServedKeepsCore
<1>5. Over => m = admitted[ip]
  BY <1>2, <1>3 DEF Over, InWindow, WindowOK
<1>6. RateBound'
  BY <1>1, <1>5, ServedKeepsBound
<1>7. Begun'
  <2>1. m # admitted[ip] => window.from <= clock
    BY <1>2, <1>3 DEF InWindow, WindowOK
  <2> QED BY <1>1, <1>2, <2>1 DEF Begun
<1>8. ASSUME ~Over PROVE Spent' /\ Kept'
  <2> DEFINE b(i) == IF i = ip THEN nb ELSE byIP[i]
  <2>1. /\ DOMAIN byIP' \subseteq DOMAIN byIP \cup {ip}
        /\ \A i \in DOMAIN byIP' : byIP'[i] = b(i)
        /\ \A i \in (DOMAIN byIP \cup {ip}) \ DOMAIN byIP' : Idle(b(i), now)
    BY <1>1, AfterCall
  <2>2. Spent /\ Kept /\ Paid(nb, m)
    BY <1>1, <1>8 DEF Served
  <2>3. \A i \in Ip : admitted'[i] > 0 =>
          i \in DOMAIN byIP \cup {ip} /\ b(i).last >= window.from - MaxDelay
    <3>1. admitted'[ip] > 0 => nb.last >= window.from - MaxDelay
      <4>1. m > 0 => window.from <= clock
        BY <1>2, <1>7 DEF Begun
      <4> QED BY <1>2, <1>3, <4>1 DEF WindowOK
    <3>2. \A i \in Ip \ {ip} : admitted'[i] = admitted[i]
      BY <1>2
    <3> QED BY <2>2, <3>1, <3>2 DEF Kept
  <2>4. \A i \in Ip : admitted'[i] > 0 => i \in DOMAIN byIP'
    <3> SUFFICES ASSUME NEW i \in Ip, admitted'[i] > 0, i \notin DOMAIN byIP' PROVE FALSE
      OBVIOUS
    <3>1. i \in DOMAIN byIP \cup {ip} /\ b(i).last >= window.from - MaxDelay
      BY <2>3
    <3>2. b(i).last \in Int
      <4>1. b(i) \in Buckets
        BY <1>1, <3>1 DEF Core, TypeOK
      <4> QED BY <4>1 DEF Buckets
    <3>3. now - b(i).last > TTL
      BY <2>1, <3>1 DEF Idle
    <3> HIDE DEF b
    <3>4. clock - MaxDelay > window.to
      BY <1>2, <1>3, <3>1, <3>2, <3>3 DEF WindowOK
    <3> QED BY <1>8, <3>4 DEF Over
  <2>5. \A i \in DOMAIN byIP' : Paid(b(i), admitted'[i])
    <3>1. DOMAIN byIP \subseteq Ip
      BY <1>1 DEF Core, TypeOK
    <3> QED BY <1>2, <2>1, <2>2, <3>1 DEF Spent
  <2>6. \A i \in Ip : admitted'[i] \in Nat
    BY <1>2
  <2> HIDE DEF b
  <2>7. Spent'
    <3>1. \A i \in Ip : i \notin DOMAIN byIP' => ~(admitted'[i] > 0)
      BY <2>4
    <3> QED BY <1>2, <2>1, <2>5, <3>1 DEF Spent, Paid, PaidByTime, Balance
  <2>8. Kept'
    BY <1>2, <2>1, <2>3, <2>4 DEF Kept
  <2> QED BY <2>7, <2>8
<1>9. Over' <=> Over
  BY <1>2 DEF Over
<1> QED BY <1>4, <1>6, <1>7, <1>8, <1>9 DEF ShortInv, Core

LEMMA SampleKeepsCore ==
  ASSUME Core, NEW p \in Proc, NEW ip \in Ip, Sample(p, ip)
  PROVE  Core'
<1>1. clock \in 0..MaxTime /\ clock - clock <= MaxDelay /\ clock <= clock
  BY LimiterAssumption DEF Core, TypeOK
<1>2. TypeOK'
  BY <1>1 DEF Core, TypeOK, Sample, limiterVars, Calls
<1>3. Waiting'
  BY <1>1 DEF Core, TypeOK, Waiting, Sample
<1> QED BY <1>2, <1>3 DEF Core, Sample, limiterVars, NotOverdrawn, Sound, Balance

LEMMA TickKeepsCore ==
  ASSUME Core, Tick
  PROVE  Core'
<1>1. clock \in 0..MaxTime /\ clock \in Int /\ clock' = clock + 1 /\ clock' \in 0..MaxTime
  BY LimiterAssumption DEF Core, TypeOK, Tick
<1>2. TypeOK'
  BY <1>1 DEF Core, TypeOK, Tick, limiterVars
<1>3. Waiting'
  <2> SUFFICES ASSUME NEW p \in Proc, call[p] # None
               PROVE  call[p].now <= clock + 1 /\ (clock + 1) - call[p].now <= MaxDelay
    BY <1>1 DEF Waiting, Tick
  <2>1. call[p].now \in Int /\ call[p].now <= clock /\ clock - call[p].now < MaxDelay
    BY CoreOfCall DEF Tick, Sampled
  <2> QED BY <1>1, <2>1, LimiterAssumption
<1>4. Rate * clock <= Rate * clock' /\ Rate * clock \in Int /\ Rate * clock' \in Int
  BY <1>1, RateMonotone
<1>5. NotOverdrawn'
  <2> SUFFICES ASSUME NEW ip \in DOMAIN byIP PROVE Sound(byIP[ip])'
    BY DEF NotOverdrawn, Tick, limiterVars
  <2>1. PICK b \in Buckets : b = byIP[ip] /\ b = byIP'[ip]
    BY DEF Core, TypeOK, Tick, limiterVars
  <2>2. Balance(b) \in Int /\ b.last \in Int
    <3>1. b.last \in Int /\ b.tokens \in Int
      BY LimiterAssumption DEF Buckets
    <3>2. Rate * b.last \in Int
      BY <3>1, RateMonotone
    <3> QED BY <3>1, <3>2 DEF Balance
  <2>3. Sound(b)
    BY <2>1 DEF Core, NotOverdrawn
  <2>4. b.last <= clock' /\ Balance(b) >= -(Rate * clock')
    BY <1>1, <1>4, <2>2, <2>3 DEF Sound
  <2>5. Balance(b) >= -(Rate * (b.last + MaxDelay))
    BY <2>3 DEF Sound
  <2> QED BY <2>1, <2>4, <2>5 DEF Sound, Balance, Tick, limiterVars
<1> QED BY <1>2, <1>3, <1>5 DEF Core

LEMMA TickKeepsSpent ==
  ASSUME Core, Spent, Tick
  PROVE  Spent'
<1>1. clock \in 0..MaxTime /\ clock \in Int /\ clock' = clock + 1
  BY LimiterAssumption DEF Core, TypeOK, Tick
<1> SUFFICES ASSUME NEW ip \in Ip
             PROVE  IF ip \in DOMAIN byIP THEN Paid(byIP[ip], admitted[ip])
                                          ELSE PaidByTime(admitted[ip])'
  BY DEF Spent, Tick, limiterVars, Paid, PaidByTime, Balance
<1>2. CASE ip \in DOMAIN byIP
  BY <1>2 DEF Spent
<1>3. CASE ip \notin DOMAIN byIP
  <2>1. PICK f \in Int, n \in Nat : f = window.from /\ n = admitted[ip]
    BY WindowFacts DEF Core, TypeOK, WindowOK
  <2>2. (clock - MaxDelay) - f <= (clock' - MaxDelay) - f
    BY <1>1, LimiterAssumption
  <2>3. Rate * ((clock - MaxDelay) - f) <= Rate * ((clock' - MaxDelay) - f)
        /\ Rate * ((clock - MaxDelay) - f) \in Int
        /\ Rate * ((clock' - MaxDelay) - f) \in Int
    BY <1>1, <2>2, RateMonotone, LimiterAssumption
  <2>4. n > 0 => Cost * n <= Rate * ((clock - MaxDelay) - f)
    BY <1>3, <2>1 DEF Spent, PaidByTime
  <2>5. Cost * n \in Nat
    BY CostDistributes
  <2>6. n > 0 => Cost * n <= Rate * ((clock' - MaxDelay) - f)
    BY <2>3, <2>4, <2>5
  <2> QED BY <1>3, <2>1, <2>6 DEF PaidByTime, Tick
<1> QED BY <1>2, <1>3

\* A step is a tick, the beginning of a call or its end.
LEMMA StepServes ==
  ASSUME Core, [Next]_vars
  PROVE  \/ UNCHANGED vars
         \/ Tick
         \/ \E p \in Proc, ip \in Ip : Sample(p, ip)
         \/ \E p \in Proc, ip \in Ip, now \in Int, nb \in Buckets, m \in Nat :
              Served(p, ip, now, nb, m)
BY AllowNewServes, AllowSpendServes, AllowRefuseServes DEF Next

LEMMA StepKeepsCore == Core /\ [Next]_vars => Core'
<1> SUFFICES ASSUME Core, [Next]_vars PROVE Core'
  OBVIOUS
<1>1. CASE UNCHANGED vars
  BY <1>1 DEF Core, vars, limiterVars, TypeOK, Waiting, NotOverdrawn, Sound, Balance
<1> QED BY <1>1, StepServes, TickKeepsCore, SampleKeepsCore, ServedKeepsCore

LEMMA StepInvariant == TTLCoversBurst /\ IInv /\ [Next]_vars => IInv'
<1> SUFFICES ASSUME TTLCoversBurst, IInv, [Next]_vars PROVE IInv'
  OBVIOUS
<1>1. Core /\ Spent /\ RateBound
  BY DEF IInv, Core
<1>2. Core'
  BY <1>1, StepKeepsCore
<1>3. CASE UNCHANGED vars \/ \E p \in Proc, ip \in Ip : Sample(p, ip)
  <2>1. UNCHANGED <<clock, byIP, window, admitted>>
    BY <1>3 DEF vars, limiterVars, Sample
  <2> QED BY <1>1, <1>2, <2>1 DEF IInv, Core, Spent, Paid, PaidByTime, Balance, RateBound
<1>4. CASE Tick
  <2>1. RateBound'
    BY <1>1, <1>4 DEF RateBound, Tick
  <2>2. Spent'
    BY <1>1, <1>4, TickKeepsSpent
  <2> QED BY <1>2, <2>1, <2>2 DEF IInv, Core
<1>5. ASSUME NEW p \in Proc, NEW ip \in Ip, NEW now \in Int, NEW nb \in Buckets, NEW m \in Nat,
             Served(p, ip, now, nb, m)
      PROVE  IInv'
  <2>1. RateBound'
    BY <1>1, <1>5, ServedKeepsBound
  <2>2. Spent'
    BY <1>1, <1>5, ServedKeepsSpent
  <2> QED BY <1>2, <2>1, <2>2 DEF IInv, Core
<1> QED BY <1>1, <1>3, <1>4, <1>5, StepServes

LEMMA ShortStep == WindowsWithinTTL /\ ShortInv /\ [Next]_vars => ShortInv'
<1> SUFFICES ASSUME WindowsWithinTTL, ShortInv, [Next]_vars PROVE ShortInv'
  OBVIOUS
<1>1. Core /\ RateBound /\ Begun /\ (~Over => Spent /\ Kept)
  BY DEF ShortInv, Core
<1>2. Core'
  BY <1>1, StepKeepsCore
<1>3. CASE UNCHANGED vars \/ \E p \in Proc, ip \in Ip : Sample(p, ip)
  <2>1. UNCHANGED <<clock, byIP, window, admitted>>
    BY <1>3 DEF vars, limiterVars, Sample
  <2> QED BY <1>1, <1>2, <2>1 DEF ShortInv, Core, Spent, Paid, PaidByTime, Balance, RateBound,
                                  Begun, Over, Kept
<1>4. CASE Tick
  <2>1. /\ clock' = clock + 1 /\ UNCHANGED <<byIP, window, admitted>>
        /\ clock \in Int /\ MaxDelay \in Int /\ WindowOK
    BY <1>1, <1>4, WindowFacts, LimiterAssumption DEF Tick, limiterVars, Core
  <2>2. RateBound'
    BY <1>1, <2>1 DEF RateBound
  <2>3. Begun'
    BY <1>1, <2>1 DEF Begun, WindowOK
  <2>4. Over => Over'
    BY <2>1 DEF Over, WindowOK
  <2>5. ~Over' => Spent'
    BY <1>1, <1>4, <2>4, TickKeepsSpent
  <2>6. ~Over' => Kept'
    BY <1>1, <2>1, <2>4 DEF Kept
  <2> QED BY <1>2, <2>2, <2>3, <2>5, <2>6 DEF ShortInv, Core
<1>5. ASSUME NEW p \in Proc, NEW ip \in Ip, NEW now \in Int, NEW nb \in Buckets, NEW m \in Nat,
             Served(p, ip, now, nb, m)
      PROVE  ShortInv'
  BY <1>5, ServedKeepsShort
<1> QED BY <1>1, <1>3, <1>4, <1>5, StepServes

\* Whenever the lifetime of a bucket is long enough for it to fill up again, the
\* inductive invariant holds in every reachable state.
THEOREM Invariance == TTLCoversBurst => (Spec => []IInv)
<1> SUFFICES ASSUME TTLCoversBurst PROVE Spec => []IInv
  OBVIOUS
<1>1. IInv /\ [Next]_vars => IInv'
  BY StepInvariant
<1> QED BY <1>1, InitInvariant, PTL DEF Spec

\* Whatever the lifetime, its like holds for intervals that are shorter than it.
LEMMA ShortInvariance == WindowsWithinTTL => (Spec => []ShortInv)
<1> SUFFICES ASSUME WindowsWithinTTL PROVE Spec => []ShortInv
  OBVIOUS
<1>1. Init => ShortInv
  <2> SUFFICES ASSUME Init PROVE ShortInv
    OBVIOUS
  <2>1. IInv
    BY InitInvariant
  <2> QED BY <2>1 DEF IInv, ShortInv, Begun, Kept, Init
<1>2. ShortInv /\ [Next]_vars => ShortInv'
  BY ShortStep
<1> QED BY <1>1, <1>2, PTL DEF Spec

\* Then no address is ever admitted more than the burst and what the rate adds: over any
\* interval if a bucket is full again before it may be forgotten, and otherwise over every
\* interval that is shorter than its lifetime (ratelimit.go:36), although buckets are
\* forgotten and the times of requests reach them out of order.
THEOREM RateIsBounded == TTLCoversBurst \/ WindowsWithinTTL => (Spec => []RateBound)
<1>1. IInv => RateBound
  BY DEF IInv
<1>2. ShortInv => RateBound
  BY DEF ShortInv
<1>3. TTLCoversBurst => (Spec => []RateBound)
  BY <1>1, Invariance, PTL
<1>4. WindowsWithinTTL => (Spec => []RateBound)
  BY <1>2, ShortInvariance, PTL
<1> QED BY <1>3, <1>4

\* And every variable of the limiter keeps its type, whatever the lifetime: no bucket ever
\* holds more than the burst (ratelimit.go:56).
THEOREM TypeCorrect == Spec => []TypeOK
<1>1. Init => Core
  BY InitInvariant DEF IInv, Core
<1>2. Core => TypeOK
  BY DEF Core
<1> QED BY <1>1, <1>2, StepKeepsCore, PTL DEF Spec

-----------------------------------------------------------------------------
(* Memory.  That the lifetime lets buckets fill up is not needed for it.      *)

\* Calls have read the clock lately; a collection has left no bucket that was idle,
\* and none can have become idle since, for collections do not go back in time.
CallsAreRecent ==
  /\ clock \in 0..MaxTime
  /\ call \in [Proc -> Calls \cup {None}]
  /\ \A p \in Proc : call[p] # None => Sampled(call[p].now)

KeptByCollection ==
  /\ byIP \in [DOMAIN byIP -> Buckets]
  /\ lastGC = None => DOMAIN byIP = {}
  /\ lastGC # None => /\ lastGC \in Int /\ lastGC <= clock
                      /\ \A ip \in DOMAIN byIP : lastGC - byIP[ip].last <= TTL

MemoryInv == CallsAreRecent /\ KeptByCollection

\* A bucket used at time now is stored, and buckets are collected if it is time to.
LEMMA FinishForgets ==
  ASSUME MemoryInv, TTL > MaxDelay, NEW ip, NEW now, Sampled(now),
         NEW nb \in Buckets, nb.last = now, Finish(ip, nb, now), clock' = clock
  PROVE  /\ KeptByCollection'
         /\ \A i \in DOMAIN byIP' : now - byIP'[i].last < TTL + GcEvery
<1> DEFINE buckets == [i \in DOMAIN byIP \cup {ip} |-> IF i = ip THEN nb ELSE byIP[i]]
<1>1. /\ now \in Int /\ clock \in Int /\ now <= clock /\ clock - now <= MaxDelay
      /\ TTL \in Nat /\ TTL > 0 /\ MaxDelay \in Nat /\ now # None
  BY LimiterAssumption, NoneAssumption DEF Sampled, MemoryInv, CallsAreRecent
<1>2. GcEvery \in Nat /\ GcEvery > 0
  BY <1>1, LimiterAssumption DEF GcEvery
<1>3. PICK held : held = buckets
  OBVIOUS
<1>4. /\ DOMAIN held = DOMAIN byIP \cup {ip}
      /\ \A i \in DOMAIN held : /\ held[i] \in Buckets
                                /\ held[i] = nb \/ (i \in DOMAIN byIP /\ held[i] = byIP[i])
  BY <1>1, <1>3 DEF MemoryInv, KeptByCollection
<1>5. /\ lastGC' = GcTime(now)
      /\ byIP' = IF GcDue(now) THEN Collected(held, now) ELSE held
  BY <1>3 DEF Finish
<1> HIDE DEF buckets
<1>6. CASE GcDue(now)
  <2>1. byIP' = Collected(held, now) /\ lastGC' = now
    BY <1>5, <1>6 DEF GcTime
  <2>2. \A i \in DOMAIN byIP' : i \in DOMAIN held /\ byIP'[i] = held[i] /\ ~Idle(held[i], now)
    BY <2>1 DEF Collected
  <2>3. \A i \in DOMAIN byIP' : byIP'[i] \in Buckets /\ now - byIP'[i].last <= TTL
    <3> SUFFICES ASSUME NEW i \in DOMAIN byIP'
                 PROVE  byIP'[i] \in Buckets /\ now - byIP'[i].last <= TTL
      OBVIOUS
    <3>1. PICK b \in Buckets : b = byIP'[i] /\ ~Idle(b, now)
      BY <1>4, <2>2
    <3>2. b.last \in Int
      BY LimiterAssumption DEF Buckets
    <3> QED BY <1>1, <3>1, <3>2 DEF Idle
  <2>4. byIP' \in [DOMAIN byIP' -> Buckets]
    BY <2>1, <2>3 DEF Collected
  <2> QED BY <1>1, <1>2, <2>1, <2>3, <2>4, LimiterAssumption, SMTT(30) DEF KeptByCollection, Buckets
<1>7. CASE ~GcDue(now)
  <2>1. /\ byIP' = held /\ lastGC' = lastGC
        /\ lastGC # None /\ lastGC \in Int /\ lastGC <= clock /\ now - lastGC < GcEvery
    BY <1>1, <1>2, <1>5, <1>7 DEF GcTime, GcDue, MemoryInv, KeptByCollection
  <2>2. \A i \in DOMAIN held : /\ lastGC - held[i].last <= TTL
                               /\ now - held[i].last < TTL + GcEvery
    <3> SUFFICES ASSUME NEW i \in DOMAIN held
                 PROVE  /\ lastGC - held[i].last <= TTL
                        /\ now - held[i].last < TTL + GcEvery
      OBVIOUS
    <3>1. PICK b \in Buckets : b = held[i] /\ (b = nb \/ (i \in DOMAIN byIP /\ b = byIP[i]))
      BY <1>4
    <3>2. b.last \in Int
      BY LimiterAssumption DEF Buckets
    <3>3. lastGC - b.last <= TTL
      <4>1. CASE b = nb
        BY <1>1, <2>1, <4>1
      <4>2. CASE i \in DOMAIN byIP /\ b = byIP[i]
        BY <2>1, <4>2 DEF MemoryInv, KeptByCollection
      <4> QED BY <3>1, <4>1, <4>2
    <3> QED BY <1>1, <1>2, <2>1, <3>1, <3>2, <3>3
  <2>3. held \in [DOMAIN held -> Buckets]
    BY <1>3, <1>4 DEF buckets
  <2> QED BY <1>1, <2>1, <2>2, <2>3 DEF KeptByCollection
<1> QED BY <1>6, <1>7

\* Whatever it answers, a call ends by storing the bucket it has used.
LEMMA CallForgets ==
  ASSUME MemoryInv, TTL > MaxDelay, NEW p \in Proc,
         AllowNew(p) \/ AllowSpend(p) \/ AllowRefuse(p)
  PROVE  /\ MemoryInv'
         /\ \A i \in DOMAIN byIP' : call[p].now - byIP'[i].last < TTL + GcEvery
         /\ \A q \in Proc : call[q] # None /\ call'[q] = None => q = p
<1>1. /\ call[p] # None /\ UNCHANGED clock
      /\ call' = [call EXCEPT ![p] = None]
  BY DEF AllowNew, AllowSpend, AllowRefuse, Reply
<1>2. Sampled(call[p].now)
  BY <1>1 DEF MemoryInv, CallsAreRecent
<1>3. PICK nb \in Buckets : nb.last = call[p].now /\ Finish(call[p].ip, nb, call[p].now)
  <2> DEFINE b == byIP[call[p].ip]
             now == call[p].now
  <2>1. \A t \in Int : t <= Burst => [tokens |-> t, last |-> now] \in Buckets
    BY <1>2 DEF Buckets, Sampled
  <2>2. CASE AllowNew(p)
    <3>1. FreshTokens \in Int /\ FreshTokens <= Burst
      BY Parameters DEF FreshTokens
    <3> QED BY <2>1, <2>2, <3>1 DEF AllowNew
  <2>3. CASE AllowSpend(p)
    <3>1. b \in Buckets
      BY <2>3 DEF AllowSpend, MemoryInv, KeptByCollection
    <3>2. Refilled(b, now) - Cost \in Int /\ Refilled(b, now) - Cost <= Burst
      BY <1>2, <3>1, RefillBalance, Parameters DEF Sampled
    <3> QED BY <2>1, <2>3, <3>2 DEF AllowSpend
  <2>4. CASE AllowRefuse(p)
    <3>1. b \in Buckets
      BY <2>4 DEF AllowRefuse, MemoryInv, KeptByCollection
    <3>2. Refilled(b, now) \in Int /\ Refilled(b, now) <= Burst
      BY <1>2, <3>1, RefillBalance DEF Sampled
    <3> QED BY <2>1, <2>4, <3>2 DEF AllowRefuse, RefusedBucket
  <2> QED BY <2>2, <2>3, <2>4
<1>4. /\ KeptByCollection'
      /\ \A i \in DOMAIN byIP' : call[p].now - byIP'[i].last < TTL + GcEvery
  BY <1>1, <1>2, <1>3, FinishForgets
<1>5. CallsAreRecent'
  BY <1>1 DEF MemoryInv, CallsAreRecent, Sampled
<1>6. \A q \in Proc : call[q] # None /\ call'[q] = None => q = p
  BY <1>1 DEF MemoryInv, CallsAreRecent
<1> QED BY <1>4, <1>5, <1>6 DEF MemoryInv

LEMMA MemoryStep ==
  ASSUME MemoryInv, TTL > MaxDelay, [Next]_vars
  PROVE  /\ MemoryInv'
         /\ \A p \in Proc : call[p] # None /\ call'[p] = None =>
              \A ip \in DOMAIN byIP' : call[p].now - byIP'[ip].last < TTL + GcEvery
<1>1. CASE UNCHANGED vars
  BY <1>1 DEF vars, limiterVars, MemoryInv, CallsAreRecent, KeptByCollection, Sampled
<1>2. CASE Tick
  <2>1. /\ clock \in Int /\ clock' = clock + 1 /\ clock' \in 0..MaxTime
        /\ UNCHANGED <<byIP, lastGC, call>>
    BY <1>2, LimiterAssumption DEF Tick, limiterVars, MemoryInv, CallsAreRecent
  <2>2. CallsAreRecent'
    <3> SUFFICES ASSUME NEW p \in Proc, call[p] # None
                 PROVE  /\ call[p].now \in 0..MaxTime /\ call[p].now <= clock + 1
                        /\ (clock + 1) - call[p].now <= MaxDelay
      BY <2>1 DEF CallsAreRecent, MemoryInv, Sampled
    <3>1. Sampled(call[p].now) /\ clock - call[p].now < MaxDelay
      BY <1>2 DEF Tick, MemoryInv, CallsAreRecent
    <3> QED BY <2>1, <3>1, LimiterAssumption DEF Sampled
  <2>3. KeptByCollection'
    BY <2>1 DEF MemoryInv, KeptByCollection
  <2> QED BY <2>1, <2>2, <2>3 DEF MemoryInv
<1>3. ASSUME NEW p \in Proc, NEW ip \in Ip, Sample(p, ip)
      PROVE  /\ MemoryInv'
             /\ \A q \in Proc : ~(call[q] # None /\ call'[q] = None)
  <2>1. /\ call[p] = None /\ call' = [call EXCEPT ![p] = [ip |-> ip, now |-> clock]]
        /\ UNCHANGED <<clock, byIP, lastGC>>
    BY <1>3 DEF Sample, limiterVars
  <2>2. [ip |-> ip, now |-> clock] \in Calls /\ Sampled(clock)
    BY LimiterAssumption DEF Calls, Sampled, MemoryInv, CallsAreRecent
  <2>3. CallsAreRecent'
    BY <2>1, <2>2 DEF MemoryInv, CallsAreRecent, Sampled
  <2>4. KeptByCollection'
    BY <2>1 DEF MemoryInv, KeptByCollection
  <2>5. \A q \in Proc : ~(call[q] # None /\ call'[q] = None)
    BY <2>1, <2>2, NoneAssumption DEF MemoryInv, CallsAreRecent
  <2> QED BY <2>3, <2>4, <2>5 DEF MemoryInv
<1>4. ASSUME NEW p \in Proc, AllowNew(p) \/ AllowSpend(p) \/ AllowRefuse(p)
      PROVE  /\ MemoryInv'
             /\ \A q \in Proc : call[q] # None /\ call'[q] = None =>
                  \A ip \in DOMAIN byIP' : call[q].now - byIP'[ip].last < TTL + GcEvery
  BY <1>4, CallForgets
<1> QED BY <1>1, <1>2, <1>3, <1>4 DEF Next, Tick

\* No bucket is kept after its address has been silent for the lifetime and one pause
\* between collections, whatever else is asked of the limiter, in any order.
THEOREM IdleBucketsForgotten == Spec => IdleForgotten
<1>1. CASE TTL > MaxDelay
  <2>1. Init => MemoryInv
    BY LimiterAssumption DEF Init, MemoryInv, CallsAreRecent, KeptByCollection
  <2>2. MemoryInv /\ [Next]_vars => MemoryInv'
    BY <1>1, MemoryStep
  <2>3. MemoryInv /\ [Next]_vars =>
          [\A p \in Proc : call[p] # None /\ call'[p] = None /\ TTL > MaxDelay =>
             \A ip \in DOMAIN byIP' : call[p].now - byIP'[ip].last < TTL + GcEvery]_vars
    BY <1>1, MemoryStep
  <2> QED BY <2>1, <2>2, <2>3, PTL DEF Spec, IdleForgotten
<1>2. CASE ~(TTL > MaxDelay)
  <2>1. [Next]_vars =>
          [\A p \in Proc : call[p] # None /\ call'[p] = None /\ TTL > MaxDelay =>
             \A ip \in DOMAIN byIP' : call[p].now - byIP'[ip].last < TTL + GcEvery]_vars
    BY <1>2
  <2> QED BY <2>1, PTL DEF Spec, IdleForgotten
<1> QED BY <1>1, <1>2

-----------------------------------------------------------------------------
(* The ideal token bucket.                                                  *)

\* What the ideal bucket of an address holds at time t.
LevelAt(buckets, ip, t) == IF ip \in DOMAIN buckets THEN Refilled(buckets[ip], t) ELSE Burst

\* A lazy refill is worth the ticks it stands for.
LEMMA LazyRefill ==
  ASSUME NEW b \in Buckets, NEW t \in Int
  PROVE  /\ Refilled(b, t) \in Int
         /\ Refilled(b, t + 1) = IF Refilled(b, t) + Rate < Burst THEN Refilled(b, t) + Rate
                                                                 ELSE Burst
<1>1. b.tokens \in Int /\ b.last \in Int
  BY LimiterAssumption DEF Buckets
<1>2. PICK x \in Int : x = (t - b.last) * Rate
  BY <1>1, Parameters
<1>3. ((t + 1) - b.last) * Rate = x + Rate
  <2>1. PICK l \in Int, u \in Int : l = b.last /\ u = t + 1 /\ x = (t - l) * Rate
    BY <1>1, <1>2
  <2>2. /\ (u - l) * Rate = Rate * u - Rate * l
        /\ (t - l) * Rate = Rate * t - Rate * l
        /\ Rate * u \in Int /\ Rate * l \in Int /\ Rate * t \in Int
    BY RateDistributes
  <2>3. Rate * u = Rate * t + Rate
    BY <2>1, RateOfTick
  <2>4. (u - l) * Rate = x + Rate
    BY <2>1, <2>2, <2>3, Parameters
  <2> QED BY <2>1, <2>4
<1>4. Rate \in Nat /\ Rate > 0 /\ Burst \in Nat
  BY Parameters
<1>5. /\ Refilled(b, t) = IF b.tokens + x > Burst THEN Burst ELSE b.tokens + x
      /\ Refilled(b, t + 1) = IF b.tokens + (x + Rate) > Burst THEN Burst ELSE b.tokens + (x + Rate)
  BY <1>2, <1>3, Zenon DEF Refilled
<1> QED BY <1>1, <1>4, <1>5

\* A bucket that may be forgotten is full.
LEMMA IdleIsFull ==
  ASSUME TTLCoversBurst, TTL > 0, NEW b \in Buckets, Sound(b), Idle(b, clock), clock \in Nat
  PROVE  Refilled(b, clock) = Burst
<1>1. /\ b.tokens \in Int /\ b.last \in Int /\ clock \in Int /\ b.tokens <= Burst
      /\ TTL \in Nat /\ MaxDelay \in Nat /\ Burst \in Nat
  BY LimiterAssumption, Parameters DEF Buckets
<1>2. /\ TTL - 2 * MaxDelay <= (clock - b.last) - MaxDelay
      /\ TTL - 2 * MaxDelay \in Int /\ (clock - b.last) - MaxDelay \in Int
  BY <1>1 DEF Idle
<1>3. /\ Rate * (TTL - 2 * MaxDelay) <= Rate * ((clock - b.last) - MaxDelay)
      /\ Rate * (TTL - 2 * MaxDelay) \in Int
      /\ Rate * ((clock - b.last) - MaxDelay) \in Int
  BY <1>2, RateMonotone
<1>4. /\ Rate * ((clock - b.last) - MaxDelay) = Rate * (clock - b.last) - Rate * MaxDelay
      /\ Rate * (clock - b.last) \in Int /\ Rate * MaxDelay \in Int
      /\ Rate * (b.last + MaxDelay) = Rate * b.last + Rate * MaxDelay
      /\ Rate * b.last \in Int
  <2>1. PICK d \in Int, l \in Int : d = clock - b.last /\ l = b.last
    BY <1>1
  <2>2. MaxDelay \in Int
    BY <1>1
  <2>3. Rate * (d - MaxDelay) = Rate * d - Rate * MaxDelay
    BY <2>2, RateDistributes
  <2>4. /\ Rate * (l + MaxDelay) = Rate * l + Rate * MaxDelay
        /\ Rate * l \in Int /\ Rate * MaxDelay \in Int
    BY <2>2, RateDistributes
  <2>5. Rate * d \in Int
    BY RateMonotone
  <2> QED BY <2>1, <2>3, <2>4, <2>5
<1>5. b.tokens >= -(Rate * MaxDelay)
  BY <1>1, <1>4 DEF Sound, Balance
<1>6. (clock - b.last) * Rate = Rate * (clock - b.last)
  <2>1. PICK d \in Int : d = clock - b.last
    BY <1>1
  <2>2. d * Rate = Rate * d
    BY Parameters
  <2> QED BY <2>1, <2>2
<1>7. Burst <= Rate * (TTL - 2 * MaxDelay)
  BY <1>1, <1>3 DEF TTLCoversBurst
<1>8. PICK x \in Int : x = (clock - b.last) * Rate /\ b.tokens + x >= Burst
  BY <1>1, <1>3, <1>4, <1>5, <1>6, <1>7
<1> QED BY <1>1, <1>8 DEF Refilled

\* A call that has just read the time changes the level of its own address alone:
\* what it stores is up to date, and what it forgets was full.
LEMMA LevelsAfterCall ==
  ASSUME IInv, TTLCoversBurst, NEW ip \in Ip, NEW t \in Int, t <= Burst,
         Finish(ip, [tokens |-> t, last |-> clock], clock), clock' = clock, NEW i \in Ip
  PROVE  LevelAt(byIP', i, clock') = IF i = ip THEN t ELSE LevelAt(byIP, i, clock)
<1>1. /\ clock \in Nat /\ clock \in Int /\ byIP \in [DOMAIN byIP -> Buckets]
      /\ TTL \in Nat /\ clock \in 0..MaxTime
  BY LimiterAssumption DEF IInv, TypeOK
<1>2. PICK nb : nb = [tokens |-> t, last |-> clock]
  OBVIOUS
<1>3. PICK held : held = [j \in DOMAIN byIP \cup {ip} |-> IF j = ip THEN nb ELSE byIP[j]]
  OBVIOUS
<1>4. byIP' = IF GcDue(clock) THEN Collected(held, clock) ELSE held
  BY <1>2, <1>3 DEF Finish
<1>5. /\ nb \in Buckets /\ ~Idle(nb, clock) /\ Refilled(nb, clock) = t
  <2>1. nb.tokens = t /\ nb.last = clock /\ nb \in Buckets
    BY <1>1, <1>2 DEF Buckets
  <2>2. clock - clock = 0 /\ 0 * Rate = 0
    BY <1>1, Parameters
  <2>3. t + 0 = t
    OBVIOUS
  <2>4. Refilled(nb, clock) = t
    BY <2>1, <2>2, <2>3, Parameters DEF Refilled
  <2>5. ~Idle(nb, clock)
    BY <1>1, <2>1, <2>2 DEF Idle
  <2> QED BY <2>1, <2>4, <2>5
<1>6. LevelAt(held, i, clock) = IF i = ip THEN t ELSE LevelAt(byIP, i, clock)
  <2>1. CASE i = ip
    <3>1. i \in DOMAIN held /\ held[i] = nb
      BY <1>3, <2>1
    <3> QED BY <1>5, <2>1, <3>1 DEF LevelAt
  <2>2. CASE i # ip
    <3>1. i \in DOMAIN held <=> i \in DOMAIN byIP
      BY <1>3, <2>2
    <3>2. i \in DOMAIN held => held[i] = byIP[i]
      BY <1>3, <2>2
    <3> QED BY <2>2, <3>1, <3>2 DEF LevelAt
  <2> QED BY <2>1, <2>2
<1>7. CASE ~GcDue(clock)
  BY <1>4, <1>6, <1>7
<1>8. CASE GcDue(clock)
  <2>1. byIP' = [j \in {k \in DOMAIN held : ~Idle(held[k], clock)} |-> held[j]] /\ TTL > 0
    BY <1>4, <1>8 DEF Collected, GcDue
  <2>2. CASE i \in DOMAIN byIP'
    <3>1. i \in DOMAIN held /\ byIP'[i] = held[i]
      BY <2>1, <2>2
    <3> QED BY <1>6, <2>2, <3>1 DEF LevelAt
  <2>3. CASE i \notin DOMAIN byIP' /\ i \notin DOMAIN held
    BY <1>6, <2>3 DEF LevelAt
  <2>4. CASE i \notin DOMAIN byIP' /\ i \in DOMAIN held
    <3>1. Idle(held[i], clock)
      BY <2>1, <2>4
    <3>2. i # ip /\ i \in DOMAIN byIP /\ held[i] = byIP[i]
      BY <1>3, <1>5, <2>4, <3>1
    <3>3. byIP[i] \in Buckets /\ Sound(byIP[i])
      BY <1>1, <3>2 DEF IInv, NotOverdrawn
    <3>4. Refilled(byIP[i], clock) = Burst
      BY <1>1, <2>1, <3>1, <3>2, <3>3, IdleIsFull
    <3> QED BY <2>4, <3>2, <3>4 DEF LevelAt
  <2> QED BY <2>2, <2>3, <2>4
<1> QED BY <1>7, <1>8

LEMMA IdealTick ==
  ASSUME IInv, Tick
  PROVE  Ideal!Tick
<1>1. /\ clock \in Int /\ clock < MaxTime /\ clock' = clock + 1
      /\ UNCHANGED <<byIP, call, answer>> /\ byIP \in [DOMAIN byIP -> Buckets]
  BY LimiterAssumption DEF IInv, TypeOK, Tick, limiterVars
<1>2. ASSUME NEW ip \in Ip
      PROVE  LevelAt(byIP', ip, clock') = IF LevelAt(byIP, ip, clock) + Rate < Burst
                                          THEN LevelAt(byIP, ip, clock) + Rate ELSE Burst
  <2>1. CASE ip \in DOMAIN byIP
    <3>1. PICK b \in Buckets : b = byIP[ip]
      BY <1>1, <2>1
    <3> QED BY <1>1, <2>1, <3>1, LazyRefill DEF LevelAt
  <2>2. CASE ip \notin DOMAIN byIP
    BY <1>1, <2>2, Parameters DEF LevelAt
  <2> QED BY <2>1, <2>2
<1> QED BY <1>1, <1>2 DEF Ideal!Tick, LevelAt

LEMMA IdealAsk ==
  ASSUME IInv, NEW p \in Proc, NEW ip \in Ip, Sample(p, ip)
  PROVE  Ideal!Ask(p, ip)
<1>1. /\ call[p] = None /\ call' = [call EXCEPT ![p] = [ip |-> ip, now |-> clock]]
      /\ answer' = [answer EXCEPT ![p] = None] /\ UNCHANGED <<clock, byIP>>
      /\ call \in [Proc -> Calls \cup {None}]
  BY DEF IInv, TypeOK, Sample, limiterVars
<1>2. [ip |-> ip, now |-> clock] \in Calls
  BY DEF IInv, TypeOK, Calls
<1>3. [ip |-> ip, now |-> clock] # None
  BY <1>2, NoneAssumption
<1>4. [q \in Proc |-> IF call'[q] = None THEN None ELSE call'[q].ip]
        = [[q \in Proc |-> IF call[q] = None THEN None ELSE call[q].ip] EXCEPT ![p] = ip]
  <2>1. ASSUME NEW q \in Proc
        PROVE  call'[q] = IF q = p THEN [ip |-> ip, now |-> clock] ELSE call[q]
    BY <1>1
  <2>2. /\ call'[p] # None /\ call'[p].ip = ip
        /\ \A q \in Proc \ {p} : call'[q] = call[q]
    BY <1>3, <2>1
  <2> QED BY <2>2
<1> QED BY <1>1, <1>4 DEF Ideal!Ask

\* A call of p ends with answer a and leaves t in the bucket of its address.
LEMMA IdealReply ==
  ASSUME IInv, TTLCoversBurst, NEW p \in Proc, call[p] # None, call[p].now = clock,
         NEW t \in Int, t <= Burst, Finish(call[p].ip, [tokens |-> t, last |-> clock], clock),
         NEW a, Reply(p, a), clock' = clock
  PROVE  /\ Ideal!Reply(p, a)
         /\ \A i \in Ip : LevelAt(byIP', i, clock') =
              IF i = call[p].ip THEN t ELSE LevelAt(byIP, i, clock)
<1>1. call[p].ip \in Ip /\ call \in [Proc -> Calls \cup {None}]
  BY OfCall DEF IInv, TypeOK
<1>2. \A i \in Ip : LevelAt(byIP', i, clock') =
        IF i = call[p].ip THEN t ELSE LevelAt(byIP, i, clock)
  BY <1>1, LevelsAfterCall
<1>3. [q \in Proc |-> IF call'[q] = None THEN None ELSE call'[q].ip]
        = [[q \in Proc |-> IF call[q] = None THEN None ELSE call[q].ip] EXCEPT ![p] = None]
  BY <1>1 DEF Reply
<1> QED BY <1>2, <1>3 DEF Ideal!Reply, Reply

LEMMA IdealNew ==
  ASSUME IInv, TTLCoversBurst, NEW p \in Proc, AllowNew(p), call[p].now = clock
  PROVE  Ideal!Admit(p)
<1>1. PICK ip \in Ip : ip = call[p].ip /\ ip # None
  BY OfCall, NoneAssumption DEF AllowNew
<1>2. FreshTokens \in Int /\ FreshTokens <= Burst /\ FreshTokens = Burst - Cost /\ Burst >= Cost
  BY Parameters DEF FreshTokens
<1>3. /\ call[p] # None /\ ip \notin DOMAIN byIP
      /\ Finish(ip, [tokens |-> FreshTokens, last |-> clock], clock)
      /\ Reply(p, "allowed") /\ clock' = clock
  BY <1>1 DEF AllowNew
<1>4. /\ Ideal!Reply(p, "allowed")
      /\ \A i \in Ip : LevelAt(byIP', i, clock') =
           IF i = ip THEN FreshTokens ELSE LevelAt(byIP, i, clock)
  BY <1>1, <1>2, <1>3, IdealReply
<1>5. LevelAt(byIP, ip, clock) = Burst
  BY <1>3 DEF LevelAt
<1> QED BY <1>1, <1>2, <1>3, <1>4, <1>5 DEF Ideal!Admit, LevelAt

LEMMA IdealSpend ==
  ASSUME IInv, TTLCoversBurst, NEW p \in Proc, AllowSpend(p), call[p].now = clock
  PROVE  Ideal!Admit(p)
<1>1. PICK ip \in Ip : ip = call[p].ip /\ ip # None
  BY OfCall, NoneAssumption DEF AllowSpend
<1>2. /\ call[p] # None /\ ip \in DOMAIN byIP /\ byIP[ip] \in Buckets
      /\ Refilled(byIP[ip], clock) >= Cost
      /\ Finish(ip, [tokens |-> Refilled(byIP[ip], clock) - Cost, last |-> clock], clock)
      /\ Reply(p, "allowed") /\ clock' = clock
  BY <1>1 DEF AllowSpend, IInv, TypeOK
<1>3. PICK r \in Int : r = Refilled(byIP[ip], clock) /\ r <= Burst
  BY <1>2, RefillBalance DEF IInv, TypeOK
<1>4. r - Cost \in Int /\ r - Cost <= Burst
  BY <1>3, Parameters
<1>5. /\ Ideal!Reply(p, "allowed")
      /\ \A i \in Ip : LevelAt(byIP', i, clock') =
           IF i = ip THEN r - Cost ELSE LevelAt(byIP, i, clock)
  BY <1>1, <1>2, <1>3, <1>4, IdealReply
<1>6. LevelAt(byIP, ip, clock) = r
  BY <1>2, <1>3 DEF LevelAt
<1> QED BY <1>1, <1>2, <1>3, <1>5, <1>6 DEF Ideal!Admit, LevelAt

LEMMA IdealRefuse ==
  ASSUME IInv, TTLCoversBurst, NEW p \in Proc, AllowRefuse(p), call[p].now = clock
  PROVE  Ideal!Refuse(p)
<1>1. PICK ip \in Ip : ip = call[p].ip /\ ip # None
  BY OfCall, NoneAssumption DEF AllowRefuse
<1>2. /\ call[p] # None /\ ip \in DOMAIN byIP /\ byIP[ip] \in Buckets
      /\ Refilled(byIP[ip], clock) < Cost
      /\ Finish(ip, [tokens |-> Refilled(byIP[ip], clock), last |-> clock], clock)
      /\ Reply(p, "refused") /\ clock' = clock
  BY <1>1 DEF AllowRefuse, RefusedBucket, IInv, TypeOK
<1>3. PICK r \in Int : r = Refilled(byIP[ip], clock) /\ r <= Burst
  BY <1>2, RefillBalance DEF IInv, TypeOK
<1>4. /\ Ideal!Reply(p, "refused")
      /\ \A i \in Ip : LevelAt(byIP', i, clock') =
           IF i = ip THEN r ELSE LevelAt(byIP, i, clock)
  BY <1>1, <1>2, <1>3, IdealReply
<1>5. LevelAt(byIP, ip, clock) = r
  BY <1>2, <1>3 DEF LevelAt
<1> QED BY <1>1, <1>2, <1>3, <1>4, <1>5 DEF Ideal!Refuse, LevelAt

\* Only the calls that wait for the mutex while time passes differ from the ideal.
LEMMA IdealStep ==
  ASSUME IInv, TTLCoversBurst, Next, ~Overtaken
  PROVE  Ideal!Next
<1>1. CASE Tick
  BY <1>1, IdealTick DEF Ideal!Next
<1>2. ASSUME NEW p \in Proc, NEW ip \in Ip, Sample(p, ip) PROVE Ideal!Next
  BY <1>2, IdealAsk DEF Ideal!Next
<1>3. ASSUME NEW p \in Proc, AllowNew(p) \/ AllowSpend(p) \/ AllowRefuse(p) PROVE Ideal!Next
  <2>1. call[p] # None /\ call'[p] = None
    BY <1>3 DEF AllowNew, AllowSpend, AllowRefuse, Reply, IInv, TypeOK
  <2>2. call[p].now = clock
    BY <2>1 DEF Overtaken
  <2>3. Ideal!Admit(p) \/ Ideal!Refuse(p)
    BY <1>3, <2>2, IdealNew, IdealSpend, IdealRefuse
  <2> QED BY <2>3 DEF Ideal!Next
<1> QED BY <1>1, <1>2, <1>3 DEF Next

\* For every rate, burst and lifetime with TTLCoversBurst, a call that is not overtaken
\* is answered as the token bucket that CONFIG.md describes would answer it.
THEOREM UndelayedCallsAreIdeal == TTLCoversBurst => (Spec => UndelayedIsIdeal)
<1> SUFFICES ASSUME TTLCoversBurst PROVE Spec => UndelayedIsIdeal
  OBVIOUS
<1>1. IInv /\ [Next]_vars => [~Overtaken => [Ideal!Next]_(Ideal!bucketVars)]_vars
  BY IdealStep
<1>2. Spec => []IInv
  BY Invariance
<1> QED BY <1>1, <1>2, PTL DEF Spec, UndelayedIsIdeal

-----------------------------------------------------------------------------
(* The address of a request.                                                *)

\* A request is counted under one of the texts.
LEMMA ClientIPType == ASSUME NEW conn \in Connections PROVE ClientIP(conn) \in Ip
<1>1. /\ conn.peer \in Ip /\ conn.forwarded \in Seq(Ip) /\ conn.realIP \in Ip \cup {None}
  BY AddressAssumption
<1>2. Printed(conn.peer) \in Ip
  BY <1>1, AddressAssumption DEF Printed
<1>3. Claimed(conn) \in Ip \cup {None}
  <2>1. FirstForwarded(conn.forwarded) \subseteq Ip
    <3>1. \A k \in DOMAIN conn.forwarded : conn.forwarded[k] \in Ip
      BY <1>1
    <3> QED BY <3>1, AddressAssumption DEF FirstForwarded
  <2> QED BY <1>1, <2>1, AddressAssumption DEF Claimed
<1> QED BY <1>2, <1>3 DEF ClientIP

\* A peer that is no trusted proxy is counted under its own address.
LEMMA OwnAddress ==
  ASSUME NEW conn \in Connections, Printed(conn.peer) \in Peers
  PROVE  ClientIP(conn) = Printed(conn.peer)
<1>1. Printed(conn.peer) \notin Trusted
  BY DEF Peers
<1>2. ~IsTrustedProxy(conn.peer)
  BY <1>1 DEF IsTrustedProxy, Printed
<1> QED BY <1>2 DEF ClientIP

-----------------------------------------------------------------------------
(* The gate is the limiter with a history.                                  *)

LEMMA GateStepIsLimiterStep == [GateNext]_gateVars => [Next]_vars
<1>1. ASSUME NEW p \in Proc, Arrive(p) PROVE Next
  BY <1>1, ClientIPType DEF Arrive, Next
<1>2. ASSUME NEW p \in Proc, Admit(p) PROVE Next
  BY <1>2 DEF Admit, Next
<1>3. ASSUME NEW p \in Proc, Refuse(p) PROVE Next
  BY <1>3 DEF Refuse, Next
<1>4. ASSUME Later PROVE Next
  BY <1>4 DEF Later, Next
<1>5. UNCHANGED gateVars => UNCHANGED vars
  BY DEF gateVars
<1> QED BY <1>1, <1>2, <1>3, <1>4, <1>5 DEF GateNext

\* Every behaviour of the gate is one of the limiter, which therefore keeps all
\* that is proved of it.
THEOREM GateIsLimiter == GateSpec => Spec
<1>1. GateInit => Init
  BY DEF GateInit
<1> QED BY <1>1, GateStepIsLimiterStep, PTL DEF GateSpec, Spec

-----------------------------------------------------------------------------
(* The invariant.                                                           *)

LEMMA GateInitInv == GateInit => GateInv
<1> SUFFICES ASSUME GateInit PROVE GateInv
  OBVIOUS
<1>1. None \notin Peers
  BY AddressAssumption, NoneAssumption DEF Peers, Printed
<1>2. \A a \in Peers : a \in Ip
  BY AddressAssumption DEF Peers, Printed
<1> QED BY <1>1, <1>2 DEF GateInit, Init, GateInv, OwnBucket, CountedOnce

LEMMA ArriveStep ==
  ASSUME TypeOK, GateInv, NEW p \in Proc, Arrive(p)
  PROVE  GateInv'
<1>1. PICK conn \in Connections :
        /\ Sample(p, ClientIP(conn))
        /\ peer' = [peer EXCEPT ![p] = Printed(conn.peer)]
        /\ UNCHANGED fromPeer
  BY DEF Arrive
<1>2. Printed(conn.peer) \in Ip
  BY AddressAssumption DEF Printed
<1>3. /\ peer' \in [Proc -> Ip \cup {None}]
      /\ fromPeer' \in [Peers -> Nat]
      /\ CountedOnce'
  BY <1>1, <1>2 DEF GateInv, CountedOnce, Sample
<1>4. OwnBucket'
  <2> SUFFICES ASSUME NEW q \in Proc, peer'[q] \in Peers
               PROVE  call'[q] # None /\ call'[q].ip = peer'[q]
    BY DEF OwnBucket
  <2>1. CASE q = p
    <3>1. call'[p] = [ip |-> ClientIP(conn), now |-> clock] /\ peer'[p] = Printed(conn.peer)
      BY <1>1 DEF Sample, TypeOK, GateInv
    <3>2. ClientIP(conn) = Printed(conn.peer)
      BY <2>1, <3>1, OwnAddress
    <3>3. call'[p] \in Calls
      BY <3>1, ClientIPType DEF Calls, TypeOK
    <3> QED BY <2>1, <3>1, <3>2, <3>3, NoneAssumption
  <2>2. CASE q # p
    BY <1>1, <2>2 DEF GateInv, OwnBucket, Sample, TypeOK
  <2> QED BY <2>1, <2>2
<1> QED BY <1>3, <1>4 DEF GateInv

\* The end of a call: whose place is free belongs to no peer.
LEMMA ReplyKeepsOwnBucket ==
  ASSUME TypeOK, GateInv, NEW p \in Proc, NEW a, Reply(p, a),
         peer' = [peer EXCEPT ![p] = None]
  PROVE  peer' \in [Proc -> Ip \cup {None}] /\ OwnBucket'
<1>1. None \notin Peers
  BY AddressAssumption, NoneAssumption DEF Peers, Printed
<1> QED BY <1>1 DEF Reply, GateInv, OwnBucket, TypeOK

LEMMA AdmitStep ==
  ASSUME TypeOK, GateInv, NEW p \in Proc, Admit(p)
  PROVE  GateInv'
<1>1. /\ call[p] # None /\ CountAdmission(call[p].ip, call[p].now)
      /\ Reply(p, "allowed")
      /\ peer' = [peer EXCEPT ![p] = None]
      /\ fromPeer' = IF peer[p] \in Peers /\ InWindow(call[p].now)
                     THEN [fromPeer EXCEPT ![peer[p]] = @ + 1] ELSE fromPeer
  BY DEF Admit, AllowNew, AllowSpend
<1>2. fromPeer' \in [Peers -> Nat]
  BY <1>1 DEF GateInv
<1>3. CountedOnce'
  <2> SUFFICES ASSUME NEW a \in Peers PROVE fromPeer'[a] <= admitted'[a]
    BY DEF CountedOnce
  <2>1. a \in Ip
    BY AddressAssumption DEF Peers, Printed
  <2>2. fromPeer[a] \in Nat /\ admitted[a] \in Nat /\ fromPeer[a] <= admitted[a]
    BY <2>1 DEF GateInv, CountedOnce, TypeOK
  <2>3. admitted'[a] \in Nat /\ admitted'[a] >= admitted[a]
    BY <1>1, <2>1, <2>2 DEF CountAdmission, TypeOK
  <2>4. CASE peer[p] = a /\ InWindow(call[p].now)
    <3>1. call[p].ip = a
      BY <2>4 DEF GateInv, OwnBucket
    <3>2. fromPeer'[a] = fromPeer[a] + 1
      BY <1>1, <2>4 DEF GateInv
    <3>3. admitted'[a] = admitted[a] + 1
      BY <1>1, <2>1, <2>4, <3>1 DEF CountAdmission, TypeOK
    <3> QED BY <2>2, <3>2, <3>3
  <2>5. CASE ~(peer[p] = a /\ InWindow(call[p].now))
    <3>1. fromPeer'[a] = fromPeer[a]
      BY <1>1, <2>5 DEF GateInv
    <3> QED BY <2>2, <2>3, <3>1
  <2> QED BY <2>4, <2>5
<1> QED BY <1>1, <1>2, <1>3, ReplyKeepsOwnBucket DEF GateInv

LEMMA RefuseStep ==
  ASSUME TypeOK, GateInv, NEW p \in Proc, Refuse(p)
  PROVE  GateInv'
<1>1. Reply(p, "refused") /\ UNCHANGED <<admitted, fromPeer>>
      /\ peer' = [peer EXCEPT ![p] = None]
  BY DEF Refuse, AllowRefuse
<1> QED BY <1>1, ReplyKeepsOwnBucket DEF GateInv, CountedOnce

LEMMA GateStepInv == TypeOK /\ GateInv /\ [GateNext]_gateVars => GateInv'
<1> SUFFICES ASSUME TypeOK, GateInv, [GateNext]_gateVars PROVE GateInv'
  OBVIOUS
<1>1. CASE UNCHANGED gateVars
  BY <1>1 DEF gateVars, vars, GateInv, OwnBucket, CountedOnce
<1>2. CASE Later
  BY <1>2 DEF Later, Tick, GateInv, OwnBucket, CountedOnce
<1> QED BY <1>1, <1>2, ArriveStep, AdmitStep, RefuseStep DEF GateNext

\* A peer that is no trusted proxy is admitted at most the burst and the rate, whatever the
\* headers it sends and the form of its address (server.go's clientIP): for every set of
\* trusted proxies and every reading of texts as addresses; over any interval if a bucket is
\* full again before it may be forgotten, and otherwise over those shorter than its lifetime.
THEOREM PeersAreBounded ==
  TTLCoversBurst \/ WindowsWithinTTL => (GateSpec => []PeerBound)
<1> SUFFICES ASSUME TTLCoversBurst \/ WindowsWithinTTL PROVE GateSpec => []PeerBound
  OBVIOUS
<1>1. TypeOK /\ RateBound /\ GateInv => PeerBound
  <2> SUFFICES ASSUME TypeOK, RateBound, GateInv, NEW a \in Peers
               PROVE  Cost * fromPeer[a] <= Burst + Rate * (window.to - window.from)
    BY DEF PeerBound
  <2>1. a \in Ip
    BY AddressAssumption DEF Peers, Printed
  <2>2. fromPeer[a] \in Nat /\ admitted[a] \in Nat /\ fromPeer[a] <= admitted[a]
    BY <2>1 DEF GateInv, CountedOnce, TypeOK
  <2>3. Cost * fromPeer[a] <= Cost * admitted[a]
        /\ Cost * fromPeer[a] \in Int /\ Cost * admitted[a] \in Int
    BY <2>2, Parameters
  <2>4. Cost * admitted[a] <= Burst + Rate * (window.to - window.from)
    BY <2>1 DEF RateBound
  <2>5. Burst + Rate * (window.to - window.from) \in Int
    <3>1. window.to \in Int /\ window.from \in Int
      BY LimiterAssumption DEF TypeOK
    <3> QED BY <3>1, Parameters
  <2> QED BY <2>3, <2>4, <2>5
<1>2. Spec => []RateBound
  BY RateIsBounded
<1>3. TypeOK /\ GateInv /\ [GateNext]_gateVars => GateInv'
  BY GateStepInv
<1> QED BY <1>1, <1>2, <1>3, GateInitInv, GateIsLimiter, TypeCorrect, PTL DEF GateSpec
=============================================================================
