----------------------------- MODULE IpLimiter -----------------------------
(***************************************************************************)
(* The rate limiter of src/server/ratelimit.go: one bucket per client       *)
(* address, made at the first request, refilled only when a request of that *)
(* address arrives, and forgotten by a collection that requests of OTHER    *)
(* addresses trigger.                                                       *)
(*                                                                          *)
(* Allow reads the time before it takes the mutex, so requests can reach    *)
(* the buckets out of the order of their times and the elapsed time can be  *)
(* negative.  Sample is that first half; the second half, under the mutex,  *)
(* is one step.  Amounts of tokens are integers: a token is Cost of them.   *)
(***************************************************************************)
EXTENDS Integers

CONSTANTS Proc,         \* the goroutines that serve requests
          Ip,           \* client addresses
          None,         \* no request, no answer, the zero time
          ConfigRate,   \* RATE_LIMIT_RPS, gained in one tick
          DefaultRate,  \* the 10 per second that replaces a rate of 0
          ConfigBurst,  \* RATE_LIMIT_BURST, in tokens
          Cost,         \* one token
          TTL,          \* idle time after which a bucket may be forgotten
          Second,       \* the shortest pause between collections
          MaxDelay,     \* bound on the wait between time.Now() and the mutex
          MaxTime,      \* bound on the clock
          Windows       \* the intervals of time in which admissions are counted

ASSUME LimiterAssumption ==
  /\ ConfigRate \in Int /\ DefaultRate \in Nat \ {0} /\ ConfigBurst \in Int
  /\ Cost \in Nat \ {0} /\ TTL \in Nat /\ Second \in Nat \ {0}
  /\ MaxDelay \in Nat /\ MaxTime \in Nat
  /\ Windows \subseteq [from : 0..MaxTime, to : 0..MaxTime]
  /\ \A w \in Windows : w.from <= w.to

VARIABLES clock,    \* what time.Now() returns
          byIP,     \* the buckets: a partial function from addresses
          lastGC,   \* the time of the last collection
          call,     \* call[p]: the request p serves and the time it read
          answer,   \* answer[p]: what p's last Allow returned
          window,   \* history: an interval of time, chosen once and for all
          admitted  \* history: admitted[ip]: requests of ip admitted in it

vars == <<clock, byIP, lastGC, call, answer, window, admitted>>
limiterVars == <<byIP, lastGC>>

\* newIPLimiter.
Rate == IF ConfigRate <= 0 THEN DefaultRate ELSE ConfigRate

Burst == (IF ConfigBurst < 1 THEN 1 ELSE ConfigBurst) * Cost

GcEvery == IF TTL > 0 /\ TTL \div 2 < Second THEN Second ELSE TTL \div 2

Init == /\ clock = 0
        /\ byIP = [ip \in {} |-> None]
        /\ lastGC = None
        /\ call = [p \in Proc |-> None]
        /\ answer = [p \in Proc |-> None]
        /\ window \in Windows
        /\ admitted = [ip \in Ip |-> 0]

-----------------------------------------------------------------------------
\* Allow up to l.mu.Lock().
Sample(p, ip) == /\ call[p] = None
                 /\ call' = [call EXCEPT ![p] = [ip |-> ip, now |-> clock]]
                 /\ answer' = [answer EXCEPT ![p] = None]
                 /\ UNCHANGED <<clock, limiterVars, window, admitted>>

\* Fault: an old bucket is not capped when it is refilled.
RefilledUncapped(b, now) == b.tokens + (now - b.last) * Rate

Refilled(b, now) == LET t == b.tokens + (now - b.last) * Rate
                    IN IF t > Burst THEN Burst ELSE t

\* Fault: the first request of an address is free.
FreshTokensFree == Burst

FreshTokens == Burst - Cost

\* Fault: a bucket is forgotten after the pause between collections.
IdleForAPause(b, now) == now - b.last >= GcEvery

Idle(b, now) == now - b.last > TTL

GcDue(now) == TTL > 0 /\ (lastGC = None \/ now - lastGC >= GcEvery)

\* Fault: every call puts the next collection off.
GcTimePostponed(now) == now

GcTime(now) == IF GcDue(now) THEN now ELSE lastGC

Collected(buckets, now) ==
  [ip \in {i \in DOMAIN buckets : ~Idle(buckets[i], now)} |-> buckets[ip]]

\* The end of Allow: the bucket of ip is stored, and maybeGC runs.
Finish(ip, b, now) ==
  LET buckets == [i \in DOMAIN byIP \cup {ip} |-> IF i = ip THEN b ELSE byIP[i]]
  IN /\ lastGC' = GcTime(now)
     /\ byIP' = IF GcDue(now) THEN Collected(buckets, now) ELSE buckets

Reply(p, a) == /\ call' = [call EXCEPT ![p] = None]
               /\ answer' = [answer EXCEPT ![p] = a]

\* History: an admission counts if its time lies in the window.
InWindow(t) == window.from <= t /\ t <= window.to

CountAdmission(ip, t) ==
  admitted' = IF InWindow(t) THEN [admitted EXCEPT ![ip] = @ + 1] ELSE admitted

\* Allow under the mutex: an unknown address, a bucket with a token, one without.
AllowNew(p) ==
  /\ call[p] # None
  /\ LET ip == call[p].ip
         now == call[p].now
     IN /\ ip \notin DOMAIN byIP
        /\ Finish(ip, [tokens |-> FreshTokens, last |-> now], now)
        /\ CountAdmission(ip, now)
  /\ Reply(p, "allowed")
  /\ UNCHANGED <<clock, window>>

AllowSpend(p) ==
  /\ call[p] # None
  /\ LET ip == call[p].ip
         now == call[p].now
     IN /\ ip \in DOMAIN byIP
        /\ Refilled(byIP[ip], now) >= Cost
        /\ Finish(ip, [tokens |-> Refilled(byIP[ip], now) - Cost, last |-> now], now)
        /\ CountAdmission(ip, now)
  /\ Reply(p, "allowed")
  /\ UNCHANGED <<clock, window>>

\* Fault: a refused request is refilled, but its time is not recorded.
RefusedBucketKeepsTime(b, now) == [tokens |-> Refilled(b, now), last |-> b.last]

RefusedBucket(b, now) == [tokens |-> Refilled(b, now), last |-> now]

AllowRefuse(p) ==
  /\ call[p] # None
  /\ LET ip == call[p].ip
         now == call[p].now
     IN /\ ip \in DOMAIN byIP
        /\ Refilled(byIP[ip], now) < Cost
        /\ Finish(ip, RefusedBucket(byIP[ip], now), now)
  /\ Reply(p, "refused")
  /\ UNCHANGED <<clock, window, admitted>>

\* Time passes, but no call waits for the mutex longer than MaxDelay.
Tick == /\ clock < MaxTime
        /\ \A p \in Proc : call[p] # None => clock - call[p].now < MaxDelay
        /\ clock' = clock + 1
        /\ UNCHANGED <<limiterVars, call, answer, window, admitted>>

Next == \/ Tick
        \/ \E p \in Proc, ip \in Ip : Sample(p, ip)
        \/ \E p \in Proc : AllowNew(p) \/ AllowSpend(p) \/ AllowRefuse(p)

Spec == Init /\ [][Next]_vars

-----------------------------------------------------------------------------
Calls == [ip : Ip, now : 0..MaxTime]

ASSUME NoneAssumption == /\ None \notin Calls
                         /\ None \notin 0..MaxTime
                         /\ None \notin Ip

Buckets == [tokens : {t \in Int : t <= Burst}, last : 0..MaxTime]

\* Type invariant of the limiter: a bucket never holds more than the burst.
TypeOK == /\ clock \in 0..MaxTime
          /\ DOMAIN byIP \subseteq Ip /\ byIP \in [DOMAIN byIP -> Buckets]
          /\ lastGC \in 0..MaxTime \cup {None}
          /\ call \in [Proc -> Calls \cup {None}]
          /\ answer \in [Proc -> {"allowed", "refused", None}]
          /\ window \in Windows
          /\ admitted \in [Ip -> Nat]

\* Forgetting a bucket costs nothing if an idle one is full by then, even when
\* requests arrive out of order by as much as MaxDelay.
TTLCoversBurst == TTL = 0 \/ Rate * (TTL - 2 * MaxDelay) >= Burst

\* Where it does not, an interval this short is over before a bucket that was used in it
\* is forgotten.
WindowsWithinTTL == \A w \in Windows : w.to - w.from <= TTL - 2 * MaxDelay

\* The token bucket of CONFIG.md: over any interval of time an address is
\* admitted at most the burst and what the rate adds in that interval, whatever
\* collections and out-of-order arrivals happen in between.
RateBound ==
  \A ip \in Ip : Cost * admitted[ip] <= Burst + Rate * (window.to - window.from)

\* The strengthening of RateBound that is inductive.  Balance(b) is what the
\* bucket would have held at time 0: refilling never raises it, an admission
\* lowers it by Cost, and the order of the times does not matter.
Balance(b) == b.tokens - Rate * b.last

Waiting == \A p \in Proc : call[p] # None =>
             call[p].now <= clock /\ clock - call[p].now <= MaxDelay

\* A bucket's balance stays above what the latest admission can have left.
Sound(b) == /\ b.last <= clock
            /\ Balance(b) >= -(Rate * clock)
            /\ Balance(b) >= -(Rate * (b.last + MaxDelay))

\* n admissions in the window are paid for, by a bucket or by the time since.
Paid(b, n) == n > 0 => Balance(b) + Cost * n <= Burst - Rate * window.from

PaidByTime(n) == n > 0 => Cost * n <= Rate * ((clock - MaxDelay) - window.from)

NotOverdrawn == \A ip \in DOMAIN byIP : Sound(byIP[ip])

Spent == \A ip \in Ip : IF ip \in DOMAIN byIP THEN Paid(byIP[ip], admitted[ip])
                                              ELSE PaidByTime(admitted[ip])

IInv == TypeOK /\ Waiting /\ NotOverdrawn /\ Spent /\ RateBound

\* The same without TTLCoversBurst: until no admission can fall into the window any more,
\* the bucket of an address that was admitted in it is still there.
Over == clock - MaxDelay > window.to

Begun == \A ip \in Ip : admitted[ip] > 0 => window.from <= clock

Kept == \A ip \in Ip : admitted[ip] > 0 =>
          ip \in DOMAIN byIP /\ byIP[ip].last >= window.from - MaxDelay

ShortInv == /\ TypeOK /\ Waiting /\ NotOverdrawn /\ RateBound
            /\ Begun
            /\ ~Over => Spent /\ Kept

\* Memory: a call leaves no bucket that has been idle for longer than TTL and
\* one pause between collections, however the times of the calls interleave.
IdleForgotten ==
  [][\A p \in Proc : call[p] # None /\ call'[p] = None /\ TTL > MaxDelay =>
       \A ip \in DOMAIN byIP' : call[p].now - byIP'[ip].last < TTL + GcEvery]_vars

\* A call that gets the mutex later than the time it has read.
Overtaken == \E p \in Proc : call[p] # None /\ call'[p] = None /\ call[p].now # clock

\* The ideal bucket's level is what the limiter's would be if it were refilled now.
Ideal == INSTANCE TokenBucket WITH
           asking <- [p \in Proc |-> IF call[p] = None THEN None ELSE call[p].ip],
           level  <- [ip \in Ip |-> IF ip \in DOMAIN byIP THEN Refilled(byIP[ip], clock)
                                                          ELSE Burst]

\* With lazy refills, collections and buckets forgotten in between, every call that
\* is not overtaken is answered as the ideal token bucket would at that moment, even
\* after others that were: it neither admits nor refuses anything else.  (Where no
\* call waits, the limiter implements TokenBucket.)
UndelayedIsIdeal == [][~Overtaken => [Ideal!Next]_(Ideal!bucketVars)]_vars
=============================================================================
