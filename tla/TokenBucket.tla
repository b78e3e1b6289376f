---------------------------- MODULE TokenBucket ----------------------------
(***************************************************************************)
(* The token bucket that CONFIG.md promises each client address: a level    *)
(* that fills steadily up to the burst and from which every admitted        *)
(* request takes the cost of one.  Every address has a bucket from the      *)
(* beginning to the end, and all of them fill at every tick.                *)
(***************************************************************************)
EXTENDS Integers

CONSTANTS Proc,    \* the goroutines that serve requests
          Ip,      \* client addresses
          None,    \* no request, no answer
          Rate,    \* what a bucket gains in one tick
          Cost,    \* what a request takes
          Burst,   \* what a bucket holds at most
          MaxTime  \* bound on the clock

VARIABLES clock,   \* the time
          level,   \* level[ip]: what ip may still spend
          asking,  \* asking[p]: the address of the request p serves, or None
          answer   \* answer[p]: what p was told

bucketVars == <<clock, level, asking, answer>>

Init == /\ clock = 0
        /\ level = [ip \in Ip |-> Burst]
        /\ asking = [p \in Proc |-> None]
        /\ answer = [p \in Proc |-> None]

Tick == /\ clock < MaxTime
        /\ clock' = clock + 1
        /\ level' = [ip \in Ip |-> IF level[ip] + Rate < Burst THEN level[ip] + Rate
                                                               ELSE Burst]
        /\ UNCHANGED <<asking, answer>>

Ask(p, ip) == /\ asking[p] = None
              /\ asking' = [asking EXCEPT ![p] = ip]
              /\ answer' = [answer EXCEPT ![p] = None]
              /\ UNCHANGED <<clock, level>>

Reply(p, a) == /\ asking' = [asking EXCEPT ![p] = None]
               /\ answer' = [answer EXCEPT ![p] = a]
               /\ UNCHANGED clock

Admit(p) == /\ asking[p] # None
            /\ level[asking[p]] >= Cost
            /\ level' = [level EXCEPT ![asking[p]] = @ - Cost]
            /\ Reply(p, "allowed")

Refuse(p) == /\ asking[p] # None
             /\ level[asking[p]] < Cost
             /\ UNCHANGED level
             /\ Reply(p, "refused")

Next == \/ Tick
        \/ \E p \in Proc, ip \in Ip : Ask(p, ip)
        \/ \E p \in Proc : Admit(p) \/ Refuse(p)

Spec == Init /\ [][Next]_bucketVars
=============================================================================
