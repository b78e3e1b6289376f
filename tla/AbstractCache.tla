--------------------------- MODULE AbstractCache ---------------------------
(***************************************************************************)
(* What the image caches of src/server/cache.go promise their callers, with *)
(* no list, no byte budget and no mutex: a map that may forget an entry at  *)
(* any moment, but that never answers a lookup with anything except the     *)
(* value of the last completed store of that key, and, when entries have a  *)
(* lifetime, never to a call that began after that lifetime had ended.      *)
(***************************************************************************)
EXTENDS Integers

CONSTANTS Proc,     \* the goroutines that call the cache
          Key,      \* cache keys
          Value,    \* cached images
          None,     \* no call, no entry, no answer
          TTL,      \* lifetime of an entry; 0 = entries do not expire
          MaxTime   \* bound on the clock

VARIABLES clock,    \* the time
          call,     \* call[p]: the call p has in progress
          store,    \* store[k]: the last value stored under k, unless forgotten
          answer    \* answer[p]: what p's last call returned

absVars == <<clock, call, store, answer>>

Init == /\ clock = 0
        /\ call = [p \in Proc |-> None]
        /\ store = [k \in Key |-> None]
        /\ answer = [p \in Proc |-> None]

\* A call begins: its time is the time at which it began.
Begin(p, c) == /\ call[p] = None
               /\ c.now = clock
               /\ call' = [call EXCEPT ![p] = c]
               /\ answer' = [answer EXCEPT ![p] = None]
               /\ UNCHANGED <<clock, store>>

\* A call the cache will not serve (a value it cannot hold) returns at once.
Decline(p) == /\ call[p] = None
              /\ answer' = [answer EXCEPT ![p] = None]
              /\ UNCHANGED <<clock, call, store>>

Return(p, a) == /\ call' = [call EXCEPT ![p] = None]
                /\ answer' = [answer EXCEPT ![p] = a]
                /\ UNCHANGED clock

Deadline(began) == IF TTL > 0 THEN began + TTL ELSE 0

Expired(s, began) == TTL > 0 /\ began > s.expires

\* A store takes effect, at one instant between its beginning and its return.
Put(p) == /\ call[p] # None /\ call[p].op = "set"
          /\ store' = [store EXCEPT ![call[p].key] =
                          [value   |-> call[p].value,
                           expires |-> Deadline(call[p].now)]]
          /\ Return(p, None)

\* A lookup answers with what is stored, if that has not expired.
Hit(p) == /\ call[p] # None /\ call[p].op = "get"
          /\ store[call[p].key] # None
          /\ ~Expired(store[call[p].key], call[p].now)
          /\ UNCHANGED store
          /\ Return(p, store[call[p].key].value)

\* A lookup may always miss; an expired entry is then dropped.
Miss(p) == /\ call[p] # None /\ call[p].op = "get"
           /\ store' \in {store, [store EXCEPT ![call[p].key] = None]}
           /\ Return(p, None)

\* A value may always be forgotten.
Forget(k) == /\ store' = [store EXCEPT ![k] = None]
             /\ UNCHANGED <<clock, call, answer>>

Tick == /\ clock < MaxTime
        /\ clock' = clock + 1
        /\ UNCHANGED <<call, store, answer>>

Calls == [op : {"get"}, key : Key, value : {None}, now : 0..MaxTime]
           \cup [op : {"set"}, key : Key, value : Value, now : 0..MaxTime]

Next == \/ Tick
        \/ \E k \in Key : Forget(k)
        \/ \E p \in Proc : \/ \E c \in Calls : Begin(p, c)
                           \/ Decline(p) \/ Put(p) \/ Hit(p) \/ Miss(p)

Spec == Init /\ [][Next]_absVars

TypeOK ==
  /\ clock \in 0..MaxTime
  /\ call \in [Proc -> Calls \cup {None}]
  /\ store \in [Key -> [value : Value, expires : Nat] \cup {None}]
  /\ answer \in [Proc -> Value \cup {None}]
=============================================================================
