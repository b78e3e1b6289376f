------------------------------ MODULE PngCache ------------------------------
(***************************************************************************)
(* The cache of rendered images, pngCache in src/server/cache.go: a         *)
(* doubly-linked list in recency order (container/list), an index from keys *)
(* to list elements, a count of the bytes held, and a mutex.                *)
(*                                                                          *)
(* Goroutines call Get and Set.  Both read the time BEFORE they take the    *)
(* mutex, so the times that reach the list need not be in lock order; Begin *)
(* is that first half, and the second half waits for mu.  The eviction loop *)
(* at the end of Set runs one iteration per step, mu held.                  *)
(***************************************************************************)
EXTENDS Integers, Sequences, FiniteSets

CONSTANTS Proc,      \* goroutines that use the cache
          Key,       \* cache keys
          Value,     \* images
          SizeOf,    \* SizeOf[v] = len(v)
          Elem,      \* list elements (the pointers *list.Element)
          None,      \* the nil pointer, the absent value
          MaxBytes,  \* capacity (newPNGCache clamps it at 0); 0 disables the cache
          TTL,       \* lifetime of an entry; 0 = no expiry
          MaxTime    \* bound on the clock

ASSUME SizeAssumption == SizeOf \in [Value -> Nat]
ASSUME BoundAssumption == MaxBytes \in Nat /\ TTL \in Nat /\ MaxTime \in Nat
Entries == [key : Key, value : Value, size : Nat, expires : Nat]
Stored == [value : Value, expires : Nat]
Calls == [op : {"get"}, key : Key, value : {None}, now : 0..MaxTime]
           \cup [op : {"set", "evict"}, key : Key, value : Value, now : 0..MaxTime]

ASSUME NoneAssumption == /\ None \notin Proc \cup Value \cup Elem
                         /\ None \notin Entries
                         /\ None \notin Stored
                         /\ None \notin Calls

VARIABLES clock,     \* what time.Now() returns
          mu,        \* the goroutine that holds the mutex, or None
          ll,        \* the list, front first: a sequence of elements
          ent,       \* ent[e]: the entry element e carries, None if e is free
          items,     \* the index: a partial function from keys to elements
          curBytes,  \* the bytes the cache believes it holds
          call,      \* call[p]: p's call in progress, None outside a call
          answer,    \* answer[p]: what p's last call returned; None is a miss
          older      \* history: <<a, b>> when key b was used after key a was

vars == <<clock, mu, ll, ent, items, curBytes, call, answer, older>>
cacheVars == <<ll, ent, items, curBytes, older>>

Init == /\ clock = 0
        /\ mu = None
        /\ ll = <<>>
        /\ ent = [e \in Elem |-> None]
        /\ items = [k \in {} |-> None]
        /\ curBytes = 0
        /\ call = [p \in Proc |-> None]
        /\ answer = [p \in Proc |-> None]
        /\ older = {}

-----------------------------------------------------------------------------
(* container/list, on sequences of elements.                                *)

Live == {ll[i] : i \in DOMAIN ll}

Position(e) == CHOOSE i \in DOMAIN ll : ll[i] = e

Without(s, i) == [j \in 1..(Len(s) - 1) |-> IF j < i THEN s[j] ELSE s[j + 1]]

PushFront(e, s) == <<e>> \o s

Back == ll[Len(ll)]

-----------------------------------------------------------------------------
(* History: which of the keys held was used less recently than which.       *)

Others(k) == DOMAIN items \ {k}

Dropped(k) == older \cap (Others(k) \X Others(k))

Used(k) == Dropped(k) \cup (Others(k) \X {k})

-----------------------------------------------------------------------------
\* Fault: the lifetime is counted from the lock, not from the time that was read.
ExpiresFromLock(now) == IF TTL > 0 THEN clock + TTL ELSE 0

Expires(now) == IF TTL > 0 THEN now + TTL ELSE 0

Expired(e, now) == TTL > 0 /\ now > ent[e].expires

\* Faults: the count is also reduced by the caller; the index entry is left.
RemoveElementCountedTwice(e) ==
  /\ items' = [k \in DOMAIN items \ {ent[e].key} |-> items[k]]
  /\ curBytes' = curBytes - 2 * ent[e].size
  /\ ll' = Without(ll, Position(e))
  /\ ent' = [ent EXCEPT ![e] = None]
  /\ older' = Dropped(ent[e].key)

RemoveElementKeepsIndex(e) ==
  /\ items' = items
  /\ curBytes' = curBytes - ent[e].size
  /\ ll' = Without(ll, Position(e))
  /\ ent' = [ent EXCEPT ![e] = None]
  /\ older' = Dropped(ent[e].key)

\* removeElement: out of the index, out of the count, out of the list.
RemoveElement(e) ==
  /\ items' = [k \in DOMAIN items \ {ent[e].key} |-> items[k]]
  /\ curBytes' = curBytes - ent[e].size
  /\ ll' = Without(ll, Position(e))
  /\ ent' = [ent EXCEPT ![e] = None]
  /\ older' = Dropped(ent[e].key)

\* Fault: a use does not count as a use.
MoveToFrontOmitted(e) == ll' = ll

MoveToFront(e) == ll' = PushFront(e, Without(ll, Position(e)))

\* A call returns a to p and, by the deferred Unlock, frees the mutex.
Return(p, a) == /\ mu' = None
                /\ call' = [call EXCEPT ![p] = None]
                /\ answer' = [answer EXCEPT ![p] = a]

Locked(p, op) == /\ mu = None
                 /\ call[p] # None
                 /\ call[p].op = op

\* Get and Set up to mu.Lock(): the checks that need no lock, then the time.
BeginGet(p, k) ==
  /\ call[p] = None
  /\ call' = [call EXCEPT ![p] = IF MaxBytes = 0 THEN None
                ELSE [op |-> "get", key |-> k, value |-> None, now |-> clock]]
  /\ answer' = [answer EXCEPT ![p] = None]
  /\ UNCHANGED <<clock, mu, cacheVars>>

\* Fault: an image larger than the whole cache is accepted.
AdmissibleAnySize(v) == MaxBytes > 0 /\ SizeOf[v] > 0

Admissible(v) == MaxBytes > 0 /\ SizeOf[v] > 0 /\ SizeOf[v] <= MaxBytes

BeginSet(p, k, v) ==
  /\ call[p] = None
  /\ call' = [call EXCEPT ![p] = IF ~Admissible(v) THEN None
                ELSE [op |-> "set", key |-> k, value |-> v, now |-> clock]]
  /\ answer' = [answer EXCEPT ![p] = None]
  /\ UNCHANGED <<clock, mu, cacheVars>>

\* Get under the lock: a hit moves to the front, an expired entry is removed.
GetHit(p) ==
  /\ Locked(p, "get")
  /\ LET k == call[p].key IN
       /\ k \in DOMAIN items
       /\ ~Expired(items[k], call[p].now)
       /\ MoveToFront(items[k])
       /\ older' = Used(k)
       /\ Return(p, ent[items[k]].value)
  /\ UNCHANGED <<clock, ent, items, curBytes>>

GetExpired(p) ==
  /\ Locked(p, "get")
  /\ LET k == call[p].key IN
       /\ k \in DOMAIN items
       /\ Expired(items[k], call[p].now)
       /\ RemoveElement(items[k])
  /\ Return(p, None)
  /\ UNCHANGED clock

GetAbsent(p) ==
  /\ Locked(p, "get")
  /\ call[p].key \notin DOMAIN items
  /\ Return(p, None)
  /\ UNCHANGED <<clock, cacheVars>>

\* Set under the lock, up to the call of evict: the entry of a known key is
\* overwritten and moved to the front, otherwise a new one is pushed there.
StartEvict(p) == /\ mu' = p
                 /\ call' = [call EXCEPT ![p].op = "evict"]
                 /\ UNCHANGED <<clock, answer>>

EntryOf(c) == [key     |-> c.key,
               value   |-> c.value,
               size    |-> SizeOf[c.value],
               expires |-> Expires(c.now)]

\* Fault: the bytes of the replaced image are not given back.
BytesAfterReplaceLeaks(e, v) == curBytes + SizeOf[v]

BytesAfterReplace(e, v) == (curBytes - ent[e].size) + SizeOf[v]

SetReplace(p) ==
  /\ Locked(p, "set")
  /\ LET c == call[p]
         e == items[c.key]
     IN /\ c.key \in DOMAIN items
        /\ curBytes' = BytesAfterReplace(e, c.value)
        /\ ent' = [ent EXCEPT ![e] = EntryOf(c)]
        /\ MoveToFront(e)
        /\ older' = Used(c.key)
  /\ UNCHANGED items
  /\ StartEvict(p)

SetInsert(p) ==
  /\ Locked(p, "set")
  /\ LET c == call[p] IN
       /\ c.key \notin DOMAIN items
       /\ \E e \in Elem :
            /\ ent[e] = None
            /\ ent' = [ent EXCEPT ![e] = EntryOf(c)]
            /\ ll' = PushFront(e, ll)
            /\ items' = [k \in DOMAIN items \cup {c.key} |->
                           IF k = c.key THEN e ELSE items[k]]
       /\ curBytes' = curBytes + SizeOf[c.value]
       /\ older' = Used(c.key)
  /\ StartEvict(p)

\* evict: one iteration of the loop, and the way out of it.
Evicting(p) == mu = p /\ call[p] # None /\ call[p].op = "evict"

\* Fault: the loop stops one byte too early.
MustEvictOffByOne == curBytes > MaxBytes + 1 /\ ll # <<>>

MustEvict == curBytes > MaxBytes /\ ll # <<>>

EvictBack(p) ==
  /\ Evicting(p)
  /\ MustEvict
  /\ RemoveElement(Back)
  /\ UNCHANGED <<clock, mu, call, answer>>

\* Fault: a return path without Unlock.
EvictDoneKeepsLock(p) ==
  /\ Evicting(p)
  /\ ~MustEvict
  /\ call' = [call EXCEPT ![p] = None]
  /\ answer' = [answer EXCEPT ![p] = None]
  /\ UNCHANGED <<clock, mu, cacheVars>>

EvictDone(p) ==
  /\ Evicting(p)
  /\ ~MustEvict
  /\ Return(p, None)
  /\ UNCHANGED <<clock, cacheVars>>

Tick == /\ clock < MaxTime
        /\ clock' = clock + 1
        /\ UNCHANGED <<mu, cacheVars, call, answer>>

Get(p) == GetHit(p) \/ GetExpired(p) \/ GetAbsent(p)
Set(p) == SetReplace(p) \/ SetInsert(p)
Evict(p) == EvictBack(p) \/ EvictDone(p)

Next == \/ Tick
        \/ \E p \in Proc, k \in Key : BeginGet(p, k)
        \/ \E p \in Proc, k \in Key, v \in Value : BeginSet(p, k, v)
        \/ \E p \in Proc : Get(p) \/ Set(p) \/ Evict(p)

Spec == Init /\ [][Next]_vars

-----------------------------------------------------------------------------
\* The data the mutex protects.
CacheTypeOK ==
  /\ ll \in Seq(Elem)
  /\ ent \in [Elem -> Entries \cup {None}]
  /\ DOMAIN items \subseteq Key /\ items \in [DOMAIN items -> Elem]
  /\ curBytes \in Nat
  /\ older \subseteq (DOMAIN items) \X (DOMAIN items)

\* Type invariant of the cache: newPNGCache and every path of Get, Set, evict.
TypeOK ==
  /\ CacheTypeOK
  /\ clock \in 0..MaxTime
  /\ mu \in Proc \cup {None}
  /\ call \in [Proc -> Calls \cup {None}]
  /\ answer \in [Proc -> Value \cup {None}]

\* The index and the list always describe the same set of entries: no element
\* is in the list twice, every element of the list is the one its key leads
\* to, and the index leads nowhere else.  Get, both branches of Set, and
\* removeElement each update the two structures separately.
IndexAgrees ==
  /\ \A i, j \in DOMAIN ll : ll[i] = ll[j] => i = j
  /\ \A i \in DOMAIN ll : /\ ent[ll[i]] # None
                           /\ ent[ll[i]].key \in DOMAIN items
                           /\ items[ent[ll[i]].key] = ll[i]
  /\ \A k \in DOMAIN items : items[k] \in Live /\ ent[items[k]].key = k
  /\ \A e \in Elem : ent[e] # None => e \in Live

\* The bytes of a set of elements, one by one, so that they can be counted.
Bytes(S, entry) == UNION {{e} \X (1..entry[e].size) : e \in S}

\* curBytes is exactly the number of bytes held by the entries of the list,
\* at every step of every interleaving: it is updated in four places, by
\* differences, and an error would never be corrected.
BytesAccounted == curBytes = Cardinality(Bytes(Live, ent))

\* Whenever no goroutine is inside the cache, the bytes actually held are
\* within the configured capacity, whatever the mix of inserts, replacements
\* by larger images and expiries.
CapacityAtRest == mu = None => Cardinality(Bytes(Live, ent)) <= MaxBytes

InLoop(p) == call[p] # None /\ call[p].op = "evict"

\* Between two steps the mutex is held only by a goroutine in the eviction loop,
\* and by no other: every way out of Get and Set releases it.  As the loop drops
\* an entry in each iteration, every call returns.
MutexFreed == \A p \in Proc : InLoop(p) <=> mu = p

\* The invariant the proofs are by induction on.  The list is in order of last
\* use; a goroutine is in the eviction loop exactly while it holds the mutex,
\* and then the entry it stored is at the front; only admissible images wait to
\* be stored; and the capacity is respected when the mutex is free.
RecencyOrder ==
  \A i, j \in DOMAIN ll : i < j => <<ent[ll[j]].key, ent[ll[i]].key>> \in older

FrontIsStored ==
  \A p \in Proc : InLoop(p) => ll # <<>> /\ ent[ll[1]] = EntryOf(call[p])

OnlyAdmissible ==
  \A p \in Proc : call[p] # None /\ call[p].op # "get" => Admissible(call[p].value)

Structure == /\ CacheTypeOK
             /\ IndexAgrees
             /\ RecencyOrder
             /\ BytesAccounted
             /\ IsFiniteSet(Bytes(Live, ent))

IInv == /\ TypeOK
        /\ Structure
        /\ MutexFreed
        /\ FrontIsStored
        /\ OnlyAdmissible
        /\ mu = None => curBytes <= MaxBytes

\* What a Set stored is still there, with that value, when the Set returns: the
\* eviction it triggers never removes its own entry, whatever it replaced.
StoredSurvives ==
  [][\A p \in Proc :
       InLoop(p) /\ call'[p] = None
         => /\ call[p].key \in DOMAIN items'
            /\ ent'[items'[call[p].key]].value = call[p].value]_vars

\* Room is made by dropping the key that has gone unused for longest: every key
\* that stays was looked up or stored after the last use of the key that goes.
EvictsLeastRecent ==
  [][mu # None => \A k \in DOMAIN items \ DOMAIN items', b \in DOMAIN items' :
                     <<k, b>> \in older]_vars

\* The list, index, byte count and mutex together implement the map with
\* lifetimes of AbstractCache: a lookup answers only with the value of the last
\* store of its key, and only if the lookup began within the lifetime counted
\* from the beginning of that store, though both times are read unlocked.
Cache == INSTANCE AbstractCache WITH
           call  <- [p \in Proc |-> IF InLoop(p) THEN None ELSE call[p]],
           store <- [k \in Key |-> IF k \notin DOMAIN items THEN None
                                   ELSE [value   |-> ent[items[k]].value,
                                         expires |-> ent[items[k]].expires]]

ImplementsCache == Cache!Spec
=============================================================================
