----------------------------- MODULE LogoCache -----------------------------
(***************************************************************************)
(* The cache of decoded logos of src/server/cache.go, logoCache: a list in   *)
(* order of use, an index and a count of bytes, without lifetimes.  A call   *)
(* runs under the mutex from its first look at the cache to its return and   *)
(* reads no clock, so the operators give its whole effect.                   *)
(***************************************************************************)
EXTENDS Integers, Sequences, FiniteSetsExt

CONSTANTS Path,      \* the files logos are read from: the keys of the cache
          MaxBytes,  \* CACHE_LOGO_MAX_BYTES, 0 where that is negative
          Missing    \* what a lookup gives that finds nothing

\* ll: the keys in order of use; items: the index; ent: the entries that the
\* elements of the list carry; curBytes: what is held, by the cache's own count.
NewLogoCache == [ll |-> <<>>, items |-> {}, ent |-> [f \in {} |-> Missing], curBytes |-> 0]

Hit(c, f) == MaxBytes > 0 /\ f \in c.items

\* The elements in front of f's make room for it.
MoveToFront(ll, f) ==
  LET at == CHOOSE i \in DOMAIN ll : ll[i] = f
  IN [i \in DOMAIN ll |-> IF i = 1 THEN f ELSE IF i <= at THEN ll[i - 1] ELSE ll[i]]

\* Get: what the cache is afterwards, and what it returns.
AfterGet(c, f) == IF Hit(c, f) THEN [c EXCEPT !.ll = MoveToFront(@, f)] ELSE c

Got(c, f) == IF Hit(c, f) THEN c.ent[f].value ELSE Missing

\* What the elements of the list beyond the n-th hold.
BytesBeyond(c, n) ==
  MapThenSumSet(LAMBDA i : c.ent[c.ll[i]].size, (n + 1)..Len(c.ll))

\* evict removes elements from the back until the count is within the limit.
KeptLength(c) ==
  Max({n \in 0..Len(c.ll) : n = 0 \/ c.curBytes - BytesBeyond(c, n) <= MaxBytes})

\* Fault: what is evicted stays in the index.
TruncatedKeepsIndex(c, n) ==
  [c EXCEPT !.ll = SubSeq(@, 1, n), !.curBytes = @ - BytesBeyond(c, n)]

\* removeElement, for every element beyond the n-th.
Truncated(c, n) ==
  LET kept == {c.ll[i] : i \in 1..n}
  IN [ll |-> SubSeq(c.ll, 1, n), items |-> kept, ent |-> [f \in kept |-> c.ent[f]],
      curBytes |-> c.curBytes - BytesBeyond(c, n)]

Evicted(c) == Truncated(c, KeptLength(c))

\* estimateImageBytes gives the size; an image without pixels is not kept.
Admissible(logo) == MaxBytes > 0 /\ logo.size > 0 /\ logo.size <= MaxBytes

WithEntry(ent, f, e) == [g \in DOMAIN ent \cup {f} |-> IF g = f THEN e ELSE ent[g]]

\* Fault: a replacement keeps the image that was there.
ReplacedKeepsValue(c, f, logo) ==
  [c EXCEPT !.ll = MoveToFront(@, f),
            !.ent = WithEntry(@, f, [value |-> c.ent[f].value, size |-> logo.size]),
            !.curBytes = (@ - c.ent[f].size) + logo.size]

Replaced(c, f, logo) ==
  [c EXCEPT !.ll = MoveToFront(@, f),
            !.ent = WithEntry(@, f, [value |-> logo, size |-> logo.size]),
            !.curBytes = (@ - c.ent[f].size) + logo.size]

Inserted(c, f, logo) ==
  [ll |-> <<f>> \o c.ll, items |-> c.items \cup {f},
   ent |-> WithEntry(c.ent, f, [value |-> logo, size |-> logo.size]),
   curBytes |-> c.curBytes + logo.size]

\* Set: what the cache is afterwards.
AfterSet(c, f, logo) ==
  IF ~Admissible(logo) THEN c
  ELSE Evicted(IF f \in c.items THEN Replaced(c, f, logo) ELSE Inserted(c, f, logo))

-----------------------------------------------------------------------------
\* The list holds each key of the index once and nothing else, the count is what the
\* entries add up to, and it is within the limit.
BooksBalance(c) ==
  /\ Len(c.ll) = Cardinality(c.items)
  /\ {c.ll[i] : i \in DOMAIN c.ll} = c.items
  /\ DOMAIN c.ent = c.items
  /\ c.curBytes = BytesBeyond(c, 0)
  /\ c.curBytes <= MaxBytes
=============================================================================
