--------------------------- MODULE PngCacheProofs ---------------------------
(***************************************************************************)
(* Proofs about PngCache, for every set of goroutines, keys, images and     *)
(* elements and every capacity and lifetime.                                *)
(***************************************************************************)
EXTENDS PngCache, FiniteSetTheorems, SequenceTheorems, TLAPS

-----------------------------------------------------------------------------
(* Sequences without repetition, as container/list keeps them.              *)

Elems(s) == {s[i] : i \in DOMAIN s}

Distinct(s) == \A i, j \in DOMAIN s : s[i] = s[j] => i = j

\* Removing position i of a list: what is left is a list of the others, in the
\* same order (container/list.List.Remove).
LEMMA WithoutProperties ==
  ASSUME NEW S, NEW s \in Seq(S), NEW i \in 1..Len(s)
  PROVE  /\ Without(s, i) \in Seq(S)
         /\ Len(Without(s, i)) = Len(s) - 1
         /\ \A j \in 1..(Len(s) - 1) : /\ j < i => Without(s, i)[j] = s[j]
                                       /\ ~(j < i) => Without(s, i)[j] = s[j + 1]
<1>1. Len(s) \in Nat /\ i \in Int /\ \A j \in 1..Len(s) : s[j] \in S
  BY LenProperties
<1>2. \A j \in 1..(Len(s) - 1) : (IF j < i THEN s[j] ELSE s[j + 1]) \in S
  BY <1>1
<1>3. Without(s, i) \in [1..(Len(s) - 1) -> S]
  BY <1>2 DEF Without
<1>4. Len(s) - 1 \in Nat
  BY <1>1
<1>5. Without(s, i) \in Seq(S)
  BY <1>3, <1>4, SeqDef
<1>6. Len(Without(s, i)) = Len(s) - 1
  BY <1>3, <1>4, <1>5, LenProperties
<1>7. \A j \in 1..(Len(s) - 1) : /\ j < i => Without(s, i)[j] = s[j]
                                 /\ ~(j < i) => Without(s, i)[j] = s[j + 1]
  BY <1>1 DEF Without
<1> QED BY <1>5, <1>6, <1>7

\* The same facts for a list without repetition, in terms of its elements.
LEMMA WithoutDistinct ==
  ASSUME NEW S, NEW s \in Seq(S), NEW i \in 1..Len(s), Distinct(s)
  PROVE  /\ Without(s, i) \in Seq(S)
         /\ Distinct(Without(s, i))
         /\ Elems(Without(s, i)) = Elems(s) \ {s[i]}
         /\ i > 1 => Without(s, i) # <<>> /\ Without(s, i)[1] = s[1]
         /\ \A m, n \in DOMAIN Without(s, i) : m < n =>
              \E k, l \in DOMAIN s : /\ k < l
                                     /\ Without(s, i)[m] = s[k]
                                     /\ Without(s, i)[n] = s[l]
<1> DEFINE w == Without(s, i)
<1>1. Len(s) \in Nat /\ i \in Int /\ DOMAIN s = 1..Len(s)
  BY LenProperties
<1>2. /\ w \in Seq(S) /\ Len(w) = Len(s) - 1
      /\ \A j \in 1..(Len(s) - 1) : /\ j < i => w[j] = s[j]
                                    /\ ~(j < i) => w[j] = s[j + 1]
  BY WithoutProperties
<1>3. DOMAIN w = 1..(Len(s) - 1)
  <2> HIDE DEF w
  <2> QED BY <1>2, LenProperties
<1> HIDE DEF w
<1>4. Distinct(w)
  <2> DEFINE at(j) == IF j < i THEN j ELSE j + 1
  <2>1. \A j \in DOMAIN w : at(j) \in DOMAIN s /\ w[j] = s[at(j)]
    BY <1>1, <1>2, <1>3
  <2>2. \A m, n \in DOMAIN w : at(m) = at(n) => m = n
    BY <1>1, <1>3
  <2> HIDE DEF at
  <2> QED BY <2>1, <2>2 DEF Distinct
<1>5. Elems(w) = Elems(s) \ {s[i]}
  <2>1. ASSUME NEW x \in Elems(w) PROVE x \in Elems(s) \ {s[i]}
    <3>1. PICK j \in 1..(Len(s) - 1) : x = w[j]
      BY <1>3 DEF Elems
    <3>2. CASE j < i
      <4>1. j \in DOMAIN s /\ i \in DOMAIN s /\ j # i /\ x = s[j]
        BY <1>1, <1>2, <3>1, <3>2
      <4> QED BY <4>1 DEF Elems, Distinct
    <3>3. CASE ~(j < i)
      <4>1. j + 1 \in DOMAIN s /\ i \in DOMAIN s /\ j + 1 # i /\ x = s[j + 1]
        BY <1>1, <1>2, <3>1, <3>3
      <4> QED BY <4>1 DEF Elems, Distinct
    <3> QED BY <1>1, <3>1, <3>2, <3>3
  <2>2. ASSUME NEW x \in Elems(s) \ {s[i]} PROVE x \in Elems(w)
    <3>1. PICK j \in 1..Len(s) : x = s[j] /\ j # i
      BY <1>1 DEF Elems
    <3>2. CASE j < i
      <4>1. j \in 1..(Len(s) - 1) /\ w[j] = x
        BY <1>1, <1>2, <3>1, <3>2
      <4> QED BY <1>3, <4>1 DEF Elems
    <3>3. CASE j > i
      <4>1. j - 1 \in 1..(Len(s) - 1) /\ w[j - 1] = x
        BY <1>1, <1>2, <3>1, <3>3
      <4> QED BY <1>3, <4>1 DEF Elems
    <3> QED BY <1>1, <3>1, <3>2, <3>3
  <2> QED BY <2>1, <2>2
<1>6. i > 1 => w # <<>> /\ w[1] = s[1]
  BY <1>1, <1>2, EmptySeq
<1>7. ASSUME NEW m \in DOMAIN w, NEW n \in DOMAIN w, m < n
      PROVE  \E k, l \in DOMAIN s : k < l /\ w[m] = s[k] /\ w[n] = s[l]
  <2>1. CASE n < i
    BY <1>1, <1>2, <1>3, <1>7, <2>1
  <2>2. CASE m < i /\ ~(n < i)
    <3>1. m \in DOMAIN s /\ n + 1 \in DOMAIN s /\ m < n + 1
      BY <1>1, <1>3, <1>7, <2>2
    <3>2. w[m] = s[m] /\ w[n] = s[n + 1]
      BY <1>1, <1>2, <1>3, <2>2
    <3> QED BY <3>1, <3>2
  <2>3. CASE ~(m < i)
    <3>1. m + 1 \in DOMAIN s /\ n + 1 \in DOMAIN s /\ m + 1 < n + 1
      BY <1>1, <1>3, <1>7, <2>3
    <3>2. w[m] = s[m + 1] /\ w[n] = s[n + 1]
      BY <1>1, <1>2, <1>3, <1>7, <2>3
    <3> QED BY <3>1, <3>2
  <2> QED BY <1>1, <1>3, <1>7, <2>1, <2>2, <2>3
<1> QED BY <1>2, <1>4, <1>5, <1>6, <1>7 DEF w

\* Pushing a new element to the front (container/list.List.PushFront).
LEMMA PushFrontDistinct ==
  ASSUME NEW S, NEW s \in Seq(S), NEW e \in S, e \notin Elems(s), Distinct(s),
         NEW t, t = PushFront(e, s)
  PROVE  /\ t \in Seq(S)
         /\ t # <<>>
         /\ Distinct(t)
         /\ Elems(t) = Elems(s) \cup {e}
         /\ t[1] = e
         /\ \A m, n \in DOMAIN t : m < n =>
              /\ n - 1 \in DOMAIN s
              /\ t[n] = s[n - 1]
              /\ m = 1 => t[m] = e
              /\ m > 1 => m - 1 \in DOMAIN s /\ t[m] = s[m - 1]
<1>1. Len(s) \in Nat /\ DOMAIN s = 1..Len(s)
  BY LenProperties
<1>2. <<e>> \in Seq(S) /\ Len(<<e>>) = 1 /\ <<e>>[1] = e
  OBVIOUS
<1>3. /\ t \in Seq(S) /\ Len(t) = 1 + Len(s)
      /\ \A i \in 1..(1 + Len(s)) : t[i] = IF i <= 1 THEN <<e>>[i] ELSE s[i - 1]
  BY <1>2, ConcatProperties DEF PushFront
<1>4. /\ DOMAIN t = 1..(1 + Len(s))
      /\ t[1] = e
      /\ \A i \in 1..Len(s) : t[i + 1] = s[i]
      /\ \A i \in DOMAIN t : i # 1 => i - 1 \in DOMAIN s /\ t[i] = s[i - 1]
  <2>1. DOMAIN t = 1..(1 + Len(s))
    BY <1>3, LenProperties
  <2> QED BY <1>1, <1>2, <1>3, <2>1
<1>5. t # <<>>
  BY <1>1, <1>3, EmptySeq
<1>6. Distinct(t)
  <2> SUFFICES ASSUME NEW i \in DOMAIN t, NEW j \in DOMAIN t, t[i] = t[j]
               PROVE  i = j
    BY DEF Distinct
  <2>1. CASE i = 1 \/ j = 1
    BY <1>4, <2>1 DEF Elems
  <2>2. CASE i # 1 /\ j # 1
    <3>1. s[i - 1] = s[j - 1] /\ i - 1 \in DOMAIN s /\ j - 1 \in DOMAIN s
      BY <1>4, <2>2
    <3>2. i - 1 = j - 1
      BY <3>1 DEF Distinct
    <3> QED BY <1>1, <1>4, <3>2
  <2> QED BY <2>1, <2>2
<1>7. Elems(t) = Elems(s) \cup {e}
  <2>1. ASSUME NEW x \in Elems(s) PROVE x \in Elems(t)
    <3>1. PICK i \in 1..Len(s) : x = s[i]
      BY <1>1 DEF Elems
    <3>2. i + 1 \in DOMAIN t /\ t[i + 1] = x
      BY <1>1, <1>4, <3>1
    <3> QED BY <3>2 DEF Elems
  <2>2. e \in Elems(t)
    BY <1>1, <1>4 DEF Elems
  <2>3. Elems(t) \subseteq Elems(s) \cup {e}
    BY <1>4 DEF Elems
  <2> QED BY <2>1, <2>2, <2>3
<1>8. \A m, n \in DOMAIN t : m < n =>
        /\ n - 1 \in DOMAIN s
        /\ t[n] = s[n - 1]
        /\ m = 1 => t[m] = e
        /\ m > 1 => m - 1 \in DOMAIN s /\ t[m] = s[m - 1]
  BY <1>1, <1>4
<1> QED BY <1>3, <1>4, <1>5, <1>6, <1>7, <1>8

\* Moving position i to the front (container/list.List.MoveToFront): the same
\* elements, that one first, the others in the same order.
LEMMA MoveToFrontDistinct ==
  ASSUME NEW S, NEW s \in Seq(S), NEW i \in 1..Len(s), Distinct(s),
         NEW t, t = PushFront(s[i], Without(s, i))
  PROVE  /\ t \in Seq(S)
         /\ t # <<>>
         /\ Distinct(t)
         /\ Elems(t) = Elems(s)
         /\ t[1] = s[i]
         /\ \A m, n \in DOMAIN t : m < n =>
              /\ t[n] \in Elems(s) \ {s[i]}
              /\ \/ t[m] = s[i]
                 \/ /\ t[m] \in Elems(s) \ {s[i]}
                    /\ \E k, l \in DOMAIN s : k < l /\ t[m] = s[k] /\ t[n] = s[l]
<1> DEFINE w == Without(s, i)
<1>1. /\ w \in Seq(S) /\ Distinct(w) /\ Elems(w) = Elems(s) \ {s[i]}
      /\ \A m, n \in DOMAIN w : m < n =>
           \E k, l \in DOMAIN s : k < l /\ w[m] = s[k] /\ w[n] = s[l]
  BY WithoutDistinct
<1>2. s[i] \in S /\ s[i] \notin Elems(w) /\ s[i] \in Elems(s)
  <2>1. i \in DOMAIN s /\ s[i] \in S
    BY LenProperties
  <2> QED BY <1>1, <2>1 DEF Elems
<1> DEFINE e == s[i]
<1>3. t = PushFront(e, w)
  OBVIOUS
<1> HIDE DEF w, e
<1>4. /\ t \in Seq(S) /\ t # <<>> /\ Distinct(t)
      /\ Elems(t) = Elems(w) \cup {e}
      /\ t[1] = e
      /\ \A m, n \in DOMAIN t : m < n =>
           /\ n - 1 \in DOMAIN w
           /\ t[n] = w[n - 1]
           /\ m = 1 => t[m] = e
           /\ m > 1 => m - 1 \in DOMAIN w /\ t[m] = w[m - 1]
  <2>1. e \in S /\ e \notin Elems(w) /\ w \in Seq(S) /\ Distinct(w)
    BY <1>1, <1>2 DEF e
  <2> QED BY <1>3, <2>1, PushFrontDistinct
<1>5. Elems(t) = Elems(s)
  BY <1>1, <1>2, <1>4 DEF e
<1>6. ASSUME NEW m \in DOMAIN t, NEW n \in DOMAIN t, m < n
      PROVE  /\ t[n] \in Elems(s) \ {s[i]}
             /\ \/ t[m] = s[i]
                \/ /\ t[m] \in Elems(s) \ {s[i]}
                   /\ \E k, l \in DOMAIN s : k < l /\ t[m] = s[k] /\ t[n] = s[l]
  <2> DEFINE a == m - 1
             b == n - 1
  <2>1. m \in Nat /\ n \in Nat /\ m >= 1
    BY <1>4, LenProperties
  <2>2. b \in DOMAIN w /\ t[n] = w[b]
    BY <1>4, <1>6
  <2>3. \A j \in DOMAIN w : w[j] \in Elems(s) \ {s[i]}
    BY <1>1 DEF Elems
  <2>4. CASE m = 1
    BY <1>4, <1>6, <2>2, <2>3, <2>4 DEF e
  <2>5. CASE m > 1
    <3>1. a \in DOMAIN w /\ t[m] = w[a] /\ a < b
      BY <1>4, <1>6, <2>1, <2>5
    <3> HIDE DEF a, b
    <3> QED BY <1>1, <2>2, <2>3, <3>1
  <2> QED BY <2>1, <2>4, <2>5
<1> QED BY <1>4, <1>5, <1>6 DEF e

-----------------------------------------------------------------------------
(* Counting bytes.                                                          *)

\* An element of size n has n bytes.
LEMMA OwnBytes ==
  ASSUME NEW e, NEW n \in Nat
  PROVE  IsFiniteSet({e} \X (1..n)) /\ Cardinality({e} \X (1..n)) = n
<1>1. IsFiniteSet(1..n) /\ Cardinality(1..n) = IF 1 > n THEN 0 ELSE n - 1 + 1
  <2>1. 1 \in Int /\ n \in Int
    OBVIOUS
  <2> QED BY <2>1, FS_Interval, Zenon
<1>2. IsFiniteSet({e}) /\ Cardinality({e}) = 1
  BY FS_Singleton
<1>3. /\ IsFiniteSet({e} \X (1..n))
      /\ Cardinality({e} \X (1..n)) = Cardinality({e}) * Cardinality(1..n)
  BY <1>1, <1>2, FS_Product, Zenon
<1> QED BY <1>1, <1>2, <1>3

\* The bytes of one more element are added to the count.
LEMMA BytesAdd ==
  ASSUME NEW S, NEW entry, NEW e, e \notin S, entry[e].size \in Nat,
         IsFiniteSet(Bytes(S, entry)),
         NEW T, \A x : x \in T <=> x \in S \/ x = e
  PROVE  /\ IsFiniteSet(Bytes(T, entry))
         /\ Cardinality(Bytes(T, entry)) = Cardinality(Bytes(S, entry)) + entry[e].size
<1> DEFINE own == {e} \X (1..entry[e].size)
           all == Bytes(S, entry)
<1>1. IsFiniteSet(own) /\ Cardinality(own) = entry[e].size
  BY OwnBytes
<1>2. Bytes(T, entry) = all \cup own
  BY DEF Bytes
<1>3. all \cap own = {}
  BY DEF Bytes
<1>4. Cardinality(all) \in Nat
  BY FS_CardinalityType
<1> HIDE DEF own, all
<1>5. /\ IsFiniteSet(all \cup own)
      /\ Cardinality(all \cup own)
           = Cardinality(all) + Cardinality(own) - Cardinality(all \cap own)
  BY <1>1, FS_Union DEF all
<1>6. Cardinality(all \cap own) = 0
  BY <1>3, FS_EmptySet, Zenon
<1>7. Cardinality(all \cup own) = Cardinality(all) + entry[e].size
  BY <1>1, <1>4, <1>5, <1>6
<1> QED BY <1>2, <1>5, <1>7, Zenon DEF all

\* Only the sizes of the elements counted matter.
LEMMA BytesSame ==
  ASSUME NEW S, NEW entry1, NEW entry2,
         \A e \in S : entry1[e].size = entry2[e].size
  PROVE  Bytes(S, entry1) = Bytes(S, entry2)
BY DEF Bytes

\* Taking an element away takes its bytes from the count.
LEMMA BytesRemove ==
  ASSUME NEW S, NEW entry, NEW e \in S, entry[e].size \in Nat,
         IsFiniteSet(Bytes(S, entry)),
         NEW T, \A x : x \in T <=> x \in S /\ x # e
  PROVE  /\ IsFiniteSet(Bytes(T, entry))
         /\ Cardinality(Bytes(T, entry)) = Cardinality(Bytes(S, entry)) - entry[e].size
         /\ Cardinality(Bytes(T, entry)) \in Nat
<1>1. IsFiniteSet(Bytes(T, entry))
  <2>1. Bytes(T, entry) \in SUBSET Bytes(S, entry)
    BY DEF Bytes
  <2> QED BY <2>1, FS_Subset
<1>2. e \notin T /\ \A x : x \in S <=> x \in T \/ x = e
  OBVIOUS
<1>3. Cardinality(Bytes(S, entry)) = Cardinality(Bytes(T, entry)) + entry[e].size
  BY <1>1, <1>2, BytesAdd
<1>4. Cardinality(Bytes(T, entry)) \in Nat
  BY <1>1, FS_CardinalityType
<1> QED BY <1>1, <1>3, <1>4

\* Replacing the entry of one element exchanges its bytes.
LEMMA BytesReplace ==
  ASSUME NEW S, NEW entry1, NEW entry2, NEW e \in S,
         entry1[e].size \in Nat, entry2[e].size \in Nat,
         \A x \in S : x # e => entry1[x].size = entry2[x].size,
         IsFiniteSet(Bytes(S, entry1))
  PROVE  /\ IsFiniteSet(Bytes(S, entry2))
         /\ Cardinality(Bytes(S, entry2))
              = (Cardinality(Bytes(S, entry1)) - entry1[e].size) + entry2[e].size
         /\ Cardinality(Bytes(S, entry2)) \in Nat
<1>1. PICK rest : \A x : x \in rest <=> x \in S /\ x # e
  <2> WITNESS S \ {e}
  <2> QED OBVIOUS
<1>2. /\ IsFiniteSet(Bytes(rest, entry1))
      /\ Cardinality(Bytes(rest, entry1))
           = Cardinality(Bytes(S, entry1)) - entry1[e].size
      /\ Cardinality(Bytes(rest, entry1)) \in Nat
  BY <1>1, BytesRemove
<1>3. Bytes(rest, entry1) = Bytes(rest, entry2)
  BY <1>1, BytesSame
<1>4. e \notin rest /\ \A x : x \in S <=> x \in rest \/ x = e
  BY <1>1
<1>5. IsFiniteSet(Bytes(rest, entry2))
  BY <1>2, <1>3, Zenon
<1>6. /\ IsFiniteSet(Bytes(S, entry2))
      /\ Cardinality(Bytes(S, entry2))
           = Cardinality(Bytes(rest, entry2)) + entry2[e].size
  BY <1>4, <1>5, BytesAdd
<1> QED BY <1>2, <1>3, <1>6

\* No elements, no bytes.
LEMMA BytesNone ==
  ASSUME NEW S, NEW entry, \A x : x \notin S
  PROVE  IsFiniteSet(Bytes(S, entry)) /\ Cardinality(Bytes(S, entry)) = 0
<1>1. Bytes(S, entry) = {}
  BY DEF Bytes
<1> QED BY <1>1, FS_EmptySet, Zenon

\* One element, its size.
LEMMA BytesOne ==
  ASSUME NEW S, NEW entry, NEW e, entry[e].size \in Nat, \A x : x \in S <=> x = e
  PROVE  Cardinality(Bytes(S, entry)) = entry[e].size
<1>1. PICK none : \A x : x \notin none
  <2> WITNESS S \ S
  <2> QED OBVIOUS
<1>2. /\ IsFiniteSet(Bytes(none, entry))
      /\ Cardinality(Bytes(none, entry)) = 0
  BY <1>1, BytesNone
<1>3. e \notin none /\ \A x : x \in S <=> x \in none \/ x = e
  BY <1>1
<1>4. Cardinality(Bytes(S, entry)) = Cardinality(Bytes(none, entry)) + entry[e].size
  BY <1>2, <1>3, BytesAdd
<1> QED BY <1>2, <1>4

-----------------------------------------------------------------------------
(* What removeElement, MoveToFront and PushFront do to a sound structure.   *)

LEMMA LiveElems == Live = Elems(ll)
BY DEF Live, Elems

\* What the structure says of one of its elements.
LEMMA OfElement ==
  ASSUME Structure, NEW e \in Live
  PROVE  /\ e \in Elem
         /\ ent[e] \in Entries
         /\ ent[e].size \in Nat
         /\ ent[e].key \in DOMAIN items
         /\ items[ent[e].key] = e
         /\ Position(e) \in 1..Len(ll)
         /\ ll[Position(e)] = e
<1>1. Len(ll) \in Nat /\ DOMAIN ll = 1..Len(ll) /\ ll \in [1..Len(ll) -> Elem]
  BY LenProperties DEF Structure, CacheTypeOK
<1>2. PICK i \in DOMAIN ll : ll[i] = e
  BY DEF Live
<1>3. Position(e) \in 1..Len(ll) /\ ll[Position(e)] = e
  BY <1>1, <1>2 DEF Position
<1>4. e \in Elem /\ ent[e] # None
  BY <1>1, <1>2 DEF Structure, IndexAgrees
<1>5. ent[e] \in Entries
  BY <1>4 DEF Structure, CacheTypeOK
<1>6. ent[e].size \in Nat
  BY <1>5 DEF Entries
<1>7. ent[e].key \in DOMAIN items /\ items[ent[e].key] = e
  BY <1>2 DEF Structure, IndexAgrees
<1> QED BY <1>3, <1>4, <1>5, <1>6, <1>7

LEMMA OfKey ==
  ASSUME Structure, NEW k \in DOMAIN items
  PROVE  items[k] \in Live /\ ent[items[k]].key = k /\ k \in Key
BY DEF Structure, IndexAgrees, CacheTypeOK

\* removeElement keeps index, list, recency and byte count in agreement.
LEMMA RemoveElementKeepsStructure ==
  ASSUME Structure, NEW e \in Live, RemoveElement(e)
  PROVE  /\ Structure'
         /\ curBytes' <= curBytes
         /\ ll[1] # e => /\ ll' # <<>> /\ ll'[1] = ll[1]
                        /\ ent'[ll'[1]] = ent[ll[1]]
         /\ DOMAIN items' = DOMAIN items \ {ent[e].key}
<1> DEFINE k == ent[e].key
           i == Position(e)
<1>1. /\ e \in Elem /\ ent[e] \in Entries /\ ent[e].size \in Nat
      /\ k \in DOMAIN items /\ items[k] = e
      /\ i \in 1..Len(ll) /\ ll[i] = e
  BY OfElement
<1>2. /\ ll \in Seq(Elem) /\ Distinct(ll) /\ Len(ll) \in Nat
      /\ DOMAIN ll = 1..Len(ll)
  BY LenProperties DEF Structure, CacheTypeOK, IndexAgrees, Distinct
<1>3. /\ ll' \in Seq(Elem)
      /\ Distinct(ll')
      /\ Elems(ll') = Elems(ll) \ {e}
      /\ i > 1 => ll' # <<>> /\ ll'[1] = ll[1]
      /\ \A m, n \in DOMAIN ll' : m < n =>
           \E a, b \in DOMAIN ll : a < b /\ ll'[m] = ll[a] /\ ll'[n] = ll[b]
  <2>1. ll' = Without(ll, i)
    BY DEF RemoveElement
  <2>2. i \in 1..Len(ll)
    BY <1>1
  <2>3. ll \in Seq(Elem) /\ Distinct(ll)
    BY <1>2
  <2> HIDE DEF i
  <2>4. /\ Without(ll, i) \in Seq(Elem)
        /\ Distinct(Without(ll, i))
        /\ Elems(Without(ll, i)) = Elems(ll) \ {ll[i]}
        /\ i > 1 => Without(ll, i) # <<>> /\ Without(ll, i)[1] = ll[1]
        /\ \A m, n \in DOMAIN Without(ll, i) : m < n =>
             \E a, b \in DOMAIN ll : /\ a < b
                                     /\ Without(ll, i)[m] = ll[a]
                                     /\ Without(ll, i)[n] = ll[b]
    BY <2>2, <2>3, WithoutDistinct
  <2> QED BY <1>1, <2>1, <2>4
<1>4. Live' = Live \ {e}
  BY <1>3 DEF Live, Elems
<1>5. /\ ent' = [ent EXCEPT ![e] = None]
      /\ items' = [x \in DOMAIN items \ {k} |-> items[x]]
      /\ curBytes' = curBytes - ent[e].size
      /\ older' = older \cap (Others(k) \X Others(k))
  BY DEF RemoveElement, Dropped
<1>6. ent \in [Elem -> Entries \cup {None}]
  BY DEF Structure, CacheTypeOK
<1>7. \A x \in Live' : x # e /\ x \in Live /\ ent'[x] = ent[x] /\ ent[x].key # k
  <2> SUFFICES ASSUME NEW x \in Live' PROVE x # e /\ x \in Live /\ ent'[x] = ent[x]
                                          /\ ent[x].key # k
    OBVIOUS
  <2>1. x # e /\ x \in Live
    BY <1>4
  <2>2. x \in Elem /\ items[ent[x].key] = x
    BY <2>1, OfElement
  <2> QED BY <1>1, <1>5, <1>6, <2>1, <2>2
<1>8. /\ IsFiniteSet(Bytes(Live', ent'))
      /\ Cardinality(Bytes(Live', ent')) = Cardinality(Bytes(Live, ent)) - ent[e].size
      /\ Cardinality(Bytes(Live', ent')) \in Nat
  <2>1. \A x : x \in Live' <=> x \in Live /\ x # e
    BY <1>4
  <2>2. /\ IsFiniteSet(Bytes(Live', ent))
        /\ Cardinality(Bytes(Live', ent)) = Cardinality(Bytes(Live, ent)) - ent[e].size
        /\ Cardinality(Bytes(Live', ent)) \in Nat
    BY <1>1, <2>1, BytesRemove DEF Structure
  <2>3. \A x \in Live' : ent'[x].size = ent[x].size
    BY <1>7
  <2>4. Bytes(Live', ent') = Bytes(Live', ent)
    BY <2>3, BytesSame
  <2> QED BY <2>2, <2>4, Zenon
<1>9. BytesAccounted' /\ curBytes' \in Nat
  BY <1>5, <1>8 DEF Structure, BytesAccounted
<1>10. CacheTypeOK'
  <2>1. ent' \in [Elem -> Entries \cup {None}]
    BY <1>5, <1>6
  <2>2. DOMAIN items' = DOMAIN items \ {k}
    BY <1>5
  <2>3. DOMAIN items' \subseteq Key /\ items' \in [DOMAIN items' -> Elem]
    BY <1>5, <2>2 DEF Structure, CacheTypeOK
  <2>4. older' \subseteq (DOMAIN items') \X (DOMAIN items')
    BY <1>5, <2>2 DEF Others
  <2> QED BY <1>3, <1>9, <2>1, <2>3, <2>4 DEF CacheTypeOK
<1>11. IndexAgrees'
  <2>1. \A x, y \in DOMAIN ll' : ll'[x] = ll'[y] => x = y
    BY <1>3 DEF Distinct
  <2>2. ASSUME NEW x \in DOMAIN ll'
        PROVE  /\ ent'[ll'[x]] # None
               /\ ent'[ll'[x]].key \in DOMAIN items'
               /\ items'[ent'[ll'[x]].key] = ll'[x]
    <3>1. ll'[x] \in Live'
      BY DEF Live
    <3>2. /\ ll'[x] \in Live /\ ent'[ll'[x]] = ent[ll'[x]]
          /\ ent[ll'[x]].key # k
      BY <1>7, <3>1
    <3>3. /\ ent[ll'[x]].key \in DOMAIN items /\ items[ent[ll'[x]].key] = ll'[x]
          /\ ent[ll'[x]] # None
      BY <3>2 DEF Structure, IndexAgrees, Live
    <3> QED BY <1>5, <3>2, <3>3
  <2>3. ASSUME NEW x \in DOMAIN items'
        PROVE  items'[x] \in Live' /\ ent'[items'[x]].key = x
    <3>1. x \in DOMAIN items /\ x # k /\ items'[x] = items[x]
      BY <1>5
    <3>2. items[x] \in Live /\ ent[items[x]].key = x
      BY <3>1, OfKey
    <3>3. items[x] # e
      BY <3>1, <3>2
    <3> QED BY <1>4, <1>7, <3>1, <3>2, <3>3
  <2>4. ASSUME NEW x \in Elem, ent'[x] # None PROVE x \in Live'
    <3>1. x # e /\ ent[x] # None
      BY <1>1, <1>5, <1>6, <2>4
    <3> QED BY <1>4, <3>1 DEF Structure, IndexAgrees
  <2> QED BY <2>1, <2>2, <2>3, <2>4 DEF IndexAgrees
<1>12. RecencyOrder'
  <2> SUFFICES ASSUME NEW m \in DOMAIN ll', NEW n \in DOMAIN ll', m < n
               PROVE  <<ent'[ll'[n]].key, ent'[ll'[m]].key>> \in older'
    BY DEF RecencyOrder
  <2>1. PICK a \in DOMAIN ll, b \in DOMAIN ll :
          a < b /\ ll'[m] = ll[a] /\ ll'[n] = ll[b]
    BY <1>3
  <2>2. <<ent[ll[b]].key, ent[ll[a]].key>> \in older
    BY <2>1 DEF Structure, RecencyOrder
  <2>3. ll'[m] \in Live' /\ ll'[n] \in Live'
    BY DEF Live
  <2>4. /\ ent'[ll'[m]] = ent[ll[a]] /\ ent[ll[a]].key # k
        /\ ent'[ll'[n]] = ent[ll[b]] /\ ent[ll[b]].key # k
    BY <1>7, <2>1, <2>3
  <2>5. ent[ll[a]].key \in DOMAIN items /\ ent[ll[b]].key \in DOMAIN items
    BY DEF Structure, IndexAgrees
  <2> QED BY <1>5, <2>2, <2>4, <2>5 DEF Others
<1>13. Structure'
  BY <1>8, <1>9, <1>10, <1>11, <1>12 DEF Structure
<1>14. curBytes' <= curBytes
  BY <1>1, <1>5 DEF Structure, CacheTypeOK
<1>15. ASSUME ll[1] # e
       PROVE  ll' # <<>> /\ ll'[1] = ll[1] /\ ent'[ll'[1]] = ent[ll[1]]
  <2>1. i # 1 /\ i > 1
    BY <1>1, <1>2, <1>15
  <2>2. ll[1] \in Elem
    BY <1>1, <1>2, ElementOfSeq
  <2> QED BY <1>3, <1>5, <1>6, <1>15, <2>1, <2>2
<1>16. DOMAIN items' = DOMAIN items \ {ent[e].key}
  BY <1>5
<1> QED BY <1>13, <1>14, <1>15, <1>16

\* A use of a key, with or without a new image for it, keeps them in agreement.
LEMMA UseKeepsStructure ==
  ASSUME Structure, NEW k \in DOMAIN items, NEW n \in Entries, n.key = k,
         ent' = [ent EXCEPT ![items[k]] = n],
         curBytes' = (curBytes - ent[items[k]].size) + n.size,
         items' = items,
         MoveToFront(items[k]),
         older' = Used(k)
  PROVE  /\ Structure'
         /\ ll' # <<>> /\ ent'[ll'[1]] = n
<1> DEFINE e == items[k]
           i == Position(e)
<1>1. e \in Live /\ ent[e].key = k /\ k \in Key
  BY OfKey
<1>2. /\ e \in Elem /\ ent[e].size \in Nat
      /\ i \in 1..Len(ll) /\ ll[i] = e
  BY <1>1, OfElement
<1>3. /\ ll \in Seq(Elem) /\ Distinct(ll)
      /\ ent \in [Elem -> Entries \cup {None}]
      /\ n.size \in Nat
  BY DEF Structure, CacheTypeOK, IndexAgrees, Distinct, Entries
<1>4. ll' = PushFront(ll[i], Without(ll, i))
  BY <1>2 DEF MoveToFront
<1>5. /\ ll' \in Seq(Elem) /\ ll' # <<>> /\ Distinct(ll')
      /\ Elems(ll') = Elems(ll)
      /\ ll'[1] = e
      /\ \A x, y \in DOMAIN ll' : x < y =>
           /\ ll'[y] \in Elems(ll) \ {e}
           /\ \/ ll'[x] = e
              \/ /\ ll'[x] \in Elems(ll) \ {e}
                 /\ \E a, b \in DOMAIN ll : a < b /\ ll'[x] = ll[a] /\ ll'[y] = ll[b]
  <2>1. ll \in Seq(Elem) /\ Distinct(ll)
    BY <1>3
  <2>2. i \in 1..Len(ll) /\ ll[i] = e
    BY <1>2
  <2> HIDE DEF i, e
  <2>3. /\ ll' \in Seq(Elem) /\ ll' # <<>> /\ Distinct(ll')
        /\ Elems(ll') = Elems(ll)
        /\ ll'[1] = ll[i]
        /\ \A x, y \in DOMAIN ll' : x < y =>
             /\ ll'[y] \in Elems(ll) \ {ll[i]}
             /\ \/ ll'[x] = ll[i]
                \/ /\ ll'[x] \in Elems(ll) \ {ll[i]}
                   /\ \E a, b \in DOMAIN ll : a < b /\ ll'[x] = ll[a] /\ ll'[y] = ll[b]
    BY <1>4, <2>1, <2>2, MoveToFrontDistinct
  <2> QED BY <2>2, <2>3
<1>7. Live' = Live
  BY <1>5 DEF Live, Elems
<1>8. /\ ent' = [ent EXCEPT ![e] = n]
      /\ ent'[e] = n
      /\ \A x \in Elem : x # e => ent'[x] = ent[x]
      /\ \A x \in Live : ent'[x].key = ent[x].key
  <2>1. \A x \in Live : x \in Elem
    BY OfElement
  <2> QED BY <1>1, <1>2, <1>3, <2>1
<1>9. /\ IsFiniteSet(Bytes(Live', ent'))
      /\ Cardinality(Bytes(Live', ent'))
           = (Cardinality(Bytes(Live, ent)) - ent[e].size) + n.size
      /\ Cardinality(Bytes(Live', ent')) \in Nat
  <2>1. ent[e].size \in Nat /\ ent'[e].size \in Nat /\ ent'[e].size = n.size
    BY <1>2, <1>3, <1>8
  <2>2. \A x \in Live : x # e => ent[x].size = ent'[x].size
    BY <1>8, OfElement
  <2>3. e \in Live /\ IsFiniteSet(Bytes(Live, ent))
    BY <1>1 DEF Structure
  <2>4. PICK after : after = ent'
    OBVIOUS
  <2>5. /\ after[e].size \in Nat /\ after[e].size = n.size
        /\ \A x \in Live : x # e => ent[x].size = after[x].size
    BY <2>1, <2>2, <2>4, Zenon
  <2> HIDE DEF e
  <2>6. /\ IsFiniteSet(Bytes(Live, after))
        /\ Cardinality(Bytes(Live, after))
             = (Cardinality(Bytes(Live, ent)) - ent[e].size) + after[e].size
        /\ Cardinality(Bytes(Live, after)) \in Nat
    BY <2>1, <2>3, <2>5, BytesReplace
  <2>7. Bytes(Live', ent') = Bytes(Live, after)
    BY <1>7, <2>4, Zenon
  <2> QED BY <2>5, <2>6, <2>7
<1>10. BytesAccounted' /\ curBytes' \in Nat
  BY <1>9 DEF Structure, BytesAccounted
<1>11. CacheTypeOK'
  <2>1. ent' \in [Elem -> Entries \cup {None}]
    BY <1>3, <1>8
  <2>2. older' \subseteq (DOMAIN items') \X (DOMAIN items')
    BY DEF Used, Dropped, Others
  <2> QED BY <1>5, <1>10, <2>1, <2>2 DEF CacheTypeOK, Structure
<1>12. IndexAgrees'
  <2>1. \A x, y \in DOMAIN ll' : ll'[x] = ll'[y] => x = y
    BY <1>5 DEF Distinct
  <2>2. ASSUME NEW x \in DOMAIN ll'
        PROVE  /\ ent'[ll'[x]] # None
               /\ ent'[ll'[x]].key \in DOMAIN items'
               /\ items'[ent'[ll'[x]].key] = ll'[x]
    <3>1. ll'[x] \in Live
      BY <1>7 DEF Live
    <3>2. /\ ent[ll'[x]].key \in DOMAIN items /\ items[ent[ll'[x]].key] = ll'[x]
          /\ ent'[ll'[x]].key = ent[ll'[x]].key
      BY <1>8, <3>1, OfElement
    <3>3. ent'[ll'[x]] # None
      <4>1. CASE ll'[x] = e
        BY <1>8, <4>1, NoneAssumption
      <4>2. CASE ll'[x] # e
        BY <1>8, <3>1, <4>2, OfElement DEF Structure, IndexAgrees, Live
      <4> QED BY <4>1, <4>2
    <3> QED BY <3>2, <3>3
  <2>3. ASSUME NEW x \in DOMAIN items'
        PROVE  items'[x] \in Live' /\ ent'[items'[x]].key = x
    BY <1>7, <1>8, OfKey
  <2>4. ASSUME NEW x \in Elem, ent'[x] # None PROVE x \in Live'
    BY <1>1, <1>7, <1>8, <2>4 DEF Structure, IndexAgrees
  <2> QED BY <2>1, <2>2, <2>3, <2>4 DEF IndexAgrees
<1>13. RecencyOrder'
  <2> SUFFICES ASSUME NEW x \in DOMAIN ll', NEW y \in DOMAIN ll', x < y
               PROVE  <<ent'[ll'[y]].key, ent'[ll'[x]].key>> \in older'
    BY DEF RecencyOrder
  <2>1. \A z \in Elems(ll) \ {e} : /\ ent'[z].key = ent[z].key
                                   /\ ent[z].key \in Others(k)
    <3> SUFFICES ASSUME NEW z \in Live, z # e
                 PROVE  ent'[z].key = ent[z].key /\ ent[z].key \in Others(k)
      BY LiveElems
    <3>1. ent[z].key \in DOMAIN items /\ items[ent[z].key] = z
      BY OfElement
    <3> QED BY <1>8, <3>1 DEF Others
  <2>2. ll'[y] \in Elems(ll) \ {e}
    BY <1>5
  <2>3. CASE ll'[x] = e
    <3>1. ent'[ll'[x]].key = k
      BY <1>8, <2>3
    <3>2. ent'[ll'[y]].key \in Others(k)
      BY <2>1, <2>2
    <3> QED BY <3>1, <3>2 DEF Used
  <2>4. CASE ll'[x] # e
    <3>1. ll'[x] \in Elems(ll) \ {e}
      BY <1>5, <2>4
    <3>2. PICK a \in DOMAIN ll, b \in DOMAIN ll :
            a < b /\ ll'[x] = ll[a] /\ ll'[y] = ll[b]
      BY <1>5, <2>4
    <3>3. <<ent[ll'[y]].key, ent[ll'[x]].key>> \in older
      BY <3>2 DEF Structure, RecencyOrder
    <3>4. <<ent[ll'[y]].key, ent[ll'[x]].key>> \in Dropped(k)
      BY <2>1, <2>2, <3>1, <3>3 DEF Dropped
    <3> QED BY <2>1, <2>2, <3>1, <3>4 DEF Used
  <2> QED BY <2>3, <2>4
<1>14. Structure'
  BY <1>9, <1>10, <1>11, <1>12, <1>13 DEF Structure
<1>15. ent'[ll'[1]] = n
  BY <1>5, <1>8
<1> QED BY <1>5, <1>14, <1>15

\* Pushing an entry for a new key keeps them in agreement.
LEMMA InsertKeepsStructure ==
  ASSUME Structure, NEW k \in Key, k \notin DOMAIN items,
         NEW n \in Entries, n.key = k,
         NEW e \in Elem, ent[e] = None,
         ent' = [ent EXCEPT ![e] = n],
         ll' = PushFront(e, ll),
         items' = [x \in DOMAIN items \cup {k} |-> IF x = k THEN e ELSE items[x]],
         curBytes' = curBytes + n.size,
         older' = Used(k)
  PROVE  /\ Structure'
         /\ ll' # <<>> /\ ent'[ll'[1]] = n
<1>1. /\ ll \in Seq(Elem) /\ Distinct(ll)
      /\ ent \in [Elem -> Entries \cup {None}]
      /\ n.size \in Nat /\ n # None
  BY NoneAssumption DEF Structure, CacheTypeOK, IndexAgrees, Distinct, Entries
<1>2. e \notin Live /\ e \notin Elems(ll)
  <2>1. e \notin Live
    BY <1>1 DEF Structure, IndexAgrees, Live
  <2> QED BY <2>1, LiveElems
<1>3. /\ ll' \in Seq(Elem) /\ ll' # <<>> /\ Distinct(ll')
      /\ Elems(ll') = Elems(ll) \cup {e}
      /\ ll'[1] = e
      /\ \A x, y \in DOMAIN ll' : x < y =>
           /\ y - 1 \in DOMAIN ll
           /\ ll'[y] = ll[y - 1]
           /\ x = 1 => ll'[x] = e
           /\ x > 1 => x - 1 \in DOMAIN ll /\ ll'[x] = ll[x - 1]
  <2>1. PICK t : t = ll'
    OBVIOUS
  <2>2. t = PushFront(e, ll)
    BY <2>1
  <2>3. /\ t \in Seq(Elem) /\ t # <<>> /\ Distinct(t)
        /\ Elems(t) = Elems(ll) \cup {e}
        /\ t[1] = e
        /\ \A x, y \in DOMAIN t : x < y =>
             /\ y - 1 \in DOMAIN ll
             /\ t[y] = ll[y - 1]
             /\ x = 1 => t[x] = e
             /\ x > 1 => x - 1 \in DOMAIN ll /\ t[x] = ll[x - 1]
    BY <1>1, <1>2, <2>2, PushFrontDistinct
  <2> QED BY <2>1, <2>3, Zenon
<1>4. \A x : x \in Live' <=> x \in Live \/ x = e
  BY <1>3 DEF Live, Elems
<1>5. /\ ent'[e] = n
      /\ \A x \in Elem : x # e => ent'[x] = ent[x]
      /\ \A x \in Live : x # e /\ ent'[x] = ent[x]
  <2>1. \A x \in Live : x \in Elem /\ x # e
    BY <1>2, OfElement
  <2> QED BY <1>1, <2>1
<1>6. /\ DOMAIN items' = DOMAIN items \cup {k}
      /\ items'[k] = e
      /\ \A x \in DOMAIN items : x # k /\ items'[x] = items[x]
  OBVIOUS
<1>7. /\ IsFiniteSet(Bytes(Live', ent'))
      /\ Cardinality(Bytes(Live', ent')) = Cardinality(Bytes(Live, ent)) + n.size
  <2>1. PICK after : after = ent'
    OBVIOUS
  <2>2. PICK now : now = Live'
    OBVIOUS
  <2>3. /\ after[e].size = n.size /\ after[e].size \in Nat
        /\ \A x \in Live : after[x].size = ent[x].size
    BY <1>1, <1>5, <2>1, Zenon
  <2>4. Bytes(Live, after) = Bytes(Live, ent)
    BY <2>3, BytesSame
  <2>5. IsFiniteSet(Bytes(Live, after))
    BY <2>4, Zenon DEF Structure
  <2>6. \A x : x \in now <=> x \in Live \/ x = e
    BY <1>4, <2>2, Zenon
  <2>7. /\ IsFiniteSet(Bytes(now, after))
        /\ Cardinality(Bytes(now, after)) = Cardinality(Bytes(Live, after)) + after[e].size
    BY <1>2, <2>3, <2>5, <2>6, BytesAdd
  <2>8. Bytes(Live', ent') = Bytes(now, after)
    BY <2>1, <2>2, Zenon
  <2> QED BY <2>3, <2>4, <2>7, <2>8
<1>8. BytesAccounted' /\ curBytes' \in Nat
  BY <1>1, <1>7 DEF Structure, BytesAccounted, CacheTypeOK
<1>9. CacheTypeOK'
  <2>1. ent' \in [Elem -> Entries \cup {None}]
    BY <1>1
  <2>2. DOMAIN items' \subseteq Key /\ items' \in [DOMAIN items' -> Elem]
    BY <1>6 DEF Structure, CacheTypeOK
  <2>3. older' \subseteq (DOMAIN items') \X (DOMAIN items')
    BY <1>6 DEF Used, Dropped, Others
  <2> QED BY <1>3, <1>8, <2>1, <2>2, <2>3 DEF CacheTypeOK
<1>10. \A z \in Live : /\ ent'[z] = ent[z] /\ ent[z] # None
                      /\ ent[z].key \in DOMAIN items /\ ent[z].key # k
                      /\ items[ent[z].key] = z
  <2> SUFFICES ASSUME NEW z \in Live
               PROVE  /\ ent'[z] = ent[z] /\ ent[z] # None
                      /\ ent[z].key \in DOMAIN items /\ ent[z].key # k
                      /\ items[ent[z].key] = z
    OBVIOUS
  <2>1. ent[z].key \in DOMAIN items /\ items[ent[z].key] = z
    BY OfElement
  <2>2. ent[z] # None
    BY DEF Structure, IndexAgrees, Live
  <2> QED BY <1>5, <2>1, <2>2
<1>11. IndexAgrees'
  <2>1. \A x, y \in DOMAIN ll' : ll'[x] = ll'[y] => x = y
    BY <1>3 DEF Distinct
  <2>2. ASSUME NEW x \in DOMAIN ll'
        PROVE  /\ ent'[ll'[x]] # None
               /\ ent'[ll'[x]].key \in DOMAIN items'
               /\ items'[ent'[ll'[x]].key] = ll'[x]
    <3>1. CASE ll'[x] = e
      BY <1>1, <1>5, <1>6, <3>1
    <3>2. CASE ll'[x] # e
      <4>1. ll'[x] \in Live
        BY <1>4, <3>2 DEF Live
      <4> QED BY <1>6, <1>10, <4>1
    <3> QED BY <3>1, <3>2
  <2>3. ASSUME NEW x \in DOMAIN items'
        PROVE  items'[x] \in Live' /\ ent'[items'[x]].key = x
    <3>1. CASE x = k
      BY <1>4, <1>5, <1>6, <3>1
    <3>2. CASE x # k
      <4>1. x \in DOMAIN items /\ items'[x] = items[x]
        BY <1>6, <3>2
      <4>2. items[x] \in Live /\ ent[items[x]].key = x
        BY <4>1, OfKey
      <4> QED BY <1>4, <1>10, <4>1, <4>2
    <3> QED BY <3>1, <3>2
  <2>4. ASSUME NEW x \in Elem, ent'[x] # None PROVE x \in Live'
    BY <1>4, <1>5, <2>4 DEF Structure, IndexAgrees
  <2> QED BY <2>1, <2>2, <2>3, <2>4 DEF IndexAgrees
<1>12. RecencyOrder'
  <2> SUFFICES ASSUME NEW x \in DOMAIN ll', NEW y \in DOMAIN ll', x < y
               PROVE  <<ent'[ll'[y]].key, ent'[ll'[x]].key>> \in older'
    BY DEF RecencyOrder
  <2> DEFINE a == x - 1
             b == y - 1
  <2>1. x \in Nat /\ y \in Nat /\ x >= 1
    BY <1>3, LenProperties
  <2>2. b \in DOMAIN ll /\ ll'[y] = ll[b]
    BY <1>3
  <2>3. \A z \in Live : ent'[z].key \in Others(k) /\ ent'[z].key = ent[z].key
    BY <1>10 DEF Others
  <2>4. ll'[y] \in Live
    BY <2>2 DEF Live
  <2>5. CASE x = 1
    <3>1. ent'[ll'[x]].key = k
      BY <1>3, <1>5, <2>5
    <3> QED BY <2>3, <2>4, <3>1 DEF Used
  <2>6. CASE x > 1
    <3>1. a \in DOMAIN ll /\ ll'[x] = ll[a] /\ a < b
      BY <1>3, <2>1, <2>6
    <3>2. ll'[x] \in Live
      BY <3>1 DEF Live
    <3> HIDE DEF a, b
    <3>3. <<ent[ll'[y]].key, ent[ll'[x]].key>> \in older
      BY <2>2, <3>1 DEF Structure, RecencyOrder
    <3>4. <<ent[ll'[y]].key, ent[ll'[x]].key>> \in Dropped(k)
      BY <2>3, <2>4, <3>2, <3>3 DEF Dropped
    <3> QED BY <2>3, <2>4, <3>2, <3>4 DEF Used
  <2> QED BY <2>1, <2>5, <2>6
<1>13. Structure'
  BY <1>7, <1>8, <1>9, <1>11, <1>12 DEF Structure
<1> QED BY <1>3, <1>5, <1>13

-----------------------------------------------------------------------------
(* The invariant: initially, and through every action.                      *)

LEMMA StructureUnchanged ==
  ASSUME Structure, UNCHANGED cacheVars
  PROVE  Structure'
BY DEF Structure, cacheVars, CacheTypeOK, IndexAgrees, Live, RecencyOrder,
       BytesAccounted, Bytes

LEMMA InitInvariant == Init => IInv
<1> SUFFICES ASSUME Init PROVE IInv
  OBVIOUS
<1> USE DEF Init
<1>1. Live = {}
  BY DEF Live
<1>2. IsFiniteSet(Bytes(Live, ent)) /\ Cardinality(Bytes(Live, ent)) = 0
  BY <1>1, BytesNone
<1>3. CacheTypeOK
  BY DEF CacheTypeOK
<1>4. IndexAgrees /\ RecencyOrder /\ BytesAccounted
  BY <1>1, <1>2 DEF IndexAgrees, RecencyOrder, BytesAccounted
<1>5. TypeOK
  BY <1>3, BoundAssumption DEF TypeOK
<1>6. \A p \in Proc : ~InLoop(p) /\ mu # p
  BY NoneAssumption DEF InLoop
<1> QED BY <1>2, <1>3, <1>4, <1>5, <1>6, BoundAssumption
        DEF IInv, MutexFreed, Structure, FrontIsStored, OnlyAdmissible

\* What is known of a call in progress.
LEMMA OfCall ==
  ASSUME TypeOK, NEW p \in Proc, call[p] # None
  PROVE  /\ call[p].key \in Key /\ call[p].now \in 0..MaxTime
         /\ call[p].op # "get" => call[p].value \in Value
         /\ call[p] \in Calls
BY DEF TypeOK, Calls

\* The entry made for a call, and its fields.
LEMMA EntryOfCall ==
  ASSUME TypeOK, NEW p \in Proc, call[p] # None, call[p].op # "get"
  PROVE  /\ EntryOf(call[p]) \in Entries
         /\ EntryOf(call[p]).key = call[p].key
         /\ EntryOf(call[p]).size = SizeOf[call[p].value]
<1>1. call[p].key \in Key /\ call[p].now \in Nat /\ call[p].value \in Value
  BY OfCall, BoundAssumption
<1>2. Expires(call[p].now) \in Nat
  BY <1>1, BoundAssumption DEF Expires
<1>3. SizeOf[call[p].value] \in Nat
  BY <1>1, SizeAssumption
<1> QED BY <1>1, <1>2, <1>3 DEF EntryOf, Entries

LEMMA TickStep == IInv /\ Tick => IInv'
<1> SUFFICES ASSUME IInv, Tick PROVE IInv'
  OBVIOUS
<1>1. Structure'
  BY StructureUnchanged DEF IInv, MutexFreed, Tick
<1>2. TypeOK'
  BY <1>1, BoundAssumption DEF IInv, Tick, TypeOK, Structure
<1> QED BY <1>1, <1>2 DEF IInv, MutexFreed, Tick, cacheVars, InLoop, FrontIsStored, OnlyAdmissible

LEMMA BeginStep ==
  ASSUME IInv, NEW p \in Proc, NEW c \in Calls \cup {None},
         call[p] = None, call' = [call EXCEPT ![p] = c],
         c # None => c.op # "evict" /\ (c.op # "get" => Admissible(c.value)),
         answer' = [answer EXCEPT ![p] = None],
         UNCHANGED <<clock, mu, cacheVars>>
  PROVE  IInv'
<1>1. Structure'
  BY StructureUnchanged DEF IInv, MutexFreed
<1>2. TypeOK'
  BY <1>1 DEF IInv, TypeOK, Structure
<1>3. call \in [Proc -> Calls \cup {None}]
  BY DEF IInv, TypeOK
<1>4. /\ call'[p] = c
      /\ \A q \in Proc : q # p => call'[q] = call[q]
  BY <1>3
<1>5. \A q \in Proc : InLoop(q)' <=> InLoop(q)
  BY <1>4 DEF InLoop
<1>6. FrontIsStored'
  BY <1>4, <1>5 DEF IInv, MutexFreed, FrontIsStored, cacheVars, InLoop
<1>7. OnlyAdmissible'
  BY <1>4 DEF IInv, OnlyAdmissible, Admissible
<1> QED BY <1>1, <1>2, <1>5, <1>6, <1>7 DEF IInv, MutexFreed, cacheVars

LEMMA BeginGetStep ==
  ASSUME IInv, NEW p \in Proc, NEW k \in Key, BeginGet(p, k)
  PROVE  IInv'
<1> DEFINE c == IF MaxBytes = 0 THEN None
                ELSE [op |-> "get", key |-> k, value |-> None, now |-> clock]
<1>1. clock \in 0..MaxTime
  BY DEF IInv, TypeOK
<1>2. c \in Calls \cup {None} /\ (c # None => c.op = "get")
  BY <1>1 DEF Calls
<1>3. call[p] = None /\ call' = [call EXCEPT ![p] = c]
  BY DEF BeginGet
<1> HIDE DEF c
<1> QED BY <1>2, <1>3, BeginStep DEF BeginGet

LEMMA BeginSetStep ==
  ASSUME IInv, NEW p \in Proc, NEW k \in Key, NEW v \in Value, BeginSet(p, k, v)
  PROVE  IInv'
<1> DEFINE c == IF ~Admissible(v) THEN None
                ELSE [op |-> "set", key |-> k, value |-> v, now |-> clock]
<1>1. clock \in 0..MaxTime
  BY DEF IInv, TypeOK
<1>2. c \in Calls \cup {None} /\ (c # None => c.op = "set" /\ Admissible(c.value))
  BY <1>1 DEF Calls
<1>3. call[p] = None /\ call' = [call EXCEPT ![p] = c]
  BY DEF BeginSet
<1> HIDE DEF c
<1> QED BY <1>2, <1>3, BeginStep DEF BeginSet

\* A call that returns with the structure intact and within the capacity.
LEMMA ReturnStep ==
  ASSUME IInv, NEW p \in Proc, NEW a \in Value \cup {None}, Return(p, a),
         mu = None \/ mu = p, Structure', curBytes' <= MaxBytes, UNCHANGED clock
  PROVE  IInv'
<1>1. TypeOK'
  BY DEF IInv, TypeOK, Structure, Return
<1>2. /\ mu' = None
      /\ call'[p] = None
      /\ \A q \in Proc : q # p => call'[q] = call[q]
  BY DEF IInv, TypeOK, Return
<1>3. \A q \in Proc : ~InLoop(q)' /\ mu' # q
  BY <1>2, NoneAssumption DEF IInv, MutexFreed, InLoop
<1>4. FrontIsStored'
  BY <1>3 DEF FrontIsStored
<1>5. OnlyAdmissible'
  BY <1>2 DEF IInv, OnlyAdmissible, Admissible
<1> QED BY <1>1, <1>3, <1>4, <1>5 DEF IInv, MutexFreed

LEMMA GetStep ==
  ASSUME IInv, NEW p \in Proc, Get(p)
  PROVE  IInv'
<1> DEFINE k == call[p].key
           e == items[k]
<1>1. /\ Structure /\ TypeOK /\ mu = None /\ curBytes <= MaxBytes
      /\ call[p] # None /\ k \in Key
  BY OfCall DEF IInv, MutexFreed, Get, GetHit, GetExpired, GetAbsent, Locked
<1>2. CASE GetHit(p)
  <2>1. /\ k \in DOMAIN items /\ MoveToFront(e) /\ older' = Used(k)
        /\ Return(p, ent[e].value)
        /\ UNCHANGED <<clock, ent, items, curBytes>>
    BY <1>2 DEF GetHit
  <2>2. e \in Live /\ ent[e].key = k
    BY <1>1, <2>1, OfKey
  <2>3. e \in Elem /\ ent[e] \in Entries /\ ent[e].size \in Nat
    BY <1>1, <2>2, OfElement
  <2>4. ent' = [ent EXCEPT ![e] = ent[e]]
    BY <1>1, <2>1, <2>3 DEF Structure, CacheTypeOK
  <2>5. curBytes' = (curBytes - ent[e].size) + ent[e].size
    BY <1>1, <2>1, <2>3 DEF Structure, CacheTypeOK
  <2>6. Structure'
    BY <1>1, <2>1, <2>2, <2>3, <2>4, <2>5, UseKeepsStructure
  <2>7. ent[e].value \in Value
    BY <2>3 DEF Entries
  <2> QED BY <1>1, <2>1, <2>6, <2>7, ReturnStep
<1>3. CASE GetExpired(p)
  <2>1. /\ k \in DOMAIN items /\ RemoveElement(e) /\ Return(p, None)
        /\ UNCHANGED clock
    BY <1>3 DEF GetExpired
  <2>2. e \in Live
    BY <1>1, <2>1, OfKey
  <2>3. Structure' /\ curBytes' <= curBytes
    BY <1>1, <2>1, <2>2, RemoveElementKeepsStructure
  <2>4. curBytes' <= MaxBytes
    BY <1>1, <2>3, BoundAssumption DEF Structure, CacheTypeOK
  <2> QED BY <1>1, <2>1, <2>3, <2>4, ReturnStep
<1>4. CASE GetAbsent(p)
  <2>1. Return(p, None) /\ UNCHANGED <<clock, cacheVars>>
    BY <1>4 DEF GetAbsent
  <2>2. Structure' /\ curBytes' <= MaxBytes
    BY <1>1, <2>1, StructureUnchanged DEF cacheVars
  <2> QED BY <1>1, <2>1, <2>2, ReturnStep
<1> QED BY <1>2, <1>3, <1>4 DEF Get

\* After a store, with the structure intact and the new entry in front, the
\* goroutine is in the eviction loop.
LEMMA StartEvictStep ==
  ASSUME IInv, NEW p \in Proc, Locked(p, "set"), StartEvict(p), Structure',
         ll' # <<>>, ent'[ll'[1]] = EntryOf(call[p])
  PROVE  IInv'
<1>1. /\ TypeOK /\ mu = None /\ call[p] # None /\ call[p].op = "set"
      /\ \A q \in Proc : ~InLoop(q)
      /\ Admissible(call[p].value)
      /\ call \in [Proc -> Calls \cup {None}]
  BY NoneAssumption DEF IInv, MutexFreed, Locked, OnlyAdmissible, TypeOK
<1>2. call[p] \in Calls
  BY <1>1
<1>3. PICK c : c = [call[p] EXCEPT !.op = "evict"]
  OBVIOUS
<1>4. /\ c \in Calls /\ c.op = "evict" /\ c.key = call[p].key
      /\ c.value = call[p].value /\ c.now = call[p].now
  BY <1>1, <1>2, <1>3 DEF Calls
<1>5. call' = [call EXCEPT ![p] = c]
  BY <1>3 DEF StartEvict
<1>6. /\ call'[p] = c /\ \A q \in Proc : q # p => call'[q] = call[q]
      /\ call' \in [Proc -> Calls \cup {None}]
  BY <1>1, <1>4, <1>5
<1>7. TypeOK'
  BY <1>1, <1>6 DEF TypeOK, Structure, StartEvict
<1>8. c # None
  BY <1>4, NoneAssumption
<1>9. \A q \in Proc : InLoop(q)' <=> mu' = q
  BY <1>1, <1>4, <1>6, <1>8 DEF InLoop, StartEvict
<1>10. EntryOf(c) = EntryOf(call[p])
  BY <1>4 DEF EntryOf
<1>11. FrontIsStored'
  <2> SUFFICES ASSUME NEW q \in Proc, InLoop(q)'
               PROVE  ll' # <<>> /\ ent'[ll'[1]] = EntryOf(call'[q])
    BY DEF FrontIsStored, EntryOf, Expires
  <2>1. q = p
    BY <1>9 DEF StartEvict
  <2> QED BY <1>6, <1>10, <2>1
<1>12. OnlyAdmissible'
  BY <1>1, <1>4, <1>6 DEF IInv, OnlyAdmissible, Admissible
<1>13. mu' # None
  BY NoneAssumption DEF StartEvict
<1> QED BY <1>7, <1>9, <1>11, <1>12, <1>13 DEF IInv, MutexFreed

LEMMA SetStep ==
  ASSUME IInv, NEW p \in Proc, Set(p)
  PROVE  IInv'
<1> DEFINE k == call[p].key
           n == EntryOf(call[p])
<1>1. Locked(p, "set") /\ StartEvict(p)
  BY DEF Set, SetReplace, SetInsert
<1>2. /\ Structure /\ TypeOK /\ call[p] # None /\ call[p].op = "set"
      /\ k \in Key
      /\ call[p].value \in Value
  BY <1>1, OfCall DEF IInv, MutexFreed, Locked
<1>3. n \in Entries /\ n.key = k /\ n.size = SizeOf[call[p].value]
  BY <1>2, EntryOfCall
<1>4. CASE SetReplace(p)
  <2>1. /\ k \in DOMAIN items
        /\ curBytes' = (curBytes - ent[items[k]].size) + SizeOf[call[p].value]
        /\ ent' = [ent EXCEPT ![items[k]] = n]
        /\ MoveToFront(items[k]) /\ older' = Used(k) /\ items' = items
    BY <1>4 DEF SetReplace, BytesAfterReplace
  <2> HIDE DEF k, n
  <2>2. Structure' /\ ll' # <<>> /\ ent'[ll'[1]] = n
    BY <1>2, <1>3, <2>1, UseKeepsStructure
  <2> QED BY <1>1, <2>2, StartEvictStep DEF n
<1>5. CASE SetInsert(p)
  <2>1. PICK e \in Elem :
          /\ ent[e] = None
          /\ ent' = [ent EXCEPT ![e] = n]
          /\ ll' = PushFront(e, ll)
          /\ items' = [x \in DOMAIN items \cup {k} |-> IF x = k THEN e ELSE items[x]]
    BY <1>5 DEF SetInsert
  <2>2. /\ k \notin DOMAIN items /\ curBytes' = curBytes + SizeOf[call[p].value]
        /\ older' = Used(k)
    BY <1>5 DEF SetInsert
  <2> HIDE DEF k, n
  <2>3. Structure' /\ ll' # <<>> /\ ent'[ll'[1]] = n
    BY <1>2, <1>3, <2>1, <2>2, InsertKeepsStructure
  <2> QED BY <1>1, <2>3, StartEvictStep DEF n
<1> QED BY <1>4, <1>5 DEF Set

\* In the loop, the element evicted is never the one just stored: a list of one
\* element holds an admissible image and needs no eviction.
LEMMA BackIsNotFront ==
  ASSUME IInv, NEW p \in Proc, Evicting(p), MustEvict
  PROVE  Back \in Live /\ ll[1] \in Live /\ Back # ll[1]
<1>1. /\ Structure /\ InLoop(p) /\ ll # <<>> /\ ent[ll[1]] = EntryOf(call[p])
      /\ Admissible(call[p].value) /\ TypeOK
      /\ call[p] # None /\ call[p].op # "get"
  BY DEF IInv, MutexFreed, Evicting, InLoop, FrontIsStored, OnlyAdmissible
<1>2. Len(ll) \in Nat /\ DOMAIN ll = 1..Len(ll) /\ Len(ll) # 0
  BY <1>1, LenProperties, EmptySeq DEF Structure, CacheTypeOK
<1>3. Back \in Live /\ ll[1] \in Live
  BY <1>2 DEF Back, Live
<1>4. ASSUME Back = ll[1] PROVE FALSE
  <2>1. Len(ll) = 1
    BY <1>1, <1>2, <1>4 DEF Back, Structure, IndexAgrees
  <2>2. \A x : x \in Live <=> x = ll[1]
    BY <1>2, <2>1 DEF Live
  <2>3. ent[ll[1]].size = SizeOf[call[p].value] /\ ent[ll[1]].size \in Nat
    BY <1>1, <1>3, OfElement, EntryOfCall
  <2>4. curBytes = SizeOf[call[p].value]
    <3>1. Cardinality(Bytes(Live, ent)) = ent[ll[1]].size
      BY <2>2, <2>3, BytesOne
    <3> QED BY <1>1, <2>3, <3>1 DEF Structure, BytesAccounted
  <2> QED BY <1>1, <2>3, <2>4, BoundAssumption DEF Admissible, MustEvict
<1> QED BY <1>3, <1>4

LEMMA EvictBackStep ==
  ASSUME IInv, NEW p \in Proc, EvictBack(p)
  PROVE  IInv'
<1>1. /\ Evicting(p) /\ MustEvict /\ RemoveElement(Back)
      /\ UNCHANGED <<clock, mu, call, answer>>
      /\ Structure /\ TypeOK /\ mu = p
  BY DEF EvictBack, Evicting, IInv, MutexFreed
<1>2. Back \in Live /\ Back # ll[1]
  BY <1>1, BackIsNotFront
<1>3. Structure' /\ ll' # <<>> /\ ent'[ll'[1]] = ent[ll[1]]
  BY <1>1, <1>2, RemoveElementKeepsStructure
<1>4. TypeOK'
  BY <1>1, <1>3 DEF TypeOK, Structure
<1>5. \A q \in Proc : InLoop(q)' <=> InLoop(q)
  BY <1>1 DEF InLoop
<1>6. FrontIsStored'
  BY <1>1, <1>3, <1>5 DEF IInv, MutexFreed, FrontIsStored, EntryOf, Expires, InLoop
<1>7. OnlyAdmissible'
  BY <1>1 DEF IInv, OnlyAdmissible, Admissible
<1>8. mu' # None
  BY <1>1, NoneAssumption
<1> QED BY <1>1, <1>3, <1>4, <1>5, <1>6, <1>7, <1>8 DEF IInv, MutexFreed

LEMMA EvictDoneStep ==
  ASSUME IInv, NEW p \in Proc, EvictDone(p)
  PROVE  IInv'
<1>1. /\ Evicting(p) /\ ~MustEvict /\ Return(p, None)
      /\ UNCHANGED <<clock, cacheVars>> /\ mu = p /\ Structure
  BY DEF EvictDone, Evicting, IInv, MutexFreed
<1>2. ll # <<>>
  BY <1>1 DEF IInv, MutexFreed, FrontIsStored, InLoop, Evicting
<1>3. curBytes' <= MaxBytes
  BY <1>1, <1>2, BoundAssumption DEF MustEvict, Structure, CacheTypeOK, cacheVars
<1>4. Structure'
  BY <1>1, StructureUnchanged
<1> QED BY <1>1, <1>3, <1>4, ReturnStep

LEMMA StepInvariant == IInv /\ [Next]_vars => IInv'
<1> SUFFICES ASSUME IInv, [Next]_vars PROVE IInv'
  OBVIOUS
<1>1. CASE Tick
  BY <1>1, TickStep
<1>2. CASE \E p \in Proc, k \in Key : BeginGet(p, k)
  BY <1>2, BeginGetStep
<1>3. CASE \E p \in Proc, k \in Key, v \in Value : BeginSet(p, k, v)
  BY <1>3, BeginSetStep
<1>4. CASE \E p \in Proc : Get(p) \/ Set(p) \/ Evict(p)
  BY <1>4, GetStep, SetStep, EvictBackStep, EvictDoneStep DEF Evict
<1>5. CASE UNCHANGED vars
  <2>1. Structure'
    BY <1>5, StructureUnchanged DEF IInv, MutexFreed, vars, cacheVars
  <2>2. TypeOK'
    BY <1>5, <2>1 DEF IInv, TypeOK, Structure, vars
  <2> QED BY <1>5, <2>1, <2>2
          DEF IInv, MutexFreed, vars, InLoop, FrontIsStored, OnlyAdmissible, EntryOf, Expires,
              Admissible
<1> QED BY <1>1, <1>2, <1>3, <1>4, <1>5 DEF Next

-----------------------------------------------------------------------------
(* What the cache guarantees in every behaviour.                            *)

\* The inductive invariant holds in every reachable state: the list, the index
\* and the byte count of pngCache stay in agreement through every interleaving.
THEOREM Invariance == Spec => []IInv
<1> QED BY InitInvariant, StepInvariant, PTL DEF Spec

\* Every variable of the cache keeps its type; the byte count never goes
\* negative.
THEOREM TypeCorrect == Spec => []TypeOK
<1>1. IInv => TypeOK
  BY DEF IInv
<1> QED BY <1>1, Invariance, PTL

\* The index and the recency list always describe the same set of entries.
THEOREM IndexAlwaysAgrees == Spec => []IndexAgrees
<1>1. IInv => IndexAgrees
  BY DEF IInv, Structure
<1> QED BY <1>1, Invariance, PTL

\* curBytes is always exactly the number of bytes the list holds.
THEOREM BytesAlwaysAccounted == Spec => []BytesAccounted
<1>1. IInv => BytesAccounted
  BY DEF IInv, Structure
<1> QED BY <1>1, Invariance, PTL

\* Outside the mutex, the images held never exceed the configured capacity.
THEOREM CapacityRespected == Spec => []CapacityAtRest
<1>1. IInv => CapacityAtRest
  BY Zenon DEF IInv, Structure, BytesAccounted, CapacityAtRest
<1> QED BY <1>1, Invariance, PTL

\* The mutex is never held by a goroutine that has left the cache.
THEOREM MutexAlwaysFreed == Spec => []MutexFreed
<1>1. IInv => MutexFreed
  BY DEF IInv
<1> QED BY <1>1, Invariance, PTL

\* A Set returns with its own entry still in the cache.
THEOREM StoredAlwaysSurvives == Spec => StoredSurvives
<1> DEFINE Kept == \A p \in Proc :
                     InLoop(p) /\ call'[p] = None
                       => /\ call[p].key \in DOMAIN items'
                          /\ ent'[items'[call[p].key]].value = call[p].value
<1>1. ASSUME IInv, Next PROVE Kept
  <2> SUFFICES ASSUME NEW p \in Proc, InLoop(p), call'[p] = None
               PROVE  /\ call[p].key \in DOMAIN items'
                      /\ ent'[items'[call[p].key]].value = call[p].value
    OBVIOUS
  <2>1. /\ mu = p /\ mu # None /\ ll # <<>> /\ ent[ll[1]] = EntryOf(call[p])
        /\ call[p] # None /\ call[p].op = "evict"
        /\ call \in [Proc -> Calls \cup {None}] /\ Structure
    BY <1>1, NoneAssumption DEF IInv, MutexFreed, FrontIsStored, InLoop, TypeOK
  <2>2. EvictDone(p)
    <3>1. CASE Tick
      BY <2>1, <3>1 DEF Tick
    <3>2. CASE \E q \in Proc, k \in Key : BeginGet(q, k)
      BY <2>1, <3>2 DEF BeginGet
    <3>3. CASE \E q \in Proc, k \in Key, v \in Value : BeginSet(q, k, v)
      BY <2>1, <3>3 DEF BeginSet
    <3>4. CASE \E q \in Proc : Get(q) \/ Set(q)
      BY <2>1, <3>4
         DEF Get, Set, GetHit, GetExpired, GetAbsent, SetReplace, SetInsert, Locked
    <3>5. CASE \E q \in Proc : EvictBack(q)
      BY <2>1, <3>5 DEF EvictBack
    <3>6. CASE \E q \in Proc : EvictDone(q)
      BY <2>1, <3>6 DEF EvictDone, Evicting
    <3> QED BY <1>1, <3>1, <3>2, <3>3, <3>4, <3>5, <3>6 DEF Next, Evict
  <2>3. items' = items /\ ent' = ent
    BY <2>2 DEF EvictDone, cacheVars
  <2>4. 1 \in DOMAIN ll
    BY <2>1, LenProperties, EmptySeq DEF Structure, CacheTypeOK
  <2>5. ent[ll[1]].key \in DOMAIN items /\ items[ent[ll[1]].key] = ll[1]
    BY <2>1, <2>4 DEF Structure, IndexAgrees
  <2>6. ent[ll[1]].key = call[p].key /\ ent[ll[1]].value = call[p].value
    BY <2>1 DEF EntryOf
  <2> QED BY <2>3, <2>5, <2>6
<1>2. ASSUME IInv, UNCHANGED vars PROVE [Kept]_vars
  BY <1>2
<1>3. IInv /\ [Next]_vars => [Kept]_vars
  BY <1>1, <1>2
<1> QED BY <1>3, Invariance, PTL DEF Spec, StoredSurvives

\* An eviction takes the key unused for longest, for any number of keys.
THEOREM AlwaysEvictsLeastRecent == Spec => EvictsLeastRecent
<1> DEFINE Recent == mu # None => \A k \in DOMAIN items \ DOMAIN items', b \in DOMAIN items' :
                                    <<k, b>> \in older
<1>1. ASSUME IInv, Next PROVE Recent
  <2> SUFFICES ASSUME mu # None, NEW k \in DOMAIN items \ DOMAIN items',
                      NEW b \in DOMAIN items'
               PROVE  <<k, b>> \in older
    OBVIOUS
  <2>1. Structure
    BY <1>1 DEF IInv
  <2>2. PICK p \in Proc : EvictBack(p)
    <3>1. items' # items
      OBVIOUS
    <3>2. CASE Tick
      BY <3>1, <3>2 DEF Tick, cacheVars
    <3>3. CASE \E q \in Proc, l \in Key : BeginGet(q, l)
      BY <3>1, <3>3 DEF BeginGet, cacheVars
    <3>4. CASE \E q \in Proc, l \in Key, v \in Value : BeginSet(q, l, v)
      BY <3>1, <3>4 DEF BeginSet, cacheVars
    <3>5. CASE \E q \in Proc : Get(q) \/ Set(q)
      BY <3>5
         DEF Get, Set, GetHit, GetExpired, GetAbsent, SetReplace, SetInsert, Locked
    <3>6. CASE \E q \in Proc : EvictDone(q)
      BY <3>1, <3>6 DEF EvictDone, cacheVars
    <3> QED BY <1>1, <3>2, <3>3, <3>4, <3>5, <3>6 DEF Next, Evict
  <2>3. Back \in Live /\ MustEvict
    BY <1>1, <2>2, BackIsNotFront DEF EvictBack
  <2>4. DOMAIN items' = DOMAIN items \ {ent[Back].key}
    BY <2>1, <2>2, <2>3, RemoveElementKeepsStructure DEF EvictBack
  <2>5. k = ent[Back].key /\ b \in DOMAIN items /\ b # ent[Back].key
    BY <2>4
  <2>6. items[b] \in Live /\ ent[items[b]].key = b
    BY <2>1, <2>5, OfKey
  <2>7. PICK i \in DOMAIN ll : ll[i] = items[b]
    BY <2>6 DEF Live
  <2>8. Len(ll) \in Nat /\ DOMAIN ll = 1..Len(ll) /\ ll # <<>>
    BY <2>1, <2>3, LenProperties DEF Structure, CacheTypeOK, MustEvict
  <2>9. Len(ll) \in DOMAIN ll /\ i < Len(ll)
    BY <2>5, <2>6, <2>7, <2>8, EmptySeq DEF Back
  <2>10. <<ent[ll[Len(ll)]].key, ent[ll[i]].key>> \in older
    BY <2>1, <2>7, <2>9 DEF Structure, RecencyOrder
  <2> QED BY <2>5, <2>6, <2>7, <2>10 DEF Back
<1>2. IInv /\ [Next]_vars => [Recent]_vars
  BY <1>1
<1> QED BY <1>2, Invariance, PTL DEF Spec, EvictsLeastRecent

-----------------------------------------------------------------------------
(* pngCache implements the map with lifetimes of AbstractCache.             *)

AbsCall == [p \in Proc |-> IF InLoop(p) THEN None ELSE call[p]]

AbsStore == [k \in Key |-> IF k \notin DOMAIN items THEN None
                           ELSE [value   |-> ent[items[k]].value,
                                 expires |-> ent[items[k]].expires]]

\* A call in progress has not answered yet.
Unanswered == \A p \in Proc : call[p] # None => answer[p] = None

LEMMA UnansweredStep == IInv /\ Unanswered /\ [Next]_vars => Unanswered'
<1> SUFFICES ASSUME IInv, Unanswered, [Next]_vars, NEW q \in Proc, call'[q] # None
             PROVE  answer'[q] = None
  BY DEF Unanswered
<1>1. call \in [Proc -> Calls \cup {None}] /\ answer \in [Proc -> Value \cup {None}]
  BY DEF IInv, TypeOK
<1>2. CASE Tick \/ UNCHANGED vars
  BY <1>2 DEF Unanswered, Tick, vars
<1>3. CASE \E p \in Proc, k \in Key : BeginGet(p, k)
  BY <1>1, <1>3 DEF Unanswered, BeginGet
<1>4. CASE \E p \in Proc, k \in Key, v \in Value : BeginSet(p, k, v)
  BY <1>1, <1>4 DEF Unanswered, BeginSet
<1>5. CASE \E p \in Proc : Get(p)
  BY <1>1, <1>5 DEF Unanswered, Get, GetHit, GetExpired, GetAbsent, Return
<1>6. CASE \E p \in Proc : Set(p)
  <2>1. PICK p \in Proc : Locked(p, "set") /\ StartEvict(p)
    BY <1>6 DEF Set, SetReplace, SetInsert
  <2> QED BY <1>1, <2>1 DEF Unanswered, StartEvict, Locked
<1>7. CASE \E p \in Proc : Evict(p)
  BY <1>1, <1>7 DEF Unanswered, Evict, EvictBack, EvictDone, Return
<1> QED BY <1>2, <1>3, <1>4, <1>5, <1>6, <1>7 DEF Next

\* The stored value of a key, read through index and list.
LEMMA AbsStoreSame ==
  ASSUME UNCHANGED <<ent, items>>
  PROVE  AbsStore' = AbsStore
BY DEF AbsStore

LEMMA AbsStoreRemove ==
  ASSUME Structure, NEW e \in Live, RemoveElement(e)
  PROVE  AbsStore' = [AbsStore EXCEPT ![ent[e].key] = None]
<1> DEFINE k == ent[e].key
<1>1. e \in Elem /\ k \in DOMAIN items /\ items[k] = e /\ ent \in [Elem -> Entries \cup {None}]
  BY OfElement DEF Structure, CacheTypeOK
<1>2. /\ DOMAIN items' = DOMAIN items \ {k}
      /\ \A x \in DOMAIN items : x # k => items'[x] = items[x]
  BY DEF RemoveElement
<1>3. \A x \in DOMAIN items : x # k => ent'[items[x]] = ent[items[x]]
  <2> SUFFICES ASSUME NEW x \in DOMAIN items, x # k PROVE ent'[items[x]] = ent[items[x]]
    OBVIOUS
  <2>1. items[x] \in Live /\ ent[items[x]].key = x
    BY OfKey
  <2>2. items[x] \in Elem /\ items[x] # e
    BY <2>1, OfElement
  <2> QED BY <1>1, <2>2 DEF RemoveElement
<1> HIDE DEF k
<1> QED BY <1>2, <1>3 DEF AbsStore, k

LEMMA AbsStorePut ==
  ASSUME Structure, NEW k \in Key, NEW e \in Elem, NEW n,
         k \in DOMAIN items => items[k] = e,
         k \notin DOMAIN items => ent[e] = None,
         DOMAIN items' = DOMAIN items \cup {k},
         items'[k] = e,
         \A x \in DOMAIN items : items'[x] = items[x],
         ent' = [ent EXCEPT ![e] = n]
  PROVE  AbsStore' = [AbsStore EXCEPT ![k] = [value |-> n.value, expires |-> n.expires]]
<1>1. ent \in [Elem -> Entries \cup {None}]
  BY DEF Structure, CacheTypeOK
<1>2. ent'[e] = n
  BY <1>1
<1>3. \A x \in DOMAIN items : x # k => ent'[items[x]] = ent[items[x]]
  <2> SUFFICES ASSUME NEW x \in DOMAIN items, x # k PROVE ent'[items[x]] = ent[items[x]]
    OBVIOUS
  <2>1. items[x] \in Live /\ ent[items[x]].key = x
    BY OfKey
  <2>2. items[x] \in Elem /\ ent[items[x]] # None
    BY <2>1 DEF Structure, IndexAgrees, CacheTypeOK, Live
  <2>3. items[x] # e
    <3>1. CASE k \in DOMAIN items
      BY <2>1, <3>1, OfKey
    <3>2. CASE k \notin DOMAIN items
      BY <2>2, <3>2
    <3> QED BY <3>1, <3>2
  <2> QED BY <1>1, <2>2, <2>3
<1> QED BY <1>2, <1>3 DEF AbsStore

\* How the calls in progress change: nobody else's does.
LEMMA AbsCallUpdate ==
  ASSUME IInv, NEW p \in Proc, NEW c, NEW d, call' = [call EXCEPT ![p] = c],
         d = IF c # None /\ c.op = "evict" THEN None ELSE c
  PROVE  AbsCall' = [AbsCall EXCEPT ![p] = d]
<1>1. call \in [Proc -> Calls \cup {None}]
  BY DEF IInv, TypeOK
<1>2. call'[p] = c /\ \A q \in Proc : q # p => call'[q] = call[q]
  BY <1>1
<1> QED BY <1>2 DEF AbsCall, InLoop

\* Each action of the cache is an action of the map, or changes nothing there.
LEMMA BeginRefines ==
  ASSUME IInv, NEW p \in Proc, NEW c \in Cache!Calls \cup {None},
         call[p] = None, call' = [call EXCEPT ![p] = c],
         c # None => c.op # "evict" /\ c.now = clock,
         answer' = [answer EXCEPT ![p] = None],
         UNCHANGED <<clock, mu, cacheVars>>
  PROVE  Cache!Decline(p) \/ (c \in Cache!Calls /\ Cache!Begin(p, c))
<1>1. AbsStore' = AbsStore
  BY AbsStoreSame DEF cacheVars
<1>2. AbsCall' = [AbsCall EXCEPT ![p] = c]
  BY AbsCallUpdate
<1>3. AbsCall[p] = None
  BY DEF AbsCall
<1>4. CASE c = None
  <2>1. AbsCall' = AbsCall
    BY <1>2, <1>3, <1>4 DEF AbsCall
  <2> QED BY <1>1, <1>3, <2>1 DEF Cache!Decline, AbsCall, AbsStore
<1>5. CASE c # None
  BY <1>1, <1>2, <1>3, <1>5 DEF Cache!Begin, AbsCall, AbsStore
<1> QED BY <1>4, <1>5

LEMMA BeginGetRefines ==
  ASSUME IInv, NEW p \in Proc, NEW k \in Key, BeginGet(p, k)
  PROVE  Cache!Next
<1>0. PICK c : c = IF MaxBytes = 0 THEN None
                        ELSE [op |-> "get", key |-> k, value |-> None, now |-> clock]
  OBVIOUS
<1>1. clock \in 0..MaxTime
  BY DEF IInv, TypeOK
<1>2. c \in Cache!Calls \cup {None} /\ (c # None => c.op # "evict" /\ c.now = clock)
  BY <1>0, <1>1 DEF Cache!Calls
<1>3. /\ call[p] = None /\ call' = [call EXCEPT ![p] = c]
      /\ answer' = [answer EXCEPT ![p] = None]
      /\ UNCHANGED <<clock, mu, cacheVars>>
  BY <1>0 DEF BeginGet
<1>4. Cache!Decline(p) \/ (c \in Cache!Calls /\ Cache!Begin(p, c))
  BY <1>2, <1>3, BeginRefines
<1> QED BY <1>4 DEF Cache!Next

LEMMA BeginSetRefines ==
  ASSUME IInv, NEW p \in Proc, NEW k \in Key, NEW v \in Value, BeginSet(p, k, v)
  PROVE  Cache!Next
<1>0. PICK c : c = IF ~Admissible(v) THEN None
                        ELSE [op |-> "set", key |-> k, value |-> v, now |-> clock]
  OBVIOUS
<1>1. clock \in 0..MaxTime
  BY DEF IInv, TypeOK
<1>2. c \in Cache!Calls \cup {None} /\ (c # None => c.op # "evict" /\ c.now = clock)
  BY <1>0, <1>1 DEF Cache!Calls
<1>3. /\ call[p] = None /\ call' = [call EXCEPT ![p] = c]
      /\ answer' = [answer EXCEPT ![p] = None]
      /\ UNCHANGED <<clock, mu, cacheVars>>
  BY <1>0 DEF BeginSet
<1>4. Cache!Decline(p) \/ (c \in Cache!Calls /\ Cache!Begin(p, c))
  BY <1>2, <1>3, BeginRefines
<1> QED BY <1>4 DEF Cache!Next

LEMMA GetRefines ==
  ASSUME IInv, NEW p \in Proc, Get(p)
  PROVE  Cache!Next
<1> DEFINE k == call[p].key
           e == items[k]
<1>1. /\ Structure /\ call[p] # None /\ call[p].op = "get" /\ k \in Key
      /\ AbsCall[p] = call[p]
  BY OfCall DEF IInv, Get, GetHit, GetExpired, GetAbsent, Locked, AbsCall, InLoop
<1>2. ASSUME NEW a, Return(p, a)
      PROVE  AbsCall' = [AbsCall EXCEPT ![p] = None] /\ answer' = [answer EXCEPT ![p] = a]
  BY <1>2, AbsCallUpdate DEF Return
<1>3. CASE GetHit(p)
  <2>1. /\ k \in DOMAIN items /\ ~Expired(e, call[p].now)
        /\ Return(p, ent[e].value)
        /\ UNCHANGED <<clock, ent, items>>
    BY <1>3 DEF GetHit
  <2>2. /\ AbsCall' = [AbsCall EXCEPT ![p] = None]
        /\ answer' = [answer EXCEPT ![p] = ent[e].value]
    BY <1>2, <2>1
  <2>3. AbsStore' = AbsStore
    BY <2>1, AbsStoreSame
  <2>4. AbsStore[k] = [value |-> ent[e].value, expires |-> ent[e].expires]
    BY <1>1, <2>1 DEF AbsStore
  <2>5. AbsStore[k] # None
    <3>1. ent[e] \in Entries
      BY <1>1, <2>1, OfKey, OfElement
    <3>2. AbsStore[k] \in Stored
      BY <2>4, <3>1 DEF Entries, Stored
    <3> QED BY <3>2, NoneAssumption
  <2>6. Cache!Hit(p)
    BY <1>1, <2>1, <2>2, <2>3, <2>4, <2>5
       DEF Cache!Hit, Cache!Return, Cache!Expired, Expired, AbsCall, AbsStore
  <2> QED BY <2>6 DEF Cache!Next
<1>4. CASE GetExpired(p)
  <2>1. /\ k \in DOMAIN items /\ RemoveElement(e) /\ Return(p, None)
        /\ UNCHANGED clock
    BY <1>4 DEF GetExpired
  <2>2. /\ AbsCall' = [AbsCall EXCEPT ![p] = None]
        /\ answer' = [answer EXCEPT ![p] = None]
    BY <1>2, <2>1
  <2>3. AbsStore' = [AbsStore EXCEPT ![k] = None]
    BY <1>1, <2>1, OfKey, AbsStoreRemove
  <2>4. Cache!Miss(p)
    BY <1>1, <2>1, <2>2, <2>3 DEF Cache!Miss, Cache!Return, AbsCall, AbsStore
  <2> QED BY <2>4 DEF Cache!Next
<1>5. CASE GetAbsent(p)
  <2>1. Return(p, None) /\ UNCHANGED <<clock, ent, items>>
    BY <1>5 DEF GetAbsent, cacheVars
  <2>2. /\ AbsCall' = [AbsCall EXCEPT ![p] = None]
        /\ answer' = [answer EXCEPT ![p] = None]
    BY <1>2, <2>1
  <2>3. AbsStore' = AbsStore
    BY <2>1, AbsStoreSame
  <2>4. Cache!Miss(p)
    BY <1>1, <2>1, <2>2, <2>3 DEF Cache!Miss, Cache!Return, AbsCall, AbsStore
  <2> QED BY <2>4 DEF Cache!Next
<1> QED BY <1>3, <1>4, <1>5 DEF Get

LEMMA SetRefines ==
  ASSUME IInv, Unanswered, NEW p \in Proc, Set(p)
  PROVE  Cache!Next
<1> DEFINE k == call[p].key
           n == EntryOf(call[p])
<1>1. /\ Structure /\ call[p] # None /\ call[p].op = "set" /\ k \in Key
      /\ AbsCall[p] = call[p] /\ StartEvict(p)
  BY OfCall DEF IInv, Set, SetReplace, SetInsert, Locked, AbsCall, InLoop
<1>2. /\ n.value = call[p].value /\ n.expires = Expires(call[p].now)
  BY DEF EntryOf
<1>3. PICK c : c = [call[p] EXCEPT !.op = "evict"]
  OBVIOUS
<1>4. c # None /\ c.op = "evict"
  <2>1. call[p] \in Calls
    BY <1>1, OfCall DEF IInv
  <2>2. c \in Calls /\ c.op = "evict"
    BY <1>1, <1>3, <2>1, OfCall DEF Calls, IInv
  <2> QED BY <2>2, NoneAssumption
<1>5. AbsCall' = [AbsCall EXCEPT ![p] = None]
  <2>1. call' = [call EXCEPT ![p] = c]
    BY <1>1, <1>3 DEF StartEvict
  <2> QED BY <1>4, <2>1, AbsCallUpdate
<1>6. answer' = [answer EXCEPT ![p] = None] /\ UNCHANGED clock
  BY <1>1 DEF StartEvict, Unanswered, IInv, TypeOK
<1>7. AbsStore' = [AbsStore EXCEPT ![k] = [value |-> n.value, expires |-> n.expires]]
  <2>1. CASE SetReplace(p)
    <3>1. /\ k \in DOMAIN items /\ ent' = [ent EXCEPT ![items[k]] = n] /\ items' = items
      BY <2>1 DEF SetReplace
    <3>2. items[k] \in Elem
      BY <1>1, <3>1 DEF Structure, CacheTypeOK
    <3>a. PICK e \in Elem : e = items[k]
      BY <3>2
    <3>b. PICK m : m = n
      OBVIOUS
    <3>3. e = items[k] /\ m = n
      BY <3>a, <3>b
    <3>4. /\ DOMAIN items' = DOMAIN items \cup {k} /\ items'[k] = e
          /\ \A x \in DOMAIN items : items'[x] = items[x]
      BY <3>1, <3>3
    <3>5. ent' = [ent EXCEPT ![e] = m]
      BY <3>1, <3>3
    <3>6. PICK l : l = k
      OBVIOUS
    <3>7. /\ l \in Key /\ l \in DOMAIN items /\ items[l] = e
          /\ DOMAIN items' = DOMAIN items \cup {l} /\ items'[l] = e
      BY <1>1, <3>1, <3>3, <3>4, <3>6
    <3> HIDE DEF k, n
    <3>8. AbsStore' = [AbsStore EXCEPT ![l] = [value |-> m.value, expires |-> m.expires]]
      BY <1>1, <3>4, <3>5, <3>7, AbsStorePut
    <3> QED BY <3>3, <3>6, <3>8
  <2>2. CASE SetInsert(p)
    <3>1. PICK e \in Elem :
            /\ ent[e] = None
            /\ ent' = [ent EXCEPT ![e] = n]
            /\ items' = [x \in DOMAIN items \cup {k} |-> IF x = k THEN e ELSE items[x]]
      BY <2>2 DEF SetInsert
    <3>2. k \notin DOMAIN items
      BY <2>2 DEF SetInsert
    <3> HIDE DEF k, n
    <3>3. /\ DOMAIN items' = DOMAIN items \cup {k} /\ items'[k] = e
          /\ \A x \in DOMAIN items : items'[x] = items[x]
      BY <3>1, <3>2
    <3>4. PICK l, m : l = k /\ m = n
      OBVIOUS
    <3>5. AbsStore' = [AbsStore EXCEPT ![l] = [value |-> m.value, expires |-> m.expires]]
      BY <1>1, <3>1, <3>2, <3>3, <3>4, AbsStorePut
    <3> QED BY <3>4, <3>5
  <2> QED BY <2>1, <2>2 DEF Set
<1>8. Cache!Put(p)
  BY <1>1, <1>2, <1>5, <1>6, <1>7
     DEF Cache!Put, Cache!Return, Cache!Deadline, Expires, AbsCall, AbsStore
<1> QED BY <1>8 DEF Cache!Next

LEMMA EvictRefines ==
  ASSUME IInv, Unanswered, NEW p \in Proc, Evict(p)
  PROVE  [Cache!Next]_(Cache!absVars)
<1>1. CASE EvictBack(p)
  <2>1. /\ RemoveElement(Back) /\ UNCHANGED <<clock, call, answer>> /\ Back \in Live
        /\ Structure
    BY <1>1, BackIsNotFront DEF EvictBack, IInv
  <2>2. AbsCall' = AbsCall
    BY <2>1 DEF AbsCall, InLoop
  <2>3. AbsStore' = [AbsStore EXCEPT ![ent[Back].key] = None] /\ ent[Back].key \in Key
    BY <2>1, AbsStoreRemove, OfElement DEF Structure, CacheTypeOK
  <2>4. \E k \in Key : Cache!Forget(k)
    BY <2>1, <2>2, <2>3 DEF Cache!Forget, AbsCall, AbsStore
  <2> QED BY <2>4 DEF Cache!Next
<1>2. CASE EvictDone(p)
  <2>1. /\ call[p] # None /\ InLoop(p) /\ Return(p, None)
        /\ UNCHANGED <<clock, ent, items>>
    BY <1>2 DEF EvictDone, Evicting, InLoop, cacheVars
  <2>2. AbsCall' = [AbsCall EXCEPT ![p] = None]
    BY <2>1, AbsCallUpdate DEF Return
  <2>3. AbsCall' = AbsCall
    BY <2>1, <2>2 DEF AbsCall
  <2>4. answer' = answer
    BY <2>1 DEF Unanswered, Return, IInv, TypeOK
  <2>5. AbsStore' = AbsStore
    BY <2>1, AbsStoreSame
  <2> QED BY <2>1, <2>3, <2>4, <2>5 DEF Cache!absVars, AbsCall, AbsStore
<1> QED BY <1>1, <1>2 DEF Evict

LEMMA StepRefines ==
  IInv /\ Unanswered /\ [Next]_vars => [Cache!Next]_(Cache!absVars)
<1> SUFFICES ASSUME IInv, Unanswered, [Next]_vars
             PROVE  [Cache!Next]_(Cache!absVars)
  OBVIOUS
<1>1. CASE Tick
  <2>1. AbsStore' = AbsStore /\ AbsCall' = AbsCall
    BY <1>1, AbsStoreSame DEF Tick, cacheVars, AbsCall, InLoop
  <2>2. Cache!Tick
    BY <1>1, <2>1 DEF Tick, Cache!Tick, AbsCall, AbsStore
  <2> QED BY <2>2 DEF Cache!Next
<1>2. CASE \E p \in Proc, k \in Key : BeginGet(p, k)
  BY <1>2, BeginGetRefines
<1>3. CASE \E p \in Proc, k \in Key, v \in Value : BeginSet(p, k, v)
  BY <1>3, BeginSetRefines
<1>4. CASE \E p \in Proc : Get(p) \/ Set(p) \/ Evict(p)
  BY <1>4, GetRefines, SetRefines, EvictRefines
<1>5. CASE UNCHANGED vars
  <2>1. AbsStore' = AbsStore /\ AbsCall' = AbsCall /\ UNCHANGED <<clock, answer>>
    BY <1>5, AbsStoreSame DEF vars, AbsCall, InLoop
  <2> QED BY <2>1 DEF Cache!absVars, AbsCall, AbsStore
<1> QED BY <1>1, <1>2, <1>3, <1>4, <1>5 DEF Next

\* pngCache implements the abstract cache: every answer it gives in any
\* interleaving is one the map with lifetimes could have given.
THEOREM Refinement == Spec => ImplementsCache
<1>1. Init => Cache!Init /\ Unanswered
  BY DEF Init, Cache!Init, Unanswered, InLoop
<1> QED BY <1>1, InitInvariant, StepInvariant, UnansweredStep, StepRefines, PTL
        DEF Spec, ImplementsCache, Cache!Spec
=============================================================================
