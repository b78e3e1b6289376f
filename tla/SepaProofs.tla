----------------------------- MODULE SepaProofs -----------------------------
(***************************************************************************)
(* Proofs about SepaService: for any requests, keys, goroutines and logos,  *)
(* wherever cache keys tell requests apart, the handlers with their caches  *)
(* implement the contract without caches, and a logo is missing only after  *)
(* a failed load.                                                           *)
(*                                                                          *)
(* Both follow from what is true of an image on its way from the drawing    *)
(* into the cache and out of it again (Good): whoever may find it there     *)
(* could have drawn it.                                                     *)
(***************************************************************************)
EXTENDS SepaService, SequenceTheorems, FiniteSetTheorems, TLAPS

-----------------------------------------------------------------------------
(* Cache keys.                                                              *)

Lines == Seq(Char)

\* A field and what is behind it.
LEMMA FieldParts ==
  ASSUME NEW a \in Lines, NEW x \in Lines
  PROVE  /\ Field(a, x) \in Lines /\ Len(Field(a, x)) = Len(a) + 1 + Len(x)
         /\ Len(a) \in Nat /\ Len(x) \in Nat
         /\ DOMAIN a = 1..Len(a) /\ DOMAIN x = 1..Len(x)
         /\ \A i \in 1..Len(a) : Field(a, x)[i] = a[i]
         /\ Field(a, x)[Len(a) + 1] = Bar
         /\ \A i \in 1..Len(x) : Field(a, x)[Len(a) + 1 + i] = x[i]
<1>1. a \in Seq(Char) /\ x \in Seq(Char) /\ Len(a) \in Nat /\ Len(x) \in Nat
  BY LenProperties DEF Lines
<1>2. <<Bar>> \in Seq(Char) /\ Len(<<Bar>>) = 1 /\ <<Bar>>[1] = Bar
  BY CacheKeyAssumption
<1> DEFINE ab == a \o <<Bar>>
<1>3. /\ ab \in Seq(Char) /\ Len(ab) = Len(a) + 1
      /\ \A i \in 1..Len(a) : ab[i] = a[i]
      /\ ab[Len(a) + 1] = Bar
  <2>1. /\ ab \in Seq(Char) /\ Len(ab) = Len(a) + Len(<<Bar>>)
        /\ \A i \in 1..Len(a) + Len(<<Bar>>) :
             ab[i] = IF i <= Len(a) THEN a[i] ELSE <<Bar>>[i - Len(a)]
    BY <1>1, <1>2, ConcatProperties
  <2>2. (Len(a) + 1) - Len(a) = 1 /\ Len(a) + 1 \in 1..Len(a) + 1 /\ ~(Len(a) + 1 <= Len(a))
    BY <1>1
  <2>3. \A i \in 1..Len(a) : i \in 1..Len(a) + 1 /\ i <= Len(a)
    BY <1>1
  <2> HIDE DEF ab
  <2> QED BY <1>2, <2>1, <2>2, <2>3
<1>4. Field(a, x) = ab \o x
  BY DEF Field
<1> HIDE DEF ab
<1>5. /\ ab \o x \in Seq(Char) /\ Len(ab \o x) = Len(ab) + Len(x)
      /\ \A i \in 1..Len(ab) + Len(x) :
           (ab \o x)[i] = IF i <= Len(ab) THEN ab[i] ELSE x[i - Len(ab)]
  BY <1>1, <1>3, ConcatProperties
<1>6. \A i \in 1..Len(a) : i \in 1..Len(ab) + Len(x) /\ i <= Len(ab)
  BY <1>1, <1>3
<1>7. Len(a) + 1 \in 1..Len(ab) + Len(x) /\ Len(a) + 1 <= Len(ab)
  BY <1>1, <1>3
<1>8. \A i \in 1..Len(x) : LET j == Len(a) + 1 + i
                           IN j \in 1..Len(ab) + Len(x) /\ ~(j <= Len(ab)) /\ j - Len(ab) = i
  BY <1>1, <1>3
<1>9. DOMAIN a = 1..Len(a) /\ DOMAIN x = 1..Len(x)
  BY <1>1, LenProperties
<1> QED BY <1>1, <1>3, <1>4, <1>5, <1>6, <1>7, <1>8, <1>9 DEF Lines

LEMMA FieldType == \A a, x \in Lines : Field(a, x) \in Lines
BY FieldParts

\* A first field of a known length can be taken off again.
LEMMA SameLength ==
  ASSUME NEW a \in Lines, NEW b \in Lines, NEW x \in Lines, NEW y \in Lines,
         Field(a, x) = Field(b, y), Len(a) = Len(b)
  PROVE  a = b /\ x = y
<1> DEFINE m == Len(a)
           u == Field(a, x)
           v == Field(b, y)
<1>1. /\ Len(u) = m + 1 + Len(x) /\ m \in Nat /\ Len(x) \in Nat
      /\ DOMAIN a = 1..m /\ DOMAIN x = 1..Len(x)
      /\ \A i \in 1..m : u[i] = a[i]
      /\ \A i \in 1..Len(x) : u[m + 1 + i] = x[i]
  BY FieldParts
<1>2. /\ Len(v) = m + 1 + Len(y) /\ Len(y) \in Nat
      /\ DOMAIN b = 1..m /\ DOMAIN y = 1..Len(y)
      /\ \A i \in 1..m : v[i] = b[i]
      /\ \A i \in 1..Len(y) : v[m + 1 + i] = y[i]
  <2>1. /\ Len(v) = Len(b) + 1 + Len(y) /\ Len(y) \in Nat
        /\ DOMAIN b = 1..Len(b) /\ DOMAIN y = 1..Len(y)
        /\ \A i \in 1..Len(b) : v[i] = b[i]
        /\ \A i \in 1..Len(y) : v[Len(b) + 1 + i] = y[i]
    BY FieldParts
  <2>2. Len(b) = m
    OBVIOUS
  <2> HIDE DEF m, v
  <2> QED BY <2>1, <2>2, Zenon
<1>3. u = v
  OBVIOUS
<1> HIDE DEF m, u, v
<1>4. Len(x) = Len(y)
  <2>1. m + 1 + Len(x) = m + 1 + Len(y)
    BY <1>1, <1>2, <1>3, Zenon
  <2> DEFINE p == Len(x)
             q == Len(y)
  <2>2. p \in Nat /\ q \in Nat /\ m \in Nat /\ m + 1 + p = m + 1 + q
    BY <1>1, <1>2, <2>1
  <2> HIDE DEF p, q
  <2>3. p = q
    BY <2>2
  <2> QED BY <2>3 DEF p, q
<1>5. a = b
  BY <1>1, <1>2, <1>3, SeqEqual DEF m, Lines
<1>6. x = y
  BY <1>1, <1>2, <1>3, <1>4, SeqEqual DEF Lines
<1> QED BY <1>5, <1>6

\* So can a first field that has as many bars as the other.
LEMMA FirstField ==
  ASSUME NEW a \in Lines, NEW b \in Lines, NEW x \in Lines, NEW y \in Lines,
         Field(a, x) = Field(b, y), Cardinality(Bars(a)) = Cardinality(Bars(b))
  PROVE  a = b /\ x = y
<1>1. ASSUME NEW c \in Lines, NEW d \in Lines, NEW r \in Lines, NEW w \in Lines,
             Field(c, r) = Field(d, w), Len(c) < Len(d)
      PROVE  Cardinality(Bars(c)) # Cardinality(Bars(d))
  <2>1. /\ Len(c) \in Nat /\ DOMAIN c = 1..Len(c) /\ Field(c, r)[Len(c) + 1] = Bar
        /\ \A i \in 1..Len(c) : Field(c, r)[i] = c[i]
        /\ Len(d) \in Nat /\ DOMAIN d = 1..Len(d)
        /\ \A i \in 1..Len(d) : Field(d, w)[i] = d[i]
    BY FieldParts
  <2>2. Len(c) + 1 \in 1..Len(d) /\ Len(c) + 1 \notin 1..Len(c) /\ 1..Len(c) \subseteq 1..Len(d)
    BY <1>1, <2>1
  <2>3. Bars(c) \subseteq Bars(d) /\ Len(c) + 1 \in Bars(d) /\ Len(c) + 1 \notin Bars(c)
    BY <1>1, <2>1, <2>2 DEF Bars
  <2>4. IsFiniteSet(Bars(d))
    <3>1. IsFiniteSet(1..Len(d))
      BY <2>1, FS_Interval
    <3>2. Bars(d) \in SUBSET (1..Len(d))
      BY <2>1 DEF Bars
    <3> QED BY <3>1, <3>2, FS_Subset
  <2> QED BY <2>3, <2>4, FS_Subset
<1>2. Len(a) \in Nat /\ Len(b) \in Nat
  BY FieldParts
<1>3. ~(Len(a) < Len(b)) /\ ~(Len(b) < Len(a))
  BY <1>1
<1>4. Len(a) = Len(b)
  BY <1>2, <1>3
<1> QED BY <1>4, SameLength

LEMMA FirstWord ==
  ASSUME NEW a \in Lines, NEW b \in Lines, NEW x \in Lines, NEW y \in Lines,
         Barless(a), Barless(b), Field(a, x) = Field(b, y)
  PROVE  a = b /\ x = y
<1>1. Bars(a) = Bars(b)
  BY DEF Bars, Barless
<1> QED BY <1>1, FirstField

LEMMA SamePayment ==
  ASSUME NEW t \in Payments, NEW u \in Payments,
         t.name = u.name, t.iban = u.iban, t.bic = u.bic, t.purpose = u.purpose,
         t.ref = u.ref, t.text = u.text, t.info = u.info, t.cents = u.cents
  PROVE  t = u
<1> DEFINE whole(v) == [name |-> v.name, iban |-> v.iban, bic |-> v.bic, purpose |-> v.purpose,
                        ref |-> v.ref, text |-> v.text, info |-> v.info, cents |-> v.cents]
<1>1. t = whole(t) /\ u = whole(u)
  BY DEF Payments
<1>2. whole(t) = whole(u)
  BY Zenon
<1> HIDE DEF whole
<1> QED BY <1>1, <1>2

\* The fields of a payment tell it.
LEMMA PaymentTold ==
  ASSUME NoBars, NEW r \in Request, NEW s \in Request, NEW x \in Lines, NEW y \in Lines
  PROVE  /\ PaymentFields(r.payment, x) \in Lines
         /\ PaymentFields(r.payment, x) = PaymentFields(s.payment, y) =>
              r.payment = s.payment /\ x = y
<1> DEFINE Text(t) == t \in Payments /\ Barless(t.name) /\ Barless(t.iban) /\ Barless(t.bic)
                      /\ Barless(t.purpose) /\ Barless(t.ref) /\ Barless(t.text)
                      /\ Barless(t.info) /\ Barless(t.cents)
<1>1. \A q \in Request : Text(q.payment)
  BY RequestAssumption, CacheKeyAssumption DEF NoBars
<1> SUFFICES ASSUME NEW t, Text(t), NEW u, Text(u)
             PROVE  /\ PaymentFields(t, x) \in Lines
                    /\ PaymentFields(t, x) = PaymentFields(u, y) => t = u /\ x = y
  BY <1>1
<1>2. /\ t.name \in Lines /\ u.name \in Lines
      /\ t.iban \in Lines /\ u.iban \in Lines
      /\ t.bic \in Lines /\ u.bic \in Lines
      /\ t.purpose \in Lines /\ u.purpose \in Lines
      /\ t.ref \in Lines /\ u.ref \in Lines
      /\ t.text \in Lines /\ u.text \in Lines
      /\ t.info \in Lines /\ u.info \in Lines
      /\ t.cents \in Lines /\ u.cents \in Lines
  BY DEF Payments, Lines
<1>a. /\ Barless(t.name) /\ Barless(u.name)
      /\ Barless(t.iban) /\ Barless(u.iban)
      /\ Barless(t.bic) /\ Barless(u.bic)
      /\ Barless(t.purpose) /\ Barless(u.purpose)
      /\ Barless(t.ref) /\ Barless(u.ref)
      /\ Barless(t.text) /\ Barless(u.text)
      /\ Barless(t.info) /\ Barless(u.info)
      /\ Barless(t.cents) /\ Barless(u.cents)
  OBVIOUS
<1> HIDE DEF Text
<1> DEFINE t1 == Field(t.cents, x)
           t2 == Field(t.info, t1)
           t3 == Field(t.text, t2)
           t4 == Field(t.ref, t3)
           t5 == Field(t.purpose, t4)
           t6 == Field(t.bic, t5)
           t7 == Field(t.iban, t6)
           u1 == Field(u.cents, y)
           u2 == Field(u.info, u1)
           u3 == Field(u.text, u2)
           u4 == Field(u.ref, u3)
           u5 == Field(u.purpose, u4)
           u6 == Field(u.bic, u5)
           u7 == Field(u.iban, u6)
<1>3. t1 \in Lines /\ u1 \in Lines
  BY <1>2, FieldParts
<1>4. t2 \in Lines /\ u2 \in Lines
  <2> HIDE DEF t1, u1
  <2> QED BY <1>2, <1>3, FieldType
<1>5. t3 \in Lines /\ u3 \in Lines
  <2> HIDE DEF t2, u2
  <2> QED BY <1>2, <1>4, FieldType
<1>6. t4 \in Lines /\ u4 \in Lines
  <2> HIDE DEF t3, u3
  <2> QED BY <1>2, <1>5, FieldType
<1>7. t5 \in Lines /\ u5 \in Lines
  <2> HIDE DEF t4, u4
  <2> QED BY <1>2, <1>6, FieldType
<1>8. t6 \in Lines /\ u6 \in Lines
  <2> HIDE DEF t5, u5
  <2> QED BY <1>2, <1>7, FieldType
<1>9. t7 \in Lines /\ u7 \in Lines
  <2> HIDE DEF t6, u6
  <2> QED BY <1>2, <1>8, FieldType
<1>10. PaymentFields(t, x) = Field(t.name, t7) /\ PaymentFields(u, y) = Field(u.name, u7)
  BY DEF PaymentFields
<1>11. PaymentFields(t, x) \in Lines
  <2> HIDE DEF t7, u7
  <2>1. Field(t.name, t7) \in Lines
    BY <1>2, <1>9, FieldType
  <2> QED BY <1>10, <2>1
<1>12. ASSUME PaymentFields(t, x) = PaymentFields(u, y) PROVE t = u /\ x = y
  <2>1. t.name = u.name /\ t7 = u7
    <3> HIDE DEF t7, u7
    <3>1. Field(t.name, t7) = Field(u.name, u7)
      BY <1>10, <1>12, Zenon
    <3>2. /\ t.name \in Lines /\ u.name \in Lines /\ t7 \in Lines /\ u7 \in Lines
          /\ Barless(t.name) /\ Barless(u.name)
      BY <1>2, <1>a, <1>9
    <3> QED BY <3>1, <3>2, FirstWord
  <2>2. t.iban = u.iban /\ t6 = u6
    <3> HIDE DEF t6, u6
    <3>1. Field(t.iban, t6) = Field(u.iban, u6)
      BY <2>1 DEF t7, u7
    <3>2. /\ t.iban \in Lines /\ u.iban \in Lines /\ t6 \in Lines /\ u6 \in Lines
          /\ Barless(t.iban) /\ Barless(u.iban)
      BY <1>2, <1>a, <1>8
    <3> QED BY <3>1, <3>2, FirstWord
  <2>3. t.bic = u.bic /\ t5 = u5
    <3> HIDE DEF t5, u5
    <3>1. Field(t.bic, t5) = Field(u.bic, u5)
      BY <2>2 DEF t6, u6
    <3>2. /\ t.bic \in Lines /\ u.bic \in Lines /\ t5 \in Lines /\ u5 \in Lines
          /\ Barless(t.bic) /\ Barless(u.bic)
      BY <1>2, <1>a, <1>7
    <3> QED BY <3>1, <3>2, FirstWord
  <2>4. t.purpose = u.purpose /\ t4 = u4
    <3> HIDE DEF t4, u4
    <3>1. Field(t.purpose, t4) = Field(u.purpose, u4)
      BY <2>3 DEF t5, u5
    <3>2. /\ t.purpose \in Lines /\ u.purpose \in Lines /\ t4 \in Lines /\ u4 \in Lines
          /\ Barless(t.purpose) /\ Barless(u.purpose)
      BY <1>2, <1>a, <1>6
    <3> QED BY <3>1, <3>2, FirstWord
  <2>5. t.ref = u.ref /\ t3 = u3
    <3> HIDE DEF t3, u3
    <3>1. Field(t.ref, t3) = Field(u.ref, u3)
      BY <2>4 DEF t4, u4
    <3>2. /\ t.ref \in Lines /\ u.ref \in Lines /\ t3 \in Lines /\ u3 \in Lines
          /\ Barless(t.ref) /\ Barless(u.ref)
      BY <1>2, <1>a, <1>5
    <3> QED BY <3>1, <3>2, FirstWord
  <2>6. t.text = u.text /\ t2 = u2
    <3> HIDE DEF t2, u2
    <3>1. Field(t.text, t2) = Field(u.text, u2)
      BY <2>5 DEF t3, u3
    <3>2. /\ t.text \in Lines /\ u.text \in Lines /\ t2 \in Lines /\ u2 \in Lines
          /\ Barless(t.text) /\ Barless(u.text)
      BY <1>2, <1>a, <1>4
    <3> QED BY <3>1, <3>2, FirstWord
  <2>7. t.info = u.info /\ t1 = u1
    <3> HIDE DEF t1, u1
    <3>1. Field(t.info, t1) = Field(u.info, u1)
      BY <2>6 DEF t2, u2
    <3>2. /\ t.info \in Lines /\ u.info \in Lines /\ t1 \in Lines /\ u1 \in Lines
          /\ Barless(t.info) /\ Barless(u.info)
      BY <1>2, <1>a, <1>3
    <3> QED BY <3>1, <3>2, FirstWord
  <2>8. t.cents = u.cents /\ x = y
    BY <1>2, <1>a, <2>7, FirstWord
  <2>9. t = u
    <3>1. t \in Payments /\ u \in Payments
      BY DEF Text
    <3> QED BY <2>1, <2>2, <2>3, <2>4, <2>5, <2>6, <2>7, <2>8, <3>1, SamePayment
  <2> QED BY <2>8, <2>9
<1> QED BY <1>11, <1>12

\* If no bar is in a free text, and keys of one print have one style, requests with one
\* cache key ask for one image: buildCacheKey (server.go:553) has no other way to mix up two.
THEOREM BarsAndRoundingAreTheOnlyDanger == NoBars /\ PrintsTellStyles => KeysTellApart
<1> SUFFICES ASSUME NoBars, PrintsTellStyles,
                    NEW r \in Request, NEW s \in Request, CacheKey(r) = CacheKey(s)
             PROVE  /\ Image(r, None) = Image(s, None)
                    /\ LogoPath(r) = LogoPath(s)
  BY DEF KeysTellApart
<1> DEFINE rest(q) == PaymentFields(q.payment, SizeText[IF ApiKeyOf(q) \in ApiKey
                                                        THEN ApiKeyOf(q) ELSE None])
           size(q) == SizeText[IF ApiKeyOf(q) \in ApiKey THEN ApiKeyOf(q) ELSE None]
<1>1. ASSUME NEW q \in {r, s} PROVE rest(q) \in Lines /\ size(q) \in Lines
  <2>1. size(q) \in Lines
    BY CacheKeyAssumption DEF Lines
  <2> HIDE DEF size
  <2>2. PaymentFields(q.payment, size(q)) \in Lines
    BY <2>1, PaymentTold
  <2> QED BY <2>1, <2>2 DEF size
<1>2. <<"a">> \in Lines /\ <<"p">> \in Lines
  BY CacheKeyAssumption DEF Lines
<1>3. rest(r) = rest(s) => r.payment = s.payment /\ size(r) = size(s)
  <2>1. PaymentFields(r.payment, size(r)) = PaymentFields(s.payment, size(s))
          => r.payment = s.payment /\ size(r) = size(s)
    <3> HIDE DEF size
    <3> QED BY <1>1, PaymentTold
  <2> QED BY <2>1
<1> HIDE DEF rest
<1>4. CASE ApiKeyOf(r) \in ApiKey /\ ApiKeyOf(s) \in ApiKey
  <2> DEFINE j == ApiKeyOf(r)
             k == ApiKeyOf(s)
  <2>1. /\ CacheKey(r) = Field(<<"a">>, Field(KeyText[j], rest(r)))
        /\ CacheKey(s) = Field(<<"a">>, Field(KeyText[k], rest(s)))
    BY <1>4 DEF CacheKey, rest
  <2>2. KeyText[j] \in Lines /\ KeyText[k] \in Lines
    BY <1>4, CacheKeyAssumption DEF Lines
  <2>3. Field(KeyText[j], rest(r)) = Field(KeyText[k], rest(s))
    <3>1. Field(KeyText[j], rest(r)) \in Lines /\ Field(KeyText[k], rest(s)) \in Lines
      BY <1>1, <2>2, FieldParts
    <3>2. Field(<<"a">>, Field(KeyText[j], rest(r))) = Field(<<"a">>, Field(KeyText[k], rest(s)))
      BY <2>1
    <3> QED BY <1>2, <3>1, <3>2, SameLength
  <2>4. KeyText[j] = KeyText[k] /\ rest(r) = rest(s)
    <3>1. Cardinality(Bars(KeyText[j])) = Cardinality(Bars(KeyText[k]))
      BY <1>4 DEF NoBars
    <3> QED BY <1>1, <2>2, <2>3, <3>1, FirstField
  <2>5. SizeText[j] = SizeText[k]
    BY <1>3, <1>4, <2>4
  <2>6. StyleOf[j] = StyleOf[k] /\ LogoOf[j] = LogoOf[k]
    BY <1>4, <2>4, <2>5 DEF PrintsTellStyles
  <2> QED BY <1>3, <1>4, <2>4, <2>6 DEF Image, Style, LogoPath
<1>5. CASE ApiKeyOf(r) \notin ApiKey /\ ApiKeyOf(s) \notin ApiKey
  <2>1. Field(<<"p">>, rest(r)) = Field(<<"p">>, rest(s))
    BY <1>5 DEF CacheKey, rest
  <2>2. rest(r) = rest(s)
    BY <1>1, <1>2, <2>1, SameLength
  <2> QED BY <1>3, <1>5, <2>2 DEF Image, Style, LogoPath
<1>6. ASSUME NEW q \in {r, s}, NEW t \in {r, s}, ApiKeyOf(q) \in ApiKey, ApiKeyOf(t) \notin ApiKey
      PROVE  FALSE
  <2> DEFINE x == Field(KeyText[ApiKeyOf(q)], rest(q))
  <2>1. x \in Lines
    BY <1>1, <1>6, CacheKeyAssumption, FieldParts DEF Lines
  <2>2. CacheKey(q) = Field(<<"a">>, x) /\ CacheKey(t) = Field(<<"p">>, rest(t))
    BY <1>6 DEF CacheKey, rest
  <2>3. Field(<<"a">>, x) = Field(<<"p">>, rest(t))
    <3>1. CacheKey(q) = CacheKey(t)
      OBVIOUS
    <3> QED BY <2>2, <3>1
  <2>4. Len(<<"a">>) = Len(<<"p">>) /\ <<"a">> # <<"p">>
    OBVIOUS
  <2> HIDE DEF x
  <2> QED BY <1>1, <1>2, <2>1, <2>3, <2>4, SameLength
<1> QED BY <1>4, <1>5, <1>6

-----------------------------------------------------------------------------
(* The invariant.                                                           *)

KeysInUse == {CacheKey(r) : r \in Request}

\* The images that may be sent for a request.
Shown(r) == {Image(r, logo) : logo \in IF LogoPath(r) = None THEN {None} ELSE Logo \cup {None}}

Drawable(r) == /\ r \in Request
               /\ Verdict(r) = "draw"
               /\ r.method \in Methods(r.endpoint)

\* A request may be answered with an image.
Good(r, image) == /\ r.fault = None
                  /\ image \in Shown(r)
                  /\ image.logo # None \/ LogoPath(r) \in failed \cup {None}

\* Whoever finds an image under a key may be answered with it.
GoodUnder(key, image) ==
  \A r \in Request : Drawable(r) /\ CacheKey(r) = key => Good(r, image)

\* What is true of a handler: its place, request, image, call, answer and reply.
Fine(l, r, i, c, a, s) ==
  /\ l = "idle" => r = None
  /\ l # "idle" => r \in Request
  /\ l \notin {"idle", "start"} => Drawable(r)
  /\ l = "lookup" /\ a # None => Good(r, a)
  /\ l \in {"logo", "load"} => r.fault = None /\ i = Image(r, None) /\ LogoPath(r) # None
  /\ l \in {"keep", "store", "stored"} => Good(r, i)
  /\ l = "keep" => i.logo \in Logo
  /\ c # None => \/ l = "lookup" /\ c.op = "get" /\ c.key = CacheKey(r)
                 \/ l = "stored" /\ c.op = "set" /\ GoodUnder(c.key, c.value)
  /\ s # None /\ s.code = "ok" => s.image.logo # None \/ LogoPath(s.to) \in failed \cup {None}

Handlers == \A p \in Proc : Fine(pc[p], req[p], img[p], call[p], answer[p], reply[p])

Stored == \A key \in KeysInUse : store[key] # None => GoodUnder(key, store[key].value)

Shapes == /\ DOMAIN pc = Proc /\ DOMAIN req = Proc /\ DOMAIN img = Proc
          /\ DOMAIN call = Proc /\ DOMAIN answer = Proc /\ DOMAIN reply = Proc
          /\ DOMAIN store = KeysInUse
          /\ logos \in [Path -> Logo \cup {None}]
          /\ disk \in [Path -> Logo \cup {None}]

IInv == Shapes /\ Handlers /\ Stored

-----------------------------------------------------------------------------
(* Images.                                                                  *)

LEMMA LogoPathType == ASSUME NEW r PROVE LogoPath(r) \in Path \cup {None}
BY KeysAssumption DEF LogoPath

\* What is good for one request is good for all that share its cache key.
LEMMA GoodForAll ==
  ASSUME KeysTellApart, NEW r, Drawable(r), NEW i, Good(r, i)
  PROVE  GoodUnder(CacheKey(r), i)
<1> SUFFICES ASSUME NEW s \in Request, Drawable(s), CacheKey(s) = CacheKey(r)
             PROVE  Good(s, i)
  BY DEF GoodUnder
<1>1. r \in Request /\ r.fault = None
  BY DEF Drawable, Good
<1>2. Image(s, None) = Image(r, None) /\ LogoPath(s) = LogoPath(r)
  BY <1>1 DEF KeysTellApart
<1>3. s.fault = None
  <2>1. s.fault \in Faults \cup {None}
    BY RequestAssumption
  <2>2. s.fault \notin {"invalid_json", "invalid_input", "payload_build_failed"}
    BY DEF Drawable, Verdict
  <2>3. s.fault \in {None, "qr_encode_failed"}
    BY <2>1, <2>2 DEF Faults
  <2>4. QED
    BY <1>1, <1>2, <2>3, EncoderAssumption
<1>4. \A logo : Image(s, logo) = Image(r, logo)
  BY <1>2 DEF Image
<1>5. Shown(s) = Shown(r)
  BY <1>2, <1>4 DEF Shown
<1>6. QED
  BY <1>2, <1>3, <1>5 DEF Good

\* More failed loads excuse more.
LEMMA FailuresExcuse ==
  ASSUME failed \subseteq failed'
  PROVE  /\ \A r, i : Good(r, i) => Good(r, i)'
         /\ \A k, i : GoodUnder(k, i) => GoodUnder(k, i)'
         /\ \A l, r, i, c, a, s : Fine(l, r, i, c, a, s) => Fine(l, r, i, c, a, s)'
<1>1. ASSUME NEW r, NEW i, Good(r, i) PROVE Good(r, i)'
  BY <1>1 DEF Good
<1>2. ASSUME NEW k, NEW i, GoodUnder(k, i) PROVE GoodUnder(k, i)'
  BY <1>1, <1>2 DEF GoodUnder
<1>3. ASSUME NEW l, NEW r, NEW i, NEW c, NEW a, NEW s, Fine(l, r, i, c, a, s)
      PROVE  Fine(l, r, i, c, a, s)'
  BY <1>1, <1>2, <1>3 DEF Fine
<1>4. QED
  BY <1>1, <1>2, <1>3

LEMMA StoredStays ==
  ASSUME Stored, failed \subseteq failed', store' = store
  PROVE  Stored'
BY FailuresExcuse DEF Stored

\* A step of one handler leaves the others as they are.
LEMMA OneMoves ==
  ASSUME Handlers, failed \subseteq failed', NEW p \in Proc,
         \A q \in Proc \ {p} : /\ pc'[q] = pc[q] /\ req'[q] = req[q] /\ img'[q] = img[q]
                               /\ call'[q] = call[q] /\ answer'[q] = answer[q]
                               /\ reply'[q] = reply[q],
         Fine(pc[p], req[p], img[p], call[p], answer[p], reply[p])'
  PROVE  Handlers'
<1> SUFFICES ASSUME NEW q \in Proc, q # p
             PROVE  Fine(pc[q], req[q], img[q], call[q], answer[q], reply[q])'
  BY DEF Handlers
<1>1. Fine(pc[q], req[q], img[q], call[q], answer[q], reply[q])
  BY DEF Handlers
<1>2. QED
  BY <1>1, FailuresExcuse DEF Fine

-----------------------------------------------------------------------------
(* The handlers' steps.                                                     *)

LEMMA InitInvariant == Init => IInv
<1> SUFFICES ASSUME Init PROVE IInv
  OBVIOUS
<1>1. /\ pc = [p \in Proc |-> "idle"] /\ req = [p \in Proc |-> None]
      /\ img = [p \in Proc |-> None] /\ reply = [p \in Proc |-> None]
      /\ call = [p \in Proc |-> None] /\ answer = [p \in Proc |-> None]
      /\ store = [k \in KeysInUse |-> None]
      /\ logos = [f \in Path |-> None] /\ disk \in [Path -> Logo]
  BY DEF Init, Cache!Init, KeysInUse
<1>2. Shapes
  BY <1>1 DEF Shapes
<1>3. Handlers
  BY <1>1 DEF Handlers, Fine
<1>4. Stored
  BY <1>1 DEF Stored
<1>5. QED
  BY <1>2, <1>3, <1>4 DEF IInv

LEMMA ArrivePreserves ==
  ASSUME IInv, NEW p \in Proc, NEW r \in Request, Arrive(p, r)
  PROVE  IInv'
<1>1. /\ pc[p] = "idle" /\ pc' = [pc EXCEPT ![p] = "start"]
      /\ req' = [req EXCEPT ![p] = r] /\ reply' = [reply EXCEPT ![p] = None]
      /\ UNCHANGED <<call, answer, store, img, logos, disk, failed>>
  BY DEF Arrive, Goto, cacheVars
<1>2. Shapes'
  BY <1>1 DEF IInv, Shapes
<1>3. Fine(pc[p], req[p], img[p], call[p], answer[p], reply[p])'
  <2>1. pc'[p] = "start" /\ req'[p] = r /\ reply'[p] = None
    BY <1>1 DEF IInv, Shapes
  <2>2. call'[p] = None
    BY <1>1 DEF IInv, Handlers, Fine
  <2>3. QED
    BY <2>1, <2>2 DEF Fine
<1>4. Handlers'
  BY <1>1, <1>3, OneMoves DEF IInv
<1>5. QED
  BY <1>1, <1>2, <1>4, StoredStays DEF IInv

\* Every reply ends in the same way.
LEMMA ReplyPreserves ==
  ASSUME IInv, NEW p \in Proc, NEW code, NEW image, Reply(p, code, image),
         UNCHANGED <<cacheVars, logos, disk, failed>>,
         call[p] = None,
         code = "ok" => image.logo # None \/ LogoPath(req[p]) \in failed \cup {None}
  PROVE  IInv'
<1>1. /\ pc' = [pc EXCEPT ![p] = "idle"] /\ req' = [req EXCEPT ![p] = None]
      /\ img' = [img EXCEPT ![p] = None]
      /\ reply' = [reply EXCEPT ![p] = [to |-> req[p], code |-> code, image |-> image]]
      /\ UNCHANGED <<call, answer, store, logos, disk, failed>>
  BY DEF Reply, Goto, cacheVars
<1>2. Shapes'
  BY <1>1 DEF IInv, Shapes
<1>3. Fine(pc[p], req[p], img[p], call[p], answer[p], reply[p])'
  <2>1. /\ pc'[p] = "idle" /\ req'[p] = None /\ call'[p] = None
        /\ reply'[p] = [to |-> req[p], code |-> code, image |-> image]
    BY <1>1 DEF IInv, Shapes
  <2>2. reply'[p].to = req[p] /\ reply'[p].code = code /\ reply'[p].image = image
    BY <2>1
  <2>3. QED
    BY <1>1, <2>1, <2>2 DEF Fine
<1>4. Handlers'
  BY <1>1, <1>3, OneMoves DEF IInv
<1>5. QED
  BY <1>1, <1>2, <1>4, StoredStays DEF IInv

LEMMA LookupPreserves ==
  ASSUME IInv, NEW p \in Proc, Lookup(p)
  PROVE  IInv'
<1>1. /\ pc[p] = "start" /\ pc' = [pc EXCEPT ![p] = "lookup"]
      /\ req[p].method \in Methods(req[p].endpoint) /\ Verdict(req[p]) = "draw"
      /\ answer' = [answer EXCEPT ![p] = None]
      /\ \/ call' = [call EXCEPT ![p] = [op |-> "get", key |-> CacheKey(req[p]),
                                         value |-> None, now |-> clock]]
         \/ call' = call /\ call[p] = None
      /\ UNCHANGED <<store, req, img, reply, logos, disk, failed>>
  BY DEF Lookup, Goto, Cache!Begin, Cache!Decline
<1>2. Shapes'
  BY <1>1 DEF IInv, Shapes
<1>3. Fine(pc[p], req[p], img[p], call[p], answer[p], reply[p])'
  <2>1. pc'[p] = "lookup" /\ answer'[p] = None
    BY <1>1 DEF IInv, Shapes
  <2>2. \/ call'[p] = [op |-> "get", key |-> CacheKey(req[p]), value |-> None, now |-> clock]
        \/ call'[p] = None
    BY <1>1 DEF IInv, Shapes
  <2>3. call'[p] # None => call'[p].op = "get" /\ call'[p].key = CacheKey(req[p])
    BY <2>2
  <2>4. Fine(pc[p], req[p], img[p], call[p], answer[p], reply[p])
    BY DEF IInv, Handlers
  <2>5. Drawable(req[p])
    BY <1>1, <2>4 DEF Fine, Drawable
  <2>6. Drawable(req[p])'
    BY <1>1, <2>5 DEF Drawable
  <2>7. reply'[p] # None /\ reply'[p].code = "ok" =>
          reply'[p].image.logo # None \/ LogoPath(reply'[p].to) \in failed' \cup {None}
    BY <1>1, <2>4 DEF Fine
  <2>8. QED
    BY <1>1, <2>1, <2>3, <2>5, <2>7 DEF Fine, Drawable
<1>4. Handlers'
  <2>1. \A q \in Proc \ {p} : /\ pc'[q] = pc[q] /\ req'[q] = req[q] /\ img'[q] = img[q]
                              /\ call'[q] = call[q] /\ answer'[q] = answer[q]
                              /\ reply'[q] = reply[q]
    BY <1>1 DEF IInv, Shapes
  <2>2. QED
    BY <1>1, <1>3, <2>1, OneMoves DEF IInv
<1>5. QED
  BY <1>1, <1>2, <1>4, StoredStays DEF IInv

\* The steps in which a handler works on its image, while it calls no cache.
LEMMA MovePreserves ==
  ASSUME IInv, NEW p \in Proc, NEW l, NEW i,
         pc[p] \notin {"idle", "start"}, call[p] = None,
         pc' = [pc EXCEPT ![p] = l],
         DOMAIN img' = Proc, img'[p] = i, \A q \in Proc \ {p} : img'[q] = img[q],
         UNCHANGED <<cacheVars, req, reply, disk>>,
         failed \subseteq failed',
         logos' \in [Path -> Logo \cup {None}],
         l \in {"logo", "load", "keep", "store"},
         l \in {"logo", "load"} =>
           /\ req[p].fault = None /\ i = Image(req[p], None) /\ LogoPath(req[p]) # None,
         \A r : l \in {"keep", "store"} /\ r = req[p] => Good(r, i)',
         l = "keep" => i.logo \in Logo
  PROVE  IInv'
<1>1. UNCHANGED <<call, answer, store, req, reply, disk>>
  BY DEF cacheVars
<1>2. Shapes'
  BY <1>1 DEF IInv, Shapes
<1>3. Fine(pc[p], req[p], img[p], call[p], answer[p], reply[p])'
  <2>1. pc'[p] = l /\ img'[p] = i /\ call'[p] = None /\ req'[p] = req[p] /\ reply'[p] = reply[p]
    BY <1>1 DEF IInv, Shapes
  <2>2. Fine(pc[p], req[p], img[p], call[p], answer[p], reply[p])
    BY DEF IInv, Handlers
  <2>3. req[p] \in Request /\ Drawable(req[p])
    BY <2>2 DEF Fine
  <2>4. reply[p] # None /\ reply[p].code = "ok" =>
          reply[p].image.logo # None \/ LogoPath(reply[p].to) \in failed' \cup {None}
    BY <2>2 DEF Fine
  <2>5. l \in {"keep", "store"} => Good(req[p], img[p])'
    BY <2>1 DEF Good
  <2>6. QED
    BY <2>1, <2>3, <2>4, <2>5 DEF Fine, Drawable
<1>4. Handlers'
  <2>1. \A q \in Proc \ {p} : /\ pc'[q] = pc[q] /\ req'[q] = req[q] /\ img'[q] = img[q]
                              /\ call'[q] = call[q] /\ answer'[q] = answer[q]
                              /\ reply'[q] = reply[q]
    BY <1>1
  <2>2. QED
    BY <1>3, <2>1, OneMoves DEF IInv
<1>5. QED
  BY <1>1, <1>2, <1>4, StoredStays DEF IInv

\* The image without logo and the image with one, as they leave the drawing.
LEMMA DrawnIsGood ==
  ASSUME NEW r, r.fault = None
  PROVE  /\ LogoPath(r) \in failed \cup {None} => Good(r, Image(r, None))
         /\ \A logo \in Logo : LogoPath(r) # None =>
              /\ Good(r, Image(r, logo))
              /\ [Image(r, None) EXCEPT !.logo = logo] = Image(r, logo)
              /\ Image(r, logo).logo = logo
<1>1. \A logo : Image(r, logo).logo = logo
  BY DEF Image
<1>2. None \notin Logo
  BY KeysAssumption
<1>3. LogoPath(r) \in failed \cup {None} => Good(r, Image(r, None))
  BY <1>1 DEF Good, Shown
<1>4. \A logo \in Logo : LogoPath(r) # None => Good(r, Image(r, logo))
  BY <1>1, <1>2 DEF Good, Shown
<1>5. \A logo : [Image(r, None) EXCEPT !.logo = logo] = Image(r, logo)
  BY DEF Image
<1>6. QED
  BY <1>1, <1>3, <1>4, <1>5

LEMMA DrawPreserves ==
  ASSUME IInv, NEW p \in Proc, Draw(p)
  PROVE  IInv'
<1> DEFINE l == IF LogoPath(req[p]) = None THEN "store" ELSE "logo"
<1>1. /\ pc[p] = "lookup" /\ call[p] = None /\ req[p].fault # "qr_encode_failed"
      /\ pc' = [pc EXCEPT ![p] = l]
      /\ img' = [img EXCEPT ![p] = Image(req[p], None)]
      /\ UNCHANGED <<cacheVars, logos, disk, req, reply, failed>>
  BY DEF Draw, Goto
<1>2. req[p] \in Request /\ Drawable(req[p])
  BY <1>1 DEF IInv, Handlers, Fine
<1>3. req[p].fault = None
  BY <1>1, <1>2, RequestAssumption DEF Drawable, Verdict, Faults
<1>4. \A r : l \in {"keep", "store"} /\ r = req[p] => Good(r, Image(req[p], None))'
  <2>1. TAKE r
  <2>2. l \in {"keep", "store"} => LogoPath(req[p]) = None
    OBVIOUS
  <2>3. QED
    BY <1>1, <1>3, <2>2 DEF Good, Shown, Image
<1>5. /\ logos' \in [Path -> Logo \cup {None}] /\ DOMAIN img' = Proc
      /\ img'[p] = Image(req[p], None) /\ \A q \in Proc \ {p} : img'[q] = img[q]
  BY <1>1 DEF IInv, Shapes
<1>6. QED
  <2> HIDE DEF l
  <2>1. l \in {"logo", "store"} /\ (l = "logo" => LogoPath(req[p]) # None)
    BY DEF l
  <2>2. QED
    BY <1>1, <1>3, <1>4, <1>5, <2>1, MovePreserves

\* A logo is put into the image.
LEMMA OverlayPreserves ==
  ASSUME IInv, NEW p \in Proc, NEW logo \in Logo, NEW l \in {"keep", "store"},
         pc[p] \in {"logo", "load"},
         Overlay(p, logo),
         pc' = [pc EXCEPT ![p] = l],
         UNCHANGED <<cacheVars, logos, disk, req, reply, failed>>
  PROVE  IInv'
<1>1. PICK r : r = req[p]
  OBVIOUS
<1>2. PICK i : i = Image(r, logo)
  OBVIOUS
<1>3. /\ r.fault = None /\ img[p] = Image(r, None) /\ LogoPath(r) # None
      /\ call[p] = None
  BY <1>1 DEF IInv, Handlers, Fine
<1>4. /\ Good(r, i) /\ i.logo = logo
      /\ [img[p] EXCEPT !.logo = logo] = i
  BY <1>2, <1>3, DrawnIsGood
<1>5. DOMAIN img' = Proc /\ img'[p] = i /\ \A q \in Proc \ {p} : img'[q] = img[q]
  <2>1. img' = [img EXCEPT ![p] = [img[p] EXCEPT !.logo = logo]]
    BY DEF Overlay
  <2>2. QED
    BY <1>4, <2>1 DEF IInv, Shapes
<1>6. failed \subseteq failed' /\ logos' \in [Path -> Logo \cup {None}]
  BY DEF IInv, Shapes
<1>7. Good(r, i)'
  BY <1>4, <1>6, FailuresExcuse
<1>8. \A s : s = req[p] => Good(s, i)'
  BY <1>1, <1>7
<1>9. QED
  BY <1>1, <1>3, <1>4, <1>5, <1>6, <1>8, MovePreserves

LEMMA LogoCachedPreserves ==
  ASSUME IInv, NEW p \in Proc, LogoCached(p)
  PROVE  IInv'
<1>1. /\ pc[p] = "logo" /\ logos[LogoPath(req[p])] # None
      /\ Overlay(p, logos[LogoPath(req[p])])
      /\ pc' = [pc EXCEPT ![p] = "store"]
      /\ UNCHANGED <<cacheVars, logos, disk, req, reply, failed>>
  BY DEF LogoCached, Goto
<1>2. LogoPath(req[p]) \in Path
  BY <1>1, LogoPathType DEF IInv, Handlers, Fine
<1>3. PICK logo \in Logo : logo = logos[LogoPath(req[p])]
  BY <1>1, <1>2 DEF IInv, Shapes
<1>4. Overlay(p, logo)
  BY <1>1, <1>3
<1>5. QED
  BY <1>1, <1>4, OverlayPreserves

LEMMA LoadLogoPreserves ==
  ASSUME IInv, NEW p \in Proc, LoadLogo(p)
  PROVE  IInv'
<1>1. /\ pc[p] = "load" /\ disk[LogoPath(req[p])] # None
      /\ Overlay(p, disk[LogoPath(req[p])])
      /\ pc' = [pc EXCEPT ![p] = "keep"]
      /\ UNCHANGED <<cacheVars, logos, disk, req, reply, failed>>
  BY DEF LoadLogo, Goto
<1>2. LogoPath(req[p]) \in Path
  BY <1>1, LogoPathType DEF IInv, Handlers, Fine
<1>3. PICK logo \in Logo : logo = disk[LogoPath(req[p])]
  BY <1>1, <1>2 DEF IInv, Shapes
<1>4. Overlay(p, logo)
  BY <1>1, <1>3
<1>5. QED
  BY <1>1, <1>4, OverlayPreserves

LEMMA LogoAbsentPreserves ==
  ASSUME IInv, NEW p \in Proc, LogoAbsent(p)
  PROVE  IInv'
<1>1. /\ pc[p] = "logo"
      /\ pc' = [pc EXCEPT ![p] = "load"]
      /\ UNCHANGED <<cacheVars, logos, disk, req, img, reply, failed>>
  BY DEF LogoAbsent, Goto
<1>2. PICK i : i = img[p]
  OBVIOUS
<1>3. /\ req[p].fault = None /\ i = Image(req[p], None) /\ LogoPath(req[p]) # None
      /\ call[p] = None
  BY <1>1, <1>2 DEF IInv, Handlers, Fine
<1>4. DOMAIN img' = Proc /\ img'[p] = i /\ \A q \in Proc \ {p} : img'[q] = img[q]
  BY <1>1, <1>2 DEF IInv, Shapes
<1>5. logos' \in [Path -> Logo \cup {None}]
  BY <1>1 DEF IInv, Shapes
<1>6. QED
  BY <1>1, <1>3, <1>4, <1>5, MovePreserves

LEMMA LoadFailsPreserves ==
  ASSUME IInv, NEW p \in Proc, LoadFails(p)
  PROVE  IInv'
<1>1. /\ pc[p] = "load"
      /\ failed' = failed \cup {LogoPath(req[p])}
      /\ pc' = [pc EXCEPT ![p] = "store"]
      /\ UNCHANGED <<cacheVars, logos, disk, req, img, reply>>
  BY DEF LoadFails, Goto
<1>2. PICK i : i = img[p]
  OBVIOUS
<1>3. PICK r : r = req[p]
  OBVIOUS
<1>4. r.fault = None /\ i = Image(r, None) /\ LogoPath(r) # None /\ call[p] = None
  BY <1>1, <1>2, <1>3 DEF IInv, Handlers, Fine
<1>5. Good(r, i)'
  <2>1. LogoPath(r) \in failed'
    BY <1>1, <1>3
  <2>2. i \in Shown(r)
    BY <1>4 DEF Shown
  <2>3. QED
    BY <1>4, <2>1, <2>2 DEF Good
<1>6. \A s : s = req[p] => Good(s, i)'
  BY <1>3, <1>5
<1>7. /\ DOMAIN img' = Proc /\ img'[p] = i /\ \A q \in Proc \ {p} : img'[q] = img[q]
      /\ logos' \in [Path -> Logo \cup {None}]
  BY <1>1, <1>2 DEF IInv, Shapes
<1>8. QED
  BY <1>1, <1>4, <1>6, <1>7, MovePreserves

LEMMA KeepLogoPreserves ==
  ASSUME IInv, NEW p \in Proc, KeepLogo(p)
  PROVE  IInv'
<1>1. /\ pc[p] = "keep"
      /\ \/ logos' = [logos EXCEPT ![LogoPath(req[p])] = img[p].logo]
         \/ UNCHANGED logos
      /\ pc' = [pc EXCEPT ![p] = "store"]
      /\ UNCHANGED <<cacheVars, disk, req, img, reply, failed>>
  BY DEF KeepLogo, Goto
<1>2. PICK i : i = img[p]
  OBVIOUS
<1>3. PICK r : r = req[p]
  OBVIOUS
<1>4. Good(r, i) /\ i.logo \in Logo /\ call[p] = None
  BY <1>1, <1>2, <1>3 DEF IInv, Handlers, Fine
<1>5. failed \subseteq failed'
  BY <1>1
<1>6. Good(r, i)'
  BY <1>4, <1>5, FailuresExcuse
<1>7. \A s : s = req[p] => Good(s, i)'
  BY <1>3, <1>6
<1>8. /\ DOMAIN img' = Proc /\ img'[p] = i /\ \A q \in Proc \ {p} : img'[q] = img[q]
      /\ logos' \in [Path -> Logo \cup {None}]
  BY <1>1, <1>2, <1>4 DEF IInv, Shapes
<1>9. QED
  BY <1>1, <1>4, <1>5, <1>7, <1>8, MovePreserves

LEMMA StoreImagePreserves ==
  ASSUME KeysTellApart, IInv, NEW p \in Proc, StoreImage(p)
  PROVE  IInv'
<1>1. /\ pc[p] = "store" /\ pc' = [pc EXCEPT ![p] = "stored"]
      /\ answer' = [answer EXCEPT ![p] = None]
      /\ \/ call' = [call EXCEPT ![p] = [op |-> "set", key |-> CacheKey(req[p]),
                                         value |-> img[p], now |-> clock]]
         \/ call' = call /\ call[p] = None
      /\ UNCHANGED <<store, req, img, reply, logos, disk, failed>>
  BY DEF StoreImage, Goto, Cache!Begin, Cache!Decline
<1>2. Shapes'
  BY <1>1 DEF IInv, Shapes
<1>3. PICK r, i, c : r = req[p] /\ i = img[p] /\ c = call'[p]
  OBVIOUS
<1>4. /\ r \in Request /\ Drawable(r) /\ Good(r, i)
      /\ reply[p] # None /\ reply[p].code = "ok" =>
          reply[p].image.logo # None \/ LogoPath(reply[p].to) \in failed \cup {None}
  BY <1>1, <1>3 DEF IInv, Handlers, Fine
<1>5. GoodUnder(CacheKey(r), i)
  BY <1>4, GoodForAll
<1>6. c = None \/ c = [op |-> "set", key |-> CacheKey(r), value |-> i, now |-> clock]
  BY <1>1, <1>3 DEF IInv, Shapes
<1>7. c # None => c.op = "set" /\ GoodUnder(c.key, c.value)
  BY <1>5, <1>6
<1>8. Good(r, i)' /\ (c # None => c.op = "set" /\ GoodUnder(c.key, c.value)')
  BY <1>1, <1>4, <1>7, FailuresExcuse
<1>9. Fine(pc[p], req[p], img[p], call[p], answer[p], reply[p])'
  <2>1. /\ pc'[p] = "stored" /\ answer'[p] = None /\ call'[p] = c
        /\ req'[p] = r /\ img'[p] = i /\ reply'[p] = reply[p]
    BY <1>1, <1>3 DEF IInv, Shapes
  <2>2. Good(req[p], img[p])'
    BY <1>8, <2>1 DEF Good
  <2>3. call'[p] # None => call'[p].op = "set" /\ GoodUnder(call[p].key, call[p].value)'
    BY <1>8, <2>1 DEF GoodUnder, Good
  <2>4. QED
    BY <1>1, <1>4, <2>1, <2>2, <2>3 DEF Fine, Drawable
<1>10. Handlers'
  <2>1. \A q \in Proc \ {p} : /\ pc'[q] = pc[q] /\ req'[q] = req[q] /\ img'[q] = img[q]
                              /\ call'[q] = call[q] /\ answer'[q] = answer[q]
                              /\ reply'[q] = reply[q]
    BY <1>1 DEF IInv, Shapes
  <2>2. QED
    BY <1>1, <1>9, <2>1, OneMoves DEF IInv
<1>11. QED
  BY <1>1, <1>2, <1>10, StoredStays DEF IInv

-----------------------------------------------------------------------------
(* The steps of the cache and of the files.                                 *)

\* The cache answers p, who is still where it called.
LEMMA ReturnPreserves ==
  ASSUME IInv, NEW p \in Proc, NEW a,
         call' = [call EXCEPT ![p] = None],
         answer' = [answer EXCEPT ![p] = a],
         UNCHANGED <<logos, disk, pc, req, img, reply, failed>>,
         DOMAIN store' = KeysInUse, Stored',
         a # None => pc[p] = "lookup" /\ Good(req[p], a)
  PROVE  IInv'
<1>1. Shapes'
  BY DEF IInv, Shapes
<1>2. Fine(pc[p], req[p], img[p], call[p], answer[p], reply[p])'
  <2>1. /\ call'[p] = None /\ answer'[p] = a
        /\ pc'[p] = pc[p] /\ req'[p] = req[p] /\ img'[p] = img[p] /\ reply'[p] = reply[p]
    BY DEF IInv, Shapes
  <2>2. PICK r, i, s : r = req[p] /\ i = img[p] /\ s = reply[p]
    OBVIOUS
  <2>3. Fine(pc[p], r, i, call[p], answer[p], s)
    BY <2>2 DEF IInv, Handlers
  <2>4. Fine(pc[p], r, i, None, a, s)
    BY <2>2, <2>3 DEF Fine
  <2>5. PICK l : l = pc[p]
    OBVIOUS
  <2>6. Fine(l, r, i, None, a, s)'
    BY <2>4, <2>5, FailuresExcuse
  <2>7. QED
    BY <2>1, <2>2, <2>5, <2>6 DEF Fine, Drawable, Good
<1>3. Handlers'
  <2>1. \A q \in Proc \ {p} : /\ pc'[q] = pc[q] /\ req'[q] = req[q] /\ img'[q] = img[q]
                              /\ call'[q] = call[q] /\ answer'[q] = answer[q]
                              /\ reply'[q] = reply[q]
    BY DEF IInv, Shapes
  <2>2. QED
    BY <1>2, <2>1, OneMoves DEF IInv
<1>4. QED
  BY <1>1, <1>3 DEF IInv

LEMMA HitPreserves ==
  ASSUME IInv, NEW p \in Proc, Cache!Hit(p),
         UNCHANGED <<logos, disk, pc, req, img, reply, failed>>
  PROVE  IInv'
<1>1. /\ call[p] # None /\ call[p].op = "get" /\ store[call[p].key] # None
      /\ call' = [call EXCEPT ![p] = None]
      /\ answer' = [answer EXCEPT ![p] = store[call[p].key].value]
      /\ store' = store
  BY DEF Cache!Hit, Cache!Return
<1>2. PICK a : a = store[call[p].key].value
  OBVIOUS
<1>3. pc[p] = "lookup" /\ call[p].key = CacheKey(req[p]) /\ Drawable(req[p]) /\ req[p] \in Request
  BY <1>1 DEF IInv, Handlers, Fine
<1>4. GoodUnder(CacheKey(req[p]), a)
  BY <1>1, <1>2, <1>3 DEF IInv, Stored, KeysInUse
<1>5. Good(req[p], a)
  BY <1>3, <1>4 DEF GoodUnder
<1>6. DOMAIN store' = KeysInUse /\ Stored'
  BY <1>1, StoredStays DEF IInv, Shapes
<1>7. QED
  BY <1>1, <1>2, <1>3, <1>5, <1>6, ReturnPreserves

LEMMA MissPreserves ==
  ASSUME IInv, NEW p \in Proc, Cache!Miss(p),
         UNCHANGED <<logos, disk, pc, req, img, reply, failed>>
  PROVE  IInv'
<1>1. /\ call' = [call EXCEPT ![p] = None]
      /\ answer' = [answer EXCEPT ![p] = None]
      /\ store' \in {store, [store EXCEPT ![call[p].key] = None]}
  BY DEF Cache!Miss, Cache!Return
<1>2. DOMAIN store' = KeysInUse /\ \A k \in KeysInUse : store'[k] \in {store[k], None}
  BY <1>1 DEF IInv, Shapes
<1>3. Stored'
  <2>1. SUFFICES ASSUME NEW k \in KeysInUse, store'[k] # None
                 PROVE  GoodUnder(k, store[k].value)'
    BY DEF Stored
  <2>2. PICK v : v = store[k].value
    OBVIOUS
  <2>3. GoodUnder(k, v)
    BY <1>2, <2>1, <2>2 DEF IInv, Stored
  <2>4. GoodUnder(k, v)'
    BY <2>3, FailuresExcuse
  <2>5. QED
    BY <1>2, <2>1, <2>2, <2>4 DEF GoodUnder, Good
<1>4. QED
  BY <1>1, <1>2, <1>3, ReturnPreserves

LEMMA PutPreserves ==
  ASSUME IInv, NEW p \in Proc, Cache!Put(p),
         UNCHANGED <<logos, disk, pc, req, img, reply, failed>>
  PROVE  IInv'
<1>1. /\ call[p] # None /\ call[p].op = "set"
      /\ call' = [call EXCEPT ![p] = None]
      /\ answer' = [answer EXCEPT ![p] = None]
      /\ store' = [store EXCEPT ![call[p].key] = [value   |-> call[p].value,
                                                  expires |-> Cache!Deadline(call[p].now)]]
  BY DEF Cache!Put, Cache!Return
<1>2. PICK key, v : key = call[p].key /\ v = call[p].value
  OBVIOUS
<1>3. GoodUnder(key, v)
  BY <1>1, <1>2 DEF IInv, Handlers, Fine
<1>4. /\ DOMAIN store' = KeysInUse
      /\ \A k \in KeysInUse : store'[k] = store[k] \/ (k = key /\ store'[k].value = v)
  <2>1. /\ DOMAIN store' = KeysInUse
        /\ \A k \in KeysInUse : \/ store'[k] = store[k]
                                \/ k = key /\ store'[k] = [value |-> v,
                                                          expires |-> Cache!Deadline(call[p].now)]
    BY <1>1, <1>2 DEF IInv, Shapes
  <2>2. QED
    BY <2>1
<1>5. Stored'
  <2>1. SUFFICES ASSUME NEW k \in KeysInUse, store'[k] # None
                 PROVE  GoodUnder(k, store[k].value)'
    BY DEF Stored
  <2>2. PICK u : u = store'[k].value
    OBVIOUS
  <2>3. GoodUnder(k, u)
    BY <1>2, <1>3, <1>4, <2>1, <2>2 DEF IInv, Stored
  <2>4. GoodUnder(k, u)'
    BY <2>3, FailuresExcuse
  <2>5. QED
    BY <2>1, <2>2, <2>4 DEF GoodUnder, Good
<1>6. QED
  BY <1>1, <1>4, <1>5, ReturnPreserves

\* Forgetting, time and files touch no handler.
LEMMA SurroundingsPreserve ==
  ASSUME IInv, CacheForgets \/ Tick \/ \E f \in Path : LogoForgotten(f) \/ FileChanges(f)
  PROVE  IInv'
<1>1. /\ UNCHANGED <<call, answer, pc, req, img, reply, failed>>
      /\ store' = store \/ \E key \in DOMAIN store : store' = [store EXCEPT ![key] = None]
      /\ logos' = logos \/ \E f \in Path : logos' = [logos EXCEPT ![f] = None]
      /\ disk' = disk \/ \E f \in Path : \E content \in Logo \cup {None} :
                           disk' = [disk EXCEPT ![f] = content]
  BY DEF CacheForgets, Tick, LogoForgotten, FileChanges, cacheVars, Cache!Forget, Cache!Tick
<1>2. Shapes'
  BY <1>1 DEF IInv, Shapes
<1>3. Handlers'
  BY <1>1 DEF IInv, Handlers, Fine, Good, GoodUnder
<1>4. Stored'
  <2>1. \A k \in KeysInUse : store'[k] \in {store[k], None}
    BY <1>1 DEF IInv, Shapes
  <2>2. QED
    BY <1>1, <2>1 DEF IInv, Stored, GoodUnder, Good
<1>5. QED
  BY <1>2, <1>3, <1>4 DEF IInv

\* An image that is answered is good for the request: see ReplyPreserves.
LEMMA AnswerPreserves ==
  ASSUME IInv, NEW p \in Proc,
         \/ AnswerMethod(p) \/ Limited(p) \/ AnswerEarly(p) \/ AnswerEncodeFailed(p)
         \/ AnswerCached(p) \/ AnswerDrawn(p)
  PROVE  IInv'
<1>1. CASE AnswerMethod(p)
  <2>1. PICK code : code = IF req[p].endpoint = "qr" /\ req[p].method = "OPTIONS"
                           THEN "no_content" ELSE "method_not_allowed"
    OBVIOUS
  <2>2. /\ pc[p] = "start" /\ Reply(p, code, None) /\ code # "ok"
        /\ UNCHANGED <<cacheVars, logos, disk, failed>>
    BY <1>1, <2>1 DEF AnswerMethod
  <2>3. call[p] = None
    BY <2>2 DEF IInv, Handlers, Fine
  <2>4. QED
    BY <2>2, <2>3, ReplyPreserves
<1>2. CASE Limited(p)
  <2>1. /\ pc[p] = "start" /\ Reply(p, "rate_limited", None)
        /\ UNCHANGED <<cacheVars, logos, disk, failed>>
    BY <1>2 DEF Limited
  <2>2. call[p] = None
    BY <2>1 DEF IInv, Handlers, Fine
  <2>3. QED
    BY <2>1, <2>2, ReplyPreserves
<1>3. CASE AnswerEarly(p)
  <2>1. PICK code : code = Verdict(req[p])
    OBVIOUS
  <2>2. /\ pc[p] = "start" /\ Reply(p, code, None)
        /\ UNCHANGED <<cacheVars, logos, disk, failed>>
    BY <1>3, <2>1 DEF AnswerEarly
  <2>3. code # "ok" /\ call[p] = None
    BY <2>1, <2>2 DEF IInv, Handlers, Fine, Verdict
  <2>4. QED
    BY <2>2, <2>3, ReplyPreserves
<1>4. CASE AnswerEncodeFailed(p)
  <2>1. /\ Reply(p, "qr_encode_failed", None) /\ call[p] = None
        /\ UNCHANGED <<cacheVars, logos, disk, failed>>
    BY <1>4 DEF AnswerEncodeFailed
  <2>2. QED
    BY <2>1, ReplyPreserves
<1>5. CASE AnswerCached(p)
  <2>1. PICK image : image = answer[p]
    OBVIOUS
  <2>2. /\ pc[p] = "lookup" /\ call[p] = None /\ image # None /\ Reply(p, "ok", image)
        /\ UNCHANGED <<cacheVars, logos, disk, failed>>
    BY <1>5, <2>1 DEF AnswerCached
  <2>3. image.logo # None \/ LogoPath(req[p]) \in failed \cup {None}
    BY <2>1, <2>2 DEF IInv, Handlers, Fine, Good
  <2>4. QED
    BY <2>2, <2>3, ReplyPreserves
<1>6. CASE AnswerDrawn(p)
  <2>1. PICK image : image = img[p]
    OBVIOUS
  <2>2. /\ pc[p] = "stored" /\ call[p] = None /\ Reply(p, "ok", image)
        /\ UNCHANGED <<cacheVars, logos, disk, failed>>
    BY <1>6, <2>1 DEF AnswerDrawn
  <2>3. image.logo # None \/ LogoPath(req[p]) \in failed \cup {None}
    BY <2>1, <2>2 DEF IInv, Handlers, Fine, Good
  <2>4. QED
    BY <2>2, <2>3, ReplyPreserves
<1>7. QED
  BY <1>1, <1>2, <1>3, <1>4, <1>5, <1>6

LEMMA NextPreserves == KeysTellApart /\ IInv /\ [Next]_vars => IInv'
<1> SUFFICES ASSUME KeysTellApart, IInv, [Next]_vars PROVE IInv'
  OBVIOUS
<1>1. ASSUME NEW p \in Proc, NEW r \in Request, Arrive(p, r) PROVE IInv'
  BY <1>1, ArrivePreserves
<1>2. ASSUME NEW p \in Proc, Serve(p) PROVE IInv'
  BY <1>2, AnswerPreserves, LookupPreserves, DrawPreserves, LogoCachedPreserves,
     LogoAbsentPreserves, LoadLogoPreserves, LoadFailsPreserves, KeepLogoPreserves,
     StoreImagePreserves DEF Serve
<1>3. ASSUME NEW p \in Proc, CacheServes(p) PROVE IInv'
  BY <1>3, HitPreserves, MissPreserves, PutPreserves DEF CacheServes
<1>4. CASE CacheForgets \/ Tick \/ \E f \in Path : LogoForgotten(f) \/ FileChanges(f)
  BY <1>4, SurroundingsPreserve
<1>5. CASE UNCHANGED vars
  <2>1. UNCHANGED <<call, store, answer, logos, disk, pc, req, img, reply, failed>>
    BY <1>5 DEF vars, cacheVars
  <2>2. QED
    BY <2>1 DEF IInv, Shapes, Handlers, Stored, Fine, Good, GoodUnder
<1>6. QED
  BY <1>1, <1>2, <1>3, <1>4, <1>5 DEF Next

LEMMA Invariance == KeysTellApart => (Spec => []IInv)
<1> SUFFICES ASSUME KeysTellApart PROVE Spec => []IInv
  OBVIOUS
<1>1. IInv /\ [Next]_vars => IInv'
  BY NextPreserves
<1>2. QED
  BY InitInvariant, <1>1, PTL DEF Spec

\* Wherever cache keys tell requests apart, an image has its logo as long as no
\* load of the file has failed, whichever handlers drew, stored and found it.
THEOREM LogosMissOnlyAfterFailures == KeysTellApart => (Spec => []LogoMissingOnlyAfterFailure)
<1> SUFFICES ASSUME KeysTellApart PROVE Spec => []LogoMissingOnlyAfterFailure
  OBVIOUS
<1>1. IInv => LogoMissingOnlyAfterFailure
  BY DEF IInv, Handlers, Fine, LogoMissingOnlyAfterFailure
<1>2. Spec => []IInv
  BY Invariance
<1>3. QED
  BY <1>1, <1>2, PTL

-----------------------------------------------------------------------------
(* The contract.                                                            *)

\* The contract speaks of requests in the same words.
LEMMA SameWords ==
  /\ \A r : Contract!KeyUnknown(r) = KeyUnknown(r) /\ Contract!KeyMissing(r) = KeyMissing(r)
  /\ \A r : Contract!BareHead(r) = BareHead(r)
  /\ \A e : Contract!Methods(e) = Methods(e)
  /\ \A r : Contract!Shows(r, "ok") = Shown(r)
  /\ \A r, code : code # "ok" => Contract!Shows(r, code) = {None}
<1>1. \A r : Contract!ApiKeyOf(r) = ApiKeyOf(r)
  BY DEF Contract!ApiKeyOf, ApiKeyOf
<1>2. \A r : Contract!LogoPath(r) = LogoPath(r) /\ Contract!Style(r) = Style(r)
  BY <1>1 DEF Contract!LogoPath, LogoPath, Contract!Style, Style
<1>3. \A r, logo : Contract!Image(r, logo) = Image(r, logo)
  BY <1>2 DEF Contract!Image, Image
<1>4. \A r : Contract!KeyUnknown(r) = KeyUnknown(r) /\ Contract!KeyMissing(r) = KeyMissing(r)
  BY <1>1 DEF Contract!KeyUnknown, KeyUnknown, Contract!KeyMissing, KeyMissing
<1>5. \A r : Contract!BareHead(r) = BareHead(r)
  BY DEF Contract!BareHead, BareHead
<1>6. \A e : Contract!Methods(e) = Methods(e)
  BY DEF Contract!Methods, Methods
<1>7. \A r : Contract!Shows(r, "ok") = Shown(r)
  BY <1>2, <1>3 DEF Contract!Shows, Shown
<1>8. \A r, code : code # "ok" => Contract!Shows(r, code) = {None}
  BY DEF Contract!Shows
<1>9. QED
  BY <1>4, <1>5, <1>6, <1>7, <1>8

\* A reply with a reason is an answer of the contract.
LEMMA ReplyAnswers ==
  ASSUME NEW p \in Proc, NEW r \in Request, r = req[p], NEW code \in Codes, NEW image,
         Reply(p, code, image),
         Contract!MayReply(r, code), Contract!Honest(r, code),
         image \in IF code = "ok" THEN Shown(r) ELSE {None}
  PROVE  Contract!Answer(p)
<1>1. r # None
  BY KeysAssumption
<1>2. code \in Contract!Codes
  BY DEF Codes, Contract!Codes
<1>3. image \in Contract!Shows(r, code)
  BY SameWords
<1>4. /\ reply' = [reply EXCEPT ![p] = [to |-> r, code |-> code, image |-> image]]
      /\ req' = [req EXCEPT ![p] = None]
  BY DEF Reply
<1>5. QED
  BY <1>1, <1>2, <1>3, <1>4 DEF Contract!Answer

\* The early replies have their reasons.
LEMMA EarlyReasons ==
  ASSUME NEW r \in Request, r.method \in Methods(r.endpoint), Verdict(r) # "draw"
  PROVE  /\ Verdict(r) \in Codes \ {"ok"}
         /\ Contract!MayReply(r, Verdict(r))
         /\ Contract!Honest(r, Verdict(r))
<1>1. r.endpoint \in {"qr", "validate"} /\ r.fault \in Faults \cup {None} /\ None \notin Faults
  BY RequestAssumption
<1>2. CASE Verdict(r) = "unauthorized"
  <2>1. KeyMissing(r) \/ KeyUnknown(r)
    BY <1>1, <1>2 DEF Verdict, Faults
  <2>2. Contract!MayReply(r, "unauthorized")
    BY <2>1, SameWords DEF Contract!MayReply, Contract!Entitled
  <2>3. Contract!Honest(r, "unauthorized")
    BY DEF Contract!Honest
  <2>4. QED
    BY <1>2, <2>2, <2>3 DEF Codes
<1>3. CASE Verdict(r) = "headers_only"
  <2>1. BareHead(r) /\ ~KeyMissing(r)
    BY <1>1, <1>3 DEF Verdict, Faults
  <2>2. Contract!MayReply(r, "headers_only")
    BY <2>1, SameWords DEF Contract!MayReply
  <2>3. Contract!Honest(r, "headers_only")
    BY DEF Contract!Honest
  <2>4. QED
    BY <1>3, <2>2, <2>3 DEF Codes
<1>4. CASE Verdict(r) \in {"invalid_json", "invalid_input"}
  <2>1. r.fault = Verdict(r)
    BY <1>1, <1>4 DEF Verdict
  <2>2. Contract!MayReply(r, Verdict(r))
    BY <1>4 DEF Contract!MayReply
  <2>3. Contract!Honest(r, Verdict(r))
    BY <1>4, <2>1 DEF Contract!Honest
  <2>4. QED
    BY <1>4, <2>2, <2>3 DEF Codes
<1>5. CASE Verdict(r) = "valid"
  <2>1. /\ ~KeyMissing(r) /\ ~KeyUnknown(r) /\ r.endpoint = "validate"
        /\ r.fault \notin {"invalid_json", "invalid_input"}
    BY <1>1, <1>5 DEF Verdict, Faults
  <2>2. Contract!MayReply(r, "valid")
    BY <2>1, SameWords DEF Contract!MayReply, Contract!Entitled
  <2>3. Contract!Honest(r, "valid")
    BY <2>1, SameWords DEF Contract!Honest
  <2>4. QED
    BY <1>5, <2>2, <2>3 DEF Codes
<1>6. CASE Verdict(r) = "payload_build_failed"
  <2>1. /\ ~KeyMissing(r) /\ ~KeyUnknown(r) /\ r.endpoint = "qr"
        /\ r.fault = "payload_build_failed"
    BY <1>1, <1>6 DEF Verdict, Faults
  <2>2. Contract!MayReply(r, "payload_build_failed")
    BY <2>1, SameWords DEF Contract!MayReply, Contract!Entitled
  <2>3. Contract!Honest(r, "payload_build_failed")
    BY <2>1 DEF Contract!Honest
  <2>4. QED
    BY <1>6, <2>2, <2>3 DEF Codes
<1>7. Verdict(r) \in {"unauthorized", "headers_only", "invalid_json", "invalid_input", "valid",
                      "payload_build_failed"}
  BY DEF Verdict
<1>8. QED
  BY <1>2, <1>3, <1>4, <1>5, <1>6, <1>7

\* What is drawn or cached is asked for by an entitled request.
LEMMA DrawableReasons ==
  ASSUME NEW r, Drawable(r)
  PROVE  /\ r.endpoint = "qr" /\ ~KeyMissing(r) /\ ~KeyUnknown(r)
         /\ Contract!MayReply(r, "ok") /\ Contract!MayReply(r, "qr_encode_failed")
<1>1. r.endpoint = "qr" /\ ~KeyMissing(r) /\ ~KeyUnknown(r)
  BY RequestAssumption DEF Drawable, Verdict, Faults
<1>2. QED
  BY <1>1, SameWords DEF Contract!MayReply, Contract!Entitled

\* Each way to reply is an answer of the contract.
LEMMA AnswersAreKept ==
  ASSUME IInv, NEW p \in Proc,
         \/ AnswerMethod(p) \/ Limited(p) \/ AnswerEarly(p) \/ AnswerEncodeFailed(p)
         \/ AnswerCached(p) \/ AnswerDrawn(p)
  PROVE  Contract!Answer(p)
<1>1. PICK r : r = req[p]
  OBVIOUS
<1>2. pc[p] # "idle"
  BY DEF AnswerMethod, Limited, AnswerEarly, AnswerEncodeFailed, AnswerCached, AnswerDrawn
<1>3. /\ r \in Request
      /\ pc[p] \notin {"idle", "start"} => Drawable(r)
  BY <1>1, <1>2 DEF IInv, Handlers, Fine
<1>4. CASE AnswerMethod(p)
  <2>1. PICK code : code = IF r.endpoint = "qr" /\ r.method = "OPTIONS"
                           THEN "no_content" ELSE "method_not_allowed"
    OBVIOUS
  <2>2. r.method \notin Methods(r.endpoint) /\ Reply(p, code, None)
    BY <1>1, <1>4, <2>1 DEF AnswerMethod
  <2>3. code \in Codes /\ code # "ok"
    BY <2>1 DEF Codes
  <2>4. Contract!MayReply(r, code)
    BY <2>1, <2>2, SameWords DEF Contract!MayReply
  <2>5. Contract!Honest(r, code)
    BY <2>1 DEF Contract!Honest
  <2>6. QED
    BY <1>1, <1>3, <2>2, <2>3, <2>4, <2>5, ReplyAnswers
<1>5. CASE Limited(p)
  <2>1. Reply(p, "rate_limited", None) /\ "rate_limited" \in Codes
    BY <1>5 DEF Limited, Codes
  <2>2. Contract!MayReply(r, "rate_limited") /\ Contract!Honest(r, "rate_limited")
    BY DEF Contract!MayReply, Contract!Honest
  <2>3. QED
    BY <1>1, <1>3, <2>1, <2>2, ReplyAnswers
<1>6. CASE AnswerEarly(p)
  <2>1. PICK code : code = Verdict(r)
    OBVIOUS
  <2>2. r.method \in Methods(r.endpoint) /\ code # "draw" /\ Reply(p, code, None)
    BY <1>1, <1>6, <2>1 DEF AnswerEarly
  <2>3. code \in Codes \ {"ok"} /\ Contract!MayReply(r, code) /\ Contract!Honest(r, code)
    BY <1>3, <2>1, <2>2, EarlyReasons
  <2>4. QED
    BY <1>1, <1>3, <2>2, <2>3, ReplyAnswers
<1>7. CASE AnswerEncodeFailed(p)
  <2>1. /\ pc[p] = "lookup" /\ r.fault = "qr_encode_failed"
        /\ Reply(p, "qr_encode_failed", None) /\ "qr_encode_failed" \in Codes
    BY <1>1, <1>7 DEF AnswerEncodeFailed, Codes
  <2>2. Contract!MayReply(r, "qr_encode_failed")
    BY <1>3, <2>1, DrawableReasons
  <2>3. Contract!Honest(r, "qr_encode_failed")
    BY <2>1 DEF Contract!Honest
  <2>4. QED
    BY <1>1, <1>3, <2>1, <2>2, <2>3, ReplyAnswers
<1>8. ASSUME NEW image, Reply(p, "ok", image), Good(r, image), Drawable(r)
      PROVE  Contract!Answer(p)
  <2>1. image \in Shown(r) /\ r.fault = None /\ r.method \in Methods(r.endpoint)
    BY <1>8 DEF Good, Drawable
  <2>2. Contract!MayReply(r, "ok")
    BY <1>8, DrawableReasons
  <2>3. Contract!Honest(r, "ok")
    BY <2>1, SameWords DEF Contract!Honest
  <2>4. "ok" \in Codes
    BY DEF Codes
  <2>5. QED
    BY <1>1, <1>3, <1>8, <2>1, <2>2, <2>3, <2>4, ReplyAnswers
<1>9. CASE AnswerCached(p)
  <2>1. PICK image : image = answer[p]
    OBVIOUS
  <2>2. pc[p] = "lookup" /\ image # None /\ Reply(p, "ok", image)
    BY <1>9, <2>1 DEF AnswerCached
  <2>3. Good(r, image)
    BY <1>1, <2>1, <2>2 DEF IInv, Handlers, Fine
  <2>4. QED
    BY <1>3, <1>8, <2>2, <2>3
<1>10. CASE AnswerDrawn(p)
  <2>1. PICK image : image = img[p]
    OBVIOUS
  <2>2. pc[p] = "stored" /\ Reply(p, "ok", image)
    BY <1>10, <2>1 DEF AnswerDrawn
  <2>3. Good(r, image)
    BY <1>1, <2>1, <2>2 DEF IInv, Handlers, Fine
  <2>4. QED
    BY <1>3, <1>8, <2>2, <2>3
<1>11. QED
  BY <1>4, <1>5, <1>6, <1>7, <1>9, <1>10

LEMMA StepKeepsContract == IInv /\ [Next]_vars => [Contract!Next]_(Contract!contractVars)
<1> SUFFICES ASSUME IInv, [Next]_vars
             PROVE  Contract!Next \/ UNCHANGED <<req, reply>>
  BY DEF Contract!contractVars
<1>1. ASSUME NEW p \in Proc, NEW r \in Request, Arrive(p, r)
      PROVE  Contract!Next
  <2>1. req[p] = None
    BY <1>1 DEF Arrive, IInv, Handlers, Fine
  <2>2. Contract!Ask(p, r)
    BY <1>1, <2>1 DEF Arrive, Contract!Ask
  <2>3. QED
    BY <2>2 DEF Contract!Next
<1>2. ASSUME NEW p \in Proc, Serve(p)
      PROVE  Contract!Next \/ UNCHANGED <<req, reply>>
  <2>1. \/ \/ AnswerMethod(p) \/ Limited(p) \/ AnswerEarly(p) \/ AnswerEncodeFailed(p)
           \/ AnswerCached(p) \/ AnswerDrawn(p)
        \/ UNCHANGED <<req, reply>>
    BY <1>2 DEF Serve, Lookup, Draw, LogoCached, LogoAbsent, LoadLogo, LoadFails, KeepLogo,
                StoreImage
  <2>2. QED
    BY <2>1, AnswersAreKept DEF Contract!Next
<1>3. ASSUME NEW p \in Proc, CacheServes(p) PROVE UNCHANGED <<req, reply>>
  BY <1>3 DEF CacheServes
<1>4. CASE CacheForgets \/ Tick \/ \E f \in Path : LogoForgotten(f) \/ FileChanges(f)
  BY <1>4 DEF CacheForgets, Tick, LogoForgotten, FileChanges
<1>5. CASE UNCHANGED vars
  BY <1>5 DEF vars
<1>6. QED
  BY <1>1, <1>2, <1>3, <1>4, <1>5 DEF Next

\* Wherever cache keys tell requests apart, the caches cannot be noticed: the
\* handlers implement the contract that knows of none.
THEOREM ServiceKeepsContract == KeysTellApart => (Spec => ImplementsContract)
<1> SUFFICES ASSUME KeysTellApart PROVE Spec => Contract!Spec
  BY DEF ImplementsContract
<1>1. Init => Contract!Init
  BY DEF Init, Contract!Init
<1>2. Spec => []IInv
  BY Invariance
<1>3. QED
  BY <1>1, <1>2, StepKeepsContract, PTL DEF Spec, Contract!Spec
=============================================================================
