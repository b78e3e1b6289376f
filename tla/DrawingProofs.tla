--------------------------- MODULE DrawingProofs ---------------------------
(***************************************************************************)
(* Proofs about Keys and Drawing, for any keys files, sizes, symbols and     *)
(* logos: which colours and which places an image can show, and that what   *)
(* the cache key leaves out does not matter.                                *)
(*                                                                          *)
(* The invariant says that at every stage the canvas is a function of the   *)
(* key's entry, Portrait at the end.  The rest is about that function.      *)
(***************************************************************************)
EXTENDS Drawing, FiniteSetTheorems, SequenceTheorems, TLAPS

-----------------------------------------------------------------------------
(* What the keys file lets pass.                                            *)

\* Of several places of a sequence one is the last.
LEMMA LastPlace ==
  ASSUME NEW n \in Nat, NEW S \in SUBSET (1..n), S # {}
  PROVE  Max(S) \in S
<1> DEFINE after(i) == i..n
           I == {after(i) : i \in S}
<1>1. IsWellFoundedOn(StrictSubsetOrdering(1..n), FiniteSubsetsOf(1..n))
  BY FS_StrictSubsetOrderingWellFounded
<1>2. I \subseteq FiniteSubsetsOf(1..n) /\ I # {}
  <2>1. ASSUME NEW i \in S PROVE after(i) \subseteq 1..n /\ IsFiniteSet(after(i))
    <3>1. i \in Int /\ n \in Int
      OBVIOUS
    <3>2. IsFiniteSet(i..n)
      BY <3>1, FS_Interval, Zenon
    <3> QED BY <3>2
  <2> QED BY <2>1 DEF FiniteSubsetsOf
<1>3. PICK x \in I : \A y \in I : ~(<<y, x>> \in StrictSubsetOrdering(1..n))
  <2> HIDE DEF I
  <2> QED BY <1>1, <1>2, WFMin
<1>4. PICK m \in S : x = after(m)
  OBVIOUS
<1>5. ASSUME NEW k \in S, m < k PROVE FALSE
  <2>1. /\ after(k) \in I /\ after(k) \subseteq 1..n /\ after(m) \subseteq 1..n
        /\ after(k) \subseteq after(m) /\ after(k) # after(m)
    <3>1. m \in after(m) /\ m \notin after(k)
      BY <1>5
    <3> QED BY <1>5, <3>1
  <2>2. <<after(k), after(m)>> \in StrictSubsetOrdering(1..n)
    <3> HIDE DEF after
    <3> QED BY <2>1 DEF StrictSubsetOrdering
  <2> QED BY <2>1, <2>2, <1>3, <1>4
<1>6. \E i \in S : \A j \in S : i >= j
  BY <1>5
<1> QED BY <1>6 DEF Max

\* Every entry in memory is one of the file's, normalised.
LEMMA EntryOfFile ==
  ASSUME NEW file \in File, NEW k \in DOMAIN Loaded(file)
  PROVE  k \in ApiKey /\ \E i \in DOMAIN file : IsEntry(file[i]) /\ Loaded(file)[k] = Normalized(file[i])
<1> DEFINE own == {i \in Usable(file) : KeyOf(file[i]) = k}
<1>1. PICK i \in Usable(file) : k = KeyOf(file[i])
  BY DEF Loaded
<1>2. own \in SUBSET (1..Len(file)) /\ own # {} /\ Len(file) \in Nat
  BY <1>1, DrawingAssumption DEF Usable
<1>3. Max(own) \in own
  <2> HIDE DEF own
  <2> QED BY <1>2, LastPlace
<1>4. Loaded(file)[k] = Normalized(file[Max(own)])
  BY <1>1 DEF Loaded
<1>5. k \in ApiKey
  BY <1>1 DEF Usable
<1>6. Max(own) \in DOMAIN file
  BY <1>3 DEF Usable
<1> QED BY <1>4, <1>5, <1>6, DrawingAssumption

LEMMA NormalizedFields ==
  ASSUME NEW e, IsEntry(e)
  PROVE  LET n == Normalized(e)
         IN  /\ n.logoPath \in Readable \cup {None}
             /\ n.fg = NormalizeHex(e.fg) /\ n.bg = NormalizeHex(e.bg)
             /\ n.fgGradient = NormalizeGradient(e.fgGradient)
             /\ n.bgGradient = NormalizeGradient(e.bgGradient)
             /\ n.moduleStyle \in {"square", "rounded", "blob"}
             /\ n.logoBGShape \in {"square", "circle"}
             /\ n.name = e.name /\ n.cornerRadius \in Nat
             /\ n.moduleRadius = Within(e.moduleRadius, 0, RadiusUnit \div 2)
             /\ n.quietZone = Within(e.quietZone, 0, MaxQuiet)
             /\ n.qrSize = Within(e.qrSize, MinSize, MaxSize)
<1>1. DOMAIN e = EntryFields
  BY DEF IsEntry
<1> DEFINE n == Normalized(e)
<1>2. /\ n.logoPath = (IF e.logoPath \in Readable THEN e.logoPath ELSE None)
      /\ n.fg = NormalizeHex(e.fg) /\ n.bg = NormalizeHex(e.bg)
      /\ n.fgGradient = NormalizeGradient(e.fgGradient)
      /\ n.bgGradient = NormalizeGradient(e.bgGradient)
      /\ n.moduleStyle = NormalizeModuleStyle(e.moduleStyle)
      /\ n.logoBGShape = NormalizeLogoBGShape(e.logoBGShape)
      /\ n.name = e.name /\ n.cornerRadius = IF e.cornerRadius < 0 THEN 0 ELSE e.cornerRadius
      /\ n.moduleRadius = Within(e.moduleRadius, 0, RadiusUnit \div 2)
      /\ n.quietZone = Within(e.quietZone, 0, MaxQuiet)
      /\ n.qrSize = Within(e.qrSize, MinSize, MaxSize)
  BY <1>1 DEF Normalized, EntryFields
<1> HIDE DEF n
<1>3. NormalizeModuleStyle(e.moduleStyle) \in {"square", "rounded", "blob"}
  BY DEF NormalizeModuleStyle
<1>4. NormalizeLogoBGShape(e.logoBGShape) \in {"square", "circle"}
  BY DEF NormalizeLogoBGShape
<1>5. e.cornerRadius \in Int
  BY DEF IsEntry
<1>6. n.cornerRadius \in Nat
  BY <1>2, <1>5
<1> QED BY <1>2, <1>3, <1>4, <1>6 DEF n

\* The normal form of a colour.
InHex(rgb) == [marks |-> 1, digits |-> 6, hex |-> TRUE, rgb |-> rgb, padded |-> FALSE]

\* A text of a colour is replaced by none, or is the normal form of the colour that it
\* is parsed to.
Clean(t) == t = Empty \/ (ParseHexColor(t) \in Rgb /\ t = InHex(ParseHexColor(t)))

LEMMA EmptyIsBlack == ParseHexColor(Empty) = "black"
<1>1. Trimmed(Empty) = Empty
  <2>1. Empty \in [marks : Nat, digits : Nat, hex : BOOLEAN, rgb : {None}, padded : {FALSE}]
    BY DEF Empty
  <2>2. \A t \in [marks : Nat, digits : Nat, hex : BOOLEAN, rgb : {None}, padded : {FALSE}] :
          [t EXCEPT !.padded = FALSE] = t
    OBVIOUS
  <2> QED BY <2>1, <2>2 DEF Trimmed
<1> QED BY <1>1 DEF ParseHexColor

LEMMA OneSixDigitText ==
  ASSUME NEW c,
         NEW p \in [marks : {1}, digits : {6}, hex : {TRUE}, rgb : {c}, padded : {FALSE}]
  PROVE  p = InHex(c)
<1>1. p = [marks |-> p.marks, digits |-> p.digits, hex |-> p.hex, rgb |-> p.rgb,
           padded |-> p.padded]
  OBVIOUS
<1>2. p.marks = 1 /\ p.digits = 6 /\ p.hex = TRUE /\ p.rgb = c /\ p.padded = FALSE
  OBVIOUS
<1> QED BY <1>1, <1>2, Zenon DEF InHex

LEMMA CleanText ==
  ASSUME NEW t \in ColourText
  PROVE  Clean(NormalizeHex(t))
<1> DEFINE v == [t EXCEPT !.padded = FALSE]
           u == [v EXCEPT !.marks = 1]
<1>1. v.digits = t.digits /\ v.hex = t.hex /\ v.rgb = t.rgb /\ v.marks = t.marks
  BY DEF ColourText
<1>2. CASE NormalizeHex(t) = Empty
  BY <1>2 DEF Clean
<1>3. CASE v.marks \in {0, 1} /\ v.digits = 6 /\ v.hex
  <2>1. NormalizeHex(t) = u
    BY <1>3 DEF NormalizeHex, Trimmed
  <2>2. u.marks = 1 /\ u.digits = 6 /\ u.hex /\ u.rgb = t.rgb
    BY <1>1, <1>3 DEF ColourText
  <2>3. t.rgb \in Rgb
    BY <1>1, <1>3 DEF ColourText
  <2>4. Trimmed(u) = u
    BY DEF Trimmed, ColourText
  <2>5. u # Empty
    <3> HIDE DEF u
    <3> QED BY <2>2 DEF Empty
  <2>6. ParseHexColor(u) = u.rgb
    <3> HIDE DEF u
    <3> QED BY <2>2, <2>4, <2>5 DEF ParseHexColor
  <2>7. u = InHex(t.rgb)
    <3>1. t \in [marks : Nat, digits : Nat, hex : BOOLEAN, rgb : Rgb \cup {None}, padded : BOOLEAN]
      BY DEF ColourText
    <3>2. t.digits = 6 /\ t.hex = TRUE
      <4>1. t.hex \in BOOLEAN
        BY <3>1
      <4>2. t.hex /\ t.digits = 6
        BY <1>1, <1>3
      <4> QED BY <4>1, <4>2
    <3> DEFINE R == [marks : {1}, digits : {6}, hex : {TRUE}, rgb : {t.rgb}, padded : {FALSE}]
    <3>3. v \in [marks : Nat, digits : {6}, hex : {TRUE}, rgb : {t.rgb}, padded : {FALSE}]
      BY <3>1, <3>2
    <3>4. u \in R
      <4> HIDE DEF v
      <4> QED BY <3>3
    <3> HIDE DEF u
    <3> QED BY <3>4, OneSixDigitText
  <2> HIDE DEF u
  <2> QED BY <2>1, <2>2, <2>3, <2>6, <2>7 DEF Clean
<1> QED BY <1>2, <1>3 DEF NormalizeHex, Trimmed

\* The record of a gradient.
GradientOK(g) == g = [from |-> g.from, to |-> g.to, angle |-> g.angle] /\ g.angle \in Int

LEMMA CleanGradient ==
  ASSUME NEW g \in Gradient
  PROVE  /\ Clean(NormalizeGradient(g).from) /\ Clean(NormalizeGradient(g).to)
         /\ GradientOK(NormalizeGradient(g))
<1>1. /\ NormalizeGradient(g).from \in {Empty, NormalizeHex(g.from)}
      /\ NormalizeGradient(g).to \in {Empty, NormalizeHex(g.to)}
  BY DEF NormalizeGradient, Gradient
<1>2. Clean(NormalizeHex(g.from)) /\ Clean(NormalizeHex(g.to)) /\ Clean(Empty)
  BY CleanText DEF Gradient, Clean
<1>3. GradientOK(NormalizeGradient(g))
  BY DEF NormalizeGradient, Gradient, GradientOK
<1> QED BY <1>1, <1>2, <1>3

\* What the store can hold of a key's style.
StyleOK(c) ==
  /\ c.logoPath \in Readable \cup {None}
  /\ c.moduleRadius \in 0..(RadiusUnit \div 2) /\ c.quietZone \in 0..MaxQuiet
  /\ c.qrSize \in {0} \cup MinSize..MaxSize
  /\ c.moduleStyle \in {"square", "rounded", "blob"} /\ c.logoBGShape \in {"square", "circle"}
  /\ c.cornerRadius \in Nat
  /\ GradientOK(c.fgGradient) /\ GradientOK(c.bgGradient)
  /\ \A t \in {c.fg, c.bg, c.fgGradient.from, c.fgGradient.to,
               c.bgGradient.from, c.bgGradient.to} : Clean(t)

LEMMA NormalizedStyle == ASSUME NEW e, IsEntry(e) PROVE StyleOK(Normalized(e))
<1> DEFINE c == Normalized(e)
<1>1. Clean(c.fg) /\ Clean(c.bg)
  BY NormalizedFields, CleanText DEF IsEntry
<1>2. /\ Clean(c.fgGradient.from) /\ Clean(c.fgGradient.to)
      /\ Clean(c.bgGradient.from) /\ Clean(c.bgGradient.to)
      /\ GradientOK(c.fgGradient) /\ GradientOK(c.bgGradient)
  BY NormalizedFields, CleanGradient DEF IsEntry
<1>3. /\ c.moduleRadius \in 0..(RadiusUnit \div 2) /\ c.quietZone \in 0..MaxQuiet
      /\ c.qrSize \in {0} \cup MinSize..MaxSize
  <2>1. RadiusUnit \div 2 \in Nat /\ MaxQuiet \in Nat
    BY KeysAssumption
  <2> HIDE DEF c
  <2> QED BY <2>1, NormalizedFields DEF Within, c
<1>4. /\ c.logoPath \in Readable \cup {None} /\ c.cornerRadius \in Nat
      /\ c.moduleStyle \in {"square", "rounded", "blob"} /\ c.logoBGShape \in {"square", "circle"}
  BY NormalizedFields
<1> HIDE DEF c
<1> QED BY <1>1, <1>2, <1>3, <1>4 DEF StyleOK, c

-----------------------------------------------------------------------------
(* The canvas at every stage.                                               *)

Drawn(k) == IF Styled(k) THEN MakeQRStyled(Size(k), Ecc(k), store[k])
            ELSE MakeQR(Size(k), Ecc(k))

Painted(k) == IF k = Public THEN RecolorGradient(Drawn(k), Solid("black"), Solid("clear"))
              ELSE IF Coloured(store[k]) /\ ColoursParse(store[k])
              THEN RecolorGradient(Drawn(k), Foreground(store[k]), Background(store[k]))
              ELSE Drawn(k)

Portrait(k) == IF k = Public \/ store[k].logoPath = None THEN Painted(k)
               ELSE OverlayLogoImage(Painted(k), Size(k), store[k].logoPath,
                                     store[k].logoBGShape)

DrawingInv ==
  /\ \E file \in File : store = Loaded(file)
  /\ DOMAIN shown = DOMAIN store \cup {Public}
  /\ \A k \in DOMAIN shown : shown[k] \in {None, Portrait(k)}
  /\ pc \in {"idle", "draw", "public", "colour", "logo", "done"}
  /\ pc # "idle" => who \in DOMAIN shown
  /\ pc = "public" => who = Public /\ canvas = Drawn(who)
  /\ pc = "colour" => who # Public /\ canvas = Drawn(who)
  /\ pc = "logo" => who # Public /\ store[who].logoPath # None /\ canvas = Painted(who)
  /\ pc = "done" => canvas = Portrait(who)

\* A picture depends on the store alone, which does not change.
LEMMA PicturesStay ==
  ASSUME UNCHANGED store, NEW k
  PROVE  Drawn(k)' = Drawn(k) /\ Painted(k)' = Painted(k) /\ Portrait(k)' = Portrait(k)
<1>1. Size(k)' = Size(k) /\ Ecc(k)' = Ecc(k) /\ (Styled(k)' <=> Styled(k))
  BY DEF Size, Ecc, Styled
<1>2. Drawn(k)' = Drawn(k)
  BY <1>1 DEF Drawn
<1>3. Painted(k)' = Painted(k)
  BY <1>2 DEF Painted
<1> QED BY <1>1, <1>2, <1>3 DEF Portrait

LEMMA StoredStyle ==
  ASSUME DrawingInv, NEW k \in DOMAIN store
  PROVE  StyleOK(store[k]) /\ k # Public /\ store[k].name \in Seq(Char)
<1>1. PICK file \in File : store = Loaded(file)
  BY DEF DrawingInv
<1>2. PICK i \in DOMAIN file : k \in ApiKey /\ IsEntry(file[i]) /\ store[k] = Normalized(file[i])
  BY <1>1, EntryOfFile
<1>3. store[k].name = file[i].name /\ StyleOK(store[k])
  BY <1>2, NormalizedFields, NormalizedStyle
<1>4. file[i].name \in Seq(Char) /\ Public \notin ApiKey
  BY DrawingAssumption
<1> QED BY <1>2, <1>3, <1>4

LEMMA DrawingInitInv == Init => DrawingInv
BY DEF Init, DrawingInv

LEMMA DrawingStepInv == DrawingInv /\ [Next]_drawingVars => DrawingInv'
<1> SUFFICES ASSUME DrawingInv, [Next]_drawingVars PROVE DrawingInv'
  OBVIOUS
<1>1. UNCHANGED store
  BY DEF Next, drawingVars, Request, Draw, RecolorPublic, Recolor, Overlay, Respond
<1>2. \A k : Drawn(k)' = Drawn(k) /\ Painted(k)' = Painted(k) /\ Portrait(k)' = Portrait(k)
  BY <1>1, PicturesStay
<1>3. ASSUME UNCHANGED shown
      PROVE  /\ DOMAIN shown' = DOMAIN store' \cup {Public}
             /\ \A k \in DOMAIN shown' : shown'[k] \in {None, Portrait(k)'}
             /\ \E file \in File : store' = Loaded(file)
  BY <1>1, <1>2, <1>3 DEF DrawingInv
<1>4. CASE \E k \in DOMAIN shown : Request(k)
  BY <1>3, <1>4 DEF Request, DrawingInv
<1>5. CASE Draw
  <2>1. canvas' = Drawn(who) /\ UNCHANGED <<store, who, shown>> /\ pc = "draw"
    BY <1>5 DEF Draw, Drawn
  <2>2. pc' = IF who = Public THEN "public" ELSE "colour"
    BY <1>5 DEF Draw
  <2> QED BY <1>2, <1>3, <2>1, <2>2 DEF DrawingInv
<1>6. CASE RecolorPublic
  <2>1. /\ UNCHANGED <<store, who, shown>> /\ pc' = "done" /\ pc = "public"
        /\ canvas' = RecolorGradient(canvas, Solid("black"), Solid("clear"))
    BY <1>6 DEF RecolorPublic
  <2>2. who = Public /\ canvas = Drawn(who)
    BY <2>1 DEF DrawingInv
  <2>3. canvas' = Portrait(who)
    BY <2>1, <2>2 DEF Portrait, Painted
  <2> QED BY <1>2, <1>3, <2>1, <2>3 DEF DrawingInv
<1>7. CASE Recolor
  <2>1. /\ UNCHANGED <<store, who, shown>> /\ pc = "colour"
        /\ pc' = IF store[who].logoPath = None THEN "done" ELSE "logo"
        /\ canvas' = IF Coloured(store[who]) /\ ColoursParse(store[who])
                     THEN RecolorGradient(canvas, Foreground(store[who]), Background(store[who]))
                     ELSE canvas
    BY <1>7 DEF Recolor
  <2>2. who # Public /\ canvas = Drawn(who)
    BY <2>1 DEF DrawingInv
  <2>3. canvas' = Painted(who)
    BY <2>1, <2>2 DEF Painted
  <2>4. pc' = "done" => canvas' = Portrait(who)
    BY <2>1, <2>3 DEF Portrait
  <2> QED BY <1>2, <1>3, <2>1, <2>2, <2>3, <2>4 DEF DrawingInv
<1>8. CASE Overlay
  <2>1. /\ UNCHANGED <<store, who, shown>> /\ pc = "logo" /\ pc' = "done"
        /\ canvas' = OverlayLogoImage(canvas, Size(who), store[who].logoPath,
                                      store[who].logoBGShape)
    BY <1>8 DEF Overlay
  <2>2. who # Public /\ store[who].logoPath # None /\ canvas = Painted(who)
    BY <2>1 DEF DrawingInv
  <2>3. canvas' = Portrait(who)
    BY <2>1, <2>2 DEF Portrait
  <2> QED BY <1>2, <1>3, <2>1, <2>3 DEF DrawingInv
<1>9. CASE Respond
  <2>1. /\ shown' = [shown EXCEPT ![who] = canvas] /\ pc = "done" /\ pc' = "idle"
        /\ canvas = Portrait(who)
    BY <1>9 DEF Respond, DrawingInv
  <2>2. \A k \in DOMAIN shown' : shown'[k] \in {None, Portrait(k)}
    BY <2>1 DEF DrawingInv
  <2>3. DOMAIN shown' = DOMAIN shown
    BY <2>1
  <2> QED BY <1>1, <1>2, <2>1, <2>2, <2>3 DEF DrawingInv
<1>10. CASE UNCHANGED drawingVars
  BY <1>2, <1>3, <1>10 DEF drawingVars, DrawingInv
<1> QED BY <1>4, <1>5, <1>6, <1>7, <1>8, <1>9, <1>10 DEF Next

LEMMA DrawingInvariance == Spec => []DrawingInv
BY DrawingInitInv, DrawingStepInv, PTL DEF Spec

LEMMA FinishedPortrait == ASSUME DrawingInv, NEW k \in Finished PROVE shown[k] = Portrait(k)
BY DEF DrawingInv, Finished

-----------------------------------------------------------------------------
(* Divisions.                                                               *)

LEMMA DivBounds ==
  ASSUME NEW a \in Int, NEW d \in Nat \ {0}
  PROVE  a \div d \in Int /\ d * (a \div d) <= a /\ a < d * (a \div d) + d
BY SMT

LEMMA MulMono ==
  ASSUME NEW a \in Int, NEW b \in Int, NEW c \in Nat, a <= b
  PROVE  c * a <= c * b
BY SMT

\* A quotient is as large as the numbers whose products stay below the dividend.
LEMMA DivAtLeast ==
  ASSUME NEW a \in Int, NEW d \in Nat \ {0}, NEW q \in Int, d * q <= a
  PROVE  q <= a \div d
<1>1. ASSUME (a \div d) + 1 <= q PROVE FALSE
  <2>1. d * ((a \div d) + 1) <= d * q
    BY <1>1, DivBounds, MulMono
  <2>2. d * ((a \div d) + 1) = d * (a \div d) + d
    BY DivBounds
  <2> QED BY <2>1, <2>2, DivBounds
<1> QED BY <1>1, DivBounds

LEMMA DivAtMost ==
  ASSUME NEW a \in Int, NEW d \in Nat \ {0}, NEW q \in Int, a < d * q + d
  PROVE  a \div d <= q
<1>1. ASSUME q + 1 <= a \div d PROVE FALSE
  <2>1. d * (q + 1) <= d * (a \div d)
    BY <1>1, DivBounds, MulMono
  <2>2. d * (q + 1) = d * q + d
    OBVIOUS
  <2> QED BY <2>1, <2>2, DivBounds
<1> QED BY <1>1, DivBounds

LEMMA DivMono ==
  ASSUME NEW a \in Int, NEW b \in Int, NEW d \in Nat \ {0}, a <= b
  PROVE  a \div d <= b \div d
<1>1. d * (a \div d) <= b
  BY DivBounds
<1> QED BY <1>1, DivAtLeast, DivBounds

\* A part of a length, shrunk with it, is no longer than what is left of the length.
LEMMA RoundedPart ==
  ASSUME NEW a \in Nat, NEW b \in Nat \ {0}, NEW t \in Nat, a <= b
  PROVE  Rounded(a * t, b) \in 0..t
<1>1. a * t \in Nat /\ b * t \in Nat /\ a * t <= b * t
  BY MulMono
<1> DEFINE n == a * t
<1>2. 2 * n + b < (2 * b) * t + 2 * b
  <2>1. (2 * b) * t = 2 * (b * t)
    OBVIOUS
  <2> QED BY <1>1, <2>1
<1>3. n \in Nat /\ 2 * n + b \in Int /\ 2 * b \in Nat \ {0} /\ (2 * b) * 0 <= 2 * n + b
  BY <1>1
<1> HIDE DEF n
<1>4. (2 * n + b) \div (2 * b) <= t /\ 0 <= (2 * n + b) \div (2 * b)
  BY <1>2, <1>3, DivAtLeast, DivAtMost
<1>5. (2 * n + b) \div (2 * b) \in Int
  BY <1>3, DivBounds
<1> QED BY <1>4, <1>5 DEF Rounded, n

-----------------------------------------------------------------------------
(* What the cache key tells apart.                                          *)

\* A styled symbol depends on four fields of the style.
LEMMA SameSymbol ==
  ASSUME NEW size, NEW ecc, NEW s, NEW t,
         s.quietZone = t.quietZone, s.moduleStyle = t.moduleStyle,
         s.moduleRadius = t.moduleRadius, s.cornerRadius = t.cornerRadius
  PROVE  MakeQRStyled(size, ecc, s) = MakeQRStyled(size, ecc, t)
<1>1. Quiet(s) = Quiet(t)
  BY DEF Quiet
<1>2. \A i : Edge(i, size, ecc, s) = Edge(i, size, ecc, t)
  BY <1>1 DEF Edge, Total
<1>3. \A i : Side(i, size, ecc, s) = Side(i, size, ecc, t)
  BY <1>2 DEF Side
<1>4. Radius(s) = Radius(t)
  BY DEF Radius
<1>5. \A m : ModulePixels(m, size, ecc, s) = ModulePixels(m, size, ecc, t)
  BY <1>2, <1>3, <1>4 DEF ModulePixels
<1>6. UNION {ModulePixels(m, size, ecc, s) : m \in Symbol[ecc]}
        = UNION {ModulePixels(m, size, ecc, t) : m \in Symbol[ecc]}
  BY <1>5
<1> QED BY <1>6 DEF MakeQRStyled

\* What the texts of cache keys consist of, the bar apart.
Signs == Char \cup Int \cup Rgb \cup [negative : BOOLEAN, figures : Nat]
         \cup {"a", "p", "square", "rounded", "blob", "circle", "M", "H"}

Lines == Seq(Signs)

Words == {t \in Lines : Barless(t)}

LEMMA CharLines == Seq(Char) \subseteq Lines /\ Bar \in Signs
<1>1. Char \subseteq Signs /\ Bar \in Char
  BY DrawingAssumption DEF Signs
<1>2. ASSUME NEW t \in Seq(Char) PROVE t \in Seq(Signs)
  <2>1. Len(t) \in Nat /\ t \in [1..Len(t) -> Char]
    BY LenProperties
  <2>2. t \in [1..Len(t) -> Signs]
    <3> HIDE DEF Signs
    <3> QED BY <1>1, <2>1
  <2> HIDE DEF Signs
  <2> QED BY <2>1, <2>2, SeqDef
<1> QED BY <1>1, <1>2 DEF Lines

\* A sign alone.
LEMMA OneSign ==
  ASSUME NEW x \in Signs
  PROVE  <<x>> \in Lines /\ Len(<<x>>) = 1 /\ <<x>>[1] = x /\ (x # Bar => <<x>> \in Words)
<1>1. <<x>> \in Seq(Signs) /\ Len(<<x>>) = 1 /\ <<x>>[1] = x /\ DOMAIN <<x>> = {1}
  <2> HIDE DEF Signs
  <2> QED OBVIOUS
<1> QED BY <1>1 DEF Lines, Words, Barless

LEMMA OneSignTells == \A x, y : <<x>> = <<y>> => x = y
OBVIOUS

LEMMA NoSign == <<>> \in Words /\ \A x : <<x>> # <<>>
<1>1. DOMAIN <<>> = {} /\ <<>> \in Seq(Signs)
  <2> HIDE DEF Signs
  <2> QED OBVIOUS
<1>2. ASSUME NEW x PROVE <<x>> # <<>>
  <2>1. Len(<<x>>) = 1 /\ Len(<<>>) = 0
    OBVIOUS
  <2> QED BY <2>1
<1> QED BY <1>1, <1>2 DEF Lines, Words, Barless

LEMMA FieldParts ==
  ASSUME NEW a \in Lines, NEW x \in Lines
  PROVE  /\ Field(a, x) \in Lines /\ Len(Field(a, x)) = Len(a) + 1 + Len(x)
         /\ Len(a) \in Nat /\ Len(x) \in Nat
         /\ DOMAIN a = 1..Len(a) /\ DOMAIN x = 1..Len(x)
         /\ \A i \in 1..Len(a) : Field(a, x)[i] = a[i]
         /\ Field(a, x)[Len(a) + 1] = Bar
         /\ \A i \in 1..Len(x) : Field(a, x)[Len(a) + 1 + i] = x[i]
<1> HIDE DEF Signs
<1>1. a \in Seq(Signs) /\ x \in Seq(Signs) /\ Len(a) \in Nat /\ Len(x) \in Nat
  BY LenProperties DEF Lines
<1>2. <<Bar>> \in Seq(Signs) /\ Len(<<Bar>>) = 1 /\ <<Bar>>[1] = Bar
  BY CharLines, OneSign DEF Lines
<1> DEFINE ab == a \o <<Bar>>
<1>3. /\ ab \in Seq(Signs) /\ Len(ab) = Len(a) + 1
      /\ \A i \in 1..Len(a) : ab[i] = a[i]
      /\ ab[Len(a) + 1] = Bar
  <2>1. /\ ab \in Seq(Signs) /\ Len(ab) = Len(a) + Len(<<Bar>>)
        /\ \A i \in 1..Len(a) + Len(<<Bar>>) :
             ab[i] = IF i <= Len(a) THEN a[i] ELSE <<Bar>>[i - Len(a)]
    BY <1>1, <1>2, ConcatProperties
  <2>2. (Len(a) + 1) - Len(a) = 1 /\ Len(a) + 1 \in 1..Len(a) + 1 /\ ~(Len(a) + 1 <= Len(a))
    BY <1>1
  <2>3. \A i \in 1..Len(a) : i \in 1..Len(a) + 1 /\ i <= Len(a)
    BY <1>1
  <2> HIDE DEF ab
  <2> QED BY <1>2, <2>1, <2>2, <2>3
<1>4. Field(a, x) = ab \o x
  BY DEF Field
<1> HIDE DEF ab
<1>5. /\ ab \o x \in Seq(Signs) /\ Len(ab \o x) = Len(ab) + Len(x)
      /\ \A i \in 1..Len(ab) + Len(x) :
           (ab \o x)[i] = IF i <= Len(ab) THEN ab[i] ELSE x[i - Len(ab)]
  BY <1>1, <1>3, ConcatProperties
<1>6. \A i \in 1..Len(a) : i \in 1..Len(ab) + Len(x) /\ i <= Len(ab)
  BY <1>1, <1>3
<1>7. Len(a) + 1 \in 1..Len(ab) + Len(x) /\ Len(a) + 1 <= Len(ab)
  BY <1>1, <1>3
<1>8. \A i \in 1..Len(x) : LET j == Len(a) + 1 + i
                           IN j \in 1..Len(ab) + Len(x) /\ ~(j <= Len(ab)) /\ j - Len(ab) = i
  BY <1>1, <1>3
<1>9. DOMAIN a = 1..Len(a) /\ DOMAIN x = 1..Len(x)
  BY <1>1, LenProperties
<1> QED BY <1>1, <1>3, <1>4, <1>5, <1>6, <1>7, <1>8, <1>9 DEF Lines

\* A first field of a known length can be taken off again.
LEMMA SameLength ==
  ASSUME NEW a \in Lines, NEW b \in Lines, NEW x \in Lines, NEW y \in Lines,
         Field(a, x) = Field(b, y), Len(a) = Len(b)
  PROVE  a = b /\ x = y
<1> DEFINE m == Len(a)
           u == Field(a, x)
           v == Field(b, y)
<1>1. /\ Len(u) = m + 1 + Len(x) /\ m \in Nat /\ Len(x) \in Nat
      /\ DOMAIN a = 1..m /\ DOMAIN x = 1..Len(x)
      /\ \A i \in 1..m : u[i] = a[i]
      /\ \A i \in 1..Len(x) : u[m + 1 + i] = x[i]
  BY FieldParts
<1>2. /\ Len(v) = m + 1 + Len(y) /\ Len(y) \in Nat
      /\ DOMAIN b = 1..m /\ DOMAIN y = 1..Len(y)
      /\ \A i \in 1..m : v[i] = b[i]
      /\ \A i \in 1..Len(y) : v[m + 1 + i] = y[i]
  <2>1. /\ Len(v) = Len(b) + 1 + Len(y) /\ Len(y) \in Nat
        /\ DOMAIN b = 1..Len(b) /\ DOMAIN y = 1..Len(y)
        /\ \A i \in 1..Len(b) : v[i] = b[i]
        /\ \A i \in 1..Len(y) : v[Len(b) + 1 + i] = y[i]
    BY FieldParts
  <2>2. Len(b) = m
    OBVIOUS
  <2> HIDE DEF m, v
  <2> QED BY <2>1, <2>2, Zenon
<1>3. u = v
  OBVIOUS
<1> HIDE DEF m, u, v
<1>4. Len(x) = Len(y)
  <2>1. m + 1 + Len(x) = m + 1 + Len(y)
    BY <1>1, <1>2, <1>3, Zenon
  <2> DEFINE p == Len(x)
             q == Len(y)
  <2>2. p \in Nat /\ q \in Nat /\ m \in Nat /\ m + 1 + p = m + 1 + q
    BY <1>1, <1>2, <2>1
  <2> HIDE DEF p, q
  <2>3. p = q
    BY <2>2
  <2> QED BY <2>3 DEF p, q
<1>5. a = b
  BY <1>1, <1>2, <1>3, SeqEqual DEF m, Lines
<1>6. x = y
  BY <1>1, <1>2, <1>3, <1>4, SeqEqual DEF Lines
<1> QED BY <1>5, <1>6

\* A first field without a bar can be taken off again.
LEMMA FirstField ==
  ASSUME NEW a \in Words, NEW b \in Words, NEW x \in Lines, NEW y \in Lines,
         Field(a, x) = Field(b, y)
  PROVE  a = b /\ x = y
<1>a. Words \subseteq Lines
  BY DEF Words
<1>1. ASSUME NEW c \in Words, NEW d \in Words, NEW r \in Lines, NEW w \in Lines,
             Field(c, r) = Field(d, w), Len(c) < Len(d)
      PROVE  FALSE
  <2>1. /\ Len(c) \in Nat /\ Field(c, r)[Len(c) + 1] = Bar
        /\ Len(d) \in Nat /\ DOMAIN d = 1..Len(d)
        /\ \A i \in 1..Len(d) : Field(d, w)[i] = d[i]
    BY <1>a, FieldParts
  <2>2. Len(c) + 1 \in 1..Len(d)
    BY <1>1, <2>1
  <2> QED BY <1>1, <2>1, <2>2 DEF Words, Barless
<1>2. Len(a) \in Nat /\ Len(b) \in Nat
  BY <1>a, FieldParts
<1>3. ~(Len(a) < Len(b)) /\ ~(Len(b) < Len(a))
  BY <1>1
<1> QED BY <1>a, <1>2, <1>3, SameLength

LEMMA WordField ==
  ASSUME NEW a \in Words, NEW x \in Lines
  PROVE  Field(a, x) \in Lines
BY FieldParts DEF Words

\* A colour in its normal form, or none, and what is printed of it.
LEMMA HexTold ==
  ASSUME NEW t, Clean(t)
  PROVE  /\ Hex(t) \in Words
         /\ \A u : Clean(u) /\ Hex(t) = Hex(u) => t = u
<1>1. ASSUME NEW v, Clean(v), v # Empty
      PROVE  Hex(v) = <<ParseHexColor(v)>> /\ ParseHexColor(v) \in Rgb /\ v = InHex(ParseHexColor(v))
  <2>1. ParseHexColor(v) \in Rgb /\ v = InHex(ParseHexColor(v))
    BY <1>1 DEF Clean
  <2>2. v.rgb = ParseHexColor(v)
    BY <2>1 DEF InHex
  <2> QED BY <1>1, <2>1, <2>2 DEF Hex
<1>2. Hex(Empty) = <<>>
  BY DEF Hex
<1>3. \A x \in Rgb : x \in Signs /\ x # Bar
  BY DrawingAssumption DEF Signs
<1>4. Hex(t) \in Words
  BY <1>1, <1>2, <1>3, OneSign, NoSign
<1>5. ASSUME NEW u, Clean(u), Hex(t) = Hex(u) PROVE t = u
  <2>1. CASE t = Empty \/ u = Empty
    BY <1>1, <1>2, <1>5, <2>1, NoSign
  <2>2. CASE t # Empty /\ u # Empty
    <3>1. ParseHexColor(t) = ParseHexColor(u)
      BY <1>1, <1>5, <2>2, OneSignTells
    <3> QED BY <1>1, <1>5, <2>2, <3>1
  <2> QED BY <2>1, <2>2
<1> QED BY <1>4, <1>5

\* A whole number of grains is rounded to itself.
LEMMA RoundedExactly ==
  ASSUME NEW g \in Nat \ {0}, NEW a \in Nat, a % g = 0
  PROVE  Rounded(a, g) \in Nat /\ a = g * Rounded(a, g)
<1> DEFINE q == a \div g
<1>1. q \in Nat /\ a = g * q
  BY SMTT(30)
<1> HIDE DEF q
<1>2. g * q \in Nat /\ 2 * g \in Nat \ {0}
  BY <1>1
<1>3. (2 * g) * q = 2 * a
  BY <1>1
<1>4. (2 * g) * q <= 2 * a + g /\ 2 * a + g < (2 * g) * q + 2 * g
  BY <1>3
<1>5. 2 * a + g \in Int
  OBVIOUS
<1> DEFINE n == 2 * a + g
           d == 2 * g
<1>6. n \in Int /\ d \in Nat \ {0} /\ d * q <= n /\ n < d * q + d /\ Rounded(a, g) = n \div d
  BY <1>2, <1>4, <1>5 DEF Rounded
<1> HIDE DEF n, d
<1>7. n \div d = q
  BY <1>1, <1>6, DivAtLeast, DivAtMost, DivBounds
<1> QED BY <1>1, <1>6, <1>7

LEMMA RoundedType ==
  ASSUME NEW g \in Nat \ {0}, NEW a \in Nat
  PROVE  Rounded(a, g) \in Nat
<1> DEFINE n == 2 * a + g
           d == 2 * g
<1>1. n \in Int /\ d \in Nat \ {0} /\ d * 0 <= n /\ 0 \in Int /\ Rounded(a, g) = n \div d
  BY DEF Rounded
<1> HIDE DEF n, d
<1> QED BY <1>1, DivAtLeast, DivBounds

LEMMA NumbersTold ==
  ASSUME NEW g \in Nat \ {0}, NEW a \in Int
  PROVE  /\ Decimals(a, g) \in Words
         /\ \A b \in Int : a % g = 0 /\ b % g = 0 /\ Decimals(a, g) = Decimals(b, g) => a = b
<1> DEFINE size(n) == IF n < 0 THEN -n ELSE n
           sign(n) == [negative |-> n < 0, figures |-> Rounded(size(n), g)]
<1>1. \A n \in Int : size(n) \in Nat
  OBVIOUS
<1>2. \A n \in Int : n % g = 0 => size(n) % g = 0
  <2> SUFFICES ASSUME NEW n \in Int, n % g = 0, n < 0 PROVE (-n) % g = 0
    OBVIOUS
  <2> DEFINE q == n \div g
  <2>1. q \in Int /\ n = g * q
    BY SMTT(30)
  <2>2. -n = g * (-q) /\ -q \in Int
    <3> HIDE DEF q
    <3> QED BY <2>1
  <2>3. \A p \in Int : (g * p) % g = 0
    BY SMTT(30)
  <2> HIDE DEF q
  <2> QED BY <2>2, <2>3
<1>3. \A n : Decimals(n, g) = <<sign(n)>>
  BY DEF Decimals
<1>4. sign(a) \in Signs /\ sign(a) # Bar
  <2>1. Rounded(size(a), g) \in Nat
    <3> HIDE DEF size
    <3> QED BY <1>1, RoundedType
  <2>2. sign(a) \in [negative : BOOLEAN, figures : Nat]
    <3> HIDE DEF size
    <3> QED BY <2>1
  <2> HIDE DEF sign
  <2> QED BY <2>2, DrawingAssumption DEF Signs
<1>5. ASSUME NEW b \in Int, a % g = 0, b % g = 0, Decimals(a, g) = Decimals(b, g) PROVE a = b
  <2>1. sign(a) = sign(b)
    <3> HIDE DEF sign
    <3> QED BY <1>3, <1>5, OneSignTells
  <2>2. (a < 0 <=> b < 0) /\ Rounded(size(a), g) = Rounded(size(b), g)
    <3> HIDE DEF size
    <3>1. sign(a).negative = sign(b).negative /\ sign(a).figures = sign(b).figures
      BY <2>1
    <3> QED BY <3>1
  <2>3. /\ size(a) = g * Rounded(size(a), g)
        /\ size(b) = g * Rounded(size(b), g)
    <3> HIDE DEF size
    <3> QED BY <1>1, <1>2, <1>5, RoundedExactly
  <2>4. size(a) = size(b)
    <3> HIDE DEF size
    <3> QED BY <2>2, <2>3
  <2> QED BY <2>2, <2>4
<1> HIDE DEF sign
<1>6. Decimals(a, g) \in Words
  BY <1>3, <1>4, OneSign
<1> QED BY <1>5, <1>6

\* The fields of a gradient tell it.
LEMMA GradientTold ==
  ASSUME NEW g, GradientOK(g), Clean(g.from), Clean(g.to), g.angle % AngleGrain = 0,
         NEW h, GradientOK(h), Clean(h.from), Clean(h.to), h.angle % AngleGrain = 0,
         NEW x \in Lines, NEW y \in Lines
  PROVE  /\ GradientFields(g, x) \in Lines
         /\ GradientFields(g, x) = GradientFields(h, y) => g = h /\ x = y
<1>1. AngleGrain \in Nat \ {0} /\ g.angle \in Int /\ h.angle \in Int
  BY DrawingAssumption DEF GradientOK
<1>2. /\ Decimals(g.angle, AngleGrain) \in Words
      /\ Decimals(h.angle, AngleGrain) \in Words
  BY <1>1, NumbersTold
<1>3. /\ Hex(g.from) \in Words /\ Hex(g.to) \in Words
      /\ Hex(h.from) \in Words /\ Hex(h.to) \in Words
  BY HexTold
<1> DEFINE g1 == Field(Decimals(g.angle, AngleGrain), x)
           g2 == Field(Hex(g.to), g1)
           h1 == Field(Decimals(h.angle, AngleGrain), y)
           h2 == Field(Hex(h.to), h1)
<1>4. g1 \in Lines /\ h1 \in Lines
  BY <1>2, WordField
<1>5. g2 \in Lines /\ h2 \in Lines
  <2> HIDE DEF g1, h1
  <2> QED BY <1>3, <1>4, WordField
<1>6. GradientFields(g, x) = Field(Hex(g.from), g2) /\ GradientFields(h, y) = Field(Hex(h.from), h2)
  BY DEF GradientFields
<1>7. GradientFields(g, x) \in Lines
  <2> HIDE DEF g2
  <2> QED BY <1>3, <1>5, <1>6, WordField
<1>8. ASSUME GradientFields(g, x) = GradientFields(h, y) PROVE g = h /\ x = y
  <2>1. Hex(g.from) = Hex(h.from) /\ g2 = h2
    <3> HIDE DEF g2, h2
    <3>1. Field(Hex(g.from), g2) = Field(Hex(h.from), h2)
      BY <1>6, <1>8, Zenon
    <3> QED BY <1>3, <1>5, <3>1, FirstField, SMTT(30)
  <2>2. Hex(g.to) = Hex(h.to) /\ g1 = h1
    <3> HIDE DEF g1, h1
    <3> QED BY <1>3, <1>4, <2>1, FirstField DEF g2, h2
  <2>3. Decimals(g.angle, AngleGrain) = Decimals(h.angle, AngleGrain) /\ x = y
    BY <1>2, <2>2, FirstField DEF g1, h1
  <2>4. g.from = h.from /\ g.to = h.to
    BY <2>1, <2>2, HexTold
  <2>5. g.angle = h.angle
    BY <1>1, <2>3, NumbersTold
  <2> QED BY <2>3, <2>4, <2>5 DEF GradientOK
<1> QED BY <1>7, <1>8

PathText(f) == IF f = None THEN <<>> ELSE f

LEMMA LogoTold ==
  ASSUME NEW c, StyleOK(c), c.logoPath # None => Barless(c.logoPath),
         NEW d, StyleOK(d), d.logoPath # None => Barless(d.logoPath),
         NEW x \in Lines, NEW y \in Lines
  PROVE  /\ LogoFields(c, x) \in Lines
         /\ LogoFields(c, x) = LogoFields(d, y) =>
              c.logoPath = d.logoPath /\ c.logoBGShape = d.logoBGShape /\ x = y
<1>1. ASSUME NEW e, StyleOK(e), e.logoPath # None => Barless(e.logoPath)
      PROVE  /\ PathText(e.logoPath) \in Words
             /\ PathText(e.logoPath) = <<>> <=> e.logoPath = None
             /\ e.logoBGShape \in Signs /\ e.logoBGShape # Bar
  <2>1. e.logoPath \in Readable \cup {None} /\ e.logoBGShape \in {"square", "circle"}
    BY <1>1 DEF StyleOK
  <2>2. Readable \subseteq Lines /\ <<>> \notin Readable /\ None \notin Readable
    BY DrawingAssumption, CharLines
  <2>3. e.logoBGShape \in Signs /\ e.logoBGShape # Bar
    BY <2>1, DrawingAssumption DEF Signs
  <2>4. \A f \in Lines : Barless(f) => f \in Words
    BY DEF Words
  <2> QED BY <1>1, <2>1, <2>2, <2>3, <2>4, NoSign DEF PathText
<1> DEFINE c1 == Field(<<c.logoBGShape>>, x)
           d1 == Field(<<d.logoBGShape>>, y)
<1>2. /\ <<c.logoBGShape>> \in Words
      /\ <<d.logoBGShape>> \in Words
  BY <1>1, OneSign
<1>3. c1 \in Lines /\ d1 \in Lines
  BY <1>2, WordField
<1>4. /\ LogoFields(c, x) = Field(PathText(c.logoPath), c1)
      /\ LogoFields(d, y) = Field(PathText(d.logoPath), d1)
  BY DEF LogoFields, PathText
<1>5. LogoFields(c, x) \in Lines
  <2> HIDE DEF c1
  <2> QED BY <1>1, <1>3, <1>4, WordField
<1>6. ASSUME LogoFields(c, x) = LogoFields(d, y)
      PROVE  c.logoPath = d.logoPath /\ c.logoBGShape = d.logoBGShape /\ x = y
  <2>1. PathText(c.logoPath) = PathText(d.logoPath) /\ c1 = d1
    <3> HIDE DEF c1, d1
    <3>1. /\ PathText(c.logoPath) \in Words
          /\ PathText(d.logoPath) \in Words
      BY <1>1
    <3>2. Field(PathText(c.logoPath), c1) = Field(PathText(d.logoPath), d1)
      BY <1>4, <1>6, Zenon
    <3> QED BY <1>3, <3>1, <3>2, FirstField, SMTT(30)
  <2>2. <<c.logoBGShape>> = <<d.logoBGShape>> /\ x = y
    BY <1>2, <2>1, FirstField DEF c1, d1
  <2>3. c.logoPath = d.logoPath
    BY <1>1, <2>1 DEF PathText
  <2> QED BY <2>2, <2>3, OneSignTells
<1> QED BY <1>5, <1>6

LEMMA ModulesTold ==
  ASSUME NEW c, StyleOK(c), c.moduleRadius % RadiusGrain = 0,
         NEW d, StyleOK(d), d.moduleRadius % RadiusGrain = 0,
         NEW x \in Lines, NEW y \in Lines
  PROVE  /\ ModuleFields(c, x) \in Lines
         /\ ModuleFields(c, x) = ModuleFields(d, y) =>
              /\ c.moduleStyle = d.moduleStyle /\ c.moduleRadius = d.moduleRadius
              /\ c.cornerRadius = d.cornerRadius /\ c.quietZone = d.quietZone /\ x = y
<1>1. ASSUME NEW e, StyleOK(e)
      PROVE  /\ <<e.moduleStyle>> \in Words
             /\ <<e.cornerRadius>> \in Words
             /\ <<e.quietZone>> \in Words
             /\ Decimals(e.moduleRadius, RadiusGrain) \in Words
             /\ e.moduleRadius \in Int
  <2>1. /\ e.moduleStyle \in {"square", "rounded", "blob"} /\ e.cornerRadius \in Nat
        /\ e.quietZone \in Int /\ e.moduleRadius \in Int
    BY <1>1 DEF StyleOK
  <2>2. /\ e.moduleStyle \in Signs /\ e.moduleStyle # Bar /\ e.cornerRadius \in Signs
        /\ e.cornerRadius # Bar /\ e.quietZone \in Signs /\ e.quietZone # Bar
    <3>1. \A n \in Int : n \in Signs /\ n # Bar
      BY DrawingAssumption DEF Signs
    <3>2. e.moduleStyle \in Signs /\ e.moduleStyle # Bar
      BY <2>1, DrawingAssumption DEF Signs
    <3> QED BY <2>1, <3>1, <3>2
  <2>3. RadiusGrain \in Nat \ {0}
    BY DrawingAssumption
  <2> QED BY <2>1, <2>2, <2>3, OneSign, NumbersTold
<1>a. /\ <<c.moduleStyle>> \in Words /\ <<d.moduleStyle>> \in Words
      /\ <<c.cornerRadius>> \in Words /\ <<d.cornerRadius>> \in Words
      /\ <<c.quietZone>> \in Words /\ <<d.quietZone>> \in Words
      /\ Decimals(c.moduleRadius, RadiusGrain) \in Words
      /\ Decimals(d.moduleRadius, RadiusGrain) \in Words
  BY <1>1
<1> DEFINE c1 == Field(<<c.quietZone>>, x)
           c2 == Field(<<c.cornerRadius>>, c1)
           c3 == Field(Decimals(c.moduleRadius, RadiusGrain), c2)
           d1 == Field(<<d.quietZone>>, y)
           d2 == Field(<<d.cornerRadius>>, d1)
           d3 == Field(Decimals(d.moduleRadius, RadiusGrain), d2)
<1>2. c1 \in Lines /\ d1 \in Lines
  BY <1>1, WordField
<1>3. c2 \in Lines /\ d2 \in Lines
  <2> HIDE DEF c1, d1
  <2> QED BY <1>1, <1>2, WordField
<1>4. c3 \in Lines /\ d3 \in Lines
  <2> HIDE DEF c2, d2
  <2> QED BY <1>1, <1>3, WordField
<1>5. /\ ModuleFields(c, x) = Field(<<c.moduleStyle>>, c3)
      /\ ModuleFields(d, y) = Field(<<d.moduleStyle>>, d3)
  BY DEF ModuleFields
<1>6. ModuleFields(c, x) \in Lines
  <2> HIDE DEF c3
  <2> QED BY <1>1, <1>4, <1>5, WordField
<1>7. ASSUME ModuleFields(c, x) = ModuleFields(d, y)
      PROVE  /\ c.moduleStyle = d.moduleStyle /\ c.moduleRadius = d.moduleRadius
             /\ c.cornerRadius = d.cornerRadius /\ c.quietZone = d.quietZone /\ x = y
  <2>1. <<c.moduleStyle>> = <<d.moduleStyle>> /\ c3 = d3
    <3> HIDE DEF c3, d3
    <3>1. Field(<<c.moduleStyle>>, c3) = Field(<<d.moduleStyle>>, d3)
      BY <1>5, <1>7, Zenon
    <3> QED BY <1>a, <1>4, <3>1, FirstField, SMTT(30)
  <2>2. /\ Decimals(c.moduleRadius, RadiusGrain) = Decimals(d.moduleRadius, RadiusGrain)
        /\ c2 = d2
    <3> HIDE DEF c2, d2
    <3> QED BY <1>a, <1>3, <2>1, FirstField, SMTT(30) DEF c3, d3
  <2>3. <<c.cornerRadius>> = <<d.cornerRadius>> /\ c1 = d1
    <3> HIDE DEF c1, d1
    <3> QED BY <1>a, <1>2, <2>2, FirstField, SMTT(30) DEF c2, d2
  <2>4. <<c.quietZone>> = <<d.quietZone>> /\ x = y
    BY <1>a, <2>3, FirstField, SMTT(30) DEF c1, d1
  <2>5. c.moduleRadius = d.moduleRadius
    <3>1. RadiusGrain \in Nat \ {0} /\ c.moduleRadius \in Int /\ d.moduleRadius \in Int
      BY <1>1, DrawingAssumption
    <3> QED BY <2>2, <3>1, NumbersTold
  <2> QED BY <2>1, <2>3, <2>4, <2>5, OneSignTells
<1> QED BY <1>6, <1>7

\* The fields of two styles that an image depends on.
SameStyle(c, d) ==
  /\ c.fg = d.fg /\ c.bg = d.bg /\ c.fgGradient = d.fgGradient
  /\ c.bgGradient = d.bgGradient /\ c.logoPath = d.logoPath
  /\ c.logoBGShape = d.logoBGShape /\ c.moduleStyle = d.moduleStyle
  /\ c.moduleRadius = d.moduleRadius /\ c.cornerRadius = d.cornerRadius
  /\ c.quietZone = d.quietZone

\* What PrintsExactly says of a style.
Exact(c) == /\ c.fgGradient.angle % AngleGrain = 0 /\ c.bgGradient.angle % AngleGrain = 0
            /\ c.moduleRadius % RadiusGrain = 0
            /\ Barless(c.name) /\ (c.logoPath # None => Barless(c.logoPath))

LEMMA StyleTold ==
  ASSUME NEW c, StyleOK(c), Exact(c), c.name \in Seq(Char),
         NEW d, StyleOK(d), Exact(d), d.name \in Seq(Char),
         NEW x \in Lines, NEW y \in Lines
  PROVE  /\ CacheKeyOf(c, x) \in Lines
         /\ CacheKeyOf(c, x) = CacheKeyOf(d, y) => SameStyle(c, d) /\ x = y
<1>1. ASSUME NEW e, StyleOK(e)
      PROVE  /\ Clean(e.fg) /\ Clean(e.bg) /\ GradientOK(e.fgGradient) /\ GradientOK(e.bgGradient)
             /\ Clean(e.fgGradient.from) /\ Clean(e.fgGradient.to)
             /\ Clean(e.bgGradient.from) /\ Clean(e.bgGradient.to)
             /\ Hex(e.fg) \in Words /\ Hex(e.bg) \in Words
  <2>1. /\ Clean(e.fg) /\ Clean(e.bg) /\ GradientOK(e.fgGradient) /\ GradientOK(e.bgGradient)
        /\ Clean(e.fgGradient.from) /\ Clean(e.fgGradient.to)
        /\ Clean(e.bgGradient.from) /\ Clean(e.bgGradient.to)
    BY <1>1 DEF StyleOK
  <2> QED BY <2>1, HexTold
<1>2. /\ c.name \in Words /\ d.name \in Words
      /\ "a" \in Signs /\ "a" # Bar
  BY CharLines, DrawingAssumption DEF Exact, Signs, Words
<1>3. <<"a">> \in Words
  BY <1>2, OneSign
<1> DEFINE c1 == ModuleFields(c, x)
           c2 == LogoFields(c, c1)
           c3 == GradientFields(c.bgGradient, c2)
           c4 == GradientFields(c.fgGradient, c3)
           c5 == Field(Hex(c.bg), c4)
           c6 == Field(Hex(c.fg), c5)
           c7 == Field(c.name, c6)
           d1 == ModuleFields(d, y)
           d2 == LogoFields(d, d1)
           d3 == GradientFields(d.bgGradient, d2)
           d4 == GradientFields(d.fgGradient, d3)
           d5 == Field(Hex(d.bg), d4)
           d6 == Field(Hex(d.fg), d5)
           d7 == Field(d.name, d6)
<1>4. c1 \in Lines /\ d1 \in Lines
  BY ModulesTold DEF Exact
<1>5. c2 \in Lines /\ d2 \in Lines
  <2> HIDE DEF c1, d1
  <2> QED BY <1>4, LogoTold DEF Exact
<1>6. c3 \in Lines /\ d3 \in Lines
  <2> HIDE DEF c2, d2
  <2> QED BY <1>1, <1>5, GradientTold DEF Exact
<1>7. c4 \in Lines /\ d4 \in Lines
  <2> HIDE DEF c3, d3
  <2> QED BY <1>1, <1>6, GradientTold DEF Exact
<1>8. c5 \in Lines /\ d5 \in Lines
  <2> HIDE DEF c4, d4
  <2> QED BY <1>1, <1>7, WordField
<1>9. c6 \in Lines /\ d6 \in Lines
  <2> HIDE DEF c5, d5
  <2> QED BY <1>1, <1>8, WordField
<1>10. c7 \in Lines /\ d7 \in Lines
  <2> HIDE DEF c6, d6
  <2> QED BY <1>2, <1>9, WordField
<1>11. CacheKeyOf(c, x) = Field(<<"a">>, c7) /\ CacheKeyOf(d, y) = Field(<<"a">>, d7)
  BY DEF CacheKeyOf
<1>12. CacheKeyOf(c, x) \in Lines
  <2> HIDE DEF c7
  <2> QED BY <1>3, <1>10, <1>11, WordField
<1>13. ASSUME CacheKeyOf(c, x) = CacheKeyOf(d, y) PROVE SameStyle(c, d) /\ x = y
  <2>1. c7 = d7
    <3> HIDE DEF c7, d7
    <3>1. Field(<<"a">>, c7) = Field(<<"a">>, d7)
      BY <1>11, <1>13, Zenon
    <3> QED BY <1>3, <1>10, <3>1, FirstField, SMTT(30)
  <2>2. c6 = d6
    <3> HIDE DEF c6, d6
    <3> QED BY <1>2, <1>9, <2>1, FirstField DEF c7, d7
  <2>3. Hex(c.fg) = Hex(d.fg) /\ c5 = d5
    <3> HIDE DEF c5, d5
    <3> QED BY <1>1, <1>8, <2>2, FirstField DEF c6, d6
  <2>4. Hex(c.bg) = Hex(d.bg) /\ c4 = d4
    <3> HIDE DEF c4, d4
    <3> QED BY <1>1, <1>7, <2>3, FirstField DEF c5, d5
  <2>5. c.fgGradient = d.fgGradient /\ c3 = d3
    <3> HIDE DEF c3, d3
    <3> QED BY <1>1, <1>6, <2>4, GradientTold DEF c4, d4, Exact
  <2>6. c.bgGradient = d.bgGradient /\ c2 = d2
    <3> HIDE DEF c2, d2
    <3> QED BY <1>1, <1>5, <2>5, GradientTold DEF c3, d3, Exact
  <2>7. c.logoPath = d.logoPath /\ c.logoBGShape = d.logoBGShape /\ c1 = d1
    <3> HIDE DEF c1, d1
    <3> QED BY <1>4, <2>6, LogoTold DEF c2, d2, Exact
  <2>8. /\ c.moduleStyle = d.moduleStyle /\ c.moduleRadius = d.moduleRadius
        /\ c.cornerRadius = d.cornerRadius /\ c.quietZone = d.quietZone /\ x = y
    BY <2>7, ModulesTold DEF c1, d1, Exact
  <2>9. c.fg = d.fg /\ c.bg = d.bg
    BY <1>1, <2>3, <2>4, HexTold
  <2> QED BY <2>5, <2>6, <2>7, <2>8, <2>9 DEF SameStyle
<1> QED BY <1>12, <1>13

\* The payment is the same, the size and the error correction of the symbol are told.
LEMMA PaymentTold ==
  ASSUME DrawingInv, NEW k \in DOMAIN shown, NEW l \in DOMAIN shown
  PROVE  /\ PaymentFields(k) \in Lines
         /\ PaymentFields(k) = PaymentFields(l) => Size(k) = Size(l) /\ Ecc(k) = Ecc(l)
<1>1. ASSUME NEW j \in DOMAIN shown
      PROVE  /\ <<Size(j)>> \in Words
             /\ <<Ecc(j)>> \in Words
  <2>1. Size(j) \in Int
    <3>1. CASE j = Public
      BY <3>1, DrawingAssumption, KeysAssumption DEF Size
    <3>2. CASE j # Public
      <4>1. StyleOK(store[j])
        BY <3>2, StoredStyle DEF DrawingInv
      <4>2. store[j].qrSize \in Int
        BY <4>1, KeysAssumption DEF StyleOK
      <4>3. QRSize \in Int
        BY DrawingAssumption, KeysAssumption
      <4> QED BY <4>2, <4>3 DEF Size
    <3> QED BY <3>1, <3>2
  <2>2. Ecc(j) \in {"M", "H"}
    BY DEF Ecc
  <2>3. Size(j) \in Signs /\ Size(j) # Bar /\ Ecc(j) \in Signs /\ Ecc(j) # Bar
    BY <2>1, <2>2, DrawingAssumption DEF Signs
  <2> QED BY <2>3, OneSign
<1>2. PaymentText \in Lines /\ <<RatioPercent>> \in Lines
  <2>1. RatioPercent \in Int
    BY DrawingAssumption
  <2>2. RatioPercent \in Signs
    BY <2>1 DEF Signs
  <2> QED BY <2>2, OneSign, CharLines, DrawingAssumption
<1> DEFINE rk == Field(<<Ecc(k)>>, <<RatioPercent>>)
           rl == Field(<<Ecc(l)>>, <<RatioPercent>>)
           sk == Field(<<Size(k)>>, rk)
           sl == Field(<<Size(l)>>, rl)
<1>3. rk \in Lines /\ rl \in Lines
  BY <1>1, <1>2, WordField
<1>4. sk \in Lines /\ sl \in Lines
  <2> HIDE DEF rk, rl
  <2> QED BY <1>1, <1>3, WordField
<1>5. PaymentFields(k) = Field(PaymentText, sk) /\ PaymentFields(l) = Field(PaymentText, sl)
  BY DEF PaymentFields
<1>6. PaymentFields(k) \in Lines
  <2> HIDE DEF sk, sl
  <2> QED BY <1>2, <1>4, <1>5, FieldParts
<1>7. ASSUME PaymentFields(k) = PaymentFields(l) PROVE Size(k) = Size(l) /\ Ecc(k) = Ecc(l)
  <2>1. sk = sl
    <3> HIDE DEF sk, sl
    <3> QED BY <1>2, <1>4, <1>5, <1>7, SameLength
  <2>2. <<Size(k)>> = <<Size(l)>> /\ rk = rl
    <3>1. Field(<<Size(k)>>, rk) = Field(<<Size(l)>>, rl)
      BY <2>1
    <3>2. <<Size(k)>> \in Words /\ <<Size(l)>> \in Words
      BY <1>1
    <3> HIDE DEF rk, rl
    <3> QED BY <1>3, <3>1, <3>2, FirstField
  <2>3. <<Ecc(k)>> = <<Ecc(l)>>
    BY <1>1, <1>2, <2>2, FirstField DEF rk, rl
  <2> QED BY <2>2, <2>3, OneSignTells
<1> QED BY <1>6, <1>7

LEMMA KeyTellsFields ==
  ASSUME DrawingInv, NEW k \in DOMAIN shown, NEW l \in DOMAIN shown,
         CacheKey(k) = CacheKey(l), PrintsExactly(k), PrintsExactly(l)
  PROVE  /\ Size(k) = Size(l) /\ Ecc(k) = Ecc(l)
         /\ k = Public <=> l = Public
         /\ k # Public => SameStyle(store[k], store[l])
<1>1. PaymentFields(k) \in Lines /\ PaymentFields(l) \in Lines
  BY PaymentTold
<1>2. ASSUME NEW j \in DOMAIN shown, j # Public, PrintsExactly(j)
      PROVE  StyleOK(store[j]) /\ Exact(store[j]) /\ store[j].name \in Seq(Char)
  BY <1>2, StoredStyle DEF PrintsExactly, Exact, DrawingInv
<1>3. CASE k = Public /\ l = Public
  <2>1. "p" \in Signs
    BY DEF Signs
  <2>2. <<"p">> \in Lines
    BY <2>1, OneSign
  <2>3. Field(<<"p">>, PaymentFields(k)) = Field(<<"p">>, PaymentFields(l))
    BY <1>3
  <2> QED BY <1>1, <1>3, <2>2, <2>3, SameLength, PaymentTold
<1>4. CASE k # Public /\ l # Public
  <2>1. CacheKeyOf(store[k], PaymentFields(k)) = CacheKeyOf(store[l], PaymentFields(l))
    BY <1>4 DEF CacheKey
  <2>2. SameStyle(store[k], store[l]) /\ PaymentFields(k) = PaymentFields(l)
    BY <1>1, <1>2, <1>4, <2>1, StyleTold
  <2> QED BY <1>4, <2>2, PaymentTold
<1>5. ASSUME NEW i \in {k, l}, i = Public, NEW j \in {k, l}, j # Public PROVE FALSE
  <2> DEFINE c == store[j]
             rest == Field(c.name, Field(Hex(c.fg), Field(Hex(c.bg),
                       GradientFields(c.fgGradient, GradientFields(c.bgGradient,
                         LogoFields(c, ModuleFields(c, PaymentFields(j))))))))
  <2>1. Field(<<"p">>, PaymentFields(i)) = Field(<<"a">>, rest)
    <3>1. CacheKey(i) = Field(<<"p">>, PaymentFields(i))
      BY <1>5 DEF CacheKey
    <3>2. CacheKey(j) = Field(<<"a">>, rest)
      BY <1>5 DEF CacheKey, CacheKeyOf
    <3>3. CacheKey(i) = CacheKey(j)
      OBVIOUS
    <3> QED BY <3>1, <3>2, <3>3
  <2> HIDE DEF rest
  <2>2. Field(<<"p">>, PaymentFields(i))[1] = "p" /\ Field(<<"a">>, rest)[1] = "a"
    <3>1. \A x, u, v : ((<<x>> \o <<u>>) \o v)[1] = x
      OBVIOUS
    <3> QED BY <3>1 DEF Field
  <2> QED BY <2>1, <2>2
<1> QED BY <1>3, <1>4, <1>5

LEMMA SamePortrait ==
  ASSUME DrawingInv, NEW k \in DOMAIN shown, NEW l \in DOMAIN shown,
         CacheKey(k) = CacheKey(l), PrintsExactly(k), PrintsExactly(l)
  PROVE  Portrait(k) = Portrait(l)
<1>1. /\ Size(k) = Size(l) /\ Ecc(k) = Ecc(l)
      /\ k = Public <=> l = Public
      /\ k # Public => SameStyle(store[k], store[l])
  BY KeyTellsFields
<1>2. CASE k = Public
  BY <1>1, <1>2
<1>3. CASE k # Public
  <2> DEFINE c == store[k]
             d == store[l]
  <2>1. /\ c.fg = d.fg /\ c.bg = d.bg /\ c.fgGradient = d.fgGradient
        /\ c.bgGradient = d.bgGradient /\ c.logoPath = d.logoPath
        /\ c.logoBGShape = d.logoBGShape /\ c.moduleStyle = d.moduleStyle
        /\ c.moduleRadius = d.moduleRadius /\ c.cornerRadius = d.cornerRadius
        /\ c.quietZone = d.quietZone
    BY <1>1, <1>3 DEF SameStyle
  <2>2. Styled(k) <=> Styled(l)
    BY <1>1, <1>3, <2>1 DEF Styled
  <2>3. Drawn(k) = Drawn(l)
    <3>1. MakeQRStyled(Size(k), Ecc(k), c) = MakeQRStyled(Size(l), Ecc(l), d)
      <4> HIDE DEF c, d
      <4> QED BY <1>1, <2>1, SameSymbol
    <3> QED BY <1>1, <2>2, <3>1 DEF Drawn
  <2>4. /\ Coloured(c) <=> Coloured(d)
        /\ ColoursParse(c) <=> ColoursParse(d)
        /\ Foreground(c) = Foreground(d) /\ Background(c) = Background(d)
    BY <2>1 DEF Coloured, ColoursParse, Foreground, Background
  <2>5. Painted(k) = Painted(l)
    BY <1>1, <1>3, <2>3, <2>4 DEF Painted
  <2> QED BY <1>1, <1>3, <2>1, <2>5 DEF Portrait
<1> QED BY <1>2, <1>3

\* Keys with one cache key get one image, whatever else differs in their entries, if no
\* angle or radius of theirs is rounded in it and no name or path holds a bar.
THEOREM OneImageForExactKeys == Spec => []ExactKeysShareRightly
<1>1. DrawingInv => ExactKeysShareRightly
  BY FinishedPortrait, SamePortrait DEF ExactKeysShareRightly, Finished
<1> QED BY <1>1, DrawingInvariance, PTL

-----------------------------------------------------------------------------
(* Colours.                                                                 *)

LEMMA FinishedKey ==
  ASSUME DrawingInv, NEW k \in Finished
  PROVE  /\ shown[k] = Portrait(k)
         /\ k # Public => k \in DOMAIN store /\ StyleOK(store[k])
BY FinishedPortrait, StoredStyle DEF Finished, DrawingInv

\* A colour that shows.
Visible(colour) == colour \notin {None, "clear"}

LEMMA CleanShows ==
  ASSUME NEW t, Clean(t)
  PROVE  Visible(ParseHexColor(t))
BY EmptyIsBlack, DrawingAssumption, KeysAssumption DEF Clean, Visible

LEMMA GradientShows ==
  ASSUME NEW g, Clean(g.from), Clean(g.to)
  PROVE  Visible(GradientPaint(g)[1]) /\ Visible(GradientPaint(g)[2])
<1>1. GradientPaint(g) = <<ParseHexColor(g.from), ParseHexColor(g.to), g.angle>>
  BY CleanShows DEF GradientPaint, Visible
<1> QED BY <1>1, CleanShows

\* Every style in memory can be recoloured, in colours that show.
LEMMA StylePaints ==
  ASSUME NEW c, StyleOK(c)
  PROVE  /\ ColoursParse(c)
         /\ Visible(Foreground(c)[1]) /\ Visible(Foreground(c)[2])
         /\ Visible(Background(c)[1]) /\ Visible(Background(c)[2])
<1>1. /\ Clean(c.fg) /\ Clean(c.fgGradient.from) /\ Clean(c.fgGradient.to)
      /\ Clean(c.bg) /\ Clean(c.bgGradient.from) /\ Clean(c.bgGradient.to)
  BY DEF StyleOK
<1>2. Visible(ParseHexColor(c.fg)) /\ Visible(ParseHexColor(c.bg))
  BY <1>1, CleanShows
<1>3. Visible("white")
  BY DrawingAssumption DEF Visible
<1>4. \A colour : Solid(colour)[1] = colour /\ Solid(colour)[2] = colour
  BY DEF Solid
<1>5. /\ Visible(GradientPaint(c.fgGradient)[1]) /\ Visible(GradientPaint(c.fgGradient)[2])
      /\ Visible(GradientPaint(c.bgGradient)[1]) /\ Visible(GradientPaint(c.bgGradient)[2])
  BY <1>1, GradientShows
<1>6. ColoursParse(c)
  BY <1>2 DEF ColoursParse, Visible
<1>7. Visible(Foreground(c)[1]) /\ Visible(Foreground(c)[2])
  BY <1>2, <1>4, <1>5 DEF Foreground
<1>8. Visible(Background(c)[1]) /\ Visible(Background(c)[2])
  <2>1. CASE HasGradient(c.bgGradient)
    BY <1>5, <2>1 DEF Background
  <2>2. CASE ~HasGradient(c.bgGradient)
    <3> DEFINE colour == IF c.bg = Empty THEN "white" ELSE ParseHexColor(c.bg)
    <3>1. Background(c) = Solid(colour) /\ Visible(colour)
      BY <1>2, <1>3, <2>2 DEF Background
    <3> HIDE DEF colour
    <3> QED BY <1>4, <3>1
  <2> QED BY <2>1, <2>2
<1> QED BY <1>6, <1>7, <1>8

\* Every picture has the pixels of its size.
LEMMA PicturePixels ==
  ASSUME NEW k
  PROVE  /\ DOMAIN Drawn(k) = Pixels(Size(k)) /\ DOMAIN Painted(k) = Pixels(Size(k))
         /\ DOMAIN Portrait(k) = Pixels(Size(k))
<1>1. DOMAIN Drawn(k) = Pixels(Size(k))
  BY DEF Drawn, MakeQRStyled, MakeQR, MakeBackgroundTransparent
<1>2. DOMAIN Painted(k) = Pixels(Size(k))
  BY <1>1 DEF Painted, RecolorGradient
<1> QED BY <1>1, <1>2 DEF Portrait, OverlayLogoImage

\* What the logo does not cover is as it was painted.
LEMMA BesideTheLogo ==
  ASSUME NEW k, NEW p \in Pixels(Size(k)), ~Covered(k, p)
  PROVE  Portrait(k)[p] = Painted(k)[p]
<1>1. CASE k = Public \/ store[k].logoPath = None
  BY <1>1 DEF Portrait
<1>2. CASE k # Public /\ store[k].logoPath # None
  <2>1. Portrait(k) = OverlayLogoImage(Painted(k), Size(k), store[k].logoPath,
                                       store[k].logoBGShape)
    BY <1>2 DEF Portrait
  <2>2. /\ ~In(p, LogoBox(Size(k), store[k].logoPath))
        /\ ~OnPlate(p, Size(k), store[k].logoPath, store[k].logoBGShape)
    BY <1>2 DEF Covered
  <2>3. p \in DOMAIN Painted(k)
    BY PicturePixels
  <2> QED BY <2>1, <2>2, <2>3 DEF OverlayLogoImage
<1> QED BY <1>1, <1>2

\* An image that asks for colours shows no others, for any keys file.
THEOREM PaletteAlwaysShows == Spec => []PaletteShows
<1>1. ASSUME DrawingInv PROVE PaletteShows
  <2> SUFFICES ASSUME NEW k \in Finished \ {Public}, Coloured(store[k]),
                      NEW p \in DOMAIN shown[k], ~Covered(k, p)
               PROVE  /\ shown[k][p] \in {Foreground(store[k]), Background(store[k])}
                      /\ Visible(shown[k][p][1]) /\ Visible(shown[k][p][2])
    BY DEF PaletteShows, Visible
  <2>1. shown[k] = Portrait(k) /\ StyleOK(store[k])
    BY <1>1, FinishedKey
  <2>2. p \in Pixels(Size(k))
    BY <2>1, PicturePixels
  <2>3. shown[k][p] = Painted(k)[p]
    BY <2>1, <2>2, BesideTheLogo
  <2>4. Painted(k) = RecolorGradient(Drawn(k), Foreground(store[k]), Background(store[k]))
    BY <2>1, StylePaints DEF Painted
  <2>5. p \in DOMAIN Drawn(k)
    BY <2>2, PicturePixels
  <2>6. Painted(k)[p] \in {Foreground(store[k]), Background(store[k])}
    BY <2>4, <2>5 DEF RecolorGradient
  <2> QED BY <2>1, <2>3, <2>6, StylePaints
<1> QED BY <1>1, DrawingInvariance, PTL

-----------------------------------------------------------------------------
(* The logo.                                                                *)

LEMMA SizeBounds ==
  ASSUME DrawingInv, NEW k \in DOMAIN store \cup {Public}
  PROVE  Size(k) \in Nat /\ Size(k) >= MinSize /\ MinSize \in Nat \ {0}
<1>1. k # Public => store[k].qrSize \in {0} \cup MinSize..MaxSize
  BY StoredStyle DEF StyleOK
<1> QED BY <1>1, DrawingAssumption, KeysAssumption DEF Size

\* The logo and its margins fit the image.
LEMMA TargetFits ==
  ASSUME NEW size \in Nat, size >= MinSize
  PROVE  /\ Target(size) \in Nat \ {0} /\ Pad(size) \in Nat
         /\ Target(size) + 2 * Pad(size) <= size
<1>1. /\ RatioPercent \in 1..49 /\ MinLogo \in Nat \ {0} /\ MinPad \in Nat /\ MinSize \in Nat
      /\ MinSize >= 8 /\ 2 * MinLogo <= MinSize /\ 8 * MinPad <= MinSize
  BY DrawingAssumption, KeysAssumption
<1>2. 100 * Rounded(size * RatioPercent, 100) <= 49 * size + 50
      /\ Rounded(size * RatioPercent, 100) \in Nat
  <2> DEFINE n == size * RatioPercent
  <2>1. n <= size * 49 /\ n \in Nat
    BY <1>1, MulMono
  <2> HIDE DEF n
  <2> QED BY <2>1 DEF Rounded, n
<1>3. 100 * Rounded(size * 2, 100) <= 2 * size + 50 /\ Rounded(size * 2, 100) \in Nat
  BY DEF Rounded
<1> QED BY <1>1, <1>2, <1>3 DEF Target, Pad, AtLeast

LEMMA LogoBoxFits ==
  ASSUME NEW size \in Nat, size >= MinSize, NEW f \in Readable
  PROVE  LET b == LogoBox(size, f)
         IN  /\ b.w \in 0..Target(size) /\ b.h \in 0..Target(size)
             /\ b.x = (size - b.w) \div 2 /\ b.y = (size - b.h) \div 2
<1> DEFINE s == LogoSides[f]
           longer == IF s.w > s.h THEN s.w ELSE s.h
<1>1. s.w \in Nat \ {0} /\ s.h \in Nat \ {0} /\ Target(size) \in Nat
  BY DrawingAssumption, TargetFits
<1>2. longer \in Nat \ {0} /\ s.w <= longer /\ s.h <= longer
  BY <1>1
<1>3. /\ Rounded(s.w * Target(size), longer) \in 0..Target(size)
      /\ Rounded(s.h * Target(size), longer) \in 0..Target(size)
  <2> HIDE DEF longer, s
  <2> QED BY <1>1, <1>2, RoundedPart
<1> QED BY <1>3 DEF LogoBox

\* A logo is whole, in the middle, with its margin all around, for any logo and size.
THEOREM LogoAlwaysCentred == Spec => []LogoCentred
<1>1. ASSUME DrawingInv PROVE LogoCentred
  <2> SUFFICES ASSUME NEW k \in Finished \ {Public}, store[k].logoPath # None
               PROVE  LET size == Size(k)
                          b == LogoBox(size, store[k].logoPath)
                          plate == Plate(size, store[k].logoPath)
                      IN /\ plate.x >= 0 /\ plate.y >= 0
                         /\ plate.x + plate.w <= size /\ plate.y + plate.h <= size
                         /\ b.x - plate.x = (plate.x + plate.w) - (b.x + b.w)
                         /\ (size - (b.x + b.w)) - b.x \in {0, 1}
                         /\ (size - (b.y + b.h)) - b.y \in {0, 1}
    BY DEF LogoCentred
  <2> DEFINE size == Size(k)
             f == store[k].logoPath
             b == LogoBox(size, f)
             w == b.w
             h == b.h
             t == Target(size)
             pad == Pad(size)
  <2>1. k \in DOMAIN store /\ f \in Readable
    BY <1>1, FinishedKey DEF StyleOK
  <2>2. size \in Nat /\ size >= MinSize
    BY <1>1, <2>1, SizeBounds
  <2>3. t \in Nat /\ pad \in Nat /\ t + 2 * pad <= size
    BY <2>2, TargetFits
  <2>4. w \in 0..t /\ h \in 0..t /\ b.x = (size - w) \div 2 /\ b.y = (size - h) \div 2
    BY <2>1, <2>2, LogoBoxFits
  <2>5. /\ Plate(size, f).x = b.x - pad /\ Plate(size, f).w = w + 2 * pad
        /\ Plate(size, f).y = b.y - pad /\ Plate(size, f).h = h + 2 * pad
    BY DEF Plate
  <2> HIDE DEF size, f, b, w, h, t, pad
  <2>6. /\ (size - w) \div 2 \in Int /\ (size - h) \div 2 \in Int
        /\ (size - w) - 2 * ((size - w) \div 2) \in {0, 1}
        /\ (size - h) - 2 * ((size - h) \div 2) \in {0, 1}
    BY <2>2, <2>3, <2>4
  <2>7. /\ b.x - pad >= 0 /\ b.y - pad >= 0
        /\ b.x + w + pad <= size /\ b.y + h + pad <= size
        /\ (size - (b.x + w)) - b.x \in {0, 1} /\ (size - (b.y + h)) - b.y \in {0, 1}
    BY <2>2, <2>3, <2>4, <2>6
  <2>8. b.x \in Int /\ b.y \in Int
    BY <2>4, <2>6
  <2>9. /\ b.x - (b.x - pad) = pad /\ ((b.x - pad) + (w + 2 * pad)) - (b.x + w) = pad
        /\ (b.x - pad) + (w + 2 * pad) = b.x + w + pad
        /\ (b.y - pad) + (h + 2 * pad) = b.y + h + pad
    BY <2>3, <2>4, <2>8
  <2> QED BY <2>5, <2>7, <2>9 DEF size, f, b, w, h, t, pad
<1> QED BY <1>1, DrawingInvariance, PTL

-----------------------------------------------------------------------------
(* Modules.  An image of size pixels shows n modules on a side, of two       *)
(* pixels at least.                                                         *)

Middle(j, size, n) == ((2 * j + 1) * size) \div (2 * n)

Begin(j, size, n) == Rounded(j * size, n)

LEMMA MiddleBounds ==
  ASSUME NEW n \in Nat \ {0}, NEW size \in Nat, NEW j \in Int
  PROVE  LET c == Middle(j, size, n)
         IN  /\ c \in Int /\ j * size \in Int
             /\ (2 * n) * c <= 2 * (j * size) + size
             /\ 2 * (j * size) + size < (2 * n) * c + 2 * n
<1>1. (2 * j + 1) * size = 2 * (j * size) + size /\ j * size \in Int
  OBVIOUS
<1> DEFINE a == (2 * j + 1) * size
<1>2. a \in Int /\ 2 * n \in Nat \ {0}
  OBVIOUS
<1>3. /\ a \div (2 * n) \in Int /\ (2 * n) * (a \div (2 * n)) <= a
      /\ a < (2 * n) * (a \div (2 * n)) + 2 * n
  <2> HIDE DEF a
  <2> QED BY <1>2, DivBounds
<1> QED BY <1>1, <1>3 DEF Middle

LEMMA BeginBounds ==
  ASSUME NEW n \in Nat \ {0}, NEW size \in Nat, NEW j \in Int
  PROVE  LET e == Begin(j, size, n)
         IN  /\ e \in Int /\ j * size \in Int
             /\ (2 * n) * e <= 2 * (j * size) + n
             /\ 2 * (j * size) + n < (2 * n) * e + 2 * n
<1> DEFINE a == 2 * (j * size) + n
<1>1. a \in Int /\ 2 * n \in Nat \ {0} /\ j * size \in Int
  OBVIOUS
<1>2. /\ a \div (2 * n) \in Int /\ (2 * n) * (a \div (2 * n)) <= a
      /\ a < (2 * n) * (a \div (2 * n)) + 2 * n
  <2> HIDE DEF a
  <2> QED BY <1>1, DivBounds
<1> QED BY <1>1, <1>2 DEF Begin, Rounded

\* The middle of a module is a pixel of the image.
LEMMA MiddleInside ==
  ASSUME NEW n \in Nat \ {0}, NEW size \in Nat \ {0}, NEW j \in 0..(n - 1)
  PROVE  Middle(j, size, n) \in 0..(size - 1)
<1> DEFINE a == j * size
           c == Middle(j, size, n)
<1>1. /\ a \in Int /\ c \in Int /\ (2 * n) * c <= 2 * a + size
      /\ 2 * a + size < (2 * n) * c + 2 * n
  BY MiddleBounds
<1>2. 0 <= a /\ a + size <= n * size
  <2>1. size * (j + 1) <= size * n /\ size * (j + 1) = j * size + size /\ 0 <= j * size
    BY MulMono
  <2> QED BY <2>1
<1> HIDE DEF a, c
<1>3. ASSUME c <= -1 PROVE FALSE
  <2>1. (2 * n) * c <= (2 * n) * (-1)
    BY <1>1, <1>3, MulMono
  <2> QED BY <1>1, <1>2, <2>1
<1>4. ASSUME size <= c PROVE FALSE
  <2>1. (2 * n) * size <= (2 * n) * c /\ (2 * n) * size = 2 * (n * size)
    BY <1>1, <1>4, MulMono
  <2> DEFINE b == n * size
  <2>2. b \in Int /\ a + size <= b /\ 2 * b <= (2 * n) * c
    BY <1>2, <2>1
  <2> HIDE DEF b
  <2> QED BY <1>1, <2>2
<1> QED BY <1>1, <1>3, <1>4 DEF c

\* go-qrcode scales a pixel in the middle of a module back to that module.
LEMMA MiddleScaledBack ==
  ASSUME NEW n \in Nat \ {0}, NEW size \in Nat \ {0}, NEW j \in 0..(n - 1), 2 * n <= size
  PROVE  (Middle(j, size, n) * n) \div size = j
<1> DEFINE a == j * size
           c == Middle(j, size, n)
           b == c * n
<1>1. c \in Int /\ a \in Int /\ b \in Int
  <2>1. c \in Int /\ a \in Int
    BY MiddleBounds
  <2> HIDE DEF a, c
  <2> QED BY <2>1
<1>2. 2 * b <= 2 * a + size /\ 2 * a + size < 2 * b + 2 * n
  <2>1. (2 * n) * c <= 2 * a + size /\ 2 * a + size < (2 * n) * c + 2 * n
    BY MiddleBounds
  <2>2. (2 * n) * c = 2 * b
    <3> HIDE DEF c
    <3> QED BY <1>1
  <2> QED BY <2>1, <2>2
<1>3. a <= b /\ b < a + size
  <2> HIDE DEF a, b, c
  <2> QED BY <1>1, <1>2
<1>4. size * j <= b /\ b < size * j + size
  BY <1>3
<1>5. j <= b \div size /\ b \div size <= j /\ b \div size \in Int
  <2> HIDE DEF b, c
  <2> QED BY <1>1, <1>4, DivAtLeast, DivAtMost, DivBounds
<1> QED BY <1>5

\* Modules begin in order.
LEMMA BeginMono ==
  ASSUME NEW n \in Nat \ {0}, NEW size \in Nat, NEW i \in Int, NEW j \in Int, i <= j
  PROVE  Begin(i, size, n) <= Begin(j, size, n)
<1>1. i * size <= j * size
  BY MulMono
<1>2. 2 * (i * size) + n <= 2 * (j * size) + n /\ 2 * (i * size) + n \in Int
      /\ 2 * (j * size) + n \in Int
  BY <1>1
<1> QED BY <1>2, DivMono DEF Begin, Rounded

\* A module has at least two pixels, and its middle lies half way, rounded down.
LEMMA MiddleOfModule ==
  ASSUME NEW n \in Nat \ {0}, NEW size \in Nat, NEW j \in Int, 2 * n <= size
  PROVE  LET w == Begin(j + 1, size, n) - Begin(j, size, n)
             d == Middle(j, size, n) - Begin(j, size, n)
         IN  w \in Int /\ w >= 2 /\ d \in Int /\ w - 2 <= 2 * d /\ 2 * d <= w
<1> DEFINE a == j * size
           c == Middle(j, size, n)
           e == Begin(j, size, n)
           f == Begin(j + 1, size, n)
<1>1. a \in Int /\ c \in Int /\ e \in Int /\ f \in Int
  <2>1. j + 1 \in Int
    OBVIOUS
  <2> QED BY <2>1, MiddleBounds, BeginBounds
<1>2. (2 * n) * c <= 2 * a + size /\ 2 * a + size < (2 * n) * c + 2 * n
  BY MiddleBounds
<1>3. (2 * n) * e <= 2 * a + n /\ 2 * a + n < (2 * n) * e + 2 * n
  BY BeginBounds
<1>4. /\ (2 * n) * f <= 2 * a + 2 * size + n
      /\ 2 * a + 2 * size + n < (2 * n) * f + 2 * n
  <2>1. (j + 1) * size = a + size
    OBVIOUS
  <2>2. /\ (2 * n) * f <= 2 * ((j + 1) * size) + n
        /\ 2 * ((j + 1) * size) + n < (2 * n) * f + 2 * n
    BY BeginBounds
  <2> QED BY <1>1, <2>1, <2>2
<1> DEFINE C == (2 * n) * c
           E == (2 * n) * e
           F == (2 * n) * f
<1>5. C \in Int /\ E \in Int /\ F \in Int
  BY <1>1
<1> HIDE DEF a, c, e, f
<1>6. F - E > 2 * n /\ 2 * C - E - F < 2 * n /\ 2 * C - E - F > -(6 * n)
  <2> HIDE DEF C, E, F
  <2> QED BY <1>1, <1>5, <1>2, <1>3, <1>4 DEF C, E, F
<1>7. F - E = (2 * n) * (f - e) /\ 2 * C - E - F = (2 * n) * (2 * c - e - f)
  BY <1>1
<1>8. ASSUME f - e <= 1 PROVE FALSE
  <2>1. (2 * n) * (f - e) <= (2 * n) * 1
    BY <1>1, <1>8, MulMono
  <2> QED BY <1>1, <1>6, <1>7, <2>1
<1>9. ASSUME 2 * c - e - f >= 1 PROVE FALSE
  <2>1. (2 * n) * 1 <= (2 * n) * (2 * c - e - f)
    BY <1>1, <1>9, MulMono
  <2> QED BY <1>1, <1>6, <1>7, <2>1
<1>10. ASSUME 2 * c - e - f <= -3 PROVE FALSE
  <2>1. (2 * n) * (2 * c - e - f) <= (2 * n) * (-3)
    BY <1>1, <1>10, MulMono
  <2> QED BY <1>1, <1>6, <1>7, <2>1
<1> QED BY <1>1, <1>8, <1>9, <1>10 DEF c, e, f

LEMMA ModuleRadius ==
  ASSUME NEW c, StyleOK(c)
  PROVE  Radius(c) \in Nat /\ 2 * Radius(c) <= RadiusUnit
<1> DEFINE u == RadiusUnit
<1>1. u \in Nat \ {0} /\ c.moduleRadius \in 0..(u \div 2)
  BY KeysAssumption DEF StyleOK
<1>2. Radius(c) \in {0, c.moduleRadius, u \div 2, u \div 4}
  BY DEF Radius
<1> HIDE DEF u
<1>3. /\ u \div 2 \in Nat /\ 2 * (u \div 2) <= u
      /\ u \div 4 \in Nat /\ 2 * (u \div 4) <= u
  BY <1>1
<1> QED BY <1>1, <1>2, <1>3 DEF u

\* Corners of half a module at most leave the pixel in its middle, unless the module has
\* but two pixels by two.
LEMMA MiddleStays ==
  ASSUME NEW w \in Nat, NEW h \in Nat, w >= 2, h >= 2, NEW d \in Int, NEW e \in Int,
         w - 2 <= 2 * d, 2 * d <= w, h - 2 <= 2 * e, 2 * e <= h,
         NEW radius \in Nat, 2 * radius <= RadiusUnit, w > 2 \/ h > 2 \/ radius = 0
  PROVE  InRoundedRect(d, e, w, h, radius)
<1> DEFINE u == RadiusUnit
           least == IF w < h THEN w ELSE h
           a == least * radius
           r == Rounded(a, u)
           x == Nearest(d, w)
           y == Nearest(e, h)
<1>1. u \in Nat \ {0} /\ 2 * radius <= u
  BY KeysAssumption
<1>2. least \in Nat /\ least <= w /\ least <= h
  OBVIOUS
<1>3. x \in Int /\ y \in Int /\ 2 * x >= w - 2 /\ 2 * y >= h - 2
  BY DEF Nearest
<1>4. a \in Nat /\ 2 * a <= least * u /\ (radius = 0 => a = 0)
  <2> HIDE DEF least, u
  <2>1. least * (2 * radius) <= least * u /\ least * radius \in Nat
    BY <1>1, <1>2, MulMono
  <2>2. least * (2 * radius) = 2 * (least * radius)
    BY <1>2
  <2> QED BY <1>2, <2>1, <2>2
<1> HIDE DEF u, least, x, y
<1>5. r \in Int /\ (2 * u) * r <= 2 * a + u
  <2>1. 2 * a + u \in Int /\ 2 * u \in Nat \ {0}
    BY <1>1, <1>4
  <2> HIDE DEF a
  <2> QED BY <2>1, DivBounds DEF Rounded
<1>6. radius = 0 => r = 0
  <2> HIDE DEF a
  <2>1. radius = 0 => r = u \div (2 * u)
    BY <1>1, <1>4 DEF Rounded
  <2>2. u \in Int /\ 2 * u \in Nat \ {0} /\ (2 * u) * 0 <= u /\ u < (2 * u) * 0 + 2 * u
    BY <1>1
  <2>3. u \div (2 * u) = 0
    BY <2>2, DivAtLeast, DivAtMost, DivBounds
  <2> QED BY <2>1, <2>3
<1> HIDE DEF a, r
<1>7. 2 * r <= least + 1
  <2>1. ASSUME least + 2 <= 2 * r PROVE FALSE
    <3>1. u * (least + 2) <= u * (2 * r)
      BY <1>1, <1>2, <1>5, <2>1, MulMono
    <3>2. u * (least + 2) = least * u + 2 * u /\ u * (2 * r) = (2 * u) * r
      BY <1>1, <1>2, <1>5
    <3> DEFINE b == least * u
               q == (2 * u) * r
    <3>3. b \in Int /\ q \in Int /\ b + 2 * u <= q /\ q <= 2 * a + u /\ 2 * a <= b
      BY <1>1, <1>2, <1>4, <1>5, <3>1, <3>2
    <3> HIDE DEF b, q
    <3> QED BY <1>1, <1>4, <3>3
  <2> QED BY <1>2, <1>5, <2>1
<1>8. r - x <= 1 /\ r - y <= 1
  BY <1>2, <1>3, <1>5, <1>7
<1>9. ASSUME r > 0, r - x > 0, r - y > 0
      PROVE  (r - x) * (r - x) + (r - y) * (r - y) <= r * r
  <2>1. r - x = 1 /\ r - y = 1
    BY <1>3, <1>5, <1>8, <1>9
  <2>2. r >= 2
    <3>1. r = 1 => x = 0 /\ y = 0
      BY <1>3, <1>5, <2>1
    <3>2. r = 1 => w = 2 /\ h = 2
      BY <1>3, <3>1
    <3> QED BY <1>5, <1>6, <1>9, <3>2
  <2>3. r * r >= 2
    <3>1. r * 2 <= r * r
      BY <1>5, <2>2, MulMono
    <3> QED BY <1>5, <2>2, <3>1
  <2> QED BY <2>1, <2>3
<1>10. r <= 0 \/ r - x <= 0 \/ r - y <= 0 \/ (r - x) * (r - x) + (r - y) * (r - y) <= r * r
  BY <1>3, <1>5, <1>9
<1> QED BY <1>10 DEF InRoundedRect, r, a, u, least, x, y

\* A styled symbol: the middle of a module belongs to it, and to no other.
LEMMA StyledModules ==
  ASSUME NEW size \in Nat, NEW ecc, NEW c, Quiet(c) \in Nat, Total(ecc, c) \in Nat \ {0},
         2 * Total(ecc, c) <= size, StyleOK(c),
         NEW i \in Int, NEW j \in Int, NEW k \in Int, NEW l \in Int
  PROVE  LET p == <<Middle(i + Quiet(c), size, Total(ecc, c)),
                    Middle(j + Quiet(c), size, Total(ecc, c))>>
         IN  /\ \/ Side(i, size, ecc, c) > 2
                \/ Side(j, size, ecc, c) > 2
                \/ Radius(c) = 0
                => p \in ModulePixels(<<i, j>>, size, ecc, c)
             /\ p \in ModulePixels(<<k, l>>, size, ecc, c) => k = i /\ l = j
<1> DEFINE q == Quiet(c)
           n == Total(ecc, c)
           E(a) == Edge(a, size, ecc, c)
           S(a) == Side(a, size, ecc, c)
           M(a) == Middle(a + q, size, n)
           radius == Radius(c)
           MiddleOf(a) ==
             /\ E(a) \in Int /\ M(a) \in Int /\ S(a) = E(a + 1) - E(a) /\ S(a) \in Nat
             /\ S(a) >= 2 /\ S(a) - 2 <= 2 * (M(a) - E(a)) /\ 2 * (M(a) - E(a)) <= S(a)
<1>1. ASSUME NEW a \in Int PROVE MiddleOf(a)
  <2>1. a + q \in Int /\ (a + 1) + q = (a + q) + 1
    OBVIOUS
  <2>2. E(a) = Begin(a + q, size, n) /\ E(a + 1) = Begin((a + q) + 1, size, n)
    BY <2>1 DEF Edge, Begin
  <2> DEFINE w == E(a + 1) - E(a)
             d == M(a) - E(a)
  <2>3. w \in Int /\ w >= 2 /\ d \in Int /\ w - 2 <= 2 * d /\ 2 * d <= w
    <3> HIDE DEF q, n, E
    <3> QED BY <2>1, <2>2, MiddleOfModule DEF q, n
  <2>4. E(a) \in Int /\ M(a) \in Int
    <3> HIDE DEF q, n, E
    <3> QED BY <2>1, <2>2, BeginBounds, MiddleBounds DEF q, n
  <2>5. S(a) = AtLeast(w, 1)
    BY DEF Side
  <2> HIDE DEF E, M, S, w, d
  <2>6. S(a) = w
    BY <2>3, <2>5 DEF AtLeast
  <2> QED BY <2>3, <2>4, <2>6 DEF w, d
<1>2. ASSUME NEW a \in Int, NEW b \in Int, a <= b PROVE E(a) <= E(b)
  <2>1. a + q \in Int /\ b + q \in Int /\ a + q <= b + q
    BY <1>2
  <2>2. E(a) = Begin(a + q, size, n) /\ E(b) = Begin(b + q, size, n)
    BY DEF Edge, Begin
  <2> HIDE DEF q, n, E
  <2> QED BY <2>1, <2>2, BeginMono DEF q, n
<1>3. ASSUME NEW a \in Int, NEW b \in Int
      PROVE  ModulePixels(<<a, b>>, size, ecc, c)
               = {<<E(a) + d[1], E(b) + d[2]>> :
                    d \in {d \in (0..(S(a) - 1)) \X (0..(S(b) - 1)) :
                             InRoundedRect(d[1], d[2], S(a), S(b), radius)}}
  BY DEF ModulePixels
<1>4. radius \in Nat /\ 2 * radius <= RadiusUnit
  BY ModuleRadius
<1> HIDE DEF E, S, M, radius, MiddleOf
<1>5. ASSUME S(i) > 2 \/ S(j) > 2 \/ radius = 0
      PROVE  <<M(i), M(j)>> \in ModulePixels(<<i, j>>, size, ecc, c)
  <2> DEFINE d == M(i) - E(i)
             e == M(j) - E(j)
  <2>1. /\ d \in 0..(S(i) - 1) /\ e \in 0..(S(j) - 1)
        /\ E(i) + d = M(i) /\ E(j) + e = M(j)
    <3>1. MiddleOf(i) /\ MiddleOf(j)
      BY <1>1
    <3> QED BY <3>1 DEF MiddleOf
  <2>2. InRoundedRect(d, e, S(i), S(j), radius)
    <3>1. /\ S(i) \in Nat /\ S(i) >= 2 /\ S(i) - 2 <= 2 * d /\ 2 * d <= S(i) /\ d \in Int
          /\ S(j) \in Nat /\ S(j) >= 2 /\ S(j) - 2 <= 2 * e /\ 2 * e <= S(j) /\ e \in Int
      <4>1. MiddleOf(i) /\ MiddleOf(j)
        BY <1>1
      <4> QED BY <4>1 DEF MiddleOf
    <3> HIDE DEF d, e
    <3> QED BY <3>1, <1>4, <1>5, MiddleStays
  <2> HIDE DEF d, e
  <2>3. <<d, e>> \in {t \in (0..(S(i) - 1)) \X (0..(S(j) - 1)) :
                        InRoundedRect(t[1], t[2], S(i), S(j), radius)}
    BY <2>1, <2>2
  <2>4. <<M(i), M(j)>> = <<E(i) + <<d, e>>[1], E(j) + <<d, e>>[2]>>
    BY <2>1
  <2> QED BY <1>3, <2>3, <2>4
<1>6. ASSUME NEW a \in Int, NEW b \in Int, NEW x \in Int,
             E(b) <= x, x < E(b + 1), E(a) <= x, x < E(a + 1)
      PROVE  a = b
  <2>1. a + 1 \in Int /\ b + 1 \in Int
    OBVIOUS
  <2>2. E(a) \in Int /\ E(b) \in Int /\ E(a + 1) \in Int /\ E(b + 1) \in Int
    BY <1>1, <2>1 DEF MiddleOf
  <2>3. ~(a + 1 <= b)
    BY <1>2, <1>6, <2>1, <2>2
  <2>4. ~(b + 1 <= a)
    BY <1>2, <1>6, <2>1, <2>2
  <2> QED BY <2>3, <2>4
<1>7. ASSUME <<M(i), M(j)>> \in ModulePixels(<<k, l>>, size, ecc, c)
      PROVE  k = i /\ l = j
  <2>1. PICK d \in (0..(S(k) - 1)) \X (0..(S(l) - 1)) :
          <<M(i), M(j)>> = <<E(k) + d[1], E(l) + d[2]>>
    BY <1>3, <1>7
  <2>2. /\ M(i) = E(k) + d[1] /\ d[1] \in 0..(S(k) - 1)
        /\ M(j) = E(l) + d[2] /\ d[2] \in 0..(S(l) - 1)
    BY <2>1
  <2>3. /\ E(k) <= M(i) /\ M(i) < E(k + 1) /\ E(l) <= M(j) /\ M(j) < E(l + 1)
        /\ M(i) \in Int /\ M(j) \in Int
    <3>1. MiddleOf(k) /\ MiddleOf(l)
      BY <1>1
    <3>2. E(k) \in Int /\ S(k) = E(k + 1) - E(k) /\ S(k) \in Nat /\ E(k + 1) \in Int
      BY <1>1, <3>1 DEF MiddleOf
    <3>3. E(l) \in Int /\ S(l) = E(l + 1) - E(l) /\ S(l) \in Nat /\ E(l + 1) \in Int
      BY <1>1, <3>1 DEF MiddleOf
    <3> QED BY <2>2, <3>2, <3>3
  <2>4. E(i) <= M(i) /\ M(i) < E(i + 1) /\ E(j) <= M(j) /\ M(j) < E(j + 1)
    <3>1. MiddleOf(i) /\ MiddleOf(j)
      BY <1>1
    <3>2. i + 1 \in Int /\ j + 1 \in Int
      OBVIOUS
    <3>3. MiddleOf(i + 1) /\ MiddleOf(j + 1)
      BY <1>1, <3>2
    <3>4. E(i + 1) \in Int /\ E(j + 1) \in Int
      BY <3>3 DEF MiddleOf
    <3> QED BY <3>1, <3>4 DEF MiddleOf
  <2> QED BY <1>6, <2>3, <2>4
<1> QED BY <1>5, <1>7 DEF M, S, radius

Tint(dark) == Solid(IF dark THEN "black" ELSE "clear")

LEMMA TintsDiffer == Solid("black") # Solid("clear") /\ Solid("black") # Solid("white")
BY DEF Solid

LEMMA SymbolBounds ==
  ASSUME NEW ecc \in {"M", "H"}
  PROVE  /\ Modules[ecc] \in Nat \ {0} /\ Border \in Nat /\ MaxQuiet \in Nat
         /\ DefaultQuiet \in 1..MaxQuiet
         /\ MinSize >= 2 * (Modules[ecc] + 2 * (Border + MaxQuiet)) /\ MinSize \in Nat
         /\ \A m \in Symbol[ecc] : m = <<m[1], m[2]>> /\ m[1] \in Int /\ m[2] \in Int
<1> DEFINE n == Modules[ecc]
           modules == Symbol[ecc]
<1>1. /\ n \in Nat \ {0} /\ modules \subseteq (0..(n - 1)) \X (0..(n - 1))
      /\ MinSize >= 2 * (n + 2 * (Border + MaxQuiet))
  BY DrawingAssumption
<1>2. Border \in Nat /\ MaxQuiet \in Nat /\ DefaultQuiet \in 1..MaxQuiet /\ MinSize \in Nat
  BY DrawingAssumption, KeysAssumption
<1> HIDE DEF n, modules
<1>3. \A m \in modules : m = <<m[1], m[2]>> /\ m[1] \in Int /\ m[2] \in Int
  BY <1>1
<1> QED BY <1>1, <1>2, <1>3 DEF n, modules

\* A symbol without a style shows its modules.
LEMMA PlainShows ==
  ASSUME NEW ecc \in {"M", "H"}, NEW size \in Nat, size >= MinSize,
         NEW i \in (-Border)..(Modules[ecc] - 1 + Border),
         NEW j \in (-Border)..(Modules[ecc] - 1 + Border)
  PROVE  LET n == Modules[ecc] + 2 * Border
             p == <<Middle(i + Border, size, n), Middle(j + Border, size, n)>>
         IN  p \in Pixels(size) /\ MakeQR(size, ecc)[p] = Tint(<<i, j>> \in Symbol[ecc])
<1> DEFINE n == Modules[ecc] + 2 * Border
           x == Middle(i + Border, size, n)
           y == Middle(j + Border, size, n)
           p == <<x, y>>
           module == [a \in 0..(size - 1) |-> PlainModule(a, size, Modules[ecc])]
           pic == [q \in Pixels(size) |-> IF <<module[q[1]], module[q[2]]>> \in Symbol[ecc]
                                          THEN Solid("black") ELSE Solid("white")]
<1>1. /\ n \in Nat \ {0} /\ size \in Nat \ {0} /\ 2 * n <= size
      /\ i + Border \in 0..(n - 1) /\ j + Border \in 0..(n - 1)
      /\ (i + Border) - Border = i /\ (j + Border) - Border = j
  BY SymbolBounds
<1> HIDE DEF n
<1>2. x \in 0..(size - 1) /\ y \in 0..(size - 1)
  BY <1>1, MiddleInside
<1>3. (x * n) \div size = i + Border /\ (y * n) \div size = j + Border
  BY <1>1, MiddleScaledBack
<1> HIDE DEF x, y
<1>4. module[x] = i /\ module[y] = j
  BY <1>1, <1>2, <1>3 DEF PlainModule, n
<1>5. p \in Pixels(size)
  BY <1>2 DEF Pixels
<1>6. pic[p] = IF <<i, j>> \in Symbol[ecc] THEN Solid("black") ELSE Solid("white")
  <2> HIDE DEF module
  <2> QED BY <1>4, <1>5
<1>7. MakeQR(size, ecc) = MakeBackgroundTransparent(pic) /\ DOMAIN pic = Pixels(size)
  BY DEF MakeQR
<1> HIDE DEF pic, p
<1>8. MakeQR(size, ecc)[p] = IF pic[p] = Solid("white") THEN Solid("clear") ELSE pic[p]
  BY <1>5, <1>7 DEF MakeBackgroundTransparent
<1> QED BY <1>5, <1>6, <1>8, TintsDiffer DEF Tint, p, x, y, n

\* A styled symbol shows its modules, where its corners are not cut off.
LEMMA StyledShows ==
  ASSUME NEW ecc \in {"M", "H"}, NEW size \in Nat, size >= MinSize, NEW c, StyleOK(c),
         NEW i \in (-Border)..(Modules[ecc] - 1 + Border),
         NEW j \in (-Border)..(Modules[ecc] - 1 + Border)
  PROVE  LET n == Modules[ecc] + 2 * Quiet(c)
             p == <<Middle(i + Quiet(c), size, n), Middle(j + Quiet(c), size, n)>>
         IN  /\ p \in Pixels(size)
             /\ \/ CutOff(p, size, c.cornerRadius)
                \/ ~(\/ Side(i, size, ecc, c) > 2
                     \/ Side(j, size, ecc, c) > 2
                     \/ Radius(c) = 0)
                \/ MakeQRStyled(size, ecc, c)[p] = Tint(<<i, j>> \in Symbol[ecc])
<1> DEFINE q == Quiet(c)
           n == Total(ecc, c)
           p == <<Middle(i + q, size, n), Middle(j + q, size, n)>>
           wide == \/ Side(i, size, ecc, c) > 2
                   \/ Side(j, size, ecc, c) > 2
                   \/ Radius(c) = 0
           dark == UNION {ModulePixels(m, size, ecc, c) : m \in Symbol[ecc]}
<1>1. n = Modules[ecc] + 2 * q
  BY DEF Total
<1>2. q \in Border..(Border + MaxQuiet)
  BY SymbolBounds DEF StyleOK, Quiet
<1> HIDE DEF q, n
<1>3. /\ n \in Nat \ {0} /\ size \in Nat \ {0} /\ 2 * n <= size /\ q \in Nat
      /\ i + q \in 0..(n - 1) /\ j + q \in 0..(n - 1) /\ i \in Int /\ j \in Int
  BY <1>1, <1>2, SymbolBounds
<1>4. p \in Pixels(size)
  BY <1>3, MiddleInside DEF Pixels
<1>5. /\ wide => p \in ModulePixels(<<i, j>>, size, ecc, c)
      /\ \A k, l \in Int : p \in ModulePixels(<<k, l>>, size, ecc, c) => k = i /\ l = j
  <2> SUFFICES ASSUME NEW k \in Int, NEW l \in Int
               PROVE  /\ wide => p \in ModulePixels(<<i, j>>, size, ecc, c)
                      /\ p \in ModulePixels(<<k, l>>, size, ecc, c) => k = i /\ l = j
    OBVIOUS
  <2>1. Quiet(c) \in Nat /\ Total(ecc, c) \in Nat \ {0} /\ 2 * Total(ecc, c) <= size
    BY <1>3 DEF q, n
  <2>2. p = <<Middle(i + Quiet(c), size, Total(ecc, c)),
              Middle(j + Quiet(c), size, Total(ecc, c))>>
    BY DEF q, n
  <2> DEFINE at == <<Middle(i + Quiet(c), size, Total(ecc, c)),
                     Middle(j + Quiet(c), size, Total(ecc, c))>>
  <2>3. /\ \/ Side(i, size, ecc, c) > 2
           \/ Side(j, size, ecc, c) > 2
           \/ Radius(c) = 0
           => at \in ModulePixels(<<i, j>>, size, ecc, c)
        /\ at \in ModulePixels(<<k, l>>, size, ecc, c) => k = i /\ l = j
    BY <1>3, <2>1, StyledModules
  <2> HIDE DEF p, at
  <2> QED BY <2>2, <2>3 DEF at
<1> HIDE DEF p, wide
<1>6. wide => (p \in dark <=> <<i, j>> \in Symbol[ecc])
  <2>1. ASSUME <<i, j>> \in Symbol[ecc], wide PROVE p \in dark
    BY <1>5, <2>1
  <2>2. ASSUME p \in dark PROVE <<i, j>> \in Symbol[ecc]
    <3>1. PICK m \in Symbol[ecc] : p \in ModulePixels(m, size, ecc, c)
      BY <2>2
    <3>2. m = <<m[1], m[2]>> /\ m[1] \in Int /\ m[2] \in Int
      BY SymbolBounds
    <3>3. m[1] = i /\ m[2] = j
      <4>1. p \in ModulePixels(<<m[1], m[2]>>, size, ecc, c)
        BY <3>1, <3>2
      <4> QED BY <3>2, <4>1, <1>5
    <3> QED BY <3>1, <3>2, <3>3
  <2> QED BY <2>1, <2>2
<1>7. MakeQRStyled(size, ecc, c)
        = [a \in Pixels(size) |-> IF a \in dark /\ ~CutOff(a, size, c.cornerRadius)
                                  THEN Solid("black") ELSE Solid("clear")]
  BY DEF MakeQRStyled
<1> HIDE DEF dark
<1>8. \/ CutOff(p, size, c.cornerRadius)
      \/ ~wide
      \/ MakeQRStyled(size, ecc, c)[p] = Tint(<<i, j>> \in Symbol[ecc])
  BY <1>4, <1>6, <1>7 DEF Tint
<1> QED BY <1>1, <1>4, <1>8 DEF p, wide, q

\* Whoever reads the middle of each module reads the payment's symbol, for any keys file.
THEOREM SymbolAlwaysReadable == Spec => []SymbolReadable
<1>1. ASSUME DrawingInv PROVE SymbolReadable
  <2> SUFFICES ASSUME NEW k \in Finished,
                      NEW m \in ((-Border)..(Modules[Ecc(k)] - 1 + Border))
                                \X ((-Border)..(Modules[Ecc(k)] - 1 + Border)),
                      NEW p, p = <<Centre(k, m[1]), Centre(k, m[2])>>,
                      ~Covered(k, p), ~Cut(k, p), Wide(k, m)
               PROVE  shown[k][p] = Expected(k, m \in Symbol[Ecc(k)])
    BY DEF SymbolReadable
  <2> DEFINE size == Size(k)
             ecc == Ecc(k)
             dark == m \in Symbol[ecc]
  <2>1. /\ shown[k] = Portrait(k) /\ ecc \in {"M", "H"}
        /\ k # Public => k \in DOMAIN store /\ StyleOK(store[k])
    BY <1>1, FinishedKey DEF Ecc
  <2>2. size \in Nat /\ size >= MinSize
    BY <1>1, <2>1, SizeBounds
  <2>3. m = <<m[1], m[2]>>
    OBVIOUS
  <2>4. p \in Pixels(size) /\ Drawn(k)[p] = Tint(dark)
    <3>1. CASE ~Styled(k)
      <4>1. p = <<Middle(m[1] + Border, size, Modules[ecc] + 2 * Border),
                  Middle(m[2] + Border, size, Modules[ecc] + 2 * Border)>>
        BY <3>1 DEF Centre, Middle
      <4>2. Drawn(k) = MakeQR(size, ecc)
        BY <3>1 DEF Drawn
      <4> HIDE DEF size, ecc
      <4> QED BY <2>1, <2>2, <2>3, <4>1, <4>2, PlainShows DEF ecc
    <3>2. CASE Styled(k)
      <4> DEFINE c == store[k]
      <4>1. p = <<Middle(m[1] + Quiet(c), size, Modules[ecc] + 2 * Quiet(c)),
                  Middle(m[2] + Quiet(c), size, Modules[ecc] + 2 * Quiet(c))>>
        BY <3>2 DEF Centre, Middle
      <4>2. Drawn(k) = MakeQRStyled(size, ecc, c) /\ StyleOK(c)
        BY <2>1, <3>2 DEF Drawn, Styled
      <4>3. ~CutOff(p, size, c.cornerRadius)
        BY <3>2 DEF Cut
      <4>4. \/ Side(m[1], size, ecc, c) > 2
            \/ Side(m[2], size, ecc, c) > 2
            \/ Radius(c) = 0
        BY <3>2 DEF Wide
      <4> HIDE DEF size, c
      <4> QED BY <2>1, <2>2, <2>3, <4>1, <4>2, <4>3, <4>4, StyledShows
    <3> QED BY <3>1, <3>2
  <2>5. shown[k][p] = Painted(k)[p] /\ p \in DOMAIN Drawn(k)
    BY <2>1, <2>4, BesideTheLogo, PicturePixels
  <2>6. Tint(dark) = Solid("clear") <=> ~dark
    BY TintsDiffer DEF Tint
  <2> HIDE DEF dark
  <2>7. CASE k = Public
    <3>1. Painted(k) = RecolorGradient(Drawn(k), Solid("black"), Solid("clear"))
      BY <2>7 DEF Painted
    <3>2. Painted(k)[p] = IF dark THEN Solid("black") ELSE Solid("clear")
      BY <2>4, <2>5, <2>6, <3>1 DEF RecolorGradient
    <3> QED BY <2>5, <2>7, <3>2 DEF Expected, dark
  <2>8. CASE k # Public /\ Coloured(store[k])
    <3>1. Painted(k) = RecolorGradient(Drawn(k), Foreground(store[k]), Background(store[k]))
      BY <2>1, <2>8, StylePaints DEF Painted
    <3>2. Painted(k)[p] = IF dark THEN Foreground(store[k]) ELSE Background(store[k])
      BY <2>4, <2>5, <2>6, <3>1 DEF RecolorGradient
    <3> QED BY <2>5, <2>8, <3>2 DEF Expected, dark
  <2>9. CASE k # Public /\ ~Coloured(store[k])
    BY <2>4, <2>5, <2>9 DEF Painted, Expected, Tint, dark
  <2> QED BY <2>7, <2>8, <2>9
<1> QED BY <1>1, DrawingInvariance, PTL

=============================================================================
