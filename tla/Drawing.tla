------------------------------ MODULE Drawing ------------------------------
(***************************************************************************)
(* From a key's entry in the keys file to the pixels of its image: the       *)
(* drawing half of handleSEPA in src/server/server.go with src/qr, one step  *)
(* per stage.  The payment is fixed, so that a symbol depends on its level   *)
(* of error correction alone.                                               *)
(*                                                                          *)
(* A picture is a function from pixels to paint.  A paint is the colours it   *)
(* runs between and its angle; where along a gradient a pixel lies is left   *)
(* out, and a plain colour runs from itself to itself.  Arithmetic is exact  *)
(* where the code uses floating point.                                      *)
(***************************************************************************)
EXTENDS Keys, CacheKeys

CONSTANTS File,          \* the keys files there are: sequences of entries
          Char,          \* what names and paths consist of
          PaymentText,   \* the payment, as it stands in the cache key
          AngleGrain, RadiusGrain,  \* what is printed of an angle and of a radius: 0.001
          Public,        \* who asks without a key
          QRSize,        \* QR_SIZE
          Symbol,        \* Symbol[ecc]: the dark modules of the payment's symbol
          Modules,       \* Modules[ecc]: how many modules it has on a side
          Border,        \* the light modules go-qrcode adds around a symbol: 4
          DefaultQuiet,  \* those renderStyled adds unless told otherwise: 4
          RatioPercent,  \* LOGO_MAX_RATIO
          MinLogo,       \* the least side of a logo: 40 pixels
          MinPad,        \* the least margin around a logo: 8 pixels
          LogoSides      \* LogoSides[f]: width and height of the logo in file f

ASSUME DrawingAssumption ==
  /\ QRSize \in MinSize..MaxSize
  /\ Border \in Nat /\ DefaultQuiet \in Nat \ {0}
  /\ DefaultQuiet <= MaxQuiet
  \* The least logo and margin are small beside the least image.
  /\ RatioPercent \in 1..49 /\ MinLogo \in Nat \ {0} /\ MinPad \in Nat
  /\ MinSize >= 8 /\ 2 * MinLogo <= MinSize /\ 8 * MinPad <= MinSize
  /\ \A f \in Readable : LogoSides[f].w \in Nat \ {0} /\ LogoSides[f].h \in Nat \ {0}
  /\ \A ecc \in {"M", "H"} :
       /\ Modules[ecc] \in Nat \ {0}
       /\ Symbol[ecc] \subseteq (0..(Modules[ecc] - 1)) \X (0..(Modules[ecc] - 1))
       \* Every module has two pixels at least: 177 modules are the most there are.
       /\ MinSize >= 2 * (Modules[ecc] + 2 * (Border + MaxQuiet))
  /\ AngleGrain \in Nat \ {0} /\ RadiusGrain \in Nat \ {0}
  /\ Bar \in Char /\ PaymentText \in Seq(Char)
  /\ Readable \subseteq Seq(Char) /\ <<>> \notin Readable /\ None \notin Readable
  /\ \A file \in File : \A i \in DOMAIN file : file[i].name \in Seq(Char)
  /\ Bar \notin Int \cup Rgb \cup [negative : BOOLEAN, figures : Nat]
              \cup {"a", "p", "square", "rounded", "blob", "circle", "M", "H"}
  /\ Public \notin ApiKey /\ "clear" \notin Rgb /\ None \notin {"black", "white"}
  /\ \A file \in File : \A i \in DOMAIN file : IsEntry(file[i])
  /\ \A file \in File : Len(file) \in Nat /\ DOMAIN file = 1..Len(file)

VARIABLES store,    \* the keys in memory
          who,      \* whose image is being drawn
          pc,       \* the stage it is at
          canvas,   \* the image so far
          shown     \* shown[k]: the image that k has got

drawingVars == <<store, who, pc, canvas, shown>>

-----------------------------------------------------------------------------
(* What a request without or with a key asks for.                           *)

\* a / b to the nearest whole number, and up from the middle.
Rounded(a, b) == (2 * a + b) \div (2 * b)

Solid(colour) == <<colour, colour, 0>>

Pixels(size) == (0..(size - 1)) \X (0..(size - 1))

\* DefaultPublicOptions and DefaultAuthOptions.
Ecc(k) == IF k # Public /\ store[k].logoPath # None THEN "H" ELSE "M"

Size(k) == IF k # Public /\ store[k].qrSize > 0 THEN store[k].qrSize ELSE QRSize

Styled(k) == /\ k # Public
             /\ \/ store[k].moduleStyle \in {"rounded", "blob"}
                \/ store[k].cornerRadius > 0
                \/ store[k].quietZone > 0

\* A colour in its normal form, or nothing.
Hex(t) == IF t = Empty THEN <<>> ELSE <<t.rgb>>

\* "%.3f": a sign and the nearest figures.
Decimals(n, grain) ==
  <<[negative |-> n < 0, figures |-> Rounded(IF n < 0 THEN -n ELSE n, grain)]>>

GradientFields(g, rest) ==
  Field(Hex(g.from), Field(Hex(g.to), Field(Decimals(g.angle, AngleGrain), rest)))

LogoFields(c, rest) ==
  Field(IF c.logoPath = None THEN <<>> ELSE c.logoPath, Field(<<c.logoBGShape>>, rest))

\* Fault: the quiet zone is left out of the cache key.
ModuleFieldsWithoutQuiet(c, rest) ==
  Field(<<c.moduleStyle>>, Field(Decimals(c.moduleRadius, RadiusGrain),
    Field(<<c.cornerRadius>>, rest)))

ModuleFields(c, rest) ==
  Field(<<c.moduleStyle>>, Field(Decimals(c.moduleRadius, RadiusGrain),
    Field(<<c.cornerRadius>>, Field(<<c.quietZone>>, rest))))

\* buildCacheKey.
CacheKeyOf(c, rest) ==
  Field(<<"a">>, Field(c.name, Field(Hex(c.fg), Field(Hex(c.bg),
    GradientFields(c.fgGradient, GradientFields(c.bgGradient,
      LogoFields(c, ModuleFields(c, rest))))))))

PaymentFields(k) ==
  Field(PaymentText, Field(<<Size(k)>>, Field(<<Ecc(k)>>, <<RatioPercent>>)))

CacheKey(k) == IF k = Public THEN Field(<<"p">>, PaymentFields(k))
               ELSE CacheKeyOf(store[k], PaymentFields(k))

-----------------------------------------------------------------------------
(* Modules.                                                                 *)

\* go-qrcode: each pixel takes the module it lies in, border included.
PlainModule(x, size, n) == (x * (n + 2 * Border)) \div size - Border

MakeBackgroundTransparent(pic) ==
  [p \in DOMAIN pic |-> IF pic[p] = Solid("white") THEN Solid("clear") ELSE pic[p]]

MakeQR(size, ecc) ==
  LET module == [x \in 0..(size - 1) |-> PlainModule(x, size, Modules[ecc])]
  IN MakeBackgroundTransparent(
       [p \in Pixels(size) |-> IF <<module[p[1]], module[p[2]]>> \in Symbol[ecc]
                               THEN Solid("black") ELSE Solid("white")])

Quiet(style) == Border + IF style.quietZone > 0 THEN style.quietZone ELSE DefaultQuiet

Total(ecc, style) == Modules[ecc] + 2 * Quiet(style)

\* Fault: the pixels of a module are as many as a module is wide, rounded.
EdgeRoundedApart(i, size, ecc, style) ==
  (i + Quiet(style)) * Rounded(size, Total(ecc, style))

\* The pixel at which the i-th row or column of modules begins.
Edge(i, size, ecc, style) == Rounded((i + Quiet(style)) * size, Total(ecc, style))

\* The larger of two numbers: a module never gets less than a pixel.
AtLeast(n, least) == IF n < least THEN least ELSE n

Side(i, size, ecc, style) ==
  AtLeast(Edge(i + 1, size, ecc, style) - Edge(i, size, ecc, style), 1)

\* The radius of a module's corners, in RadiusUnit-ths: 1/4 for rounded modules and
\* 1/2 for blobs, unless it is given.
Radius(style) == IF style.moduleStyle \notin {"rounded", "blob"} THEN 0
                 ELSE IF style.moduleRadius > 0 THEN style.moduleRadius
                 ELSE IF style.moduleStyle = "blob" THEN RadiusUnit \div 2
                 ELSE RadiusUnit \div 4

Nearest(d, side) == IF d < side - 1 - d THEN d ELSE side - 1 - d

\* fillRoundedRect, and fillRect where the radius is 0: is the pixel painted?
InRoundedRect(dx, dy, w, h, radius) ==
  LET r == Rounded((IF w < h THEN w ELSE h) * radius, RadiusUnit)
      ox == r - Nearest(dx, w)
      oy == r - Nearest(dy, h)
  IN r <= 0 \/ ox <= 0 \/ oy <= 0 \/ ox * ox + oy * oy <= r * r

\* The pixels of a dark module.
ModulePixels(m, size, ecc, style) ==
  LET x == Edge(m[1], size, ecc, style)
      y == Edge(m[2], size, ecc, style)
      w == Side(m[1], size, ecc, style)
      h == Side(m[2], size, ecc, style)
      painted == {d \in (0..(w - 1)) \X (0..(h - 1)) :
                    InRoundedRect(d[1], d[2], w, h, Radius(style))}
  IN {<<x + d[1], y + d[2]>> : d \in painted}

\* applyCornerRadius clears what is outside the arcs, at most to the middle.
CutOff(p, size, radius) ==
  LET r == IF 2 * radius > size THEN size \div 2 ELSE radius
      ox == r - Nearest(p[1], size)
      oy == r - Nearest(p[2], size)
  IN ox > 0 /\ oy > 0 /\ ox * ox + oy * oy > r * r

MakeQRStyled(size, ecc, style) ==
  LET dark == UNION {ModulePixels(m, size, ecc, style) : m \in Symbol[ecc]}
  IN [p \in Pixels(size) |-> IF p \in dark /\ ~CutOff(p, size, style.cornerRadius)
                             THEN Solid("black") ELSE Solid("clear")]

-----------------------------------------------------------------------------
(* Colours.                                                                 *)

\* parseHexColor, None for an error: nothing is black, and one mark is dropped.
ParseHexColor(t) == LET v == Trimmed(t)
                    IN IF v = Empty THEN "black"
                       ELSE IF v.marks <= 1 /\ v.digits = 6 /\ v.hex THEN v.rgb ELSE None

\* makeGradientFn: an end that cannot be parsed is transparent.
GradientPaint(g) ==
  LET end(t) == IF ParseHexColor(t) = None THEN "clear" ELSE ParseHexColor(t)
  IN <<end(g.from), end(g.to), g.angle>>

HasGradient(g) == g.from # Empty /\ g.to # Empty

\* RecolorGradient: what is clear or white becomes background, the rest foreground.
RecolorGradient(pic, fg, bg) ==
  [p \in DOMAIN pic |-> IF pic[p] = Solid("clear") THEN bg ELSE fg]

\* handleSEPA asks for colours when a key has one, and ignores those it cannot parse;
\* without a background it is white.
Coloured(c) == \/ c.fg # Empty \/ c.bg # Empty
               \/ c.fgGradient.from # Empty \/ c.bgGradient.from # Empty

ColoursParse(c) == ParseHexColor(c.fg) # None /\ ParseHexColor(c.bg) # None

Foreground(c) == IF HasGradient(c.fgGradient) THEN GradientPaint(c.fgGradient)
                 ELSE Solid(ParseHexColor(c.fg))

Background(c) == IF HasGradient(c.bgGradient) THEN GradientPaint(c.bgGradient)
                 ELSE Solid(IF c.bg = Empty THEN "white" ELSE ParseHexColor(c.bg))

-----------------------------------------------------------------------------
(* The logo.                                                                *)

\* The longer side of a logo is LOGO_MAX_RATIO of the image's, but no less than MinLogo.
Target(size) == AtLeast(Rounded(size * RatioPercent, 100), MinLogo)

LogoBox(size, f) ==
  LET s == LogoSides[f]
      longer == IF s.w > s.h THEN s.w ELSE s.h
      w == Rounded(s.w * Target(size), longer)
      h == Rounded(s.h * Target(size), longer)
  IN [x |-> (size - w) \div 2, y |-> (size - h) \div 2, w |-> w, h |-> h]

Pad(size) == AtLeast(Rounded(size * 2, 100), MinPad)

\* Fault: the margin is added to the far sides only once.
PlateLopsided(size, f) == LET b == LogoBox(size, f)
                          IN [x |-> b.x - Pad(size), y |-> b.y - Pad(size),
                              w |-> b.w + Pad(size), h |-> b.h + Pad(size)]

Plate(size, f) == LET b == LogoBox(size, f)
                  IN [x |-> b.x - Pad(size), y |-> b.y - Pad(size),
                      w |-> b.w + 2 * Pad(size), h |-> b.h + 2 * Pad(size)]

In(p, box) == p[1] \in box.x..(box.x + box.w - 1) /\ p[2] \in box.y..(box.y + box.h - 1)

\* fillCircle: the circle that fits the shorter side, around the middle.
InCircle(p, box) ==
  LET r == (IF box.h < box.w THEN box.h ELSE box.w) \div 2
      dx == p[1] - (box.x + box.w \div 2)
      dy == p[2] - (box.y + box.h \div 2)
  IN dx * dx + dy * dy <= r * r

OnPlate(p, size, f, shape) ==
  In(p, Plate(size, f)) /\ (shape = "circle" => InCircle(p, Plate(size, f)))

OverlayLogoImage(pic, size, f, shape) ==
  [p \in DOMAIN pic |-> IF In(p, LogoBox(size, f)) THEN Solid("logo")
                        ELSE IF OnPlate(p, size, f, shape) THEN Solid("white") ELSE pic[p]]

-----------------------------------------------------------------------------
(* The handler.                                                             *)

Init == /\ \E file \in File : store = Loaded(file)
        /\ who = None
        /\ pc = "idle"
        /\ canvas = None
        /\ shown = [k \in DOMAIN store \cup {Public} |-> None]

Request(k) == /\ pc = "idle" /\ shown[k] = None
              /\ who' = k
              /\ pc' = "draw"
              /\ UNCHANGED <<store, canvas, shown>>

Draw == /\ pc = "draw"
        /\ canvas' = IF Styled(who) THEN MakeQRStyled(Size(who), Ecc(who), store[who])
                                    ELSE MakeQR(Size(who), Ecc(who))
        /\ pc' = IF who = Public THEN "public" ELSE "colour"
        /\ UNCHANGED <<store, who, shown>>

\* Black on transparent for everybody.
RecolorPublic == /\ pc = "public"
                 /\ canvas' = RecolorGradient(canvas, Solid("black"), Solid("clear"))
                 /\ pc' = "done"
                 /\ UNCHANGED <<store, who, shown>>

\* An image whose colours cannot be parsed stays as it is.
Recolor == /\ pc = "colour"
           /\ canvas' = IF Coloured(store[who]) /\ ColoursParse(store[who])
                        THEN RecolorGradient(canvas, Foreground(store[who]), Background(store[who]))
                        ELSE canvas
           /\ pc' = IF store[who].logoPath = None THEN "done" ELSE "logo"
           /\ UNCHANGED <<store, who, shown>>

Overlay == /\ pc = "logo"
           /\ canvas' = OverlayLogoImage(canvas, Size(who), store[who].logoPath,
                                         store[who].logoBGShape)
           /\ pc' = "done"
           /\ UNCHANGED <<store, who, shown>>

Respond == /\ pc = "done"
           /\ shown' = [shown EXCEPT ![who] = canvas]
           /\ pc' = "idle"
           /\ who' = None
           /\ canvas' = None
           /\ UNCHANGED store

Next == \/ \E k \in DOMAIN shown : Request(k)
        \/ Draw \/ RecolorPublic \/ Recolor \/ Overlay \/ Respond

Spec == Init /\ [][Next]_drawingVars

-----------------------------------------------------------------------------
Finished == {k \in DOMAIN shown : shown[k] # None}

\* The pixel in the middle of the i-th row or column of modules, where a reader that
\* divides the image evenly expects it.
Centre(k, i) ==
  LET margin == IF Styled(k) THEN Quiet(store[k]) ELSE Border
  IN ((2 * (i + margin) + 1) * Size(k)) \div (2 * (Modules[Ecc(k)] + 2 * margin))

Covered(k, p) == /\ k # Public /\ store[k].logoPath # None
                 /\ \/ In(p, LogoBox(Size(k), store[k].logoPath))
                    \/ OnPlate(p, Size(k), store[k].logoPath, store[k].logoBGShape)

Cut(k, p) == Styled(k) /\ CutOff(p, Size(k), store[k].cornerRadius)

\* Rounded modules of two pixels by two have no pixel left (see the README).
Wide(k, m) == Styled(k) => \/ Side(m[1], Size(k), Ecc(k), store[k]) > 2
                           \/ Side(m[2], Size(k), Ecc(k), store[k]) > 2
                           \/ Radius(store[k]) = 0

\* The colours a key's entry asks for, read from the file as it is documented.
Expected(k, dark) ==
  IF k = Public \/ ~Coloured(store[k]) THEN Solid(IF dark THEN "black" ELSE "clear")
  ELSE IF dark THEN Foreground(store[k]) ELSE Background(store[k])

\* Whoever reads the middle of each module reads the symbol, the quiet zone around it
\* included: whatever sizes, quiet zones, roundings and colours the keys file sets.
\* Only the logo covers modules, and only corners that reach the symbol cut it.
SymbolReadable ==
  \A k \in Finished :
    LET n == Modules[Ecc(k)]
    IN \A m \in ((-Border)..(n - 1 + Border)) \X ((-Border)..(n - 1 + Border)) :
         LET p == <<Centre(k, m[1]), Centre(k, m[2])>>
         IN \/ Covered(k, p) \/ Cut(k, p) \/ ~Wide(k, m)
            \/ shown[k][p] = Expected(k, m \in Symbol[Ecc(k)])

\* The image of a key that asks for colours has no paint but those it asks for, its logo
\* and the logo's plate apart, and no colour that could not be parsed: what the keys file
\* let pass can always be recoloured.
PaletteShows ==
  \A k \in Finished \ {Public} : Coloured(store[k]) =>
    \A p \in DOMAIN shown[k] :
      \/ Covered(k, p)
      \/ /\ shown[k][p] \in {Foreground(store[k]), Background(store[k])}
         /\ shown[k][p][1] \notin {None, "clear"} /\ shown[k][p][2] \notin {None, "clear"}

\* README.md:34 promises "deterministic output for the same normalized input": two
\* keys that share an entry of the image cache get the same image anyway.
OneImagePerCacheKey ==
  \A k, l \in Finished : CacheKey(k) = CacheKey(l) => shown[k] = shown[l]

\* Nothing of the entry is lost in the cache key by rounding, and no bar is added.
PrintsExactly(k) ==
  k # Public =>
    /\ store[k].fgGradient.angle % AngleGrain = 0 /\ store[k].bgGradient.angle % AngleGrain = 0
    /\ store[k].moduleRadius % RadiusGrain = 0
    /\ Barless(store[k].name) /\ (store[k].logoPath # None => Barless(store[k].logoPath))

\* That is so of keys whose angles and radii have three decimals at most: every other
\* field that an image depends on, its size and error correction included, tells in the
\* cache key, and no field passes for its neighbour.
ExactKeysShareRightly ==
  \A k, l \in Finished :
    CacheKey(k) = CacheKey(l) /\ PrintsExactly(k) /\ PrintsExactly(l) => shown[k] = shown[l]

\* A logo is shown whole, in the middle of the image to a pixel, with the plate's margin
\* on every side of it.
LogoCentred ==
  \A k \in Finished \ {Public} : store[k].logoPath # None =>
    LET size == Size(k)
        b == LogoBox(size, store[k].logoPath)
        plate == Plate(size, store[k].logoPath)
    IN /\ plate.x >= 0 /\ plate.y >= 0
       /\ plate.x + plate.w <= size /\ plate.y + plate.h <= size
       /\ b.x - plate.x = (plate.x + plate.w) - (b.x + b.w)
       /\ (size - (b.x + b.w)) - b.x \in {0, 1} /\ (size - (b.y + b.h)) - b.y \in {0, 1}
=============================================================================
