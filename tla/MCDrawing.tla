----------------------------- MODULE MCDrawing -----------------------------
(***************************************************************************)
(* An instance of Drawing for TLC: symbols of two and three modules a side,  *)
(* images of eighteen to thirty-one pixels, and keys files that set every     *)
(* field of an entry to every kind of value.                                *)
(***************************************************************************)
EXTENDS Drawing

CONSTANTS k1, k2,             \* API keys
          blank,              \* no word: a key of nothing but spaces
          slash, dot          \* characters

\* Logo files, the last of which cannot be read.
wide == <<dot, slash>>
tall == <<dot, dot, slash>>
lost == <<slash>>

MCReadable == {wide, tall}

MCPaymentText == <<slash, Bar, dot>>

MCSymbol == [ecc \in {"M", "H"} |-> IF ecc = "M" THEN {<<0, 0>>, <<1, 1>>}
                                    ELSE {<<0, 0>>, <<1, 0>>, <<0, 2>>, <<2, 1>>, <<2, 2>>}]

MCModules == [ecc \in {"M", "H"} |-> IF ecc = "M" THEN 2 ELSE 3]

MCLogoSides == [f \in {wide, tall} |-> IF f = wide THEN [w |-> 40, h |-> 20]
                                       ELSE [w |-> 3, h |-> 5]]

Colour(rgb) == [marks |-> 1, digits |-> 6, hex |-> TRUE, rgb |-> rgb, padded |-> FALSE]

red == Colour("red")
blue == Colour("blue")

\* Texts that LoadFromFile accepts, and texts that it refuses.
Texts == {Empty, [red EXCEPT !.padded = TRUE], [red EXCEPT !.marks = 0],
          [red EXCEPT !.marks = 2], [red EXCEPT !.digits = 3], [red EXCEPT !.digits = 8],
          [red EXCEPT !.hex = FALSE, !.rgb = None],
          [Empty EXCEPT !.padded = TRUE]}

noGradient == [from |-> Empty, to |-> Empty, angle |-> 0]

Gradients == {[from |-> a, to |-> b, angle |-> 45] :
                a, b \in {Empty, red, blue, [red EXCEPT !.digits = 3]}}

bare == [key |-> [word |-> k1, padded |-> FALSE], name |-> <<slash>>, qrSize |-> 0,
         logoPath |-> None, logoBGShape |-> "", fg |-> Empty, bg |-> Empty,
         fgGradient |-> noGradient, bgGradient |-> noGradient, cornerRadius |-> 0,
         moduleStyle |-> "", moduleRadius |-> 0, quietZone |-> 0]

branded == [bare EXCEPT !.logoPath = wide, !.fg = blue, !.bg = red, !.moduleStyle = "rounded"]

\* The entries that differ from e in one field or two that go together.
Variants(e) ==
  {[e EXCEPT !.fg = t] : t \in Texts} \cup {[e EXCEPT !.bg = t] : t \in Texts}
  \cup {[e EXCEPT !.fgGradient = g] : g \in Gradients}
  \cup {[e EXCEPT !.bgGradient = g] : g \in Gradients}
  \cup {[e EXCEPT !.logoPath = l, !.logoBGShape = shape] :
          l \in {None, wide, tall, lost}, shape \in {"circle", "oval"}}
  \cup {[e EXCEPT !.moduleStyle = m, !.moduleRadius = r] :
          m \in {"square", "rounded", "blob", "star"}, r \in {-1, 0, 1, 7, 10, 11}}
  \cup {[e EXCEPT !.quietZone = q, !.qrSize = n] : q \in -1..3, n \in {0} \cup 17..32}
  \cup {[e EXCEPT !.cornerRadius = r, !.quietZone = q] : r \in {-1, 2, 5, 40}, q \in {0, 2}}
  \cup {[e EXCEPT !.name = n] : n \in {<<dot>>, <<slash, Bar, dot>>}}

Second(e) == [e EXCEPT !.key.word = k2]

shaded == [bare EXCEPT !.fgGradient = [from |-> red, to |-> blue, angle |-> 45]]

\* Two entries side by side, also with angles around one that is printed exactly, and
\* entries whose keys are blank, padded or taken.
MCFile == {<<bare, Second(e)>> : e \in Variants(bare)}
          \cup {<<branded, Second(e)>> : e \in Variants(branded)}
          \cup {<<shaded, Second([shaded EXCEPT !.fgGradient.angle = a])>> :
                   a \in {-45, 30, 44, 45, 46}}
          \cup {<<bare, [branded EXCEPT !.key.padded = TRUE],
                  [branded EXCEPT !.key.word = blank]>>}

\* Two radii that are printed alike, on an image on which they differ by a pixel.
MCNearRadii ==
  LET large == [branded EXCEPT !.qrSize = 31]
  IN {<<[large EXCEPT !.moduleRadius = 7], Second([large EXCEPT !.moduleRadius = 8])>>}
=============================================================================
