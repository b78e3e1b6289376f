-------------------------------- MODULE Keys --------------------------------
(***************************************************************************)
(* The keys file of src/keys/keys.go: what LoadFromFile makes of its         *)
(* entries.  Every field of a style is accepted in its normal form or        *)
(* replaced by a default; nothing but a missing file, bad JSON or a file     *)
(* without a usable key is an error.                                         *)
(*                                                                          *)
(* A text that should be a colour is the marks and figures it consists of;   *)
(* capitals are left out.  Radii of modules are in RadiusUnit-ths.           *)
(***************************************************************************)
EXTENDS Integers, Sequences, FiniteSetsExt

CONSTANTS ApiKey,      \* the keys that requests may carry
          None,        \* no text, no file
          Readable,    \* the logo files that can be read when the keys are loaded
          Rgb,         \* the colours that texts can stand for
          MinSize, MaxSize,  \* the sizes of images allowed, 512 and 2048 pixels
          MaxQuiet,    \* the widest quiet zone allowed, 20 modules
          RadiusUnit   \* the side of a module, as radii are counted

ASSUME KeysAssumption ==
  /\ MinSize \in Nat \ {0} /\ MaxSize \in Nat /\ MinSize <= MaxSize
  /\ MaxQuiet \in Nat /\ RadiusUnit \in Nat \ {0}
  /\ None \notin Rgb

\* Texts of colours: '#' marks, figures and whether all are hexadecimal, the colour
\* they stand for, and spaces around them.
Empty == [marks |-> 0, digits |-> 0, hex |-> TRUE, rgb |-> None, padded |-> FALSE]

\* Six hexadecimal figures stand for a colour.
ColourText ==
  {t \in [marks : Nat, digits : Nat, hex : BOOLEAN, rgb : Rgb \cup {None}, padded : BOOLEAN] :
     t.digits = 6 /\ t.hex => t.rgb \in Rgb}

Gradient == [from : ColourText, to : ColourText, angle : Int]

\* KeyConfig: what json.Unmarshal may make of an entry, whatever the file says.
EntryFields == {"key", "name", "qrSize", "logoPath", "logoBGShape", "fg", "bg", "fgGradient",
                "bgGradient", "cornerRadius", "moduleStyle", "moduleRadius", "quietZone"}

IsEntry(e) ==
  /\ DOMAIN e = EntryFields
  /\ {e.fg, e.bg} \subseteq ColourText /\ {e.fgGradient, e.bgGradient} \subseteq Gradient
  /\ {e.qrSize, e.cornerRadius, e.moduleRadius, e.quietZone} \subseteq Int

Trimmed(t) == [t EXCEPT !.padded = FALSE]

\* Fault: the pattern is not anchored at its end.
NormalizeHexPrefix(t) ==
  LET v == Trimmed(t)
  IN IF v.marks \in {0, 1} /\ v.digits >= 6 /\ v.hex THEN [v EXCEPT !.marks = 1] ELSE Empty

NormalizeHex(t) ==
  LET v == Trimmed(t)
  IN IF v.marks \in {0, 1} /\ v.digits = 6 /\ v.hex THEN [v EXCEPT !.marks = 1] ELSE Empty

\* One end that is no colour disables both; one that is missing does not.
NormalizeGradient(g) ==
  LET bad(t) == t # Empty /\ NormalizeHex(t) = Empty
  IN IF bad(g.from) \/ bad(g.to) THEN [g EXCEPT !.from = Empty, !.to = Empty]
     ELSE [g EXCEPT !.from = NormalizeHex(@), !.to = NormalizeHex(@)]

NormalizeModuleStyle(s) == IF s \in {"rounded", "blob"} THEN s ELSE "square"

NormalizeLogoBGShape(s) == IF s = "circle" THEN s ELSE "square"

\* A number outside its range counts as missing.
Within(n, low, high) == IF n \in low..high THEN n ELSE 0

\* The body of the loop over the entries.
Normalized(entry) ==
  [entry EXCEPT
     !.logoPath     = IF @ \in Readable THEN @ ELSE None,
     !.fg           = NormalizeHex(@),
     !.bg           = NormalizeHex(@),
     !.fgGradient   = NormalizeGradient(@),
     !.bgGradient   = NormalizeGradient(@),
     !.logoBGShape  = NormalizeLogoBGShape(@),
     !.moduleStyle  = NormalizeModuleStyle(@),
     !.moduleRadius = Within(@, 0, RadiusUnit \div 2),
     !.cornerRadius = IF @ < 0 THEN 0 ELSE @,
     !.quietZone    = Within(@, 0, MaxQuiet),
     !.qrSize       = Within(@, MinSize, MaxSize)]

\* LoadFromFile: an entry whose key is blank is skipped, and of several entries whose
\* keys differ at most in the spaces around them the last one counts.
KeyOf(entry) == entry.key.word

Usable(file) == {i \in DOMAIN file : KeyOf(file[i]) \in ApiKey}

Loaded(file) ==
  [k \in {KeyOf(file[i]) : i \in Usable(file)} |->
     Normalized(file[Max({i \in Usable(file) : KeyOf(file[i]) = k})])]
=============================================================================
