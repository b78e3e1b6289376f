------------------------------ MODULE Amounts ------------------------------
(***************************************************************************)
(* How an amount is read: parseAmountEUR and what it calls in amount.go.    *)
(*                                                                          *)
(* A text is a sequence of symbols: figures, separators, spaces, the        *)
(* letter O, and currency marks as one symbol each (the sign or the         *)
(* letters, in either case).  "EUR" followed by "O" is the word EURO.  I    *)
(* and l, which may be misread ones as O may be a misread zero, and the     *)
(* marks that are treated as "GBP" is, are left out.  A bound of the        *)
(* regular expressions is a constant so that small texts can exceed it.     *)
(***************************************************************************)
EXTENDS Iban

CONSTANTS MaxWhole   \* figures before the decimal separator: 12

ASSUME MaxWholeAssumption == MaxWhole \in Nat \ {0}

Separators == {".", ","}

Formats == {"auto", "eur_dot", "eur_comma", "eur_grouped_space_comma",
            "eur_grouped_dot_comma", "auto_eur_lenient"}

\* The symbols of t at the positions in K.
At(t, K) == FoldLeftDomain(LAMBDA s, i : IF i \in K THEN Append(s, t[i]) ELSE s, <<>>, t)

Positions(t, S) == {i \in DOMAIN t : t[i] \in S}

Holds(t, symbol) == Contains(t, symbol)

\* A single space between words and none around them: strings.Fields, joined.
Squeeze(t) ==
  At(t, {i \in DOMAIN t : \/ t[i] # " "
                          \/ /\ i > 1 /\ t[i - 1] # " "
                             /\ \E j \in i..Len(t) : t[j] # " "})

Read(t, currency) == [error |-> "", text |-> t, currency |-> currency]

Unread(e) == [error |-> e, text |-> <<>>, currency |-> ""]

-----------------------------------------------------------------------------
\* Fault: three figures may follow the separator.
PlainThreeDecimals(t, S) ==
  \E n \in 1..MaxWhole :
    /\ n <= Len(t)
    /\ \A i \in DOMAIN t : i = n + 1 \/ t[i] \in Figure
    /\ n < Len(t) => t[n + 1] \in S /\ Len(t) - n \in {2, 3, 4}

\* ^\d{1,12}(s\d{1,2})?$ for a separator s in S
Plain(t, S) ==
  \E n \in 1..MaxWhole :
    /\ n <= Len(t)
    /\ \A i \in DOMAIN t : i = n + 1 \/ t[i] \in Figure
    /\ n < Len(t) => t[n + 1] \in S /\ Len(t) - n \in {2, 3}

\* ^\d{1,3}(s\d{3})*(,\d{1,2})?$
Grouped(t, s) ==
  \E n \in 1..Len(t), first \in 1..3 :
    /\ first <= n /\ (n - first) % 4 = 0
    /\ \A i \in 1..n : IF i > first /\ (i - first) % 4 = 1 THEN t[i] = s ELSE t[i] \in Figure
    /\ n < Len(t) => t[n + 1] = "," /\ Len(t) - n \in {2, 3}
    /\ \A i \in n + 2 .. Len(t) : t[i] \in Figure

\* normalizeAmountByProfile: what each explicit profile accepts.
Fits(t, format) ==
  CASE format = "eur_dot"   -> Plain(t, {"."})
    [] format = "eur_comma" -> Plain(t, {","})
    [] format = "eur_grouped_space_comma" ->
         ~Holds(t, ".") /\ (IF Holds(t, " ") THEN Grouped(t, " ") ELSE Plain(t, {","}))
    [] format = "eur_grouped_dot_comma" ->
         IF Holds(t, ".") THEN Grouped(t, ".") ELSE Plain(t, {","})
    [] OTHER -> TRUE

GroupMark(format) == CASE format = "eur_grouped_space_comma" -> " "
                       [] format = "eur_grouped_dot_comma" -> "."
                       [] OTHER -> ""

\* Fault: the marks of three currencies are removed, of which two are recorded.
IsMarkOfThree(t, i) == \/ t[i] \in {"EUR", "USD", "GBP"}
                       \/ t[i] = "O" /\ i > 1 /\ t[i - 1] = "EUR"

\* normalizeAmountInput removes the marks of the two currencies it knows.
IsMark(t, i) == \/ t[i] \in {"EUR", "USD"}
                \/ t[i] = "O" /\ i > 1 /\ t[i - 1] = "EUR"

Unmarked(t) == Squeeze(At(t, {i \in DOMAIN t : ~IsMark(t, i)}))

NamedCurrency(t) ==
  IF Holds(t, "USD") THEN "USD" ELSE IF Holds(t, "EUR") THEN "EUR" ELSE ""

ReadUnmarked(bare, format, currency) ==
  IF bare = <<>> \/ ~Fits(bare, format) THEN Unread("invalid amount")
  ELSE Read(At(bare, DOMAIN bare \ Positions(bare, {GroupMark(format)})), currency)

ReadStrictly(t, format) ==
  IF Holds(t, "USD") /\ Holds(t, "EUR") THEN Unread("invalid amount")
  ELSE ReadUnmarked(Unmarked(t), format, NamedCurrency(t))

-----------------------------------------------------------------------------
\* mapOCRDigits: an O next to a figure, a separator or a space is a zero.
NumericNeighbor(t, i) ==
  \E j \in {i - 1, i + 1} \cap DOMAIN t : t[j] \in Figure \cup Separators \cup {" "}

MapOCR(t) == [i \in DOMAIN t |-> IF t[i] = "O" /\ NumericNeighbor(t, i) THEN "0" ELSE t[i]]

DetectCurrency(t) == IF Holds(t, "USD") THEN "USD"
                     ELSE IF Holds(t, "EUR") THEN "EUR"
                     ELSE IF Holds(t, "GBP") THEN "GBP" ELSE ""

\* The place of the decimal separator, 0 if there is none: the last of both
\* kinds, or the last of one kind if at most two figures follow.
DecimalAmong(v, at) ==
  IF at = {} \/ (~(Holds(v, ".") /\ Holds(v, ",")) /\ Len(v) - Max(at) > 2)
  THEN 0 ELSE Max(at)

DecimalAt(v) == DecimalAmong(v, Positions(v, Separators))

Assembled(whole, frac, currency) ==
  IF whole \o frac = <<>> \/ Len(frac) > 2 THEN Unread("invalid amount")
  ELSE Read((IF whole = <<>> THEN <<"0">> ELSE whole)
            \o (IF frac = <<>> THEN <<>> ELSE <<".">> \o frac), currency)

SplitAt(v, at, currency) ==
  Assembled(At(v, {i \in Positions(v, Figure) : at = 0 \/ i < at}),
            At(v, {i \in Positions(v, Figure) : at # 0 /\ i > at}), currency)

NormalizeSeparators(v, currency) ==
  IF v = <<>> THEN Unread("invalid amount") ELSE SplitAt(v, DecimalAt(v), currency)

ReadMapped(mapped, currency) ==
  IF currency \notin {"", "EUR"} THEN Read(<<>>, currency)
  ELSE NormalizeSeparators(At(mapped, Positions(mapped, Figure \cup Separators)), currency)

ReadLeniently(t) == ReadMapped(MapOCR(t), DetectCurrency(MapOCR(t)))

-----------------------------------------------------------------------------
Number(figures) == FoldLeft(LAMBDA n, d : 10 * n + Worth[d], 0, figures)

\* The figures before and after the separator of a text that is Plain.
Whole(t) == At(t, {i \in DOMAIN t : \A j \in 1..i : t[j] \in Figure})

Frac(t) == SubSeq(t, Len(Whole(t)) + 2, Len(t))

\* Fault: a single figure after the separator counts cents.
CentsUnpadded(t) == 100 * Number(Whole(t)) + Number(Frac(t))

\* The fraction counts as if it had two figures.
Cents(t) == 100 * Number(Whole(t)) + Number(Frac(t)) * (IF Len(Frac(t)) = 1 THEN 10 ELSE 1)

Refusal(e) == [error |-> e, cents |-> 0]

\* The checks on what has been read of a text.
Accept(read) ==
  IF read.error # "" THEN Refusal(read.error)
  ELSE IF read.currency \notin {"", "EUR"} THEN Refusal("unsupported currency")
  ELSE IF ~Plain(read.text, Separators) THEN Refusal("invalid amount")
  ELSE [error |-> "", cents |-> Cents(read.text)]

TrimSpaces(t) ==
  At(t, {i \in DOMAIN t : \E j, k \in DOMAIN t : j <= i /\ i <= k /\ t[j] # " " /\ t[k] # " "})

ParseTrimmed(v, format, lenient) ==
  IF v = <<>> THEN Refusal("amount is required")
  ELSE IF format \notin Formats \/ (format = "auto_eur_lenient" /\ ~lenient)
       THEN Refusal("unsupported amount_format")
  ELSE Accept(IF format = "auto_eur_lenient" \/ (format = "auto" /\ lenient)
              THEN ReadLeniently(v) ELSE ReadStrictly(v, format))

\* parseAmountEUR; lenient is AMOUNT_LENIENT_OCR.
ParseAmount(t, format, lenient) == ParseTrimmed(TrimSpaces(t), format, lenient)
=============================================================================
