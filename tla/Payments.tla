------------------------------ MODULE Payments ------------------------------
(***************************************************************************)
(* From the fields of a request to the text of its QR code: inputFromQuery, *)
(* CleanAndValidate, BuildEPCPayload, and the field that an error names.    *)
(*                                                                          *)
(* Free texts are sequences of symbols: letters, spaces and line breaks.    *)
(* An IBAN and an amount are as in Iban and Amounts.  Whether a BIC matches *)
(* its regular expression is in its value; folding case, and the spaces     *)
(* around a scheme, an IBAN, a BIC and a format, are left out.              *)
(***************************************************************************)
EXTENDS Amounts, FiniteSets

CONSTANTS Input,      \* the fields that are sent
          Good,       \* an input nothing is wrong with
          Payee,      \* the account numbers the senders mean to write
          Limit,      \* Limit[f]: characters of the free text f that are kept
          MaxCents,   \* 99999999999
          Symbol,     \* what texts consist of
          None        \* nothing

VARIABLES in,        \* the fields of the request
          lenient,   \* AMOUNT_LENIENT_OCR
          at,        \* received, cleaned, built or refused
          error,     \* what the request is refused for, or None
          clean,     \* the fields once they are validated, or None
          payload    \* the text of the QR code, or None

vars == <<in, lenient, at, error, clean, payload>>

LineBreak == "LF"

FreeTexts == {"name", "purpose", "remittance_reference", "remittance_text", "information"}

\* In the order in which inputFromQuery asks for them.
Fields == <<"scheme", "name", "iban", "bic", "amount", "amount_format", "purpose",
            "remittance_reference", "remittance_text", "information">>

\* The fields of a request; a text is the sequence of its symbols.
IsInput(i) ==
  /\ DOMAIN i = ToSet(Fields) \cup {"twice"}
  /\ \A f \in FreeTexts \cup {"iban", "amount"} : i[f] \in Seq(Symbol)
  /\ i.bic \in Symbol
  /\ i.twice \subseteq ToSet(Fields)

ASSUME PaymentsAssumption ==
  /\ Limit \in [FreeTexts -> Nat \ {0}] /\ MaxCents \in Nat
  /\ \A i \in Input : IsInput(i)
  /\ \A p \in Payee : p \in Seq(Symbol) /\ ValidIBAN(p)
  /\ Figure \cup Letter \cup Separators \subseteq Symbol
  /\ {" ", LineBreak, "BCD", "001", "SCT", "EUR", "GDDS"} \subseteq Symbol
  /\ None \notin Seq(Symbol)

Init == /\ in \in Input
        /\ lenient \in BOOLEAN
        /\ at = "received"
        /\ error = None /\ clean = None /\ payload = None

-----------------------------------------------------------------------------
IsSpace(c) == c \in {" ", LineBreak}

Trim(t) == At(t, {i \in DOMAIN t : \E j, k \in DOMAIN t :
                    j <= i /\ i <= k /\ ~IsSpace(t[j]) /\ ~IsSpace(t[k])})

\* truncateRunes
Truncated(f, t) == SubSeq(t, 1, IF Len(t) < Limit[f] THEN Len(t) ELSE Limit[f])

\* Fault: a text is cut before it is trimmed, and may end up empty.
TextTruncatedFirst(i, f) == Trim(Truncated(f, i[f]))

\* A free text is trimmed first, and cut at its limit later.
Text(i, f) == Truncated(f, Trim(i[f]))

Purpose(i) == IF Trim(i.purpose) = <<>> THEN <<"GDDS">> ELSE Text(i, "purpose")

Amount(i) == ParseAmount(i.amount, i.amount_format, lenient)

\* The query parameters given more than once, by their places; the first is told.
Duplicates(i) == {n \in DOMAIN Fields : Fields[n] \in i.twice}

\* The checks of CleanAndValidate in their order, each with its error.
ChecksWith(i, amount, ref, text) ==
  <<[fails |-> i.scheme \notin {"", "epc_sct"}, error |-> "unsupported scheme"],
    [fails |-> Trim(i.name) = <<>>,      error |-> "name is required"],
    [fails |-> i.iban = <<>>,            error |-> "iban is required"],
    [fails |-> ~ValidIBAN(i.iban),       error |-> "invalid iban"],
    [fails |-> i.bic = "",               error |-> "bic is required"],
    [fails |-> i.bic = "malformed",      error |-> "invalid bic"],
    [fails |-> amount.error # "",        error |-> amount.error],
    [fails |-> amount.cents <= 0,        error |-> "amount must be > 0"],
    [fails |-> amount.cents > MaxCents,  error |-> "amount too large"],
    [fails |-> ref # <<>> /\ text # <<>>, error |-> "mutually exclusive"]>>

Checks(i) == ChecksWith(i, Amount(i), Text(i, "remittance_reference"), Text(i, "remittance_text"))

\* What is wrong with an input, None if nothing is; of is a duplicate's field.
FirstOf(duplicates, checks) ==
  LET failing == {n \in DOMAIN checks : checks[n].fails}
  IN  IF duplicates # {} THEN [msg |-> "duplicate query parameter",
                               of |-> Fields[Min(duplicates)]]
      ELSE IF failing # {} THEN [msg |-> checks[Min(failing)].error, of |-> ""]
      ELSE None

Fault(i) == FirstOf(Duplicates(i), Checks(i))

Validated(i) ==
  [bic |-> i.bic, name |-> Text(i, "name"), iban |-> i.iban, cents |-> Amount(i).cents,
   purpose |-> Purpose(i), reference |-> Text(i, "remittance_reference"),
   text |-> Text(i, "remittance_text"), information |-> Text(i, "information")]

-----------------------------------------------------------------------------
\* server.go compares messages, which validate writes, to name a field.
FieldOf ==
  {<<"unsupported currency", "amount">>, <<"unsupported amount_format", "amount_format">>,
   <<"unsupported scheme", "scheme">>, <<"name is required", "name">>,
   <<"iban is required", "iban">>, <<"invalid iban", "iban">>,
   <<"bic is required", "bic">>, <<"invalid bic", "bic">>,
   <<"amount is required", "amount">>, <<"invalid amount", "amount">>,
   <<"amount must be > 0", "amount">>, <<"amount too large", "amount">>,
   <<"mutually exclusive", "remittance_reference">>}

\* By the whole message, which for a duplicate differs with the parameter.
FieldFromWholeMessage(e) ==
  IF \E f \in ToSet(Fields) : <<e.msg, f>> \in FieldOf
  THEN CHOOSE f \in ToSet(Fields) : <<e.msg, f>> \in FieldOf ELSE ""

\* An error is no nothing.
ASSUME NoneAssumption ==
  None \notin [msg : {"duplicate query parameter"} \cup {e[1] : e \in FieldOf},
               of : {""} \cup ToSet(Fields)]

FieldFromValidationError(e) ==
  IF e.of # "" THEN e.of ELSE FieldFromWholeMessage(e)

Digits[n \in Nat] == IF n < 10 THEN <<Figures[n + 1]>>
                     ELSE Append(Digits[n \div 10], Figures[(n % 10) + 1])

\* The largest amount has fewer figures than the regular expressions take.
ASSUME LargestAssumption == Len(Digits[MaxCents \div 100]) < MaxWhole

\* "%d.%02d", with the separator of the format.
Printed(cents, separator) ==
  Digits[cents \div 100] \o <<separator>>
    \o <<Figures[((cents % 100) \div 10) + 1], Figures[(cents % 10) + 1]>>

Lines(c) == <<<<"BCD">>, <<"001">>, <<"1">>, <<"SCT">>, <<c.bic>>, c.name, c.iban,
              <<"EUR">> \o Printed(c.cents, "."), c.purpose, c.reference, c.text,
              c.information>>

\* strings.Join(lines, "\n")
Joined(lines) ==
  FoldLeft(LAMBDA s, l : s \o <<LineBreak>> \o l, lines[1], SubSeq(lines, 2, Len(lines)))

\* BuildEPCPayload: it repeats some of the checks, and None if they fail.
Payload(c) ==
  IF \/ c.name = <<>> \/ c.iban = <<>> \/ c.bic = "" \/ c.cents <= 0
     \/ (c.reference # <<>> /\ c.text # <<>>)
  THEN None ELSE Joined(Lines(c))

-----------------------------------------------------------------------------
\* The request is answered with invalid_input and the field of the error.
Refuse == /\ at = "received" /\ Fault(in) # None
          /\ error' = Fault(in)
          /\ at' = "refused"
          /\ UNCHANGED <<in, lenient, clean, payload>>

Clean == /\ at = "received" /\ Fault(in) = None
         /\ clean' = Validated(in)
         /\ at' = "cleaned"
         /\ UNCHANGED <<in, lenient, error, payload>>

\* The handler answers payload_build_failed if this payload is None.
Build == /\ at = "cleaned"
         /\ payload' = Payload(clean)
         /\ at' = "built"
         /\ UNCHANGED <<in, lenient, error, clean>>

Next == Refuse \/ Clean \/ Build

Spec == Init /\ [][Next]_vars

-----------------------------------------------------------------------------
\* Nothing is wrong with any field of Good, in whatever format its amount is read.
ASSUME GoodAssumption ==
  /\ IsInput(Good)
  /\ Good.scheme \in {"", "epc_sct"} /\ Trim(Good.name) # <<>>
  /\ Good.iban # <<>> /\ ValidIBAN(Good.iban) /\ Good.bic \notin {"", "malformed"}
  /\ Good.amount_format \in Formats \ {"auto_eur_lenient"}
  /\ Text(Good, "remittance_reference") = <<>>
  /\ \A format \in Formats, l \in BOOLEAN :
       LET read == ParseAmount(Good.amount, format, l)
       IN  /\ read.error \in {"", "unsupported amount_format"}
           /\ read.error = "" => read.cents \in 1..MaxCents

Repaired(i, f) == [i EXCEPT ![f] = Good[f], !.twice = @ \ {f}]

\* Every refusal names a field, and rightly: with that field put right, the
\* others being what they are, it is not named again.
FieldAtFault ==
  at = "refused" =>
    \E f \in ToSet(Fields) :
      /\ f = FieldFromValidationError(error)
      /\ \A rest \in {Fault(Repaired(in, f))} \ {None} : FieldFromValidationError(rest) # f

\* The word EURO between figures: its O passes for a zero.
EuroWithin(t) == \E i, j \in DOMAIN t : i < j /\ t[i] \in Figure /\ t[j] = "O" /\ NumericNeighbor(t, j)

Readings(t) == {ParseAmount(t, format, l) : format \in Formats, l \in BOOLEAN}

\* No two formats take the same text for different amounts: the wrong format
\* may refuse a text, but never changes what is paid.
FormatsAgree ==
  at = "received" /\ ~EuroWithin(in.amount) =>
    \A r, s \in Readings(in.amount) : r.error = "" /\ s.error = "" => r.cents = s.cents

Separator(format) == IF format = "eur_dot" THEN "." ELSE ","

\* The mark goes before every third figure from the end.
Punctuated(whole, mark) ==
  FoldLeftDomain(LAMBDA t, i : t \o <<whole[i]>> \o
                   (IF i < Len(whole) /\ (Len(whole) - i) % 3 = 0 THEN mark ELSE <<>>), <<>>, whole)

\* The ways to write an amount in a format: grouped as it says, and without
\* final zeros after the separator, or without the separator.
Written(cents, format) ==
  LET whole == Digits[cents \div 100]
      n == Len(whole)
      mark == IF GroupMark(format) = "" THEN <<>> ELSE <<GroupMark(format)>>
      grouped == Punctuated(whole, mark)
      frac == SubSeq(Printed(cents, "."), n + 2, n + 3)
      fracs == {<<Separator(format)>> \o frac}
               \cup (IF cents % 10 = 0 THEN {<<Separator(format), frac[1]>>} ELSE {})
               \cup (IF cents % 100 = 0 THEN {<<>>} ELSE {})
  IN  {grouped \o f : f \in fracs}

Explicit == Formats \ {"auto", "auto_eur_lenient"}

\* An amount that is accepted, written in any of the explicit formats, with
\* or without a currency mark, is read as itself: in that format and, by the
\* lenient one, without being told the format.
AmountReadsBack ==
  at = "built" =>
    \A format \in Explicit : \A t \in Written(clean.cents, format) :
      \A mark \in {<<>>, <<"EUR", " ">>, <<"EUR", "O", " ">>} :
        /\ ParseAmount(mark \o t, format, lenient).cents = clean.cents
        /\ ParseAmount(mark \o t, "auto_eur_lenient", TRUE).cents = clean.cents

Lenient == lenient /\ in.amount_format \in {"auto", "auto_eur_lenient"}

\* A foreign mark is never swallowed by what removes the euro's: an amount
\* that names the dollar is refused in every format, beside the euro too, and
\* one that names the pound by every reading but the lenient one.
ForeignRefusedStrictly ==
  at = "cleaned" =>
    /\ ~Holds(in.amount, "USD")
    /\ ~Lenient => ~Holds(in.amount, "GBP")

\* "Non-EUR currencies are still rejected" by the lenient format (CONFIG.md:151).
ForeignRejected ==
  at = "cleaned" => ~Holds(in.amount, "USD") /\ ~Holds(in.amount, "GBP")

Mistyped == UNION {Slips(iban) : iban \in Payee}

\* A slip in the account number never goes through.
NoMistypedPayee == at = "cleaned" => in.iban \notin Mistyped

\* What has been validated always has a payload: the checks that
\* BuildEPCPayload repeats agree with those of CleanAndValidate, so that
\* payload_build_failed is never answered.
PayloadNeverFails == at = "built" => payload # None
=============================================================================
