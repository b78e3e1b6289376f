--------------------------- MODULE MCSepaService ---------------------------
(***************************************************************************)
(* Instances of SepaService for TLC.                                        *)
(***************************************************************************)
EXTENDS SepaService, TLC

CONSTANTS branded, plain,   \* API keys with and without a logo
          stranger,         \* an API key that keys.json does not have
          logoFile,         \* the path of branded's logo
          blue, red         \* the styles of branded and plain

MCLogoOf == branded :> logoFile @@ plain :> None

MCStyleOf == branded :> blue @@ plain :> red

MCChar == {"a", "p", "x", "y", Bar}

\* An entry has fifteen fields; of those only the name is filled in here.
Entry(name) == <<name>> \o [i \in 1..14 |-> Bar]

MCKeyText == branded :> Entry("x") @@ plain :> Entry("y")

MCSizeText == [k \in ApiKey \cup {None} |-> <<Bar, Bar>>]

\* Payments that differ in one free text, and two whose bars are elsewhere.
Payment(ref, info) ==
  [name |-> <<"x">>, iban |-> <<"y">>, bic |-> <<>>, purpose |-> <<>>,
   ref |-> ref, text |-> <<>>, info |-> info, cents |-> <<"x">>]

first == Payment(<<"x">>, <<>>)
second == Payment(<<>>, <<"y">>)
barInRef == Payment(<<"x", Bar>>, <<"y">>)
barInInfo == Payment(<<"x">>, <<Bar, "y">>)

Get(key, payment) ==
  [endpoint |-> "qr", method |-> "GET", query |-> TRUE, header |-> key, bearer |-> None,
   queryKey |-> None, fault |-> None, payment |-> payment]

Post(key, payment) == [Get(key, payment) EXCEPT !.method = "POST", !.query = FALSE]

Validate(key, fault) == [Post(key, first) EXCEPT !.endpoint = "validate", !.fault = fault]

\* One payment for two keys.
MCDrawn == {Get(branded, first), Get(plain, first)}

\* Requests that are not drawn, one for each place at which a handler gives up.
MCTurnedAway ==
  {[Get(None, first) EXCEPT !.method = "OPTIONS"],
   [Validate(None, None) EXCEPT !.method = "GET"],
   [Get(stranger, first) EXCEPT !.method = "HEAD", !.query = FALSE],
   Get(stranger, first),
   [Validate(None, "invalid_json") EXCEPT !.bearer = plain],
   [Get(None, second) EXCEPT !.queryKey = plain, !.fault = "qr_encode_failed"],
   Validate(None, None),
   Validate(plain, None)}

MCRequest == MCDrawn \cup MCTurnedAway

MCBars == {Get(None, barInRef), Get(None, barInInfo)}

\* The requests of this instance meet what the theorem about cache keys asks for.
ASSUME MCTellsApart == Request = MCRequest => NoBars /\ PrintsTellStyles

MCSymmetry == Permutations(Proc)
=============================================================================
