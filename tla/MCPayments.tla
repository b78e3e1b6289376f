----------------------------- MODULE MCPayments -----------------------------
(***************************************************************************)
(* Instances of Payments for TLC.                                           *)
(***************************************************************************)
EXTENDS Payments

\* Account numbers with letters and figures and a correct checksum.
MCPayee == {<<"D", "E", "1", "2", "5", "0", "0", "1", "0", "5", "1", "7", "0",
              "6", "4", "8", "4", "8", "9", "8", "9", "0">>}

account == CHOOSE iban \in MCPayee : TRUE

MCLimit == [f \in FreeTexts |-> IF f = "purpose" THEN 4 ELSE 2]

MCSymbol == Figure \cup Letter \cup Separators
            \cup {" ", LineBreak, "BCD", "001", "SCT", "EUR", "USD", "GBP", "GDDS", "x"}
            \cup {"wellformed", "malformed", ""}

MCGood ==
  [scheme |-> "", name |-> <<"x">>, iban |-> account, bic |-> "wellformed",
   amount |-> <<"7">>, amount_format |-> "auto", purpose |-> <<>>,
   remittance_reference |-> <<>>, remittance_text |-> <<>>, information |-> <<>>,
   twice |-> {}]

Words == {<<"7">>, <<"0", "4">>, <<"1", "2", "3">>, <<".">>, <<",">>, <<" ">>,
          <<"EUR">>, <<"USD">>, <<"GBP">>, <<"O">>}

Shapes == {m \o <<"7">> \o s \o <<"1", "2", "3">> \o d \o f :
             m \in {<<>>, <<"EUR">>}, s, d \in {<<".">>, <<",">>, <<" ">>},
             f \in {<<"5">>, <<"0", "4">>, <<"1", "2", "3">>}}

Texts == {FlattenSeq(w) : w \in BoundedSeq(Words, 3)} \cup Shapes

AmountInputs == {[MCGood EXCEPT !.amount = t, !.amount_format = format] :
              t \in Texts, format \in Formats}

\* Every field right, missing or wrong, whatever the others are.
Faulty ==
  {[MCGood EXCEPT !.scheme = scheme, !.name = name, !.iban = iban, !.bic = bic,
                  !.amount = amount[1], !.amount_format = amount[2],
                  !.remittance_reference = ref, !.remittance_text = text] :
     scheme \in {"", "pix"}, name \in {<<" ", "x">>, <<" ">>},
     iban \in {account, <<>>, Tail(account)}, bic \in {"wellformed", "malformed", ""},
     amount \in {<<<<"7">>, "auto">>, <<<<" ">>, "auto">>, <<<<"0">>, "eur_dot">>,
                 <<<<"7">>, "other">>, <<<<"1", "2", "3", "0", "4">>, "auto">>},
     ref \in {<<>>, <<"x">>}, text \in {<<>>, <<" ", "x">>}}

Long == {[MCGood EXCEPT !.name = name, !.purpose = purpose, !.information = <<"x", " ", "x">>] :
           name \in {<<"x", " ", "x">>, <<"x", "x", "x">>, <<" ", " ", "x">>},
           purpose \in {<<" ">>, <<"x", "x", "x", "x", "x">>}}

Twice == {[MCGood EXCEPT !.twice = fields, !.name = <<>>] : fields \in SUBSET {"iban", "name"}}

Mistakes == {[MCGood EXCEPT !.iban = iban] : iban \in Mistyped}

MCInput == AmountInputs \cup Faulty \cup Long \cup Twice \cup Mistakes

\* Euros beside pounds, in every format.
MCForeign == {[MCGood EXCEPT !.amount = <<"EUR", " ", "7", " ", "GBP">>, !.amount_format = format] :
                format \in Formats}
=============================================================================
