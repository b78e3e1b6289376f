------------------------------- MODULE Iban -------------------------------
(***************************************************************************)
(* ValidIBAN of iban.go.  An IBAN is a sequence of characters; one that is   *)
(* neither a figure nor a capital letter is no character of an IBAN.        *)
(***************************************************************************)
EXTENDS Integers, SequencesExt

Figures == <<"0", "1", "2", "3", "4", "5", "6", "7", "8", "9">>

Letters == <<"A", "B", "C", "D", "E", "F", "G", "H", "I", "J", "K", "L", "M",
             "N", "O", "P", "Q", "R", "S", "T", "U", "V", "W", "X", "Y", "Z">>

Figure == ToSet(Figures)

Letter == ToSet(Letters)

\* What a character counts for: 0 to 9, and 10 to 35.
Worth == [c \in Figure \cup Letter |->
            (CHOOSE i \in 1..36 : (Figures \o Letters)[i] = c) - 1]

\* A letter counts as the two figures of its value.
Step(mod, c) ==
  IF c \in Figure THEN (mod * 10 + Worth[c]) % 97
  ELSE (((mod * 10 + (Worth[c] \div 10)) % 97) * 10 + (Worth[c] % 10)) % 97

Rearranged(iban) == SubSeq(iban, 5, Len(iban)) \o SubSeq(iban, 1, 4)

\* Fault: the checksum is not looked at.
ValidIBANUnchecked(iban) ==
  /\ Len(iban) \in 15..34
  /\ \A i \in DOMAIN iban : iban[i] \in Figure \cup Letter

ValidIBAN(iban) ==
  /\ Len(iban) \in 15..34
  /\ \A i \in DOMAIN iban : iban[i] \in Figure \cup Letter
  /\ FoldLeft(Step, 0, Rearranged(iban)) = 1

-----------------------------------------------------------------------------
\* What a slip of the pen makes of an IBAN: one character that is another of
\* its kind, or two neighbouring figures in the wrong order.
SameKind(c) == (IF c \in Figure THEN Figure ELSE Letter) \ {c}

Replaced(iban) ==
  UNION {{[iban EXCEPT ![i] = c] : c \in SameKind(iban[i])} : i \in DOMAIN iban}

Swapped(iban) ==
  {[iban EXCEPT ![i] = iban[i + 1], ![i + 1] = iban[i]] :
     i \in {j \in 1 .. Len(iban) - 1 :
              {iban[j], iban[j + 1]} \subseteq Figure /\ iban[j] # iban[j + 1]}}

Slips(iban) == Replaced(iban) \cup Swapped(iban)
=============================================================================
