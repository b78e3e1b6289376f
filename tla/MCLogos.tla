------------------------------ MODULE MCLogos ------------------------------
(***************************************************************************)
(* An instance of Logos for TLC: two keys of one name and two files, with   *)
(* logos that fit together, alone, and not at all.                          *)
(***************************************************************************)
EXTENDS Logos, TLC

CONSTANTS shop,       \* the name of both API keys
          bull, cup   \* logo files

MCLogo == {[id |-> "small", size |-> 1], [id |-> "large", size |-> 3], [id |-> "huge", size |-> 4]}

MCConfig == {[name |-> shop, logoPath |-> bull], [name |-> shop, logoPath |-> cup]}

MCSymmetry == Permutations(Proc)
=============================================================================
