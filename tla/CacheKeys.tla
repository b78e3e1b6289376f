------------------------------ MODULE CacheKeys ------------------------------
(***************************************************************************)
(* How buildCacheKey in src/server/server.go puts the key of an image        *)
(* together: fields one after the other, with a bar behind each but the last *)
(* one, and nothing that marks a bar within a field.  The hash it takes of    *)
(* them is left out: no two texts with one hash are assumed.                *)
(***************************************************************************)
EXTENDS Sequences, FiniteSets

CONSTANT Bar   \* the character "|"

Field(text, rest) == text \o <<Bar>> \o rest

\* Where the bars of a text are.
Bars(text) == {i \in DOMAIN text : text[i] = Bar}

Barless(text) == \A i \in DOMAIN text : text[i] # Bar
=============================================================================
