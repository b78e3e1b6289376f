------------------------------ MODULE LogoMap ------------------------------
(***************************************************************************)
(* What the handlers may rely on of the logo cache: a map from files to the *)
(* logos last kept for them, which may forget any of them whenever one is   *)
(* kept.  A handler holds what the map has, or what the file contains, and  *)
(* what it has read from the file is what it asks the map to keep.  A logo   *)
(* too large to keep leaves the map as it is, with what it held before.     *)
(***************************************************************************)
CONSTANTS Proc,    \* the goroutines that serve requests
          Path,    \* the files
          Logo,    \* what can be read from them
          Fits,    \* those that are small enough to keep
          Missing  \* nothing

VARIABLES disk,     \* disk[f]: what file f contains, or Missing
          logos,    \* logos[f]: the logo kept for f, or Missing
          held,     \* held[p]: the logo that p overlays, or Missing
          keeping   \* keeping[p]: the file p has read and is to keep, or Missing

mapVars == <<disk, logos, held, keeping>>

Init == /\ disk \in [Path -> Logo \cup {Missing}]
        /\ logos = [f \in Path |-> Missing]
        /\ held = [p \in Proc |-> Missing]
        /\ keeping = [p \in Proc |-> Missing]

Hold(p, logo) == held' = [held EXCEPT ![p] = logo] /\ UNCHANGED <<disk, logos>>

Start(p) == keeping[p] = Missing /\ Hold(p, Missing) /\ UNCHANGED keeping

Look(p, f) == keeping[p] = Missing /\ Hold(p, logos[f]) /\ UNCHANGED keeping

Read(p, f) == /\ keeping[p] = Missing /\ disk[f] # Missing
              /\ Hold(p, disk[f])
              /\ keeping' = [keeping EXCEPT ![p] = f]

\* What p has read is kept, unless it is forgotten at once; others may be forgotten.
Keep(p, f) ==
  /\ keeping[p] = f
  /\ keeping' = [keeping EXCEPT ![p] = Missing]
  /\ IF held[p] \in Fits
     THEN \E forgotten \in SUBSET Path :
            logos' = [g \in Path |-> IF g \in forgotten THEN Missing
                                     ELSE IF g = f THEN held[p] ELSE logos[g]]
     ELSE UNCHANGED logos
  /\ UNCHANGED <<disk, held>>

Change(f) == /\ \E content \in Logo \cup {Missing} : disk' = [disk EXCEPT ![f] = content]
             /\ UNCHANGED <<logos, held, keeping>>

Next == \/ \E p \in Proc : Start(p) \/ \E f \in Path : Look(p, f) \/ Read(p, f) \/ Keep(p, f)
        \/ \E f \in Path : Change(f)

Spec == Init /\ [][Next]_mapVars
=============================================================================
