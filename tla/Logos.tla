------------------------------- MODULE Logos -------------------------------
(***************************************************************************)
(* The logo of an image, as handleSEPA of src/server/server.go gets it: from *)
(* the logo cache, or else from its file, and if the file cannot be read a   *)
(* line in the log says so, unless there is one already.  Any number of      *)
(* handlers do this at a time, and the files change under their hands.       *)
(***************************************************************************)
EXTENDS LogoCache, LogLimiter

CONSTANTS Logo,    \* what a logo file can contain: images with their size
          Config   \* the configurations of API keys that have a logo: name and file

ASSUME LogosAssumption ==
  /\ Config \subseteq [name : LogKey, logoPath : Path]
  /\ Missing \notin Logo /\ \A logo \in Logo : logo.size \in Nat
  /\ MaxBytes \in Nat

VARIABLES logoCache,  \* the cache
          disk,       \* disk[f]: what file f contains, Missing while it cannot be read
          pc,         \* pc[p]: where p is
          cfg,        \* cfg[p]: the configuration of the key it serves
          logoImg,    \* logoImg[p]: the logo p overlays, Missing if it has none
          missed      \* history: missed[p]: when p's load failed, or None

logosVars == <<logoCache, disk, pc, cfg, logoImg, missed>>

LogosInit == /\ LogInit
             /\ logoCache = NewLogoCache
             /\ disk \in [Path -> Logo \cup {Missing}]
             /\ pc = [p \in Proc |-> "idle"]
             /\ cfg = [p \in Proc |-> None]
             /\ logoImg = [p \in Proc |-> Missing]
             /\ missed = [p \in Proc |-> None]

Goto(p, l) == pc' = [pc EXCEPT ![p] = l]

\* An image is drawn for a key with a logo.
Begin(p) ==
  /\ pc[p] = "idle"
  /\ \E k \in Config : cfg' = [cfg EXCEPT ![p] = k]
  /\ Goto(p, "lookup")
  /\ logoImg' = [logoImg EXCEPT ![p] = Missing]
  /\ missed' = [missed EXCEPT ![p] = None]
  /\ UNCHANGED <<logVars, logoCache, disk>>

Lookup(p) ==
  /\ pc[p] = "lookup"
  /\ logoCache' = AfterGet(logoCache, cfg[p].logoPath)
  /\ logoImg' = [logoImg EXCEPT ![p] = Got(logoCache, cfg[p].logoPath)]
  /\ Goto(p, IF Hit(logoCache, cfg[p].logoPath) THEN "idle" ELSE "load")
  /\ UNCHANGED <<logVars, disk, cfg, missed>>

Load(p) ==
  /\ pc[p] = "load"
  /\ disk[cfg[p].logoPath] # Missing
  /\ logoImg' = [logoImg EXCEPT ![p] = disk[cfg[p].logoPath]]
  /\ Goto(p, "keep")
  /\ UNCHANGED <<logVars, logoCache, disk, cfg, missed>>

Keep(p) ==
  /\ pc[p] = "keep"
  /\ logoCache' = AfterSet(logoCache, cfg[p].logoPath, logoImg[p])
  /\ Goto(p, "idle")
  /\ UNCHANGED <<logVars, disk, cfg, logoImg, missed>>

\* The file cannot be read: Logf, under the key's configured name.
LoadFails(p) ==
  /\ pc[p] = "load"
  /\ disk[cfg[p].logoPath] = Missing
  /\ Logf(p, cfg[p].name)
  /\ missed' = [missed EXCEPT ![p] = clock]
  /\ Goto(p, "log")
  /\ UNCHANGED <<logoCache, disk, cfg, logoImg>>

\* Logf goes on; when it returns, the image goes out without its logo.
Logging(p) ==
  /\ pc[p] = "log"
  /\ LogStep(p)
  /\ Goto(p, IF logging'[p] = None THEN "idle" ELSE "log")
  /\ UNCHANGED <<logoCache, disk, cfg, logoImg, missed>>

\* Somebody replaces a logo file, or makes it unreadable.
FileChanges ==
  /\ \E f \in Path, content \in Logo \cup {Missing} :
       content # disk[f] /\ disk' = [disk EXCEPT ![f] = content]
  /\ UNCHANGED <<logVars, logoCache, pc, cfg, logoImg, missed>>

LogosNext ==
  \/ \E p \in Proc : Begin(p) \/ Lookup(p) \/ Load(p) \/ Keep(p) \/ LoadFails(p) \/ Logging(p)
  \/ FileChanges
  \/ LogTick /\ UNCHANGED logosVars

LogosSpec == LogosInit /\ [][LogosNext]_<<logVars, logosVars>>

-----------------------------------------------------------------------------
\* Through every mix of hits, insertions, replacements by larger logos and evictions
\* the list, the index and the byte count of the logo cache describe one another.
BooksAgree == BooksBalance(logoCache)

\* For its callers the logo cache is a map that may forget: a handler overlays what
\* its file contains, or what the latest handler that has read it had it keep, and
\* never the logo of another file.
Map == INSTANCE LogoMap WITH
         Fits    <- {logo \in Logo : Admissible(logo)},
         logos   <- [f \in Path |-> Got(logoCache, f)],
         held    <- logoImg,
         keeping <- [p \in Proc |-> IF pc[p] = "keep" THEN cfg[p].logoPath ELSE Missing]

ImplementsLogoMap == Map!Spec

\* Nobody gets an image without its logo in silence: the log has a line with the
\* key's name, or one is about to be printed, that was decided less than an interval
\* before the failure or, by a caller that overtook it, at most MaxDelay after.
MissingLogoIsLogged ==
  \A p \in Proc : missed[p] # None /\ logging[p] = None =>
    \E t \in Times : /\ Lines(cfg[p].name, t)
                     /\ missed[p] - Interval < t /\ t <= missed[p] + MaxDelay
=============================================================================
