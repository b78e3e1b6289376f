------------------------------ MODULE TlsFiles ------------------------------
(***************************************************************************)
(* The certificate and the key the server presents over TLS, from ensureTLS *)
(* and generateSelfSigned in src/server/tls.go to ListenAndServeTLS: two    *)
(* files, written one after the other, by a process that may be killed or   *)
(* fail at any point and that systemd then starts again.                    *)
(*                                                                          *)
(* A file holds one half of a pair, identified by the pair: Operator's, or  *)
(* the n-th generated one.  Torn is a file that has been created or         *)
(* truncated and not yet written completely.                                *)
(***************************************************************************)
EXTENDS Naturals

CONSTANTS Operator,   \* the pair an operator has installed
          Torn,       \* an incomplete file
          Absent,     \* no such file
          MaxDeaths   \* bound on the processes that are killed or fail to write

ASSUME FilesAssumption == /\ MaxDeaths \in Nat
                          /\ Torn # Absent /\ Operator # Absent /\ Operator # Torn
                          /\ {Torn, Absent, Operator} \cap Nat = {}

VARIABLES auto,       \* TLS_AUTO_SELF_SIGNED
          cert, key,  \* what the two files hold
          pc,         \* where the process is; "down" when systemd will start the next,
                      \* "stopped" when only the operator will
          made,       \* the pairs generated so far; the last is the process's own
          deaths,     \* processes killed or failed in writing so far
          spoiled     \* history: one of them left two files that are no pair

pairFiles == <<cert, key>>
tlsVars == <<auto, cert, key, pc, made, deaths, spoiled>>

TlsInit == /\ auto \in BOOLEAN
           /\ cert \in {Absent, Operator}
           /\ key \in {Absent, Operator}
           /\ pc = "down"
           /\ made = 0
           /\ deaths = 0
           /\ spoiled = FALSE

\* tls.LoadX509KeyPair accepts the files.
Loads == cert = key /\ cert \notin {Absent, Torn}

\* Two files that are there, but that no server can present.
Mismatched == cert # Absent /\ key # Absent /\ ~Loads

-----------------------------------------------------------------------------
\* systemd starts a process.
Start == /\ pc = "down"
         /\ pc' = "ensure"
         /\ UNCHANGED <<auto, pairFiles, made, deaths, spoiled>>

\* The operator starts one again, or never does.
StartAgain == /\ pc = "stopped"
              /\ pc' = "ensure"
              /\ UNCHANGED <<auto, pairFiles, made, deaths, spoiled>>

\* Fault: one file is taken for the pair.
OneFileFound == cert # Absent \/ key # Absent

\* Fault: no file is found.
NoFileFound == FALSE

PairFound == cert # Absent /\ key # Absent

\* ensureTLS uses the files if both are there, whatever they hold.
UseFiles == /\ pc = "ensure"
            /\ PairFound
            /\ pc' = "listen"
            /\ UNCHANGED <<auto, pairFiles, made, deaths, spoiled>>

Refuse == /\ pc = "ensure"
          /\ ~PairFound
          /\ ~auto
          /\ pc' = "down"
          /\ UNCHANGED <<auto, pairFiles, made, deaths, spoiled>>

\* generateSelfSigned: a new pair in memory, then the certificate, then the key.
GeneratePair == /\ pc = "ensure"
                /\ ~PairFound
                /\ auto
                /\ made' = made + 1
                /\ pc' = "open cert"
                /\ UNCHANGED <<auto, pairFiles, deaths, spoiled>>

OpenCert == /\ pc = "open cert"
            /\ cert' = Torn
            /\ pc' = "write cert"
            /\ UNCHANGED <<auto, key, made, deaths, spoiled>>

WriteCert == /\ pc = "write cert"
             /\ cert' = made
             /\ pc' = "open key"
             /\ UNCHANGED <<auto, key, made, deaths, spoiled>>

\* Fault: the certificate's path is opened again.
OpenKeyAtCert == /\ pc = "open key"
                 /\ cert' = Torn
                 /\ pc' = "write key"
                 /\ UNCHANGED <<auto, key, made, deaths, spoiled>>

OpenKey == /\ pc = "open key"
           /\ key' = Torn
           /\ pc' = "write key"
           /\ UNCHANGED <<auto, cert, made, deaths, spoiled>>

WriteKey == /\ pc = "write key"
            /\ key' = made
            /\ pc' = "verify"
            /\ UNCHANGED <<auto, cert, made, deaths, spoiled>>

\* The sanity check loads the pair that was written, as ListenAndServeTLS does.
Verify == /\ pc = "verify"
          /\ pc' = IF Loads THEN "listen" ELSE "down"
          /\ UNCHANGED <<auto, pairFiles, made, deaths, spoiled>>

ListenTLS == /\ pc = "listen"
             /\ Loads
             /\ pc' = "serving"
             /\ UNCHANGED <<auto, pairFiles, made, deaths, spoiled>>

\* The pair does not load: the process ends with status 1.
ListenFails == /\ pc = "listen"
               /\ ~Loads
               /\ pc' = "down"
               /\ UNCHANGED <<auto, pairFiles, made, deaths, spoiled>>

Work == \/ UseFiles \/ Refuse \/ GeneratePair
        \/ OpenCert \/ WriteCert \/ OpenKey \/ WriteKey \/ Verify
        \/ ListenTLS \/ ListenFails

-----------------------------------------------------------------------------
\* The end of a process that leaves the files as they are.
Ends == /\ deaths < MaxDeaths
        /\ deaths' = deaths + 1
        /\ pc' = "down"
        /\ spoiled' = IF Mismatched THEN TRUE ELSE spoiled
        /\ UNCHANGED <<auto, pairFiles, made>>

\* The process is killed before it serves.
Dies == pc \notin {"down", "stopped", "serving"} /\ Ends

\* A process that serves is killed, or stopped by the operator: the files are done with.
Stops == /\ pc = "serving"
         /\ pc' \in {"down", "stopped"}
         /\ UNCHANGED <<auto, pairFiles, made, deaths, spoiled>>

\* A file cannot be opened or written: ensureTLS returns the error.
WriteFails == pc \in {"open cert", "write cert", "open key", "write key"} /\ Ends

TlsNext == Start \/ StartAgain \/ Work \/ Dies \/ WriteFails \/ Stops

TlsSpec == TlsInit /\ [][TlsNext]_tlsVars

\* systemd starts a process that failed again (Restart=on-failure), and a process runs.
TlsFairness == WF_tlsVars(Start) /\ WF_tlsVars(Work)

TlsFairSpec == TlsSpec /\ TlsFairness

-----------------------------------------------------------------------------
FilesOK == /\ deaths \in 0..MaxDeaths
           /\ made \in 0..(MaxDeaths + 1)
           /\ cert \in {Absent, Torn, Operator} \/ cert \in 1..made
           /\ key \in {Absent, Torn, Operator} \/ key \in 1..made

\* Type invariant of the files and of the process that makes them.
TlsTypeOK == /\ auto \in BOOLEAN /\ spoiled \in BOOLEAN
             /\ FilesOK
             /\ pc \in {"down", "stopped", "ensure", "open cert", "write cert", "open key",
                        "write key", "verify", "listen", "serving"}

\* However many processes have been killed or failed half-way before: a process
\* that comes to listen has a pair it can present, unless one of them left two
\* files that are none.
BadPairOnlyAfterDeath == pc = "listen" /\ ~Loads => spoiled = TRUE

\* Death spoils the files only through the key, which is written last: between
\* two processes, files that are no pair have a torn key or an operator's key
\* whose certificate was missing.  A torn certificate alone is made again.
SpoiledOnlyThroughKey ==
  pc \in {"down", "stopped", "ensure"} /\ Mismatched => key \in {Torn, Operator}

\* With TLS_AUTO_SELF_SIGNED a process that has failed is followed by one that
\* serves, or the files are spoiled; no other failure repeats for ever.
ServesOrSpoiled == auto /\ pc = "down" ~> pc = "serving" \/ Mismatched

-----------------------------------------------------------------------------
(* The invariant the proofs are by induction on.                            *)

\* What the files can hold while no process is writing them.
AtRest == /\ key \notin {Absent, Torn, Operator} => Loads
          /\ key = Torn => cert # Absent
          /\ Mismatched => spoiled = TRUE
          /\ ~PairFound => made <= deaths

\* What they hold at each step of generateSelfSigned.
OldKey == key \in {Absent, Operator}

Halfway ==
  /\ pc = "open cert" => ~PairFound /\ OldKey
  /\ pc = "write cert" => cert = Torn /\ OldKey
  /\ pc = "open key" => cert = made /\ OldKey
  /\ pc = "write key" => cert = made /\ key = Torn
  /\ pc = "verify" => cert = made /\ key = made

Generating == {"open cert", "write cert", "open key", "write key", "verify"}

TlsInv == /\ TlsTypeOK
          /\ pc \in {"down", "stopped", "ensure", "listen", "serving"} => AtRest
          /\ pc \in {"listen", "serving"} => PairFound
          /\ pc = "serving" => Loads
          /\ pc \in Generating => made \in 1..(deaths + 1)
          /\ Halfway
=============================================================================
