--------------------------- MODULE LifecycleProofs ---------------------------
(***************************************************************************)
(* Proofs about Lifecycle and about TlsFiles, the files it makes.           *)
(*                                                                          *)
(* For any keys and any number of goroutines that serve requests: /readyz   *)
(* always tells the truth about missing keys.  The invariant says that      *)
(* nobody is served before main has told the server what it decided, and    *)
(* that what is missing is not changed afterwards.                          *)
(***************************************************************************)
EXTENDS Lifecycle, TlsFiles, TLAPS

LEMMA InitInvariant == Init => IInv
<1> SUFFICES ASSUME Init PROVE IInv
  OBVIOUS
<1>1. TypeOK
  <2>1. verdict \in BOOLEAN /\ ready \in BOOLEAN /\ pending \in BOOLEAN
    BY Zenon DEF Init
  <2>2. env \in Environment /\ config = NoConfig /\ keysFile \in Files
    BY Zenon DEF Init
  <2>3. /\ main = "config" /\ store = {} /\ stopper = "none" /\ server = "new"
        /\ req = [h \in Handler |-> None] /\ answer = [h \in Handler |-> None]
    BY DEF Init
  <2>4. QED
    BY <2>1, <2>2, <2>3 DEF TypeOK
<1>2. /\ main = "config"
      /\ \A h \in Handler : req[h] = None /\ answer[h] = None
  BY DEF Init
<1>3. ReadyTellsKeys
  BY <1>2, NoneAssumption DEF ReadyTellsKeys
<1>4. QED
  BY <1>1, <1>2, <1>3 DEF IInv, Told

LEMMA TypeStep == TypeOK /\ [Next]_vars => TypeOK'
<1> SUFFICES ASSUME TypeOK, [Next]_vars PROVE TypeOK'
  OBVIOUS
<1> USE DEF Next, vars, files, decided, signals, requests, Main, LoadConfig, LoadKeys, Create,
            SetReadiness, Notify, EnsureTLS, Listen, ServeReturns, Signal, Shutdown,
            ShutdownReturns, Accept, Answer, EditKeys, EditEnvironment, Restart, Goto, Exit
<1>1. env' \in Environment /\ config' \in {Load(e) : e \in Environment} \cup {NoConfig}
  BY DEF TypeOK
<1>2. keysFile' \in Files
  BY DEF TypeOK
<1>3. main' \in {"config", "load", "create", "readiness", "notify", "tls", "listen", "serve",
                 "stopped", "failed"}
  BY DEF TypeOK
<1>4. store' \subseteq ApiKey
  BY DEF TypeOK, Loaded, Files
<1>5. /\ stopper' \in {"none", "waiting", "draining", "done"}
      /\ server' \in {"new", "serving", "closed"}
  BY DEF TypeOK, ShutdownOf
<1>6. verdict' \in BOOLEAN
  BY Zenon DEF TypeOK
<1>7. ready' \in BOOLEAN
  BY Zenon DEF TypeOK
<1>8. pending' \in BOOLEAN
  BY Zenon DEF TypeOK
<1>9. req' \in [Handler -> Asks \cup {None}]
  BY DEF TypeOK
<1>10. answer' \in [Handler -> {"ready", "not ready", "image", "unauthorized", None}]
  BY DEF TypeOK, AnswerTo
<1>11. QED
  BY <1>1, <1>2, <1>3, <1>4, <1>5, <1>6, <1>7, <1>8, <1>9, <1>10, Zenon DEF TypeOK

\* The steps that decide what is missing.
Reloads == LoadConfig \/ LoadKeys \/ Restart

LEMMA MissingStep == [Next]_vars => Reloads \/ (Missing' <=> Missing)
<1> SUFFICES ASSUME [Next]_vars, ~Reloads PROVE Missing' <=> Missing
  OBVIOUS
<1>1. store' = store /\ config' = config
  BY DEF Reloads, Next, vars, files, decided, Main, Create, SetReadiness, Notify, EnsureTLS,
         Listen, ServeReturns, Signal, Shutdown, ShutdownReturns, Accept, Answer, EditKeys,
         EditEnvironment, Goto, Exit
<1>2. QED
  BY <1>1 DEF Missing, Strict

\* The verdict, and what the server is told of it.
LEMMA VerdictStep == IInv /\ [Next]_vars =>
                       /\ main' \in {"create", "readiness"} => (verdict' <=> ~Missing')
                       /\ main' \in Told => (ready' <=> ~Missing')
<1> SUFFICES ASSUME IInv, [Next]_vars
             PROVE  /\ main' \in {"create", "readiness"} => (verdict' <=> ~Missing')
                    /\ main' \in Told => (ready' <=> ~Missing')
  OBVIOUS
<1> USE DEF Told
<1>1. CASE LoadKeys
  <2>1. main' = "create" /\ store' = Loaded /\ config' = config
    BY <1>1 DEF LoadKeys, files, Goto
  <2>2. verdict' <=> ~(Strict /\ Loaded = {})
    BY <1>1, Zenon DEF LoadKeys
  <2>3. Missing' <=> Strict /\ Loaded = {}
    BY <2>1 DEF Missing, Strict
  <2>4. QED
    BY <2>1, <2>2, <2>3
<1>2. CASE LoadConfig \/ Restart
  BY <1>2 DEF LoadConfig, Restart, Goto, Exit
<1>3. CASE SetReadiness
  <2>1. main = "readiness" /\ main' = "notify" /\ (ready' <=> verdict)
    BY <1>3 DEF SetReadiness, Goto
  <2>2. ~Reloads
    BY <2>1 DEF Reloads, LoadConfig, LoadKeys, Restart
  <2>3. QED
    BY <2>1, <2>2, MissingStep DEF IInv
<1>4. CASE ~Reloads /\ ~SetReadiness
  <2>1. Missing' <=> Missing
    BY <1>4, MissingStep
  <2>2. verdict' = verdict
    BY <1>4 DEF Reloads, Next, vars, decided, Main, Create, Notify, EnsureTLS, Listen,
         ServeReturns, Signal, Shutdown, ShutdownReturns, Accept, Answer, EditKeys,
         EditEnvironment, Goto, Exit
  <2>3. main' \in Told => main \in Told /\ ready' = ready
    BY <1>4 DEF Reloads, Next, vars, decided, Main, Create, Notify, EnsureTLS, Listen,
         ServeReturns, Signal, Shutdown, ShutdownReturns, Accept, Answer, EditKeys,
         EditEnvironment, Goto, Exit
  <2>4. main' \in {"create", "readiness"} => main \in {"create", "readiness"}
    BY <1>4 DEF Reloads, Next, vars, decided, Main, Create, Notify, EnsureTLS, Listen,
         ServeReturns, Signal, Shutdown, ShutdownReturns, Accept, Answer, EditKeys,
         EditEnvironment, Goto, Exit
  <2>5. main' \in {"create", "readiness"} => (verdict' <=> ~Missing')
    BY <2>1, <2>2, <2>4, Zenon DEF IInv
  <2>6. main' \in Told => (ready' <=> ~Missing')
    BY <2>1, <2>3, Zenon DEF IInv
  <2>7. QED
    BY <2>5, <2>6
<1>5. QED
  BY <1>1, <1>2, <1>3, <1>4 DEF Reloads

\* Nobody is served before the server has been told, or after main has gone.
LEMMA ServedStep == IInv /\ [Next]_vars =>
                      /\ \A h \in Handler : req'[h] # None => main' = "serve"
                      /\ main' \in Deciding => \A h \in Handler : answer'[h] = None
<1> SUFFICES ASSUME IInv, [Next]_vars, NEW h \in Handler
             PROVE  /\ req'[h] # None => main' = "serve"
                    /\ main' \in Deciding => answer'[h] = None
  OBVIOUS
<1> USE DEF Next, vars, requests, Main, LoadConfig, LoadKeys, Create, SetReadiness, Notify,
            EnsureTLS, Listen, ServeReturns, Signal, Shutdown, ShutdownReturns, Accept, Answer,
            EditKeys, EditEnvironment, Restart, Goto, Exit
<1>1. req'[h] # None => main' = "serve"
  BY DEF IInv, TypeOK
<1>2. main' \in Deciding => answer'[h] = None
  BY DEF IInv, TypeOK, Deciding
<1>3. QED
  BY <1>1, <1>2

\* An answer that tells of readiness is given while it is true, and stays true.
LEMMA ReadyStep == IInv /\ [Next]_vars => ReadyTellsKeys'
<1> SUFFICES ASSUME IInv, [Next]_vars, NEW h \in Handler
             PROVE  /\ answer'[h] = "ready" => ~Missing'
                    /\ answer'[h] = "not ready" => Missing'
  BY DEF ReadyTellsKeys
<1>1. CASE Reloads
  <2>1. answer'[h] = None
    BY <1>1 DEF Reloads, LoadConfig, LoadKeys, Restart, requests, IInv, Deciding, Exit
  <2>2. QED
    BY <2>1, NoneAssumption
<1>2. CASE ~Reloads
  <2>1. Missing' <=> Missing
    BY <1>2, MissingStep
  <2>2. CASE answer'[h] = answer[h]
    BY <2>1, <2>2 DEF IInv, ReadyTellsKeys
  <2>3. CASE answer'[h] # answer[h]
    <3>1. answer'[h] = None \/ Answer(h)
      BY <1>2, <2>3 DEF Reloads, IInv, TypeOK, Next, vars, requests, Main, Create, SetReadiness,
           Notify, EnsureTLS, Listen, ServeReturns, Signal, Shutdown, ShutdownReturns,
           Accept, Answer, EditKeys, EditEnvironment, Goto, Exit
    <3>2. CASE Answer(h)
      <4>1. answer'[h] = AnswerTo(req[h]) /\ req[h] # None
        BY <3>2 DEF Answer, IInv, TypeOK
      <4>2. ready <=> ~Missing
        BY <4>1 DEF IInv, Told
      <4>3. /\ answer'[h] = "ready" => ready
            /\ answer'[h] = "not ready" => ~ready
        BY <4>1 DEF AnswerTo
      <4>4. QED
        BY <2>1, <4>2, <4>3
    <3>3. QED
      BY <3>1, <3>2, NoneAssumption
  <2>4. QED
    BY <2>2, <2>3
<1>3. QED
  BY <1>1, <1>2

\* The conjuncts of IInv hold together at every step of main, of the goroutine
\* that waits for the signal, and of those that serve.
THEOREM Invariance == Spec => []IInv
<1>1. IInv /\ [Next]_vars => IInv'
  <2> SUFFICES ASSUME IInv, [Next]_vars PROVE IInv'
    OBVIOUS
  <2>1. TypeOK'
    BY TypeStep DEF IInv
  <2>2. QED
    BY <2>1, VerdictStep, ServedStep, ReadyStep DEF IInv
<1>2. QED
  BY <1>1, InitInvariant, PTL DEF Spec

\* The types of the process, of what it has read and of what it has answered.
THEOREM TypeCorrect == Spec => []TypeOK
<1>1. IInv => TypeOK
  BY DEF IInv
<1>2. QED
  BY <1>1, Invariance, PTL

\* handleReady's answer is the truth about missing keys, in every interleaving.
THEOREM ReadyIsTrue == Spec => []ReadyTellsKeys
<1>1. IInv => ReadyTellsKeys
  BY DEF IInv
<1>2. QED
  BY <1>1, Invariance, PTL

-----------------------------------------------------------------------------
(* The pair of files, for any number of processes that are killed or fail   *)
(* half-way.  The invariant says, for every point of the program, what the  *)
(* two files can hold there: before a process opens the certificate the key *)
(* is one that was there from the beginning, if there is one, and only a    *)
(* death between the opening of the certificate and the end of the key      *)
(* leaves two files that are no pair.                                       *)

LEMMA Distinct ==
  /\ MaxDeaths \in Nat
  /\ Torn # Absent /\ Operator # Absent /\ Operator # Torn
  /\ Torn \notin Nat /\ Absent \notin Nat /\ Operator \notin Nat
BY FilesAssumption

LEMMA TlsInitInvariant == TlsInit => TlsInv
<1> SUFFICES ASSUME TlsInit PROVE TlsInv
  OBVIOUS
<1>1. TlsTypeOK
  <2>1. auto \in BOOLEAN /\ spoiled \in BOOLEAN
    BY Zenon DEF TlsInit
  <2>2. FilesOK /\ pc = "down"
    BY Distinct DEF TlsInit, FilesOK
  <2>3. QED
    BY <2>1, <2>2 DEF TlsTypeOK
<1>2. AtRest
  BY Distinct DEF TlsInit, AtRest, Loads, Mismatched, PairFound
<1>3. Halfway /\ pc = "down"
  BY DEF TlsInit, Halfway
<1>4. QED
  BY <1>1, <1>2, <1>3 DEF TlsInv, Generating

\* The Boolean variables and the program counter keep their types.
LEMMA FlagsStep ==
  TlsTypeOK /\ [TlsNext]_tlsVars
     => auto' \in BOOLEAN /\ spoiled' \in BOOLEAN /\ (FilesOK' => TlsTypeOK')
<1> SUFFICES ASSUME TlsTypeOK, [TlsNext]_tlsVars
             PROVE  auto' \in BOOLEAN /\ spoiled' \in BOOLEAN /\ (FilesOK' => TlsTypeOK')
  OBVIOUS
<1>1. auto \in BOOLEAN /\ spoiled \in BOOLEAN
  BY DEF TlsTypeOK
<1>2. auto' = auto
  BY DEF TlsNext, Work, tlsVars, Start, StartAgain, UseFiles, Refuse, GeneratePair, OpenCert,
         WriteCert, OpenKey, WriteKey, Verify, ListenTLS, ListenFails, Dies, WriteFails, Stops, Ends
<1>3. spoiled' \in {spoiled, TRUE}
  BY DEF TlsNext, Work, tlsVars, Start, StartAgain, UseFiles, Refuse, GeneratePair, OpenCert,
         WriteCert, OpenKey, WriteKey, Verify, ListenTLS, ListenFails, Dies, WriteFails, Stops, Ends
<1>4. pc' \in {"down", "stopped", "ensure", "open cert", "write cert", "open key",
               "write key", "verify", "listen", "serving"}
  BY DEF TlsTypeOK, TlsNext, Work, tlsVars, Start, StartAgain, UseFiles, Refuse, GeneratePair,
         OpenCert, WriteCert, OpenKey, WriteKey, Verify, ListenTLS, ListenFails, Dies, WriteFails,
         Stops, Ends
<1>5. auto' \in BOOLEAN /\ spoiled' \in BOOLEAN
  BY <1>1, <1>2, <1>3, Zenon
<1>6. QED
  BY <1>4, <1>5, Zenon DEF TlsTypeOK

\* A process that ends half-way leaves the files at rest.
LEMMA EndsStep == TlsInv /\ pc \notin {"down", "stopped", "serving"} /\ Ends => FilesOK' /\ AtRest'
<1> SUFFICES ASSUME TlsInv, pc \notin {"down", "stopped", "serving"}, Ends PROVE FilesOK' /\ AtRest'
  OBVIOUS
<1>0. FilesOK
  BY DEF TlsInv, TlsTypeOK
<1>1. cert' = cert /\ key' = key /\ made' = made /\ deaths' = deaths + 1 /\ deaths < MaxDeaths
  BY DEF Ends, pairFiles
<1>2. FilesOK'
  BY <1>0, <1>1, Distinct DEF FilesOK
<1>3. Mismatched' => spoiled' = TRUE
  <2>1. Mismatched' <=> Mismatched
    BY <1>1 DEF Mismatched, Loads
  <2>2. QED
    BY <2>1 DEF Ends
<1>4. CASE pc \in {"ensure", "listen"}
  <2>1. AtRest
    BY <1>4 DEF TlsInv
  <2>2. made' <= deaths' \/ PairFound
    BY <2>1, <1>0, <1>1 DEF AtRest, FilesOK
  <2>3. QED
    BY <2>1, <2>2, <1>1, <1>2, <1>3 DEF AtRest, PairFound, Loads
<1>5. CASE pc \in Generating
  <2>1. made \in 1..(deaths + 1) /\ Halfway
    BY <1>5 DEF TlsInv
  <2>2. made' <= deaths'
    BY <2>1, <1>1
  <2>3. key \in {Absent, Operator} \/ (key = Torn /\ cert # Absent) \/ (key = made /\ cert = made)
    <3>1. made \in Nat /\ made # Absent
      BY <1>0, Distinct DEF FilesOK
    <3>2. QED
      BY <2>1, <3>1, <1>5, Distinct DEF Halfway, Generating, OldKey
  <2>4. (key \notin {Absent, Torn, Operator} => Loads) /\ (key = Torn => cert # Absent)
    BY <2>1, <2>3, Distinct DEF Loads
  <2>5. QED
    BY <2>2, <2>4, <1>1, <1>2, <1>3 DEF AtRest, PairFound, Loads
<1>6. QED
  BY <1>4, <1>5 DEF TlsInv, TlsTypeOK, Generating

LEMMA TlsStepInvariant == TlsInv /\ [TlsNext]_tlsVars => TlsInv'
<1> SUFFICES ASSUME TlsInv, [TlsNext]_tlsVars PROVE TlsInv'
  OBVIOUS
<1>a. FilesOK
  BY DEF TlsInv, TlsTypeOK
<1>b. FilesOK' => TlsTypeOK'
  BY FlagsStep DEF TlsInv
<1>c. made \in Nat /\ deaths \in Nat
  BY <1>a, Distinct DEF FilesOK
<1> USE DEF AtRest, Halfway, OldKey, Loads, Mismatched, PairFound, Generating, pairFiles
<1>1. CASE Start \/ StartAgain
  <2>1. FilesOK'
    BY <1>1, <1>a, <1>c, Distinct DEF Start, StartAgain, FilesOK, TlsInv
  <2>2. QED
    BY <2>1, <1>1, <1>a, <1>b, Distinct DEF Start, StartAgain, FilesOK, TlsInv
<1>2. CASE UseFiles
  <2>1. FilesOK'
    BY <1>2, <1>a, <1>c, Distinct DEF UseFiles, FilesOK, TlsInv
  <2>2. QED
    BY <2>1, <1>2, <1>a, <1>b, Distinct DEF UseFiles, FilesOK, TlsInv
<1>3. CASE Refuse
  <2>1. FilesOK'
    BY <1>3, <1>a, <1>c, Distinct DEF Refuse, FilesOK, TlsInv
  <2>2. QED
    BY <2>1, <1>3, <1>a, <1>b, Distinct DEF Refuse, FilesOK, TlsInv
<1>4. CASE GeneratePair
  <2>1. /\ pc = "ensure" /\ pc' = "open cert"
        /\ cert' = cert /\ key' = key
    BY <1>4 DEF GeneratePair
  <2>2. ~PairFound /\ AtRest
    BY <1>4 DEF GeneratePair, TlsInv
  <2>3. made' = made + 1 /\ deaths' = deaths
    BY <1>4 DEF GeneratePair
  <2>4. made <= deaths
    BY <2>2
  <2>5. made' \in 1..(deaths' + 1)
    BY <2>3, <2>4, <1>c
  <2>6. made' \in 0..(MaxDeaths + 1) /\ deaths' \in 0..MaxDeaths
    <3>1. deaths \in 0..MaxDeaths
      BY <1>a DEF FilesOK
    <3>2. QED
      BY <2>3, <2>4, <3>1, <1>c, Distinct
  <2>7. 1..made \subseteq 1..made'
    BY <2>3, <1>c
  <2>8. FilesOK'
    BY <2>1, <2>6, <2>7, <1>a DEF FilesOK
  <2>9. Halfway'
    BY <2>1, <2>2, Distinct
  <2>10. QED
    BY <2>1, <2>5, <2>8, <2>9, <1>b DEF TlsInv
<1>5. CASE OpenCert
  <2>1. FilesOK'
    BY <1>5, <1>a, <1>c, Distinct DEF OpenCert, FilesOK, TlsInv
  <2>2. QED
    BY <2>1, <1>5, <1>a, <1>b, Distinct DEF OpenCert, FilesOK, TlsInv
<1>6. CASE WriteCert
  <2>1. FilesOK'
    <3>1. made \in 1..made
      <4>1. made \in 1..(deaths + 1)
        BY <1>6 DEF WriteCert, TlsInv
      <4>2. QED
        BY <4>1, <1>c
    <3>2. /\ cert' = made /\ key' = key /\ made' = made /\ deaths' = deaths
      BY <1>6 DEF WriteCert
    <3>3. QED
      BY <3>1, <3>2, <1>a DEF FilesOK
  <2>2. QED
    BY <2>1, <1>6, <1>a, <1>b, Distinct DEF WriteCert, FilesOK, TlsInv
<1>7. CASE OpenKey
  <2>1. FilesOK'
    BY <1>7, <1>a, <1>c, Distinct DEF OpenKey, FilesOK, TlsInv
  <2>2. QED
    BY <2>1, <1>7, <1>a, <1>b, Distinct DEF OpenKey, FilesOK, TlsInv
<1>8. CASE WriteKey
  <2>1. FilesOK'
    BY <1>8, <1>a, <1>c, Distinct DEF WriteKey, FilesOK, TlsInv
  <2>2. QED
    BY <2>1, <1>8, <1>a, <1>b, Distinct DEF WriteKey, FilesOK, TlsInv
<1>9. CASE Verify
  <2>1. FilesOK'
    BY <1>9, <1>a, <1>c, Distinct DEF Verify, FilesOK, TlsInv
  <2>2. QED
    BY <2>1, <1>9, <1>a, <1>b, Distinct DEF Verify, FilesOK, TlsInv
<1>10. CASE ListenTLS
  <2>1. FilesOK'
    BY <1>10, <1>a, <1>c, Distinct DEF ListenTLS, FilesOK, TlsInv
  <2>2. QED
    BY <2>1, <1>10, <1>a, <1>b, Distinct DEF ListenTLS, FilesOK, TlsInv
<1>11. CASE ListenFails
  <2>1. FilesOK'
    BY <1>11, <1>a, <1>c, Distinct DEF ListenFails, FilesOK, TlsInv
  <2>2. QED
    BY <2>1, <1>11, <1>a, <1>b, Distinct DEF ListenFails, FilesOK, TlsInv
<1>12. CASE Stops
  <2>1. FilesOK'
    BY <1>12, <1>a, <1>c, Distinct DEF Stops, FilesOK, TlsInv
  <2>2. QED
    BY <2>1, <1>12, <1>a, <1>b, Distinct DEF Stops, FilesOK, TlsInv
<1>13. CASE Dies \/ WriteFails
  <2>1. FilesOK' /\ AtRest'
    BY <1>13, EndsStep DEF Dies, WriteFails
  <2>2. QED
    BY <2>1, <1>13, <1>a, <1>b DEF Dies, WriteFails, Ends, TlsInv
<1>14. CASE UNCHANGED tlsVars
  <2>1. FilesOK'
    BY <1>14, <1>a, <1>c DEF tlsVars, FilesOK
  <2>2. QED
    BY <2>1, <1>14, <1>a, <1>b DEF tlsVars, TlsInv
<1>15. QED
  BY <1>1, <1>2, <1>3, <1>4, <1>5, <1>6, <1>7, <1>8, <1>9, <1>10, <1>11, <1>12, <1>13,
     <1>14 DEF TlsNext, Work

\* What the files hold at each point of the program, over any number of deaths.
THEOREM TlsInvariance == TlsSpec => []TlsInv
BY TlsInitInvariant, TlsStepInvariant, PTL DEF TlsSpec

\* The types of the files and of the process that writes them.
THEOREM TlsTypeCorrect == TlsSpec => []TlsTypeOK
<1>1. TlsInv => TlsTypeOK
  BY DEF TlsInv
<1>2. QED
  BY <1>1, TlsInvariance, PTL

\* ensureTLS hands ListenAndServeTLS a pair that loads, unless an earlier
\* process has died over the two files.
THEOREM BadPairsComeFromDeaths == TlsSpec => []BadPairOnlyAfterDeath
<1>1. TlsInv => BadPairOnlyAfterDeath
  BY DEF TlsInv, BadPairOnlyAfterDeath, AtRest, Mismatched, PairFound
<1>2. QED
  BY <1>1, TlsInvariance, PTL

\* A death spoils the files only through the key: a torn certificate heals.
THEOREM OnlyTheKeySpoils == TlsSpec => []SpoiledOnlyThroughKey
<1>1. TlsInv => SpoiledOnlyThroughKey
  BY DEF TlsInv, SpoiledOnlyThroughKey, AtRest, Mismatched
<1>2. QED
  BY <1>1, TlsInvariance, PTL
=============================================================================
