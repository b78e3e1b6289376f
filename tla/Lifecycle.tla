------------------------------ MODULE Lifecycle ------------------------------
(***************************************************************************)
(* A process of the server from main() to its exit: main.go, and New, Run,  *)
(* Shutdown, SetReadiness and handleReady of server.go.  Three kinds of     *)
(* goroutines take part: main, the one that waits for a signal, and those   *)
(* that serve requests.  http.Server is external: once Shutdown has begun   *)
(* it accepts nothing, ListenAndServe returns ErrServerClosed at once, even *)
(* if it is called later, and Shutdown itself waits for the requests.       *)
(*                                                                          *)
(* systemd starts the process again when it fails (Restart=on-failure), and *)
(* the environment file and the keys file may be edited at any time.  How   *)
(* one request is served is left to SepaService: here it gets an image or   *)
(* is unauthorized.                                                         *)
(***************************************************************************)
EXTENDS Config

CONSTANTS Handler,   \* goroutines that serve requests
          ApiKey,    \* the keys that may be in keys.json
          Blank,     \* a key of keys.json that is empty or all spaces
          None,      \* nothing; the content of a file that cannot be parsed
          Environment  \* the environments the process may be started in

ASSUME NoneAssumption == /\ None \notin ApiKey \cup {"ready", "not ready"}
                         /\ Blank \notin ApiKey

VARIABLES env,       \* the settings in the environment file
          config,    \* what the process has made of them, NoConfig before it has
          keysFile,  \* the keys in the file, None if it cannot be read or parsed
          main,      \* where the main goroutine is
          store,     \* the keys it has loaded
          verdict,   \* what it has decided on readiness
          ready,     \* Server.ready
          pending,   \* a signal is waiting in the channel stop
          stopper,   \* where the goroutine that waits for it is
          server,    \* the http.Server: new, serving or closed
          req,       \* req[h]: what h has been asked, or None
          answer     \* answer[h]: what h answered last, or None

files == <<env, config, keysFile>>
decided == <<store, verdict>>
signals == <<pending, stopper>>
requests == <<req, answer>>
vars == <<files, main, decided, ready, signals, server, requests>>

Readyz == "/readyz"
Public == "/sepa-qr"   \* without a key

Asks == {Readyz, Public} \cup ApiKey

Files == (SUBSET (ApiKey \cup {Blank})) \cup {None}

Init == /\ env \in Environment
        /\ config = NoConfig
        /\ keysFile \in Files
        /\ main = "config"
        /\ store = {} /\ verdict = TRUE
        /\ ready = FALSE
        /\ pending = FALSE /\ stopper = "none"
        /\ server = "new"
        /\ req = [h \in Handler |-> None]
        /\ answer = [h \in Handler |-> None]

Strict == config.REQUIRE_KEYS \/ config.REQUIRE_API_KEY

Missing == Strict /\ store = {}

-----------------------------------------------------------------------------
\* The main goroutine goes on at label l.
Goto(l) == main' = l

\* The process ends and takes its goroutines along.
Exit(l) == /\ Goto(l)
           /\ req' = [h \in Handler |-> None]
           /\ UNCHANGED <<files, decided, ready, signals, server, answer>>

\* config.Load; an error ends the process.
LoadConfig == /\ main = "config"
              /\ IF Load(env) = NoConfig THEN Exit("failed")
                 ELSE /\ config' = Load(env)
                      /\ Goto("load")
                      /\ UNCHANGED <<env, keysFile, decided, ready, signals, server, requests>>

\* LoadFromFile skips blank keys; a file with no others is an error to it, and
\* main goes on without keys after an error.
Loaded == IF keysFile = None THEN {} ELSE keysFile \ {Blank}

LoadKeys == /\ main = "load"
            /\ store' = Loaded
            /\ verdict' = ~(Strict /\ Loaded = {})
            /\ Goto("create")
            /\ UNCHANGED <<files, ready, signals, server, requests>>

\* server.New: a server is ready until it is told otherwise.
Create == /\ main = "create"
          /\ ready' = TRUE
          /\ Goto("readiness")
          /\ UNCHANGED <<files, decided, signals, server, requests>>

\* Fault: only a positive verdict reaches the server.
SetReadinessNeverRevokes ==
  /\ main = "readiness"
  /\ ready' = (ready \/ verdict)
  /\ Goto("notify")
  /\ UNCHANGED <<files, decided, signals, server, requests>>

SetReadiness ==
  /\ main = "readiness"
  /\ ready' = verdict
  /\ Goto("notify")
  /\ UNCHANGED <<files, decided, signals, server, requests>>

\* signal.Notify and the goroutine that waits for the signal.
Notify == /\ main = "notify"
          /\ stopper' = "waiting"
          /\ Goto(IF config.TLS_ENABLED THEN "tls" ELSE "listen")
          /\ UNCHANGED <<files, decided, ready, pending, server, requests>>

\* ensureTLS finds or makes a pair of files, or else main ends (TlsFiles).
EnsureTLS == /\ main = "tls"
             /\ \/ /\ Goto("listen")
                   /\ UNCHANGED <<files, decided, ready, signals, server, requests>>
                \/ Exit("failed")

\* ListenAndServe: it accepts requests, or the address or the pair is no good,
\* or Shutdown has been called before.
Listen == /\ main = "listen"
          /\ server = "new"
          /\ \/ /\ server' = "serving"
                /\ Goto("serve")
                /\ UNCHANGED <<files, decided, ready, signals, requests>>
             \/ Exit("failed")

\* Run returns nil on ErrServerClosed, and main returns, whoever is being served.
ServeReturns == /\ main \in {"listen", "serve"}
                /\ server = "closed"
                /\ Exit("stopped")

Main == LoadConfig \/ LoadKeys \/ Create \/ SetReadiness \/ Notify \/ EnsureTLS \/ Listen \/ ServeReturns

-----------------------------------------------------------------------------
Running == main \notin {"stopped", "failed"}

Notified == stopper # "none"

\* A signal ends a process that has not asked for it; the channel holds one.
Signal == /\ Running
          /\ IF Notified
               THEN /\ pending' = TRUE
                    /\ UNCHANGED <<files, main, decided, ready, stopper, server, requests>>
               ELSE Exit("stopped")

\* Fault: a server that is not serving yet is left alone.
ShutdownOfServing == IF server = "serving" THEN "closed" ELSE server

\* What Shutdown makes of the http.Server.
ShutdownOf == "closed"

Shutdown == /\ Running
            /\ stopper = "waiting"
            /\ pending
            /\ pending' = FALSE
            /\ server' = ShutdownOf
            /\ stopper' = "draining"
            /\ UNCHANGED <<files, main, decided, ready, requests>>

\* Shutdown returns when no request is being served, or after 8 seconds.
ShutdownReturns == /\ Running
                   /\ stopper = "draining"
                   /\ stopper' = "done"
                   /\ UNCHANGED <<files, main, decided, ready, pending, server, requests>>

-----------------------------------------------------------------------------
Accept(h, a) == /\ main = "serve"
                /\ server = "serving"
                /\ req[h] = None
                /\ req' = [req EXCEPT ![h] = a]
                /\ answer' = [answer EXCEPT ![h] = None]
                /\ UNCHANGED <<files, main, decided, ready, signals, server>>

\* handleReady reads Server.ready; handleSEPA does not.
AnswerTo(a) == IF a = Readyz THEN (IF ready THEN "ready" ELSE "not ready")
               ELSE IF a = Public THEN (IF config.REQUIRE_API_KEY THEN "unauthorized" ELSE "image")
               ELSE IF a \in store THEN "image" ELSE "unauthorized"

Answer(h) == /\ Running
             /\ req[h] # None
             /\ answer' = [answer EXCEPT ![h] = AnswerTo(req[h])]
             /\ req' = [req EXCEPT ![h] = None]
             /\ UNCHANGED <<files, main, decided, ready, signals, server>>

-----------------------------------------------------------------------------
\* The operator edits the keys; a process that runs does not notice.
EditKeys == /\ keysFile' \in Files \ {keysFile}
            /\ UNCHANGED <<env, config, main, decided, ready, signals, server, requests>>

EditEnvironment == /\ env' \in Environment \ {env}
                   /\ UNCHANGED <<config, keysFile, main, decided, ready, signals, server, requests>>

\* systemd starts a process that has failed again.
Restart == /\ main = "failed"
           /\ main' = "config"
           /\ config' = NoConfig
           /\ store' = {} /\ verdict' = TRUE
           /\ ready' = FALSE
           /\ pending' = FALSE /\ stopper' = "none"
           /\ server' = "new"
           /\ req' = [h \in Handler |-> None]
           /\ answer' = [h \in Handler |-> None]
           /\ UNCHANGED <<env, keysFile>>

Next == \/ Main \/ Signal \/ Shutdown \/ ShutdownReturns
        \/ \E h \in Handler : Answer(h) \/ \E a \in Asks : Accept(h, a)
        \/ EditKeys \/ EditEnvironment \/ Restart

Spec == Init /\ [][Next]_vars

\* Go runs every goroutine that can run.
Fairness == WF_vars(Main) /\ WF_vars(Shutdown) /\ WF_vars(ShutdownReturns)

FairSpec == Spec /\ Fairness

-----------------------------------------------------------------------------
\* Type invariant of the process and of what it has read.
TypeOK ==
  /\ env \in Environment
  /\ config \in {Load(e) : e \in Environment} \cup {NoConfig}
  /\ keysFile \in Files
  /\ main \in {"config", "load", "create", "readiness", "notify", "tls", "listen", "serve",
               "stopped", "failed"}
  /\ store \subseteq ApiKey
  /\ verdict \in BOOLEAN /\ ready \in BOOLEAN /\ pending \in BOOLEAN
  /\ stopper \in {"none", "waiting", "draining", "done"}
  /\ server \in {"new", "serving", "closed"}
  /\ req \in [Handler -> Asks \cup {None}]
  /\ answer \in [Handler -> {"ready", "not ready", "image", "unauthorized", None}]

\* /readyz tells exactly whether keys are missing that the configuration asks
\* for, although New makes a server ready, main revokes it later, and requests
\* are served by other goroutines from then on.
ReadyTellsKeys ==
  \A h \in Handler : /\ answer[h] = "ready" => ~Missing
                     /\ answer[h] = "not ready" => Missing

\* The invariant the proofs are by induction on: nobody is served before main
\* has decided and told the server, and the keys do not change after that.
Deciding == {"config", "load", "create", "readiness"}

Told == {"notify", "tls", "listen", "serve"}

IInv == /\ TypeOK
        /\ main \in {"create", "readiness"} => (verdict <=> ~Missing)
        /\ main \in Told => (ready <=> ~Missing)
        /\ \A h \in Handler : req[h] # None => main = "serve"
        /\ main \in Deciding => \A h \in Handler : answer[h] = None
        /\ ReadyTellsKeys

\* A signal stops the process at whatever moment it arrives, before the server
\* listens as well as while requests are served: no one waits for good.
SignalStops == pending ~> ~Running
=============================================================================
