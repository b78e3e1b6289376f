------------------------------- MODULE Config -------------------------------
(***************************************************************************)
(* What config.Load of src/config/config.go makes of the environment.  Most *)
(* settings that are no good are replaced by their default with a warning,  *)
(* four of them are an error, and a switch that is no word it knows is its  *)
(* default in silence.                                                      *)
(*                                                                          *)
(* Paths, addresses and host names, which are taken as they are, are left   *)
(* out.  Ratios are in hundredths, the sizes of caches in megabytes.        *)
(***************************************************************************)
EXTENDS Integers

CONSTANTS Unset,       \* a variable that is missing or blank
          Unreadable,  \* a text that is no number, or no list of networks
          NaN,         \* the text "NaN", which ParseFloat takes for a number
          NoConfig     \* the error of Load

Number(default, low, high) == [default |-> default, low |-> low, high |-> high]

\* mustEnvInt, mustEnvSeconds and mustEnvFloat are called with these.
Lenient == [READ_TIMEOUT_SEC        |-> Number(10, 1, 600),
            WRITE_TIMEOUT_SEC       |-> Number(15, 1, 600),
            IDLE_TIMEOUT_SEC        |-> Number(60, 1, 600),
            READ_HEADER_TIMEOUT_SEC |-> Number(5, 1, 600),
            MAX_HEADER_BYTES        |-> Number(1048576, 8192, 16777216),
            MAX_BODY_BYTES          |-> Number(8192, 1024, 1048576),
            RATE_LIMIT_RPS          |-> Number(10, 0, 1000000),
            RATE_LIMIT_BURST        |-> Number(20, 1, 1000000),
            QR_SIZE                 |-> Number(512, 512, 2048),
            CACHE_PNG_MAX_BYTES     |-> Number(256, 1, 2048),
            CACHE_LOGO_MAX_BYTES    |-> Number(32, 1, 512),
            CACHE_TTL_SEC           |-> Number(900, 1, 600)]

\* A value outside its range is an error for these.
Strictly == [LISTEN_PORT    |-> Number(8089, 1, 65535),
             TLS_CERT_DAYS  |-> Number(365, 1, 3650),
             LOGO_MAX_RATIO |-> Number(22, 1, 49)]

\* The switches and their defaults.
Switches == [TLS_ENABLED |-> FALSE, TLS_AUTO_SELF_SIGNED |-> TRUE,
             ALLOW_QUERY_API_KEY |-> FALSE, AMOUNT_LENIENT_OCR |-> FALSE,
             REQUIRE_KEYS |-> FALSE, REQUIRE_API_KEY |-> FALSE, ACCESS_LOG |-> FALSE]

\* The settings that are read as floating point numbers.
Floats == {"RATE_LIMIT_RPS", "LOGO_MAX_RATIO"}

Getenv(env, name) == IF name \in DOMAIN env THEN env[name] ELSE Unset

\* NaN is neither below a bound nor above one.
Accepted(name, v, range) == v \in range.low..range.high \/ (v = NaN /\ name \in Floats)

MustEnv(name, v) == IF Accepted(name, v, Lenient[name]) THEN v ELSE Lenient[name].default

ParseBool(v, default) == IF v \in {"1", "true", "yes", "y", "on"} THEN TRUE
                         ELSE IF v \in {"0", "false", "no", "n", "off"} THEN FALSE
                         ELSE default

\* The settings for which Load returns an error.
Invalid(env) ==
  {name \in DOMAIN Strictly : LET v == Getenv(env, name)
                              IN v # Unset /\ ~Accepted(name, v, Strictly[name])}
  \cup {name \in {"TRUSTED_PROXY_CIDRS"} : Getenv(env, name) = Unreadable}

Setting(env, name) ==
  LET v == Getenv(env, name)
  IN IF name \in DOMAIN Lenient THEN MustEnv(name, v)
     ELSE IF name \in DOMAIN Strictly THEN IF v = Unset THEN Strictly[name].default ELSE v
     ELSE ParseBool(v, Switches[name])

Names == DOMAIN Lenient \cup DOMAIN Strictly \cup DOMAIN Switches

Load(env) == IF Invalid(env) # {} THEN NoConfig ELSE [name \in Names |-> Setting(env, name)]
=============================================================================
