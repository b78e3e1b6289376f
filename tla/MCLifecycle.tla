---------------------------- MODULE MCLifecycle ----------------------------
(***************************************************************************)
(* Instances of Lifecycle for TLC.                                          *)
(***************************************************************************)
EXTENDS Lifecycle, TLC

\* The switches that matter here in each position, and settings beyond each end of
\* their ranges, at them, unreadable and misspelt.
MCEnvironment ==
  {[REQUIRE_KEYS |-> "yes"],
   [REQUIRE_API_KEY |-> "1", TLS_ENABLED |-> "on", RATE_LIMIT_RPS |-> NaN, QR_SIZE |-> 2048],
   [REQUIRE_KEYS |-> "ture", REQUIRE_API_KEY |-> "off", LOGO_MAX_RATIO |-> 49,
    QR_SIZE |-> 2049, CACHE_TTL_SEC |-> 900, RATE_LIMIT_BURST |-> 0,
    MAX_BODY_BYTES |-> Unreadable],
   [LISTEN_PORT |-> 0], [TRUSTED_PROXY_CIDRS |-> Unreadable]}

=============================================================================
