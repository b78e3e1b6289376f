----------------------------- MODULE QrContract -----------------------------
(***************************************************************************)
(* What the service promises whoever sends a request, with no caches, no    *)
(* files and no order of checks: a request is answered once, an image shows *)
(* the payment of that request in the style of the key that came with it,   *)
(* and an error has a reason in the request.  Only being told to slow down  *)
(* needs no reason here.                                                    *)
(***************************************************************************)
EXTENDS Requests

CONSTANT Proc   \* the goroutines that serve requests

VARIABLES asked,  \* asked[p]: the request p serves, or None
          reply   \* reply[p]: the last reply p gave, or None

contractVars == <<asked, reply>>

\* Whoever gives a key must give a known one; no key will do in public mode.
Entitled(r) == ~KeyUnknown(r) /\ ~KeyMissing(r)

MayReply(r, code) ==
  CASE code \in {"ok", "qr_encode_failed", "payload_build_failed"}
              -> r.endpoint = "qr" /\ Entitled(r)
    [] code = "valid"              -> r.endpoint = "validate" /\ Entitled(r)
    [] code = "headers_only"       -> BareHead(r) /\ ~KeyMissing(r)
    [] code = "unauthorized"       -> ~Entitled(r)
    [] code = "no_content"         -> r.endpoint = "qr" /\ r.method = "OPTIONS"
    [] code = "method_not_allowed" -> r.method \notin Methods(r.endpoint)
    [] OTHER                       -> TRUE

\* Faults are reported as what they are, and nothing faulty is answered well.
Honest(r, code) ==
  /\ code \in {"ok", "valid"} => r.method \in Methods(r.endpoint)
  /\ code = "ok" => r.fault = None
  /\ code = "valid" => r.fault \notin {"invalid_json", "invalid_input"}
  /\ code \in {"invalid_json", "invalid_input", "payload_build_failed",
               "qr_encode_failed"} => r.fault = code

Shows(r, code) ==
  IF code # "ok" THEN {None}
  ELSE {Image(r, logo) : logo \in IF LogoPath(r) = None THEN {None} ELSE Logo \cup {None}}

Init == /\ asked = [p \in Proc |-> None]
        /\ reply = [p \in Proc |-> None]

Ask(p, r) == /\ asked[p] = None
             /\ asked' = [asked EXCEPT ![p] = r]
             /\ reply' = [reply EXCEPT ![p] = None]

Answer(p) == /\ asked[p] # None
             /\ \E code \in Codes :
                  /\ MayReply(asked[p], code) /\ Honest(asked[p], code)
                  /\ \E image \in Shows(asked[p], code) :
                       reply' = [reply EXCEPT ![p] =
                                   [to |-> asked[p], code |-> code, image |-> image]]
             /\ asked' = [asked EXCEPT ![p] = None]

Next == \E p \in Proc : Answer(p) \/ \E r \in Request : Ask(p, r)

Spec == Init /\ [][Next]_contractVars
=============================================================================
