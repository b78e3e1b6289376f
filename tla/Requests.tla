------------------------------ MODULE Requests ------------------------------
(***************************************************************************)
(* The requests that reach /sepa-qr and /sepa-qr/validate, the keys that    *)
(* may come with them, and the images they ask for.                         *)
(*                                                                          *)
(* A request is a record: endpoint ("qr" or "validate"), method, query      *)
(* (there is a query string), the API keys given in the X-API-Key header,   *)
(* as a bearer token and in the query (None where there is none), fault     *)
(* (what is wrong with the input, None if nothing is) and payment (the      *)
(* input once validated).  A payment is a record of texts: name, iban, bic, *)
(* purpose, ref, text, info and cents.                                      *)
(***************************************************************************)
EXTENDS Sequences

CONSTANTS Request,           \* the requests that are made
          ApiKey,            \* the keys of keys.json
          StyleOf,           \* StyleOf[k]: name, colours, shape and size of k's images
          LogoOf,            \* LogoOf[k]: the path of k's logo file, or None
          PublicStyle,       \* black on transparent, size QR_SIZE
          Path,              \* paths of logo files
          Logo,              \* what a logo file can contain
          Char,              \* the characters of texts
          None,              \* nothing
          RequireAPIKey,     \* REQUIRE_API_KEY
          AllowQueryAPIKey   \* ALLOW_QUERY_API_KEY

ASSUME KeysAssumption == /\ LogoOf \in [ApiKey -> Path \cup {None}]
                         /\ DOMAIN StyleOf = ApiKey
                         /\ \A k \in ApiKey : StyleOf[k] # PublicStyle
                         /\ None \notin ApiKey \cup Path \cup Logo \cup Request

\* What can be wrong with an input, in the order in which it is found out.
Faults == {"invalid_json", "invalid_input", "payload_build_failed", "qr_encode_failed"}

Payments == [name : Seq(Char), iban : Seq(Char), bic : Seq(Char), purpose : Seq(Char),
             ref : Seq(Char), text : Seq(Char), info : Seq(Char), cents : Seq(Char)]

\* Methods, queries and keys may be anything.
ASSUME RequestAssumption ==
  /\ None \notin Faults
  /\ \A r \in Request :
       /\ r.endpoint \in {"qr", "validate"}
       /\ r.fault \in Faults \cup {None}
       /\ r.payment \in Payments

\* auth.ExtractAPIKey: the header, else the bearer token, else the query.
ApiKeyOf(r) == IF r.header # None THEN r.header
               ELSE IF r.bearer # None THEN r.bearer
               ELSE IF AllowQueryAPIKey THEN r.queryKey ELSE None

KeyMissing(r) == RequireAPIKey /\ ApiKeyOf(r) = None

KeyUnknown(r) == ApiKeyOf(r) \notin ApiKey \cup {None}

LogoPath(r) == IF ApiKeyOf(r) \in ApiKey THEN LogoOf[ApiKeyOf(r)] ELSE None

Style(r) == IF ApiKeyOf(r) \in ApiKey THEN StyleOf[ApiKeyOf(r)] ELSE PublicStyle

\* A bare HEAD asks for the headers of an image without naming a payment.
BareHead(r) == r.endpoint = "qr" /\ r.method = "HEAD" /\ ~r.query

Methods(endpoint) == IF endpoint = "qr" THEN {"POST", "GET", "HEAD"} ELSE {"POST"}

\* An image shows a payment in a style, with a logo or without (None).
Image(r, logo) == [payment |-> r.payment, style |-> Style(r), logo |-> logo]

Images == {Image(r, logo) : r \in Request, logo \in Logo \cup {None}}

\* The codes of errors.go, and the replies that are no errors.
Codes == {"ok", "valid", "headers_only", "no_content", "rate_limited", "unauthorized",
          "method_not_allowed", "invalid_json", "invalid_input", "payload_build_failed",
          "qr_encode_failed"}
=============================================================================
