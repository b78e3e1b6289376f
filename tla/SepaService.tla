----------------------------- MODULE SepaService -----------------------------
(***************************************************************************)
(* The request handlers of src/server/server.go, handleSEPA and             *)
(* handleValidate, as the goroutines of net/http run them: any number at a  *)
(* time, over one image cache, one logo cache and the logo files on disk.   *)
(*                                                                          *)
(* The image cache is the map with lifetimes of AbstractCache, which        *)
(* PngCache implements; its calls take time, so a handler can be overtaken  *)
(* between its lookup, its drawing and its store.  The logo cache is a map  *)
(* that may forget.  Whether the rate limiter allows a request is left open *)
(* here (IpLimiter).  Recolouring and overlaying cannot fail on an image the *)
(* service has drawn and on colours keys.LoadFromFile has accepted.         *)
(***************************************************************************)
EXTENDS Requests, CacheKeys, Integers

CONSTANTS Proc,     \* the goroutines that serve requests
          TTL,      \* lifetime of a cached image
          MaxTime,  \* bound on the clock
          KeyText,  \* KeyText[k]: the fields of k's entry in a cache key, bars between them
          SizeText  \* SizeText[k]: size, error correction and ratio, for None and for k

\* Whether an image can be encoded depends on the payment and the style alone.
ASSUME EncoderAssumption ==
  \A r, s \in Request : Image(r, None) = Image(s, None) =>
    (r.fault \in {None, "qr_encode_failed"} /\ s.fault \in {None, "qr_encode_failed"}
       => r.fault = s.fault)

\* IBAN and BIC hold letters and figures, the amount figures (see Iban and Payments).
ASSUME CacheKeyAssumption ==
  /\ {"a", "p"} \subseteq Char /\ Bar \in Char \ {"a", "p"}
  /\ KeyText \in [ApiKey -> Seq(Char)]
  /\ SizeText \in [ApiKey \cup {None} -> Seq(Char)]
  /\ \A r \in Request : /\ Barless(r.payment.iban) /\ Barless(r.payment.bic)
                        /\ Barless(r.payment.cents)

VARIABLES clock, call, store, answer,   \* the image cache: see AbstractCache
          logos,   \* logos[f]: the logo held in memory for file f, or None
          disk,    \* disk[f]: what file f contains, None while it cannot be read
          pc,      \* pc[p]: where p's handler is
          req,     \* req[p]: the request it serves, or None
          img,     \* img[p]: the image it is making, or None
          reply,   \* reply[p]: the last reply p sent, or None
          failed   \* history: the logo files a load of which has failed

cacheVars == <<clock, call, store, answer>>
vars == <<cacheVars, logos, disk, pc, req, img, reply, failed>>

-----------------------------------------------------------------------------
\* The payment in a cache key, and what is behind it.
PaymentFields(t, rest) ==
  Field(t.name, Field(t.iban, Field(t.bic, Field(t.purpose,
    Field(t.ref, Field(t.text, Field(t.info, Field(t.cents, rest))))))))

\* Fault: the fields of the key's entry are left out of the cache key.
CacheKeyOfPayment(r) == Field(<<"p">>, PaymentFields(r.payment, SizeText[None]))

\* buildCacheKey.
CacheKey(r) ==
  IF ApiKeyOf(r) \in ApiKey
    THEN Field(<<"a">>, Field(KeyText[ApiKeyOf(r)],
                              PaymentFields(r.payment, SizeText[ApiKeyOf(r)])))
    ELSE Field(<<"p">>, PaymentFields(r.payment, SizeText[None]))

Cache == INSTANCE AbstractCache WITH Key   <- {CacheKey(r) : r \in Request},
                                     Value <- Images

Init == /\ Cache!Init
        /\ logos = [f \in Path |-> None]
        /\ disk \in [Path -> Logo]
        /\ pc = [p \in Proc |-> "idle"]
        /\ req = [p \in Proc |-> None]
        /\ img = [p \in Proc |-> None]
        /\ reply = [p \in Proc |-> None]
        /\ failed = {}

\* The handler of p goes on at label l; it ends with a reply.
Goto(p, l) == pc' = [pc EXCEPT ![p] = l]

Reply(p, code, image) ==
  /\ Goto(p, "idle")
  /\ req' = [req EXCEPT ![p] = None]
  /\ img' = [img EXCEPT ![p] = None]
  /\ reply' = [reply EXCEPT ![p] = [to |-> req[p], code |-> code, image |-> image]]

\* net/http hands a request to a goroutine.
Arrive(p, r) == /\ pc[p] = "idle"
                /\ Goto(p, "start")
                /\ req' = [req EXCEPT ![p] = r]
                /\ reply' = [reply EXCEPT ![p] = None]
                /\ UNCHANGED <<cacheVars, logos, disk, img, failed>>

\* OPTIONS and other methods are answered before the limiter is asked.
AnswerMethod(p) ==
  /\ pc[p] = "start"
  /\ req[p].method \notin Methods(req[p].endpoint)
  /\ Reply(p, IF req[p].endpoint = "qr" /\ req[p].method = "OPTIONS"
                THEN "no_content" ELSE "method_not_allowed", None)
  /\ UNCHANGED <<cacheVars, logos, disk, failed>>

Limited(p) == /\ pc[p] = "start"
              /\ req[p].method \in Methods(req[p].endpoint)
              /\ Reply(p, "rate_limited", None)
              /\ UNCHANGED <<cacheVars, logos, disk, failed>>

\* Fault: an unknown key falls back to public mode.
VerdictIgnoresUnknownKey(r) ==
  IF KeyMissing(r) THEN "unauthorized"
  ELSE IF BareHead(r) THEN "headers_only"
  ELSE IF r.fault \in {"invalid_json", "invalid_input"} THEN r.fault
  ELSE IF r.endpoint = "validate" THEN "valid"
  ELSE IF r.fault = "payload_build_failed" THEN r.fault
  ELSE "draw"

\* Fault: REQUIRE_API_KEY is not looked at.
VerdictWithoutKey(r) ==
  IF BareHead(r) THEN "headers_only"
  ELSE IF KeyUnknown(r) THEN "unauthorized"
  ELSE IF r.fault \in {"invalid_json", "invalid_input"} THEN r.fault
  ELSE IF r.endpoint = "validate" THEN "valid"
  ELSE IF r.fault = "payload_build_failed" THEN r.fault
  ELSE "draw"

\* The checks between the limiter and the drawing, in the order of the code.
Verdict(r) ==
  IF KeyMissing(r) THEN "unauthorized"
  ELSE IF BareHead(r) THEN "headers_only"
  ELSE IF KeyUnknown(r) THEN "unauthorized"
  ELSE IF r.fault \in {"invalid_json", "invalid_input"} THEN r.fault
  ELSE IF r.endpoint = "validate" THEN "valid"
  ELSE IF r.fault = "payload_build_failed" THEN r.fault
  ELSE "draw"

AnswerEarly(p) ==
  /\ pc[p] = "start"
  /\ req[p].method \in Methods(req[p].endpoint)
  /\ Verdict(req[p]) # "draw"
  /\ Reply(p, Verdict(req[p]), None)
  /\ UNCHANGED <<cacheVars, logos, disk, failed>>

\* s.pngCache.Get(cacheKey) begins; the cache answers in a step of its own.
Lookup(p) ==
  /\ pc[p] = "start"
  /\ req[p].method \in Methods(req[p].endpoint)
  /\ Verdict(req[p]) = "draw"
  /\ \/ Cache!Begin(p, [op |-> "get", key |-> CacheKey(req[p]), value |-> None, now |-> clock])
     \/ Cache!Decline(p)
  /\ Goto(p, "lookup")
  /\ UNCHANGED <<logos, disk, req, img, reply, failed>>

AnswerCached(p) ==
  /\ pc[p] = "lookup" /\ call[p] = None
  /\ answer[p] # None
  /\ Reply(p, "ok", answer[p])
  /\ UNCHANGED <<cacheVars, logos, disk, failed>>

\* MakeQR and Recolor: the image of the request, still without its logo.
Draw(p) ==
  /\ pc[p] = "lookup" /\ call[p] = None
  /\ answer[p] = None
  /\ req[p].fault # "qr_encode_failed"
  /\ img' = [img EXCEPT ![p] = Image(req[p], None)]
  /\ Goto(p, IF LogoPath(req[p]) = None THEN "store" ELSE "logo")
  /\ UNCHANGED <<cacheVars, logos, disk, req, reply, failed>>

AnswerEncodeFailed(p) ==
  /\ pc[p] = "lookup" /\ call[p] = None
  /\ answer[p] = None
  /\ req[p].fault = "qr_encode_failed"
  /\ Reply(p, "qr_encode_failed", None)
  /\ UNCHANGED <<cacheVars, logos, disk, failed>>

Overlay(p, logo) == img' = [img EXCEPT ![p].logo = logo]

\* The logo comes from memory, or else from the file.
LogoCached(p) ==
  /\ pc[p] = "logo"
  /\ logos[LogoPath(req[p])] # None
  /\ Overlay(p, logos[LogoPath(req[p])])
  /\ Goto(p, "store")
  /\ UNCHANGED <<cacheVars, logos, disk, req, reply, failed>>

LogoAbsent(p) ==
  /\ pc[p] = "logo"
  /\ logos[LogoPath(req[p])] = None
  /\ Goto(p, "load")
  /\ UNCHANGED <<cacheVars, logos, disk, req, img, reply, failed>>

\* Fault: a logo just loaded is kept, but not shown in this image.
LoadLogoForNextTime(p) ==
  /\ pc[p] = "load"
  /\ disk[LogoPath(req[p])] # None
  /\ Goto(p, "keep")
  /\ UNCHANGED <<cacheVars, logos, disk, req, img, reply, failed>>

LoadLogo(p) ==
  /\ pc[p] = "load"
  /\ disk[LogoPath(req[p])] # None
  /\ Overlay(p, disk[LogoPath(req[p])])
  /\ Goto(p, "keep")
  /\ UNCHANGED <<cacheVars, logos, disk, req, reply, failed>>

\* A file that cannot be read is logged, and the image stays without logo.
LoadFails(p) ==
  /\ pc[p] = "load"
  /\ disk[LogoPath(req[p])] = None
  /\ failed' = failed \cup {LogoPath(req[p])}
  /\ Goto(p, "store")
  /\ UNCHANGED <<cacheVars, logos, disk, req, img, reply>>

\* s.logoCache.Set: a logo too large to keep leaves what is there (LogoCache).
KeepLogo(p) ==
  /\ pc[p] = "keep"
  /\ \/ logos' = [logos EXCEPT ![LogoPath(req[p])] = img[p].logo]
     \/ UNCHANGED logos
  /\ Goto(p, "store")
  /\ UNCHANGED <<cacheVars, disk, req, img, reply, failed>>

\* s.pngCache.Set(cacheKey, pngBytes), whatever became of the logo.
StoreImage(p) ==
  /\ pc[p] = "store"
  /\ \/ Cache!Begin(p, [op |-> "set", key |-> CacheKey(req[p]), value |-> img[p], now |-> clock])
     \/ Cache!Decline(p)
  /\ Goto(p, "stored")
  /\ UNCHANGED <<logos, disk, req, img, reply, failed>>

AnswerDrawn(p) ==
  /\ pc[p] = "stored" /\ call[p] = None
  /\ Reply(p, "ok", img[p])
  /\ UNCHANGED <<cacheVars, logos, disk, failed>>

\* The caches and the files have steps of their own.
CacheServes(p) == /\ Cache!Hit(p) \/ Cache!Miss(p) \/ Cache!Put(p)
                  /\ UNCHANGED <<logos, disk, pc, req, img, reply, failed>>

CacheForgets == /\ \E key \in DOMAIN store : store[key] # None /\ Cache!Forget(key)
                /\ UNCHANGED <<logos, disk, pc, req, img, reply, failed>>

Tick == /\ Cache!Tick
        /\ UNCHANGED <<logos, disk, pc, req, img, reply, failed>>

LogoForgotten(f) == /\ logos[f] # None
                    /\ logos' = [logos EXCEPT ![f] = None]
                    /\ UNCHANGED <<cacheVars, disk, pc, req, img, reply, failed>>

FileChanges(f) == /\ \E content \in (Logo \cup {None}) \ {disk[f]} :
                       disk' = [disk EXCEPT ![f] = content]
                  /\ UNCHANGED <<cacheVars, logos, pc, req, img, reply, failed>>

Serve(p) == \/ AnswerMethod(p) \/ Limited(p) \/ AnswerEarly(p)
            \/ Lookup(p) \/ AnswerCached(p)
            \/ Draw(p) \/ AnswerEncodeFailed(p)
            \/ LogoCached(p) \/ LogoAbsent(p) \/ LoadLogo(p) \/ LoadFails(p) \/ KeepLogo(p)
            \/ StoreImage(p) \/ AnswerDrawn(p)

Next == \/ \E p \in Proc, r \in Request : Arrive(p, r)
        \/ \E p \in Proc : Serve(p) \/ CacheServes(p)
        \/ CacheForgets \/ Tick
        \/ \E f \in Path : LogoForgotten(f) \/ FileChanges(f)

Spec == Init /\ [][Next]_vars

-----------------------------------------------------------------------------
\* The caches cannot be noticed: whatever handlers of other requests do in
\* between, every request gets an answer that a service without caches could
\* have given it, its own payment in the style of its own key, or an error that
\* has a reason in the request itself.
Contract == INSTANCE QrContract WITH asked <- req

ImplementsContract == Contract!Spec

\* As long as no logo file has failed to load, every image of a key with a logo
\* shows the logo: from memory, from the file, or in a cached image.
LogoMissingOnlyAfterFailure ==
  \A p \in Proc : reply[p] # None /\ reply[p].code = "ok"
    => LogoPath(reply[p].to) \in failed \cup {None} \/ reply[p].image.logo # None

\* What both need of the requests and of the keys: cache keys tell apart what is asked
\* for.  They do if no bar is in a free text, and if keys printed alike look alike:
\* Drawing is about the second.  TLC's requests keep to both but for one run.
KeysTellApart == \A r, s \in Request :
                   CacheKey(r) = CacheKey(s) => /\ Image(r, None) = Image(s, None)
                                                /\ LogoPath(r) = LogoPath(s)

\* Names and logo paths of keys are free texts too: without bars in them every entry has
\* as many as any other.
NoBars ==
  /\ \A r \in Request : LET t == r.payment IN
       /\ Barless(t.name) /\ Barless(t.purpose)
       /\ Barless(t.ref) /\ Barless(t.text) /\ Barless(t.info)
  /\ \A j, k \in ApiKey : Cardinality(Bars(KeyText[j])) = Cardinality(Bars(KeyText[k]))

PrintsTellStyles ==
  \A j, k \in ApiKey : KeyText[j] = KeyText[k] /\ SizeText[j] = SizeText[k]
    => StyleOf[j] = StyleOf[k] /\ LogoOf[j] = LogoOf[k]

-----------------------------------------------------------------------------
(* What README.md says and the code does not keep to.                        *)

\* README.md: "deterministic output for the same normalized input".
Deterministic ==
  \A p, q \in Proc :
    /\ reply[p] # None /\ reply[p].code = "ok"
    /\ reply[q] # None /\ reply[q].code = "ok"
    /\ Image(reply[p].to, None) = Image(reply[q].to, None)
    /\ LogoPath(reply[p].to) = LogoPath(reply[q].to)
    => reply[p].image = reply[q].image
=============================================================================
