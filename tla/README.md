# SepaQX in TLA+

SepaQX turns a SEPA credit transfer into a QR code (EPC069-12): an HTTP service
with API keys, styles per key, a rate limiter and two caches, and a command line
for batches. This directory models the parts of it that carry its logic, checks
them with TLC on small instances and proves the central invariants with TLAPS.

Every module is written from the Go source; `PROJECT.json` maps each definition
to the lines it stands for. Paths below are relative to `src/`.

## 1. The system

| Part | State | Operations | Hard behaviour |
|---|---|---|---|
| Request handlers, `src/server/server.go`, `src/auth/auth.go` | one goroutine per request, the shared caches | `handleSEPA`, `handleValidate`: early replies, lookup, drawing, logo, store, reply | handlers overtake each other between lookup and store; logo files change; the order of the early replies |
| Image cache, `src/server/cache.go` (`pngCache`) | list, index, byte count, mutex | `Get`, `Set`, `evict`, `removeElement` | three structures updated apart; times read before the mutex; replacements that grow |
| Logo cache, `src/server/cache.go` (`logoCache`), `handleSEPA` | list, index, byte count, mutex | `Get`, `Set`, `evict`, `removeElement` | logos of different sizes for one file, too large ones among them; handlers that read a file and keep what they read while it changes |
| Rate limiter, `src/server/ratelimit.go` | buckets by address, time of the last collection | `Allow`, `maybeGC`, `gc` | times read before the mutex; lazy refills; forgotten buckets |
| Client address, `clientIP` and `isTrustedProxy` in `server.go` | none | which text a request is counted under | one address has several texts; headers anybody can send |
| Log limiter, `src/server/loglimit.go` | time of the latest line by key | `Logf` | time before the mutex, line after it; a line silenced by another's |
| Payments, `src/validate/*.go`, `src/qr/epc.go`, `inputFromQuery` and `fieldFromValidationError` in `server.go` | none: pure functions | amounts in six formats, IBAN checksum, twelve-line payload | formats that read a text differently; checks made twice; errors recognised by their text |
| Lifecycle, `src/main.go`, `New`, `Run`, `Shutdown`, `SetReadiness`, `handleReady` | readiness, the http.Server, the keys in memory | start, serve, signal, drain, exit, restart | a signal at any moment; readiness set and revoked; missing keys |
| TLS files, `src/server/tls.go` | two files | `ensureTLS`, `generateSelfSigned` | a death between or within the two writes; restarts |
| Batch generation, `src/cli_generate.go` | files, report, exit status | one step per item | one item of several failing; a torn file; an earlier batch's files |
| Single generation, `src/cli_generate.go` | the file or directory at `--out`, standard output | one payment | what a batch has left at the same `--out` |
| Keys store, `src/keys/keys.go` | keys and their styles | load once; normalisation of every field | blank, padded and repeated keys; fields that are half right |
| QR drawing, recolouring and logo, `src/qr/*.go` | the image | module shapes, quiet zone, gradients, corner radius, overlay | rounding of module edges; colours parsed a second time; logos in small images |
| Configuration, `src/config/config.go` | none | read once at the start | values at and beyond their bounds, unreadable or misspelt ones |
| Access log, request identifiers, error image | little or none | - | see section 6 |

**Interactions.** `net/http` runs each handler in its own goroutine. A handler
asks the rate limiter, then the keys store (read-only after the start), then the
image cache; on a miss it draws, asks the logo cache, may read a logo file and
stores. The caches and the limiter are each guarded by one mutex and call
nothing that blocks. `main` makes the server, tells it whether it is ready,
installs the signal handler and blocks in `Run`; a second goroutine calls
`Shutdown`. systemd restarts a process that fails. Files (keys, logos, TLS pair)
are the only state that outlives a process.

## 2. Modules

| Module | What it is | Corresponds to |
|---|---|---|
| `AbstractCache` | a map that may forget, with lifetimes | what a caller of `Get`/`Set` may rely on |
| `PngCache` | the list, index, count and mutex | `cache.go:10-113`; implements `AbstractCache` |
| `TokenBucket` | buckets that fill at every tick | the limiter CONFIG.md describes |
| `IpLimiter` | lazy buckets, collections | `ratelimit.go` |
| `Gate` | addresses and headers in front of `IpLimiter` | `clientIP`, `isTrustedProxy`; implements `IpLimiter`, and `TokenBucket` for addresses whose calls do not wait |
| `LogoMap` | a map of logos that may forget | what a handler may rely on of the logo cache |
| `LogoCache` | list, index and count, as operators on one record | `cache.go:112-210` |
| `LogLimiter` | one line per key and interval | `loglimit.go` |
| `Logos` | handlers that get logos, over `LogoCache`, `LogLimiter` and changing files | `handleSEPA`, `loadLogoImage`; implements `LogoMap` |
| `CacheKeys` | fields joined by bars | what `buildCacheKey` writes, for `SepaService` and `Drawing` |
| `Requests` | requests, keys, images | `ExtractAPIKey`, the style and key choice of `handleSEPA` |
| `QrContract` | request, answer, nothing else | what whoever sends a request is promised |
| `SepaService` | the handlers over `AbstractCache`, a forgetful map of logos and the disk | `handleSEPA`, `handleValidate`, `buildCacheKey`; implements `QrContract` |
| `Keys` | from an entry of the keys file to a style | `keys.go` |
| `Drawing` | from a style to pixels, over `Keys` | the drawing half of `handleSEPA`, `buildCacheKey`, `src/qr/` |
| `Config` | from the environment to settings | `config.go` |
| `Lifecycle` | one process, its configuration, signals and successors, over `Config` | `main.go`, `server.go:42-164` |
| `TlsFiles` | two files and the processes that write them | `tls.go` |
| `Iban`, `Amounts`, `Payments` | from the fields of a request to the text of its QR code | `validate/*.go`, `qr/epc.go`, `server.go:691-766` |
| `CliBatch` | one invocation after the other, of one payment or a batch | `cli_generate.go` |
| `MC*` | finite instances for TLC | - |
| `*Proofs` | theorems and proofs | - |

Composition: `PngCache` implements `AbstractCache`; `SepaService` instantiates
`AbstractCache` for its image cache and implements `QrContract`. So the handlers
are checked against the promise of the cache, and the cache against the same
promise, without multiplying their states. `Logos` does the same for the logo
cache: it implements `LogoMap`, a map that forgets when a logo is kept, and
`SepaService` uses one that may forget at any time. `Gate` EXTENDS `IpLimiter` and
adds to each of its steps the address it is taken for. `Lifecycle` EXTENDS
`Config` and loads it at the start of every process; `Drawing` EXTENDS `Keys`.

**State and actions.**

* `PngCache`: `ll`, `items`, `curBytes` are the fields of the struct; a list
  element is a member of `Elem`, and `ent` is the entry it carries. `BeginGet` and
  `BeginSet` are the code before `mu.Lock()`, which reads the time; `GetHit`,
  `GetExpired`, `GetAbsent`, `SetReplace`, `SetInsert` are the paths under the
  mutex; `EvictBack` is one iteration of `evict`, `EvictDone` its exit with the
  deferred unlock. `older` is a history variable: `<<a, b>>` is in it when `b` was
  used after `a`.
* `IpLimiter`: `Sample` reads the time, `AllowNew`, `AllowSpend` and `AllowRefuse`
  are the rest of `Allow` under the mutex, with `maybeGC` in the same step. A token
  is `Cost` units and a tick adds `Rate`, which keeps rates that are fractions
  of a token integral. `window` and `admitted` are history variables: an interval
  chosen at the beginning, and the admissions whose time lies in it.
* `Gate`: `Arrive`, `Admit` and `Refuse` are steps of `IpLimiter` for the address
  that `ClientIP` takes from the connection. Texts stand where addresses are, and
  `Address[t]` is what `net.ParseIP(t).String()` prints. `fromPeer` counts the
  admissions by the peer they came from, whatever bucket they were counted in.
* `Logos`: the cache is one record, `[ll, items, curBytes]`, since each call runs under its
  mutex and nothing in it waits; `Truncated` is the eviction loop. `Logf` is the code before the
  mutex, `Suppress` and `Record` the two ways under it, `Printf` the line after it. `missed` and
  `printed` are history variables.
* `SepaService`: `pc` is the place of each handler; a lookup and a store begin in a
  step of the handler and take effect in a step of the cache (`CacheServes`). An
  image is a record of what it shows: payment, style, logo. A payment is a record of
  texts, and `CacheKey` is the text that `buildCacheKey` writes: every field in its place, with a
  bar behind it. The fields of a key's own entry are two texts with bars in them
  (`KeyText`, `SizeText`); what they are made of is in `Drawing`.
* `Drawing`: one step per stage, `pc` the stage. A picture is a function from pixels to
  paint; a text for a colour is its marks, its figures and the colour it stands for, so that the two
  parsers of the code can disagree on it. Angles and radii are counted in fractions of a thousandth, so
  that `Decimals` rounds them as `%.3f` does; the cache key is a text, its fields joined by bars.
* `Config`: an environment is a function from names to values; `Load` is `config.Load`.
* `Lifecycle`: `main` is the place of the main goroutine, `stopper` of the one that
  waits for a signal, `server` the state of the http.Server as its documentation gives it:
  after `Shutdown`, `ListenAndServe` returns at once, even if called later.
* `TlsFiles`: opening (which truncates) and writing are separate steps for each
  file; a process that fails leaves `pc` "down", where systemd starts the next, and one that the operator
  stops leaves it "stopped", where only the operator does; a file holds one half of an identified pair, or is `Torn`.
* `Payments`: `Checks` is the list of checks of `CleanAndValidate` in their order;
  `Clean`, `Refuse` and `Build` are what the handler does with the result. A text
  is a sequence of symbols; currency marks are one symbol each.
* `CliBatch`: one step per item of a batch, with its three ways to fail, and one per
  outcome of a single payment; the report is the state `items` and `failures` summed up
  at the end. `place` and `file` are what lies at `--out`, and stay between invocations.

Operators whose comment begins with "Fault:" belong to no specification. Each is a
plausible mistake in the definition that follows it; substituted for that
definition, it makes TLC report a violation of a property, which shows that the
property is able to fail.

## 3. What is checked

| Run | Bounds | Shows |
|---|---|---|
| `png_cache` | 2 goroutines, 3 keys, images of 0, 1, 2 and too many bytes, capacity 3, lifetime 1, clock to 3 | list, index and count agree at every step; the capacity holds at rest; the mutex is freed; what was stored survives its own eviction; eviction is by last use; the whole implements `AbstractCache` |
| `gate` | 2 goroutines; a client under two forms of its address, with a forged header, and a proxy with a guest; burst 2 tokens, default rate of 1.5, lifetime 4, delay 1, clock to 6, a short window and one over a lifetime | no window admits more than burst plus rate, by bucket and by peer; idle buckets go; an address whose calls do not wait has the ideal bucket, both ways |
| `sepa` | 2 handlers, 2 keys (one with a logo), 2 requests that are drawn and 8 that are not, one for each place at which a handler gives up, REQUIRE_API_KEY set, the logo file coming and going | every reply has a reason in its own request; logos are missing only after a failed load |
| `sepa_bars` | 2 payments that differ in where a bar is | **violated**: one gets the other's image |
| `logos` | 2 handlers, 2 files, 2 keys of one name, logos of 1, 3 and 4 units in a cache of 3, lines 2 apart, delay 1, clock to 3 | list, index and count agree; the cache is a forgetful map; lines are an interval apart and a missing logo has one |
| `lifecycle` | 2 handlers, 2 keys and a blank one, 5 environments with values at, beyond and outside every kind of range | readiness tells the truth about keys; a signal stops the process |
| `tls_files` | 3 deaths or failed writes, all initial files | only a death spoils the files, and only through the key; otherwise a process that failed is followed by one that serves |
| `payments` | about 8,000 inputs with AMOUNT_LENIENT_OCR on and off: amounts of up to three words and all shapes of grouped numbers, in six formats; every field right, missing or wrong; every slip in an IBAN | formats never disagree; an accepted amount, written in any format, is read as itself; the dollar is refused always, the pound by every strict reading; errors name the field at fault; a validated payment has a payload |
| `payment_foreign` | the same amounts | **violated**: "EUR 10 GBP" is taken for 10 euros |
| `cli_batch` | single payments and batches of up to 2 of 6 inputs, 4 formats, any number of invocations | the report and the exit status are true |
| `drawing` | about 700 keys files that set each field of a style to each kind of value; symbols of 2 and 3 modules a side, images of 16 to 31 pixels | the middle of each module shows the symbol, in the colours asked for and no others; keys that share a cache entry have one image, if three decimals print their angles and radii exactly; logos are whole and centred |
| `drawing_rounding` | two keys of one name, radii that print alike | **violated**: they share an entry and have different images |

Why the bounds are enough. In the cache, three keys and a capacity of three bytes
let an insertion evict one or two entries, let a replacement grow past the
capacity with others behind it, and let an entry expire with another
goroutine waiting; a clock of three passes a lifetime twice. In the limiter the
clock passes a lifetime and a collection, with a delay on either side; the five texts of
`gate` are an address in its two forms, one behind a proxy, the proxy and a text that
is no address. In the service two handlers suffice for one to overtake another; the logo file changes
as often as it likes, and images have no lifetime there, since a cache that forgets at any
moment does all that a lifetime does (lifetimes are the matter of `png_cache`). In `logos` a
large logo evicts all others, a replacement grows, and one that is too large stays out. In
`drawing` the smallest image is so much larger than its symbol and margin that each module
has two pixels (`DrawingAssumption`, which the real sizes satisfy: 512 pixels for at most 177
modules and their margin), every remainder of a division occurs, and the factors of `src/qr/` are scaled down
with the image. Three deaths spoil the files, are followed by a repair and spoil
them again. In `payments` two or four characters stand for the limits of 70,
4, 25, 140 and 70, five figures for the twelve of the amount's regular expression and 999,999
cents for 99,999,999,999: the texts go beyond each bound, and the bounds are
constants of the modules. Clocks, delays, deaths and lengths are bounded in
guards by named constants (`MaxTime`, `MaxDelay`, `MaxDeaths`, `MaxInputs`).

Deadlock is checked everywhere but in the runs of `Payments`, where a request
ends, and in `drawing`, where nobody asks again once everybody has an image. Symmetry is
used where goroutines, keys or elements are interchangeable (`png_cache`, `gate`, `sepa`,
`logos`), and in no run that checks liveness.

**Fairness.** `Lifecycle`: weak fairness of the main goroutine and of the one that waits for a signal;
none of signals, requests, edits or restarts. `TlsFiles`: a started process goes
on, and systemd starts one that failed again (`Restart=on-failure` in the unit the repository
ships), but not one that the operator has stopped; deaths and failed writes have none and are bounded, so a
directory that can never be written is not among the behaviours.

## 4. What is proved

For every value of the constants that satisfies the named assumptions:

* **`PngCacheProofs`**: `TypeCorrect`, `IndexAlwaysAgrees`, `BytesAlwaysAccounted`,
  `CapacityRespected`, `MutexAlwaysFreed`, `StoredAlwaysSurvives`,
  `AlwaysEvictsLeastRecent` and `Refinement` (`Spec => Cache!Spec`). All follow from
  `IInv`. None of the properties is inductive alone: that the count is exact after a
  removal needs that the element is in the list once and that its key leads to it
  (`IndexAgrees`); that eviction is by last use needs that the list is in order of
  last use (`RecencyOrder`); that what was stored survives needs that it is at the front
  during the loop (`FrontIsStored`) and was not larger than the capacity
  (`OnlyAdmissible`), for then the loop ends before it reaches the front. The bytes
  held are a set of pairs (`Bytes`), so that sums are cardinalities of disjoint
  unions and no induction over a sequence is needed.
* **`GateProofs`**, of the limiter: `TypeCorrect`, `RateIsBounded`, `IdleBucketsForgotten`,
  `UndelayedCallsAreIdeal`. The first and the third hold whatever the parameters. `RateIsBounded` has a condition, for the
  code's lifetime of five minutes is fixed while rate and burst are the operator's: either
  `TTLCoversBurst`, a bucket idle for the lifetime, less twice the delay, is full
  again; or `WindowsWithinTTL`, the interval is no longer than that. The fourth assumes the former. Neither
  holds of RATE_LIMIT_RPS=1, RATE_LIMIT_BURST=1000 and an interval of ten minutes, and there the bound does not
  hold (section 5). With either, the invariant works with `Balance`, what a bucket would have held at time 0:
  refilling never raises it, an admission lowers it by `Cost`, and the order in
  which times arrive does not matter. Admissions are paid for by the balance of a
  bucket or, once it is forgotten, by the time since (`Spent`), and a balance is
  never further down than the latest admission can have left it (`NotOverdrawn`). Without
  `TTLCoversBurst` the same is kept up only until the interval is over: till then a bucket that was used in it
  is still there (`Kept`, in `ShortInv`), and afterwards nothing is counted any more. Forgetting needs
  only that calls are recent and that the last collection left no idle bucket behind it
  (`MemoryInv`). That a call which is not overtaken is answered as the ideal bucket would
  answer it follows from two facts: a lazy refill is worth the ticks it stands for
  (`LazyRefill`), and a bucket that was forgotten was full (`IdleIsFull`).
  Of the gate: `GateIsLimiter`, and `PeersAreBounded` under the condition of `RateIsBounded`. Each step of the gate is one of the
  limiter or leaves it alone, so the gate inherits all that is
  proved of the limiter. A peer that is no
  trusted proxy is always counted in the bucket of its own address (`OwnBucket`), so that its
  admissions are among those of that bucket (`CountedOnce`).
* **`LifecycleProofs`**, of the TLS files: `TlsTypeCorrect`, `BadPairsComeFromDeaths`, `OnlyTheKeySpoils`.
  `AtRest` says what the files can hold while nobody writes, `Halfway` what they
  hold at each step of `generateSelfSigned`.
  Of the process: `TypeCorrect`, `ReadyIsTrue`. Nobody is
  served before main has told the server its verdict (`Told`), and keys do not
  change after they have been loaded.
* **`LogosProofs`**: `LogLimiterKeepsLinesApart`, `HandlersKeepLinesApart`,
  `MissingLogosAreLogged`, `BooksAlwaysAgree`, `LogoCacheIsAMap`. What is remembered for a key is the time of its latest line and never goes
  back, although callers arrive out of order; a line that is still to be printed is already
  counted; and a failure that was silenced has a line an interval away at most, because
  the call that silenced it was recent (`FailuresTold`). The books of the logo cache agree
  because no file is in the list twice (`Shelf`), so that the count, a sum over the list,
  is a sum over the set of its files (`CacheOK`); the eviction loop leaves an initial part of
  the list, and every call of the cache is one of the map that may forget, or a stutter.
* **`CliBatchProofs`**: `ReportsAreTrue`, `SuccessesAreComplete`. `Tallied` says after each item that the
  failures are counted, item by item; `Kept` that what an item was
  reported to have made is still in its file when the next ones are written; `Quiet` that nothing is
  reported while a batch is under way.
* **`SepaProofs`**: `BarsAndRoundingAreTheOnlyDanger`, `LogosMissOnlyAfterFailures`, `ServiceKeepsContract`.
  The last two assume `KeysTellApart`: requests with the same cache key ask for the same image and
  logo file. The first shows what is enough for it: that no free text has a bar in it, the names and paths of
  the keys' entries included (`NoBars`), and that entries which are printed alike look alike (`PrintsTellStyles`). It
  reads the joined texts back, field by field. Neither condition is enforced by the code: `sepa_bars` and
  `drawing_rounding` are what happens without them. The invariant follows an image into the cache and out of it: what is stored under
  a key, asked to be stored, drawn or found is `Good` for every request with that key,
  which is what its contract allows as an answer. Expiry, evictions and overtaking
  handlers only ever remove or replace good images by good ones.
* **`DrawingProofs`**: `OneImageForExactKeys`, `PaletteAlwaysShows`, `LogoAlwaysCentred`,
  `SymbolAlwaysReadable`. At every stage the canvas is a function of the entry of its key, at the
  end `Portrait`; the four theorems are about that function. The cache key has every field that
  `Portrait` depends on, and a key without bars in its name and path can be read back from it; but angles and radii come
  back only if three decimals print them exactly (`PrintsExactly`), which `ExactKeysShareRightly` takes as its condition. A text that `LoadFromFile` lets pass is one that `src/qr/` can parse
  (`ColoursParse`), so that no recolouring fails half-way. The edges of modules are rounded
  quotients that never come too close (`Rounded`, and the two pixels that `DrawingAssumption` grants each
  module), so that the pixel in the middle of a module belongs to that module alone; it is
  inside the square or the rounded shape, and painting goes on only over other pixels. A logo
  is no larger than half its image, and halves and margins lose less than a pixel.
* **`PaymentsProofs`**: `ForeignNeverAcceptedStrictly`, `OneAmountInAllFormats`, `AmountAlwaysReadsBack`, `FieldNamedIsAtFault`,
  `WhatIsCleanIsBuilt`, `NoSlipGoesThrough`. None needs more of an invariant than that the error, the validated
  fields and the payload are those of the input (`PaymentsInv`); they are about the functions that
  compute them. Texts are filtered, cut and trimmed, and what was in them stays or goes as
  a whole (`AtHolds`, `AtKeeps`), so the mark of a currency is still there when it is
  looked for. What a text amounts to is defined apart from the formats: `Scan` goes through it
  symbol by symbol and keeps its figures as one number, how many of them follow the last separator,
  and what came first. Dropping spaces, group marks or the word EUR changes none of that
  (`ScanAt`), a text of plain figures comes to its `Cents` (`PlainScan`), the
  separator is taken for a decimal one only with at most two figures behind it (`SplitScan`), and mapping misread
  letters makes a zero only of an O, which no euro text has between figures (`MapScan`); so each reading that
  is accepted, strict or lenient, is the scan of the text (`ReadsTheScan`). An amount that is written anew
  reads back because its scan is that amount and every reader takes it. The figures of a number, with a group mark
  after every third from the end, fit the format's expression for groups and come to the number once the marks are
  gone (`GroupedNumber`, `GroupedPattern`); two figures behind the separator of the format end it
  (`FractionFits`), `WrittenIs` says so of every text that is written, and neither a mark of the euro nor mapped letters
  get in the way (`LenientTaken`, `StrictTaken`, `ReadBack`). This one assumes
  `LargestAssumption`: the largest amount has fewer figures than the expressions take, nine and twelve in
  `src/validate/`. Every error has a field, and a field put right takes
  its errors away and adds none. `Trim` commutes with nothing, but a text that is not blank is not blank
  after it was cut (`TextsKept`); with an amount that is a number (`AmountIsNat`) that is all the
  payload asks for. The checksum is a run of remainders modulo 97. A character
  keeps different remainders apart (`StepKeepsApart`), and other characters, or two figures in
  the other order, make different ones (`CharsApart`, `OrderMatters`). The fourth and the fifth
  character are neighbours in the number but lie at the two ends of what the checksum runs over
  (`Rearranged`): there the remainders differ by a power of ten that mounts up on the way, by 14
  to 65 in the 15 to 34 characters allowed, and never to a multiple of 96, the order of ten (`EndsTold`).

Each invariant is shown to hold initially and to be preserved by every action, one
step per action; the temporal theorems combine these by PTL.

**Only model-checked.** Liveness (`SignalStops`, `ServesOrSpoiled`) and
ENABLED are out of reach of the prover. The statements that are violated have none, of course.

## 5. What came out

Three statements of the repository are violated (in `PROJECT.json`, "findings"):

1. `buildCacheKey` joins free texts by bars that they may contain; two payments
   share an entry (`sepa_bars`; README.md:34 promises deterministic output).
2. The cache key rounds radii and angles to three decimals (`server.go:564-578`), the drawing does
   not: two keys of one name with the radii 0.2249 and 0.2254 share an entry and have different
   images (`drawing_rounding`; README.md:34).
3. The lenient format takes "EUR 10 GBP" for 10 euros (`amount.go:225`): it asks for the euro
   before any currency but the dollar, and then drops all letters (`payment_foreign`;
   CONFIG.md:118 and 151, CHANGELOG.md:16). `ForeignRefusedStrictly` is what holds.

Four more follow from the models without a run of their own:

* Free texts are trimmed at their ends only (`validate.go:41`), so a line break inside a name becomes a
  line of the payload and shifts those after it: `Text` keeps it and `Joined` joins with it. `epc_test.go:25`
  expects twelve lines.
* With REQUIRE_KEYS and no keys the server starts, reports not ready and serves public images
  (`main.go:72`): `LoadKeys` goes on, whatever `Missing` says, as CONFIG.md:27-28 has it, while CHANGELOG.md:59 and CONFIG.md:22 speak
  of a guard against public mode.
* NaN is neither below nor above a bound (`config.go:238`): `Accepted` lets it pass for RATE_LIMIT_RPS and
  LOGO_MAX_RATIO, against CONFIG.md:31 and 104, and with a rate of NaN no bucket ever runs out. No property says
  that settings are in their range.
* A bucket is forgotten after five idle minutes, full or not (`ratelimit.go:88`): with RATE_LIMIT_RPS=1 and
  RATE_LIMIT_BURST=1000, which CONFIG.md allows, a client that has spent its burst and pauses that long is given 1000
  tokens where 300 have accrued. `gate` therefore has a lifetime that covers the burst, and
  `RateIsBounded` a condition.

Other observations, visible in the models though no document says otherwise, or
excluded by an assumption:

* An image drawn while its logo could not be read is cached like any other and lasts
  as long as its entry (`server.go:374`), which may be for ever. `LogoMissingOnlyAfterFailure` says why a logo is
  missing, not how long: once its file has failed, images of any later time may lack it.
* In "1 EURO 2" the lenient format reads the O as a zero (`amount.go:187`); `FormatsAgree` states what is left.
* A key file torn by a death is taken as it is by the next process, which fails and is
  restarted for ever; a lone certificate of the operator is overwritten
  (`tls.go:21-36`). `ServesOrSpoiled` excepts exactly
  two files that are there and are no pair.
* `Run` returns as soon as `Shutdown` begins, and `main` returns with it, so the eight
  seconds for requests in flight are cut short (`main.go:104-113`).
* A bare HEAD is answered before its key is looked up (`server.go:209`), and a
  query key is accepted for POST as well (`auth.go:27`), although CONFIG.md speaks of
  GET and HEAD.
* `payload_build_failed` is never answered (`PayloadNeverFails`); a name cut at its
  limit may end in a space; logos in memory have no lifetime, and one that has grown too large
  to keep leaves its predecessor there (`cache.go:155`), so that handlers may show either.
* The margin of a styled image is `quiet_zone` and the four modules of go-qrcode, where
  CONFIG.md:70-71 says `quiet_zone`. A blob's radius is 0.5 unless given, where CONFIG.md says
  0.25, and a `module_radius` of 0 means the default.
* A rounded module of two by two pixels vanishes, since `fillRoundedRect` paints none of
  the four (`round.go:82`); long payments outside ASCII at 512 pixels with a wide quiet zone have such
  modules. `SymbolReadable` states what is left.
* `corner_radius` clears pixels that a background colour paints again later, and a large one cuts into
  finder patterns. The least logo of 40 pixels may exceed LOGO_MAX_RATIO; a circular plate
  does not cover the corners of a square logo.
* Of two entries of keys.json that are equal after trimming, the later one counts
  (`keys.go:110`).
* RATE_LIMIT_RPS of 0 becomes 10 in
  `newIPLimiter`; a misspelt switch is its default in silence; the default of CACHE_TTL_SEC, 900, lies outside
  its range of 1 to 600.
* A batch of payloads does not look whether its lines could be printed and may exit with
  0 (`cli_generate.go:182`, `PayloadsLost`). The default `--out` is a file for one
  payment and a directory for a batch, and each fails where the other has been.
* `main` sets the version after `config.Load` has copied the old one (`main.go:51`), so `/version`
  answers "dev".

## 6. What is abstracted or left out

* How replies are written (PNG, JSON, headers, ETag) is reduced to a code and an image.
* Whether the limiter allows a request is left open in `SepaService`; limiter and
  service share no other state.
* In `SepaService` an image is what it shows; how it is drawn is `Drawing`. Where along
  a gradient a pixel lies, floating point and the encoding of PNG are left out, and the
  symbol is made by a library. Whether a payment can be encoded is a property of the request.
* Case folding, spaces around single words and the BIC's regular expression.
* Of the configuration, paths, addresses, host names and header values, which are taken
  as they are.
* Not modelled: the access log and request identifiers (`server.go`), the error image
  (`errorpng.go`), `/health`, `/version` and the pprof listener. They are input and output alone and
  change nothing that another part reads.

## 7. Plan

Everything that changes state is modelled, the safety properties that hold are proved, and liveness is checked.
What could follow are safety facts that liveness rests on: that each step of the process and of the unit that starts it
is enabled where fairness needs it, in terms of the state and without ENABLED.
