------------------------------ MODULE HttpCheck ------------------------------
(***************************************************************************)
(* The HTTP check of one domain (httpcheck.Checker.CheckDomain), through   *)
(* the system's resolver or pinned to the answers of DNS over HTTPS: dial, *)
(* request, redirects one by one, content, retries, and plain HTTP when    *)
(* HTTPS could not be reached.  Servers, resolvers and the network answer  *)
(* as they like, differently every time; chain and run have deadlines.     *)
(***************************************************************************)
EXTENDS Integers, Sequences

CONSTANTS
  Pages,          \* what a URL can name; Home is the domain's own page
  Home,
  Addresses,      \* what a name can resolve to
  Blocked,        \* the addresses the dial policy refuses
  MaxRedirects,
  HttpAttempts,   \* MONITOR_MAX_ATTEMPTS
  BaseDelay,
  MaxDelay,
  ChainTimeout,   \* of one attempt
  CheckTimeout,   \* what is left of the run
  ExpiringSoon    \* days of a certificate

BadPage == "malformed"

ASSUME HttpCheckAssumption ==
  /\ Home \in Pages /\ Blocked \subseteq Addresses
  /\ MaxRedirects \in Nat \ {0} /\ HttpAttempts \in Nat \ {0}
  /\ BaseDelay \in Nat \ {0} /\ MaxDelay \in Nat /\ MaxDelay >= BaseDelay
  /\ ChainTimeout \in Nat /\ CheckTimeout \in Nat /\ ExpiringSoon \in Nat
  /\ BadPage \notin Pages

\* Arithmetic of the shift in Delay, which TLC evaluates and the provers take from here.
ASSUME PowersAssumption == \A k \in 0 .. 30 : 2 ^ k \in Nat \ {0}

VARIABLES
  fetch,   \* the attempt at work
  left,    \* time left: of the chain, of the run
  tried,   \* the attempt that ended last, until the next begins
  asked,   \* ghost: what this attempt requested, oldest first, and the addresses it dialled
  pause    \* between attempts: what is left of it, how long it is, what the server asked for

httpVars == <<fetch, left, tried, asked, pause>>

ContentModes == {"HTML", "ANY", "STATUS_ONLY"}
\* A URL; "odd" spells the host in capitals or names the default port.
Urls == [secure : BOOLEAN, page : Pages, spelt : {"plain", "odd"}]
BadLocation == [secure |-> FALSE, page |-> BadPage, spelt |-> "plain"]
CanonicalAsIs(url) == url
CanonicalURL(url) == [url EXCEPT !.spelt = "plain"]
Start(secure) == [secure |-> secure, page |-> Home, spelt |-> "plain"]

NotTried == [status |-> 0, content |-> "UNKNOWN", code |-> "none", retryable |-> FALSE, after |-> 0, hops |-> <<>>, tls |-> "none"]
NoPause == [left |-> 0, length |-> 0, after |-> 0]
Least(a, b) == IF a < b THEN a ELSE b

ErrorCodes ==
  {"none", "DNS_NETWORK_ERROR", "SSRF_BLOCKED_ADDRESS", "TCP_REFUSED", "TCP_TIMEOUT", "TCP_NETWORK_ERROR",
   "TLS_EXPIRED", "TLS_UNKNOWN_AUTHORITY", "HTTP_TIMEOUT", "HTTP_4XX", "HTTP_5XX", "HTTP_BODY_READ",
   "HTTP_REDIRECT_LIMIT", "HTTP_MALFORMED_LOCATION", "HTTP_HTTPS_DOWNGRADE", "HTTP_REDIRECT_LOOP",
   "CONTENT_TOO_LARGE", "CONTENT_EMPTY", "CONTENT_TOO_SMALL", "CONTENT_UNSUPPORTED", "CONTENT_NOT_MEANINGFUL", "RUN_CANCELLED"}

HttpTypeOK ==
  /\ fetch.phase \in {"dial", "request", "pause", "done"} /\ fetch.n \in 1 .. HttpAttempts /\ fetch.url \in Urls
  /\ left.chain \in 0 .. ChainTimeout /\ left.run \in 0 .. CheckTimeout
  /\ tried.code \in ErrorCodes /\ Len(tried.hops) <= MaxRedirects
  /\ asked.dialled \subseteq Pages \X Addresses

HttpInit ==
  /\ \E mode \in ContentModes, pinned \in SUBSET Addresses :
       fetch = [phase |-> "dial", mode |-> mode, pinned |-> pinned, n |-> 1, url |-> Start(TRUE),
                seen |-> {Start(TRUE)}, hops |-> <<>>, fallback |-> FALSE, cancelled |-> FALSE]
  /\ left = [chain |-> ChainTimeout, run |-> CheckTimeout]
  /\ tried = NotTried
  /\ asked = [urls |-> <<>>, dialled |-> {}]
  /\ pause = NoPause

-----------------------------------------------------------------------------
\* Retry policy: the ceiling doubles with every attempt, and jitter picks anything below.
DelayCeiling(n) ==
  LET factor == 2 ^ Least(n - 1, 30)
      ceiling == IF BaseDelay <= MaxDelay \div factor THEN BaseDelay * factor ELSE MaxDelay
  IN Least(ceiling, MaxDelay)

\* Codes for which https counts as not reachable.
ShouldFallbackToHTTP(code) ==
  code \in {"DNS_NETWORK_ERROR", "TCP_TIMEOUT", "TCP_REFUSED", "TCP_NETWORK_ERROR", "TLS_EXPIRED", "TLS_UNKNOWN_AUTHORITY"}

BeginAttempt(n, secure, fallback) ==
  /\ fetch' = [fetch EXCEPT !.phase = "dial", !.n = n, !.url = Start(secure), !.seen = {Start(secure)},
                            !.hops = <<>>, !.fallback = fallback]
  /\ left' = [left EXCEPT !.chain = ChainTimeout]
  /\ tried' = NotTried

Leave(phase, a) ==
  /\ fetch' = [fetch EXCEPT !.phase = phase, !.url = Start(~fetch.fallback), !.seen = {}, !.hops = <<>>]
  /\ tried' = a
  /\ asked' = [urls |-> <<>>, dialled |-> {}]
  /\ UNCHANGED left

\* CheckURL is through with a scheme: CheckDomain goes on to plain HTTP, or is done.
EndOfScheme(a) ==
  /\ IF ~fetch.fallback /\ ShouldFallbackToHTTP(a.code)
     THEN BeginAttempt(1, FALSE, TRUE) /\ asked' = [urls |-> <<>>, dialled |-> {}]
     ELSE Leave("done", a)
  /\ pause' = NoPause

UncappedAfter(after, delay) == IF after > delay THEN after ELSE delay
PauseLength(after, delay) == IF after > delay THEN Least(after, MaxDelay) ELSE delay

\* The loop of CheckURL after an attempt.
EndAttempt(a) ==
  IF ~a.retryable \/ fetch.n >= HttpAttempts THEN EndOfScheme(a)
  ELSE \E delay \in 0 .. DelayCeiling(fetch.n) :
         LET length == PauseLength(a.after, delay) IN
         /\ pause' = [left |-> length, length |-> length, after |-> a.after]
         /\ Leave("pause", a)

Failed(code, retryable) ==
  [NotTried EXCEPT !.code = code, !.retryable = retryable, !.hops = fetch.hops]

EndPause ==
  /\ fetch.phase = "pause"
  /\ \/ pause.left = 0 /\ BeginAttempt(fetch.n + 1, ~fetch.fallback, fetch.fallback) /\ pause' = NoPause
        /\ UNCHANGED asked
     \/ pause.length > 0 /\ left.run = 0 /\ EndOfScheme(tried)

-----------------------------------------------------------------------------
\* PinnedResolver.LookupNetIP: the pinned addresses for the domain, the system's for other hosts.
Lookup(url) == IF fetch.pinned # {} /\ url.page = Home THEN {fetch.pinned} ELSE SUBSET Addresses

\* Dialer.DialContext: resolve, refuse the whole answer for one blocked address, try in turn.
Dial(addresses, reachable) ==
  /\ fetch.phase = "dial" /\ left.chain > 0 /\ left.run > 0
  /\ IF addresses = {} THEN \E r \in BOOLEAN : EndAttempt(Failed("DNS_NETWORK_ERROR", r))
     ELSE IF addresses \cap Blocked # {} THEN EndAttempt(Failed("SSRF_BLOCKED_ADDRESS", FALSE))
     ELSE IF ~reachable
     THEN \E e \in {<<"TCP_REFUSED", TRUE>>, <<"TCP_TIMEOUT", TRUE>>, <<"TCP_NETWORK_ERROR", FALSE>>} :
            EndAttempt(Failed(e[1], e[2]))
     ELSE /\ fetch' = [fetch EXCEPT !.phase = "request"]
          /\ asked' = [asked EXCEPT !.urls = Append(@, fetch.url),
                                   !.dialled = @ \cup {<<fetch.url.page, a>> : a \in addresses}]
          /\ UNCHANGED <<left, tried, pause>>

\* classifyRequestError, the failures of a connected request.
RequestFails ==
  /\ fetch.phase = "request" /\ left.chain > 0 /\ left.run > 0
  /\ \/ \E e \in {<<"HTTP_TIMEOUT", TRUE>>, <<"TCP_NETWORK_ERROR", FALSE>>} : EndAttempt(Failed(e[1], e[2]))
     \/ fetch.url.secure /\ \E c \in {"TLS_EXPIRED", "TLS_UNKNOWN_AUTHORITY"} : EndAttempt(Failed(c, FALSE))

\* The attempt is cut off; which code it gets for a deadline depends on what was under way,
\* and not on whether it was the deadline of the chain or of the run.
OutOfTime ==
  /\ fetch.phase \in {"dial", "request"} /\ (left.chain = 0 \/ left.run = 0)
  /\ IF fetch.cancelled THEN EndAttempt(Failed("RUN_CANCELLED", FALSE))
     ELSE \E c \in {"HTTP_TIMEOUT"} \cup (IF fetch.phase = "dial" THEN {"TCP_TIMEOUT", "DNS_NETWORK_ERROR"} ELSE {}) :
            EndAttempt(Failed(c, TRUE))

\* The worker is stopped.
CancelCheck ==
  /\ fetch.phase # "done" /\ left.run > 0
  /\ fetch' = [fetch EXCEPT !.cancelled = TRUE]
  /\ left' = [left EXCEPT !.run = 0]
  /\ UNCHANGED <<tried, asked, pause>>

Hop(permanent) == Append(fetch.hops, permanent)
Broken(code, hops) == [Failed(code, FALSE) EXCEPT !.hops = hops]

\* checkAttempt on a redirect: limit, location, downgrade, loop, in this order.
Redirected(permanent, target) ==
  /\ fetch.phase = "request" /\ left.chain > 0 /\ left.run > 0
  /\ IF Len(fetch.hops) >= MaxRedirects THEN EndAttempt(Failed("HTTP_REDIRECT_LIMIT", FALSE))
     ELSE IF target = BadLocation THEN EndAttempt(Broken("HTTP_MALFORMED_LOCATION", Hop(permanent)))
     ELSE IF fetch.url.secure /\ ~target.secure THEN EndAttempt(Broken("HTTP_HTTPS_DOWNGRADE", Hop(permanent)))
     ELSE IF CanonicalURL(target) \in fetch.seen THEN EndAttempt(Broken("HTTP_REDIRECT_LOOP", Hop(permanent)))
     ELSE /\ fetch' = [fetch EXCEPT !.phase = "dial", !.url = target, !.hops = Hop(permanent), !.seen = @ \cup {CanonicalURL(target)}]
          /\ UNCHANGED <<left, tried, asked, pause>>

Bodies == {"unreadable", "oversized", "empty", "tiny", "shell", "page", "data"}
IsHtml(body) == body \in {"shell", "page"}
Content(status, code) == [status |-> status, code |-> code]

\* readContent
ReadContent(body, mode) ==
  CASE body = "unreadable" -> Content("UNKNOWN", "HTTP_BODY_READ")
    [] body = "oversized" -> Content("OVERSIZED_TRUNCATED", "CONTENT_TOO_LARGE")
    [] body = "empty" -> Content("EMPTY", IF mode = "STATUS_ONLY" THEN "none" ELSE "CONTENT_EMPTY")
    [] body = "tiny" /\ mode # "STATUS_ONLY" -> Content("TOO_SMALL", "CONTENT_TOO_SMALL")
    [] body = "data" /\ mode = "HTML" -> Content("UNSUPPORTED_CONTENT", "CONTENT_UNSUPPORTED")
    [] body = "shell" /\ mode # "STATUS_ONLY" -> Content("NOT_MEANINGFUL", "CONTENT_NOT_MEANINGFUL")
    [] OTHER -> Content(IF IsHtml(body) THEN "VALID_HTML" ELSE "VALID_NON_HTML", "none")

ClassifyStatus(status) ==
  IF status >= 500 THEN [code |-> "HTTP_5XX", retryable |-> status = 503]
  ELSE IF status >= 400 THEN [code |-> "HTTP_4XX", retryable |-> status = 429]
  ELSE [code |-> "none", retryable |-> FALSE]

\* FromConnectionState: a certificate that was verified can expire before the response is read.
NoCertificate == [presented |-> FALSE, days |-> 0]
Certificates == [presented : {TRUE}, days : {-1, ExpiringSoon, ExpiringSoon + 1}]
TlsStatus(cert) ==
  IF ~cert.presented THEN "none" ELSE IF cert.days < 0 THEN "EXPIRED" ELSE IF cert.days <= ExpiringSoon THEN "EXPIRING" ELSE "VALID"

\* checkAttempt on any other response.
Responded(status, body, cert, after) ==
  LET content == ReadContent(body, fetch.mode)
      verdict == ClassifyStatus(status)
  IN
  /\ fetch.phase = "request" /\ left.chain > 0 /\ left.run > 0
  /\ cert.presented = fetch.url.secure
  /\ EndAttempt([status |-> status, content |-> content.status, hops |-> fetch.hops, tls |-> TlsStatus(cert), after |-> after,
                 code |-> IF verdict.code # "none" THEN verdict.code ELSE content.code, retryable |-> verdict.retryable])

FetchTick ==
  /\ fetch.phase # "done" /\ left.run > 0
  /\ fetch.phase = "pause" => pause.left > 0
  /\ fetch.phase # "pause" => left.chain > 0
  /\ left' = [run |-> left.run - 1, chain |-> IF fetch.phase = "pause" THEN left.chain ELSE left.chain - 1]
  /\ pause' = IF fetch.phase = "pause" THEN [pause EXCEPT !.left = @ - 1] ELSE pause
  /\ UNCHANGED <<fetch, tried, asked>>

HttpNext ==
  \/ \E addresses \in Lookup(fetch.url), reachable \in BOOLEAN : Dial(addresses, reachable)
  \/ RequestFails \/ OutOfTime \/ CancelCheck \/ EndPause \/ FetchTick
  \/ \E permanent \in BOOLEAN, target \in Urls \cup {BadLocation} : Redirected(permanent, target)
  \/ \E status \in {200, 304, 404, 429, 500, 503}, body \in Bodies, cert \in Certificates \cup {NoCertificate}, after \in {0, MaxDelay + 1} :
       Responded(status, body, cert, after)

HttpSpec == HttpInit /\ [][HttpNext]_httpVars

-----------------------------------------------------------------------------
(***************************************************************************)
(* What an attempt requested: at most MaxRedirects redirects, no page      *)
(* twice however it is spelt, never plain HTTP after HTTPS, no blocked     *)
(* address, and a pinned check meets its own domain at pinned addresses.   *)
(***************************************************************************)
ChainsAreSafe ==
  /\ Len(asked.urls) <= MaxRedirects + 1
  /\ \A i, j \in DOMAIN asked.urls :
       i < j => /\ asked.urls[i].page = asked.urls[j].page => asked.urls[i].secure # asked.urls[j].secure
                /\ asked.urls[i].secure => asked.urls[j].secure
  /\ \A d \in asked.dialled : d[2] \notin Blocked
  /\ fetch.pinned # {} => \A d \in asked.dialled : d[1] = Home => d[2] \in fetch.pinned

(***************************************************************************)
(* A pause is never longer than MaxDelay, and as long as the server asked  *)
(* for up to that: Retry-After neither stalls a worker nor is ignored.     *)
(***************************************************************************)
PausesAreBounded ==
  pause.length <= MaxDelay /\ pause.length >= Least(pause.after, MaxDelay)
=============================================================================
