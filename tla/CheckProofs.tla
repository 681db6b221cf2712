---------------------------- MODULE CheckProofs -----------------------------
(***************************************************************************)
(* Proofs about the checks of a domain, for any pages, addresses, bounds   *)
(* and results: the HTTP check (HttpCheck), the verdict drawn from it      *)
(* (Classification) and the requests to registries (Rdap).                 *)
(*                                                                         *)
(* An outcome of the HTTP check is sound when its code, status, content    *)
(* and certificate fit together (SoundAttempt).  That every attempt ends   *)
(* with a sound one is what makes the columns computed from it agree.      *)
(***************************************************************************)
EXTENDS Classification, Rdap, WellFoundedInduction, TLAPS

\* The module is large: every leaf may take longer than the default of the provers.
USE SMTT(15), ZenonT(15)

\* The types of an attempt, a pause and an outcome.
Fetches ==
  [phase : {"dial", "request", "pause", "done"}, mode : ContentModes, pinned : SUBSET Addresses, n : Nat \ {0},
   url : Urls, seen : SUBSET Urls, hops : Seq(BOOLEAN), fallback : BOOLEAN, cancelled : BOOLEAN]
Pauses == [left : Nat, length : Nat, after : Nat]
Contents ==
  {"UNKNOWN", "OVERSIZED_TRUNCATED", "EMPTY", "TOO_SMALL", "UNSUPPORTED_CONTENT", "NOT_MEANINGFUL", "VALID_HTML", "VALID_NON_HTML"}
Attempts ==
  [status : Nat, content : Contents, code : ErrorCodes, retryable : BOOLEAN, after : Nat, hops : Seq(BOOLEAN),
   tls : {"none", "EXPIRED", "EXPIRING", "VALID"}]

\* What the constants and initial values are.
LEMMA Constants ==
  /\ Start(TRUE) \in Urls /\ Start(FALSE) \in Urls /\ NotTried \in Attempts /\ NoPause \in Pauses
  /\ NoPause.length = 0 /\ NoPause.after = 0
  /\ MaxDelay \in Nat /\ BaseDelay \in Nat /\ MaxDelay > 0 /\ HttpAttempts \in Nat \ {0}
<1>1. Start(TRUE) \in Urls /\ Start(FALSE) \in Urls
  BY HttpCheckAssumption, Zenon DEF Start, Urls
<1>2. NotTried \in Attempts
  <2>1. "none" \in ErrorCodes /\ "UNKNOWN" \in Contents
    BY Zenon DEF ErrorCodes, Contents
  <2>2. <<>> \in Seq(BOOLEAN)
    OBVIOUS
  <2> QED
    BY <2>1, <2>2, Zenon DEF NotTried, Attempts
<1>3. NoPause \in Pauses /\ NoPause.length = 0 /\ NoPause.after = 0
  BY Zenon DEF NoPause, Pauses
<1>4. MaxDelay \in Nat /\ BaseDelay \in Nat /\ MaxDelay > 0 /\ HttpAttempts \in Nat \ {0}
  BY HttpCheckAssumption
<1> QED
  BY <1>1, <1>2, <1>3, <1>4, Zenon

\* The ceiling of a retry's delay never exceeds MaxDelay.
LEMMA CeilingBound ==
  ASSUME NEW n \in Nat \ {0}
  PROVE  DelayCeiling(n) \in Nat /\ DelayCeiling(n) <= MaxDelay
<1> DEFINE k == Least(n - 1, 30)
           factor == 2 ^ k
           ceiling == IF BaseDelay <= MaxDelay \div factor THEN BaseDelay * factor ELSE MaxDelay
<1>1. k \in 0 .. 30
  BY DEF Least
<1>2. factor \in Nat \ {0}
  <2> HIDE DEF k
  <2> QED
    BY <1>1, PowersAssumption, Zenon
<1> HIDE DEF factor
<1>3. ceiling \in Nat
  BY <1>2, HttpCheckAssumption
<1>4. DelayCeiling(n) = Least(ceiling, MaxDelay)
  BY Zenon DEF DelayCeiling, factor
<1> HIDE DEF ceiling
<1> QED
  BY <1>3, <1>4, HttpCheckAssumption DEF Least

\* A pause respects the server's wish up to MaxDelay and never exceeds it.
LEMMA PauseBound ==
  ASSUME NEW after \in Nat, NEW n \in Nat \ {0}, NEW delay \in 0 .. DelayCeiling(n)
  PROVE  /\ PauseLength(after, delay) \in Nat /\ PauseLength(after, delay) <= MaxDelay
         /\ PauseLength(after, delay) >= Least(after, MaxDelay)
<1>1. DelayCeiling(n) \in Nat /\ DelayCeiling(n) <= MaxDelay /\ MaxDelay \in Nat
  BY CeilingBound, HttpCheckAssumption, Zenon
<1> QED
  BY <1>1 DEF PauseLength, Least

\* What the end of an attempt leads to: the pause before a retry, the other scheme, or the end.
Begun(n, secure, fb) ==
  /\ fetch' = [fetch EXCEPT !.phase = "dial", !.n = n, !.url = Start(secure), !.seen = {Start(secure)},
                            !.hops = <<>>, !.fallback = fb]
  /\ tried' = NotTried
Left(phase, a) ==
  /\ fetch' = [fetch EXCEPT !.phase = phase, !.url = Start(~fetch.fallback), !.seen = {}, !.hops = <<>>]
  /\ tried' = a

\* CheckDomain after a scheme: on to plain HTTP, or done.
LEMMA SchemeEnds ==
  ASSUME NEW a, EndOfScheme(a)
  PROVE  /\ asked' = [urls |-> <<>>, dialled |-> {}]
         /\ pause' = NoPause
         /\ (~fetch.fallback /\ Begun(1, FALSE, TRUE)) \/ Left("done", a)
BY Zenon DEF EndOfScheme, BeginAttempt, Leave, Begun, Left

\* CheckURL after an attempt: a bounded pause, or the end of the scheme.
LEMMA AttemptEnds ==
  ASSUME fetch \in Fetches, NEW a \in Attempts, EndAttempt(a)
  PROVE  /\ asked' = [urls |-> <<>>, dialled |-> {}]
         /\ pause' \in Pauses /\ PausesAreBounded'
         /\ (~fetch.fallback /\ Begun(1, FALSE, TRUE)) \/ Left("done", a) \/ Left("pause", a)
<1>1. CASE EndOfScheme(a)
  <2>1. /\ asked' = [urls |-> <<>>, dialled |-> {}]
        /\ pause' = NoPause
        /\ (~fetch.fallback /\ Begun(1, FALSE, TRUE)) \/ Left("done", a)
    BY <1>1, SchemeEnds, Zenon
  <2>2. pause' \in Pauses /\ PausesAreBounded'
    BY <2>1, Constants DEF PausesAreBounded, Least
  <2> QED
    BY <2>1, <2>2, Zenon
<1>2. ASSUME NEW delay \in 0 .. DelayCeiling(fetch.n),
             pause' = [left |-> PauseLength(a.after, delay), length |-> PauseLength(a.after, delay), after |-> a.after],
             Leave("pause", a)
      PROVE  /\ asked' = [urls |-> <<>>, dialled |-> {}]
             /\ pause' \in Pauses /\ PausesAreBounded'
             /\ Left("pause", a)
  <2>1. a.after \in Nat /\ fetch.n \in Nat \ {0}
    BY Zenon DEF Attempts, Fetches
  <2>2. /\ PauseLength(a.after, delay) \in Nat /\ PauseLength(a.after, delay) <= MaxDelay
        /\ PauseLength(a.after, delay) >= Least(a.after, MaxDelay)
    BY <2>1, PauseBound, Zenon
  <2>3. pause' \in Pauses
    BY <1>2, <2>1, <2>2, Zenon DEF Pauses
  <2>4. PausesAreBounded'
    BY <1>2, <2>2, Zenon DEF PausesAreBounded
  <2> QED
    BY <1>2, <2>3, <2>4, Zenon DEF Leave, Left
<1> QED
  BY <1>1, <1>2, Zenon DEF EndAttempt

\* What the outcome of an attempt always satisfies; plain says that it was made without TLS.
SoundAttempt(a, plain) ==
  /\ a.status = 0 => a.code # "none" /\ a.content = "UNKNOWN"
  /\ a.status # 0 => a.status >= 200 /\ (a.tls = "none" => plain)
  /\ a.status \in 400 .. 499 => a.code = "HTTP_4XX"
  /\ a.status >= 500 => a.code = "HTTP_5XX"
  /\ a.status \in 1 .. 399 /\ a.content \in ValidContent => a.code = "none"

\* A failure has no status, a code and no content.
LEMMA FailedIsSound ==
  ASSUME NEW code \in ErrorCodes, code # "none", NEW r \in BOOLEAN, NEW hops \in Seq(BOOLEAN), NEW plain
  PROVE  LET a == [NotTried EXCEPT !.code = code, !.retryable = r, !.hops = hops]
         IN a \in Attempts /\ SoundAttempt(a, plain)
<1> DEFINE a == [NotTried EXCEPT !.code = code, !.retryable = r, !.hops = hops]
<1>1. a \in Attempts /\ a.code = code /\ a.status = NotTried.status /\ a.content = NotTried.content
  BY Constants, Zenon DEF Attempts
<1>2. NotTried.status = 0 /\ NotTried.content = "UNKNOWN"
  BY Zenon DEF NotTried
<1> HIDE DEF a
<1>3. SoundAttempt(a, plain)
  BY <1>1, <1>2 DEF SoundAttempt
<1> QED
  BY <1>1, <1>3, Zenon DEF a

\* So has the outcome of Failed.
LEMMA FailureIsSound ==
  ASSUME fetch \in Fetches, NEW code \in ErrorCodes, code # "none", NEW r \in BOOLEAN, NEW plain
  PROVE  Failed(code, r) \in Attempts /\ SoundAttempt(Failed(code, r), plain)
<1>1. fetch.hops \in Seq(BOOLEAN)
  BY Zenon DEF Fetches
<1> QED
  BY <1>1, FailedIsSound, Zenon DEF Failed

\* And that of Broken, for a redirect that is not followed.
LEMMA BrokenIsSound ==
  ASSUME fetch \in Fetches, NEW code \in ErrorCodes, code # "none", NEW permanent \in BOOLEAN, NEW plain
  PROVE  Broken(code, Hop(permanent)) \in Attempts /\ SoundAttempt(Broken(code, Hop(permanent)), plain)
<1>1. fetch.hops \in Seq(BOOLEAN)
  BY Zenon DEF Fetches
<1>2. Hop(permanent) \in Seq(BOOLEAN)
  BY <1>1 DEF Hop
<1>3. Broken(code, Hop(permanent)) = [NotTried EXCEPT !.code = code, !.retryable = FALSE, !.hops = Hop(permanent)]
  BY Zenon DEF Broken, Failed, NotTried
<1> QED
  BY <1>2, <1>3, FailedIsSound, ZenonT(40)

\* readContent: content is VALID only without an error.
LEMMA ContentTypes ==
  ASSUME NEW body \in Bodies, NEW mode \in ContentModes
  PROVE  LET content == ReadContent(body, mode)
         IN /\ content.status \in Contents /\ content.code \in ErrorCodes
            /\ content.status \in ValidContent => content.code = "none"
<1> DEFINE content == ReadContent(body, mode)
<1>1. CASE body = "unreadable"
  <2>1. content = Content("UNKNOWN", "HTTP_BODY_READ")
    BY <1>1, Zenon DEF ReadContent
  <2> QED
    BY <2>1 DEF Content, Contents, ErrorCodes, ValidContent
<1>2. CASE body = "oversized"
  <2>1. content = Content("OVERSIZED_TRUNCATED", "CONTENT_TOO_LARGE")
    BY <1>2, Zenon DEF ReadContent
  <2> QED
    BY <2>1 DEF Content, Contents, ErrorCodes, ValidContent
<1>3. CASE body = "empty"
  <2>1. content = Content("EMPTY", IF mode = "STATUS_ONLY" THEN "none" ELSE "CONTENT_EMPTY")
    BY <1>3, Zenon DEF ReadContent
  <2> QED
    BY <2>1 DEF Content, Contents, ErrorCodes, ValidContent
<1>4. CASE body = "tiny" /\ mode # "STATUS_ONLY"
  <2>1. content = Content("TOO_SMALL", "CONTENT_TOO_SMALL")
    BY <1>4, Zenon DEF ReadContent
  <2> QED
    BY <2>1 DEF Content, Contents, ErrorCodes, ValidContent
<1>5. CASE body = "data" /\ mode = "HTML"
  <2>1. content = Content("UNSUPPORTED_CONTENT", "CONTENT_UNSUPPORTED")
    BY <1>5, Zenon DEF ReadContent
  <2> QED
    BY <2>1 DEF Content, Contents, ErrorCodes, ValidContent
<1>6. CASE body = "shell" /\ mode # "STATUS_ONLY"
  <2>1. content = Content("NOT_MEANINGFUL", "CONTENT_NOT_MEANINGFUL")
    BY <1>6, Zenon DEF ReadContent
  <2> QED
    BY <2>1 DEF Content, Contents, ErrorCodes, ValidContent
<1>7. CASE /\ body \notin {"unreadable", "oversized", "empty"} /\ ~(body = "tiny" /\ mode # "STATUS_ONLY")
           /\ ~(body = "data" /\ mode = "HTML") /\ ~(body = "shell" /\ mode # "STATUS_ONLY")
  <2>1. content = Content(IF IsHtml(body) THEN "VALID_HTML" ELSE "VALID_NON_HTML", "none")
    BY <1>7, Zenon DEF ReadContent
  <2> QED
    BY <2>1 DEF Content, Contents, ErrorCodes, ValidContent
<1> QED
  BY <1>1, <1>2, <1>3, <1>4, <1>5, <1>6, <1>7, Zenon

\* The outcome of a response: its error code follows the status first and the content second.
LEMMA ResponseIsSound ==
  ASSUME fetch \in Fetches, ~fetch.fallback => fetch.url.secure,
         NEW status \in {200, 304, 404, 429, 500, 503}, NEW body \in Bodies,
         NEW cert \in Certificates \cup {NoCertificate}, NEW after \in {0, MaxDelay + 1},
         Responded(status, body, cert, after)
  PROVE  \E a \in Attempts : SoundAttempt(a, fetch.fallback) /\ EndAttempt(a)
<1> DEFINE content == ReadContent(body, fetch.mode)
           verdict == ClassifyStatus(status)
           code == IF verdict.code # "none" THEN verdict.code ELSE content.code
           tls == TlsStatus(cert)
           a == [status |-> status, content |-> content.status, hops |-> fetch.hops, tls |-> tls, after |-> after,
                 code |-> code, retryable |-> verdict.retryable]
<1>1. EndAttempt(a) /\ cert.presented = fetch.url.secure
  BY DEF Responded
<1>2. fetch.mode \in ContentModes /\ fetch.hops \in Seq(BOOLEAN) /\ fetch.fallback \in BOOLEAN
  BY DEF Fetches
<1>3. /\ content.status \in Contents /\ content.code \in ErrorCodes
      /\ content.status \in ValidContent => content.code = "none"
  BY <1>2, ContentTypes
<1>4. /\ status >= 500 => verdict.code = "HTTP_5XX"
      /\ status \in 400 .. 499 => verdict.code = "HTTP_4XX"
      /\ status < 400 => verdict.code = "none"
      /\ verdict.code \in ErrorCodes /\ verdict.retryable \in BOOLEAN
  <2>1. CASE status >= 500
    BY <2>1 DEF ClassifyStatus, ErrorCodes
  <2>2. CASE status >= 400 /\ status < 500
    <3>1. verdict = [code |-> "HTTP_4XX", retryable |-> status = 429]
      BY <2>2 DEF ClassifyStatus
    <3> QED
      BY <2>2, <3>1 DEF ErrorCodes
  <2>3. CASE status < 400
    <3>1. verdict = [code |-> "none", retryable |-> FALSE]
      BY <2>3 DEF ClassifyStatus
    <3> QED
      BY <2>3, <3>1 DEF ErrorCodes
  <2> QED
    BY <2>1, <2>2, <2>3
<1>5. tls \in {"none", "EXPIRED", "EXPIRING", "VALID"} /\ (tls = "none" => ~cert.presented)
  BY DEF TlsStatus
<1>6. after \in Nat
  BY HttpCheckAssumption
<1>7. /\ code \in ErrorCodes /\ (status >= 500 => code = "HTTP_5XX") /\ (status \in 400 .. 499 => code = "HTTP_4XX")
      /\ status < 400 /\ content.status \in ValidContent => code = "none"
  BY <1>3, <1>4
<1> HIDE DEF content, verdict, code, tls
<1>8. a \in Attempts
  <2>1. status \in Nat
    OBVIOUS
  <2> QED
    BY <1>2, <1>3, <1>4, <1>5, <1>6, <1>7, <2>1 DEF Attempts
<1>9. SoundAttempt(a, fetch.fallback)
  <2>1. tls = "none" => fetch.fallback
    BY <1>1, <1>2, <1>5
  <2> QED
    BY <1>7, <2>1 DEF SoundAttempt
<1> QED
  BY <1>1, <1>8, <1>9

\* The inductive invariant of the attempts and of the pauses between them.
FetchInv ==
  /\ fetch \in Fetches /\ tried \in Attempts /\ pause \in Pauses /\ PausesAreBounded
  /\ fetch.phase \in {"dial", "request"} /\ ~fetch.fallback => fetch.url.secure
  /\ fetch.phase \in {"pause", "done"} => SoundAttempt(tried, fetch.fallback)

\* What a step of the check comes down to.
Ends == \E a \in Attempts : SoundAttempt(a, fetch.fallback) /\ EndAttempt(a)
Connects(addresses) ==
  /\ fetch.phase = "dial" /\ addresses \in Lookup(fetch.url) /\ addresses \cap Blocked = {}
  /\ fetch' = [fetch EXCEPT !.phase = "request"]
  /\ asked' = [asked EXCEPT !.urls = Append(@, fetch.url),
                            !.dialled = @ \cup {<<fetch.url.page, a>> : a \in addresses}]
  /\ UNCHANGED <<left, tried, pause>>
Follows(permanent, target) ==
  /\ fetch.phase = "request" /\ target \in Urls /\ ~(Len(fetch.hops) >= MaxRedirects)
  /\ fetch.url.secure => target.secure
  /\ CanonicalURL(target) \notin fetch.seen
  /\ fetch' = [fetch EXCEPT !.phase = "dial", !.url = target, !.hops = Hop(permanent), !.seen = @ \cup {CanonicalURL(target)}]
  /\ UNCHANGED <<left, tried, asked, pause>>

\* Every step of the check is one of these; an attempt that ends has a sound outcome.
LEMMA HttpSteps ==
  ASSUME FetchInv, HttpNext
  PROVE  \/ Ends \/ CancelCheck \/ EndPause \/ FetchTick
         \/ \E addresses \in SUBSET Addresses : Connects(addresses)
         \/ \E permanent \in BOOLEAN, target \in Urls : Follows(permanent, target)
<1>0. fetch \in Fetches
  BY Zenon DEF FetchInv
<1>1. ASSUME NEW code \in ErrorCodes, code # "none", NEW r \in BOOLEAN, EndAttempt(Failed(code, r))
      PROVE  Ends
  BY <1>0, <1>1, FailureIsSound, Zenon DEF Ends
<1>2. ASSUME NEW code \in ErrorCodes, code # "none", NEW permanent \in BOOLEAN, EndAttempt(Broken(code, Hop(permanent)))
      PROVE  Ends
  BY <1>0, <1>2, BrokenIsSound, Zenon DEF Ends
<1>3. ASSUME NEW addresses \in Lookup(fetch.url), NEW reachable \in BOOLEAN, Dial(addresses, reachable)
      PROVE  Ends \/ (addresses \in SUBSET Addresses /\ Connects(addresses))
  <2>1. CASE addresses = {}
    <3>1. PICK r \in BOOLEAN : EndAttempt(Failed("DNS_NETWORK_ERROR", r))
      BY <1>3, <2>1, Zenon DEF Dial
    <3> QED
      BY <1>1, <3>1, Zenon DEF ErrorCodes
  <2>2. CASE addresses # {} /\ addresses \cap Blocked # {}
    <3>1. EndAttempt(Failed("SSRF_BLOCKED_ADDRESS", FALSE))
      BY <1>3, <2>2, Zenon DEF Dial
    <3> QED
      BY <1>1, <3>1, Zenon DEF ErrorCodes
  <2>3. CASE addresses # {} /\ addresses \cap Blocked = {} /\ ~reachable
    <3>1. PICK e \in {<<"TCP_REFUSED", TRUE>>, <<"TCP_TIMEOUT", TRUE>>, <<"TCP_NETWORK_ERROR", FALSE>>} :
            EndAttempt(Failed(e[1], e[2]))
      BY <1>3, <2>3, Zenon DEF Dial
    <3>2. \/ EndAttempt(Failed("TCP_REFUSED", TRUE)) \/ EndAttempt(Failed("TCP_TIMEOUT", TRUE))
          \/ EndAttempt(Failed("TCP_NETWORK_ERROR", FALSE))
      <4>1. CASE e = <<"TCP_REFUSED", TRUE>>
        <5>1. e[1] = "TCP_REFUSED" /\ e[2] = TRUE
          BY <4>1, Zenon
        <5> QED
          BY <3>1, <5>1, Zenon
      <4>2. CASE e = <<"TCP_TIMEOUT", TRUE>>
        <5>1. e[1] = "TCP_TIMEOUT" /\ e[2] = TRUE
          BY <4>2, Zenon
        <5> QED
          BY <3>1, <5>1, Zenon
      <4>3. CASE e = <<"TCP_NETWORK_ERROR", FALSE>>
        <5>1. e[1] = "TCP_NETWORK_ERROR" /\ e[2] = FALSE
          BY <4>3, Zenon
        <5> QED
          BY <3>1, <5>1, Zenon
      <4> QED
        BY <4>1, <4>2, <4>3, Zenon
    <3> QED
      BY <1>1, <3>2, Zenon DEF ErrorCodes
  <2>4. CASE addresses # {} /\ addresses \cap Blocked = {} /\ reachable
    <3>1. addresses \in SUBSET Addresses
      BY <1>0, Zenon DEF Lookup, Fetches
    <3>2. Connects(addresses)
      BY <1>3, <2>4, Zenon DEF Dial, Connects
    <3> QED
      BY <3>1, <3>2, Zenon
  <2> QED
    BY <2>1, <2>2, <2>3, <2>4, Zenon
<1>4. ASSUME RequestFails
      PROVE  Ends
  <2>1. ASSUME NEW e \in {<<"HTTP_TIMEOUT", TRUE>>, <<"TCP_NETWORK_ERROR", FALSE>>}, EndAttempt(Failed(e[1], e[2]))
        PROVE  Ends
    <3>1. EndAttempt(Failed("HTTP_TIMEOUT", TRUE)) \/ EndAttempt(Failed("TCP_NETWORK_ERROR", FALSE))
      <4>1. CASE e = <<"HTTP_TIMEOUT", TRUE>>
        <5>1. e[1] = "HTTP_TIMEOUT" /\ e[2] = TRUE
          BY <4>1, Zenon
        <5> QED
          BY <2>1, <5>1, Zenon
      <4>2. CASE e = <<"TCP_NETWORK_ERROR", FALSE>>
        <5>1. e[1] = "TCP_NETWORK_ERROR" /\ e[2] = FALSE
          BY <4>2, Zenon
        <5> QED
          BY <2>1, <5>1, Zenon
      <4> QED
        BY <4>1, <4>2, Zenon
    <3> QED
      BY <1>1, <3>1, Zenon DEF ErrorCodes
  <2>2. ASSUME NEW c \in {"TLS_EXPIRED", "TLS_UNKNOWN_AUTHORITY"}, EndAttempt(Failed(c, FALSE))
        PROVE  Ends
    <3>1. c \in ErrorCodes /\ c # "none"
      BY Zenon DEF ErrorCodes
    <3> QED
      BY <1>1, <2>2, <3>1, Zenon
  <2> QED
    BY <1>4, <2>1, <2>2, Zenon DEF RequestFails
<1>5. ASSUME OutOfTime
      PROVE  Ends
  <2>1. CASE fetch.cancelled
    <3>1. EndAttempt(Failed("RUN_CANCELLED", FALSE))
      BY <1>5, <2>1, Zenon DEF OutOfTime
    <3> QED
      BY <1>1, <3>1, Zenon DEF ErrorCodes
  <2>2. CASE ~fetch.cancelled
    <3>1. PICK c \in {"HTTP_TIMEOUT"} \cup (IF fetch.phase = "dial" THEN {"TCP_TIMEOUT", "DNS_NETWORK_ERROR"} ELSE {}) :
            EndAttempt(Failed(c, TRUE))
      BY <1>5, <2>2, Zenon DEF OutOfTime
    <3>2. c \in ErrorCodes /\ c # "none"
      BY Zenon DEF ErrorCodes
    <3> QED
      BY <1>1, <3>1, <3>2, Zenon
  <2> QED
    BY <2>1, <2>2, Zenon
<1>6. ASSUME NEW permanent \in BOOLEAN, NEW target \in Urls \cup {BadLocation}, Redirected(permanent, target)
      PROVE  Ends \/ (target \in Urls /\ Follows(permanent, target))
  <2>1. CASE Len(fetch.hops) >= MaxRedirects
    <3>1. EndAttempt(Failed("HTTP_REDIRECT_LIMIT", FALSE))
      BY <1>6, <2>1, Zenon DEF Redirected
    <3> QED
      BY <1>1, <3>1, Zenon DEF ErrorCodes
  <2>2. CASE ~(Len(fetch.hops) >= MaxRedirects) /\ target = BadLocation
    <3>1. EndAttempt(Broken("HTTP_MALFORMED_LOCATION", Hop(permanent)))
      BY <1>6, <2>2, Zenon DEF Redirected
    <3> QED
      BY <1>2, <3>1, Zenon DEF ErrorCodes
  <2>3. CASE ~(Len(fetch.hops) >= MaxRedirects) /\ target # BadLocation /\ fetch.url.secure /\ ~target.secure
    <3>1. EndAttempt(Broken("HTTP_HTTPS_DOWNGRADE", Hop(permanent)))
      BY <1>6, <2>3, Zenon DEF Redirected
    <3> QED
      BY <1>2, <3>1, Zenon DEF ErrorCodes
  <2>4. CASE /\ ~(Len(fetch.hops) >= MaxRedirects) /\ target # BadLocation /\ ~(fetch.url.secure /\ ~target.secure)
             /\ CanonicalURL(target) \in fetch.seen
    <3>1. EndAttempt(Broken("HTTP_REDIRECT_LOOP", Hop(permanent)))
      BY <1>6, <2>4, Zenon DEF Redirected
    <3> QED
      BY <1>2, <3>1, Zenon DEF ErrorCodes
  <2>5. CASE /\ ~(Len(fetch.hops) >= MaxRedirects) /\ target # BadLocation /\ ~(fetch.url.secure /\ ~target.secure)
             /\ CanonicalURL(target) \notin fetch.seen
    <3>1. target \in Urls
      BY <2>5, Zenon
    <3>2. Follows(permanent, target)
      BY <1>6, <2>5, <3>1, Zenon DEF Redirected, Follows
    <3> QED
      BY <3>1, <3>2, Zenon
  <2> QED
    BY <2>1, <2>2, <2>3, <2>4, <2>5, Zenon
<1>7. ASSUME NEW status \in {200, 304, 404, 429, 500, 503}, NEW body \in Bodies,
             NEW cert \in Certificates \cup {NoCertificate}, NEW after \in {0, MaxDelay + 1},
             Responded(status, body, cert, after)
      PROVE  Ends
  <2>1. ~fetch.fallback => fetch.url.secure
    BY <1>7 DEF FetchInv, Responded
  <2> QED
    BY <1>0, <1>7, <2>1, ResponseIsSound DEF Ends
<1>8. CASE \E addresses \in Lookup(fetch.url), reachable \in BOOLEAN : Dial(addresses, reachable)
  BY <1>3, <1>8, Zenon
<1>9. CASE \E permanent \in BOOLEAN, target \in Urls \cup {BadLocation} : Redirected(permanent, target)
  BY <1>6, <1>9, Zenon
<1>10. CASE \E status \in {200, 304, 404, 429, 500, 503}, body \in Bodies, cert \in Certificates \cup {NoCertificate},
               after \in {0, MaxDelay + 1} : Responded(status, body, cert, after)
  BY <1>7, <1>10
<1> QED
  BY <1>4, <1>5, <1>8, <1>9, <1>10, ZenonT(40) DEF HttpNext

\* The first attempt.
LEMMA FirstFetch ==
  ASSUME NEW mode \in ContentModes, NEW pinned \in SUBSET Addresses, NEW url \in Urls, NEW hops \in Seq(BOOLEAN),
         NEW fb \in BOOLEAN, NEW n \in Nat \ {0}
  PROVE  LET new == [phase |-> "dial", mode |-> mode, pinned |-> pinned, n |-> n, url |-> url, seen |-> {url},
                     hops |-> hops, fallback |-> fb, cancelled |-> fb]
         IN new \in Fetches /\ new.phase = "dial" /\ new.url = url
BY Zenon DEF Fetches

\* What comes after an attempt keeps FetchInv.
LEMMA MovesOn ==
  ASSUME fetch \in Fetches, NEW a \in Attempts, SoundAttempt(a, fetch.fallback), pause' \in Pauses, PausesAreBounded',
         Begun(1, FALSE, TRUE) \/ Left("done", a) \/ Left("pause", a)
  PROVE  FetchInv'
<1>0. <<>> \in Seq(BOOLEAN)
  OBVIOUS
<1>1. CASE Begun(1, FALSE, TRUE)
  <2> DEFINE start == Start(FALSE)
             fb == TRUE
             one == 1
  <2>0. start \in Urls
    BY Constants, Zenon
  <2>4. one \in Nat \ {0} /\ fb \in BOOLEAN
    OBVIOUS
  <2>3. fetch' = [fetch EXCEPT !.phase = "dial", !.n = one, !.url = start, !.seen = {start}, !.hops = <<>>, !.fallback = fb]
    BY <1>1, Zenon DEF Begun
  <2> HIDE DEF start, fb, one
  <2>1. fetch' \in Fetches /\ fetch'.fallback = fb /\ fetch'.phase = "dial"
    BY <1>0, <2>0, <2>3, <2>4, Zenon DEF Fetches
  <2>2. tried' \in Attempts
    BY <1>1, Constants, Zenon DEF Begun
  <2> QED
    BY <2>1, <2>2, Zenon DEF FetchInv, fb
<1>2. ASSUME NEW phase \in {"done", "pause"}, Left(phase, a)
      PROVE  FetchInv'
  <2>1. Start(~fetch.fallback) \in Urls
    BY HttpCheckAssumption, Zenon DEF Start, Urls
  <2>2. fetch' \in Fetches /\ fetch'.fallback = fetch.fallback /\ fetch'.phase = phase
    BY <1>0, <1>2, <2>1, Zenon DEF Left, Fetches
  <2>3. tried' = a
    BY <1>2, Zenon DEF Left
  <2> QED
    BY <2>2, <2>3, Zenon DEF FetchInv
<1> QED
  BY <1>1, <1>2, Zenon

\* Every step of the check keeps FetchInv.
LEMMA FetchStep == FetchInv /\ [HttpNext]_httpVars => FetchInv'
<1> SUFFICES ASSUME FetchInv, [HttpNext]_httpVars
             PROVE  FetchInv'
  BY Zenon
<1>0. fetch \in Fetches /\ tried \in Attempts /\ pause \in Pauses /\ PausesAreBounded
  BY Zenon DEF FetchInv
<1>1. CASE Ends
  <2>1. PICK a \in Attempts : SoundAttempt(a, fetch.fallback) /\ EndAttempt(a)
    BY <1>1, Zenon DEF Ends
  <2>2. /\ pause' \in Pauses /\ PausesAreBounded'
        /\ Begun(1, FALSE, TRUE) \/ Left("done", a) \/ Left("pause", a)
    BY <1>0, <2>1, AttemptEnds, Zenon
  <2> QED
    BY <1>0, <2>1, <2>2, MovesOn, Zenon
<1>2. ASSUME NEW addresses \in SUBSET Addresses, Connects(addresses)
      PROVE  FetchInv'
  <2>1. fetch' \in Fetches /\ fetch'.fallback = fetch.fallback /\ fetch'.phase = "request" /\ fetch'.url = fetch.url
    BY <1>0, <1>2, Zenon DEF Connects, Fetches
  <2>2. tried' = tried /\ pause' = pause /\ fetch.phase = "dial"
    BY <1>2, Zenon DEF Connects
  <2> QED
    BY <2>1, <2>2, Zenon DEF FetchInv, PausesAreBounded
<1>3. ASSUME NEW permanent \in BOOLEAN, NEW target \in Urls, Follows(permanent, target)
      PROVE  FetchInv'
  <2>1. CanonicalURL(target) \in Urls
    BY Zenon DEF CanonicalURL, Urls
  <2>2. Hop(permanent) \in Seq(BOOLEAN)
    <3>1. fetch.hops \in Seq(BOOLEAN)
      BY <1>0, Zenon DEF Fetches
    <3> QED
      BY <3>1 DEF Hop
  <2>3. fetch.seen \cup {CanonicalURL(target)} \in SUBSET Urls
    BY <1>0, <2>1, Zenon DEF Fetches
  <2>4. fetch' \in Fetches /\ fetch'.fallback = fetch.fallback /\ fetch'.phase = "dial" /\ fetch'.url = target
    BY <1>0, <1>3, <2>2, <2>3, Zenon DEF Follows, Fetches
  <2>5. tried' = tried /\ pause' = pause /\ fetch.phase = "request" /\ (fetch.url.secure => target.secure)
    BY <1>3, Zenon DEF Follows
  <2> QED
    BY <2>4, <2>5, Zenon DEF FetchInv, PausesAreBounded
<1>4. CASE CancelCheck
  <2>1. fetch' \in Fetches /\ fetch'.fallback = fetch.fallback /\ fetch'.phase = fetch.phase /\ fetch'.url = fetch.url
    BY <1>0, <1>4, Zenon DEF CancelCheck, Fetches
  <2>2. tried' = tried /\ pause' = pause
    BY <1>4, Zenon DEF CancelCheck
  <2> QED
    BY <2>1, <2>2, Zenon DEF FetchInv, PausesAreBounded
<1>5. CASE EndPause
  <2>1. CASE EndOfScheme(tried)
    <3>1. SoundAttempt(tried, fetch.fallback)
      BY <1>5, Zenon DEF FetchInv, EndPause
    <3>2. pause' = NoPause /\ (Begun(1, FALSE, TRUE) \/ Left("done", tried))
      BY <2>1, SchemeEnds, Zenon
    <3>3. pause' \in Pauses /\ PausesAreBounded'
      BY <3>2, Constants DEF PausesAreBounded, Least
    <3> QED
      BY <1>0, <3>1, <3>2, <3>3, MovesOn, Zenon
  <2>2. CASE BeginAttempt(fetch.n + 1, ~fetch.fallback, fetch.fallback) /\ pause' = NoPause
    <3> DEFINE start == Start(~fetch.fallback)
    <3>1. start \in Urls /\ (~fetch.fallback => start.secure)
      BY <1>0, HttpCheckAssumption, Zenon DEF Start, Urls, Fetches
    <3>7. fetch.n + 1 \in Nat \ {0}
      BY <1>0 DEF Fetches
    <3>2. <<>> \in Seq(BOOLEAN)
      OBVIOUS
    <3>3. fetch' = [fetch EXCEPT !.phase = "dial", !.n = fetch.n + 1, !.url = start, !.seen = {start},
                                 !.hops = <<>>, !.fallback = fetch.fallback]
      BY <2>2, Zenon DEF BeginAttempt
    <3> HIDE DEF start
    <3>4. fetch' \in Fetches /\ fetch'.fallback = fetch.fallback /\ fetch'.phase = "dial" /\ fetch'.url = start
      BY <1>0, <3>1, <3>2, <3>3, <3>7, Zenon DEF Fetches
    <3>5. tried' \in Attempts
      BY <2>2, Constants, Zenon DEF BeginAttempt
    <3>6. pause' \in Pauses /\ PausesAreBounded'
      BY <2>2, Constants DEF PausesAreBounded, Least
    <3> QED
      BY <3>1, <3>4, <3>5, <3>6, Zenon DEF FetchInv
  <2> QED
    BY <1>5, <2>1, <2>2, Zenon DEF EndPause
<1>6. CASE FetchTick
  <2>1. fetch' = fetch /\ tried' = tried
    BY <1>6, Zenon DEF FetchTick
  <2>2. pause' \in Pauses /\ pause'.length = pause.length /\ pause'.after = pause.after
    BY <1>0, <1>6 DEF FetchTick, Pauses
  <2> QED
    BY <2>1, <2>2, Zenon DEF FetchInv, PausesAreBounded
<1>7. CASE UNCHANGED httpVars
  BY <1>7, Zenon DEF httpVars, FetchInv, PausesAreBounded
<1> QED
  BY <1>1, <1>2, <1>3, <1>4, <1>5, <1>6, <1>7, HttpSteps, Zenon

\* FetchInv holds at first.
LEMMA FetchStart == HttpInit => FetchInv
<1> SUFFICES ASSUME HttpInit
             PROVE  FetchInv
  BY Zenon
<1>1. PICK mode \in ContentModes, pinned \in SUBSET Addresses :
        fetch = [phase |-> "dial", mode |-> mode, pinned |-> pinned, n |-> 1, url |-> Start(TRUE),
                 seen |-> {Start(TRUE)}, hops |-> <<>>, fallback |-> FALSE, cancelled |-> FALSE]
  BY Zenon DEF HttpInit
<1>2. Start(TRUE).secure
  BY Zenon DEF Start
<1>3. fetch \in Fetches /\ fetch.phase = "dial" /\ fetch.url = Start(TRUE)
  <2>1. <<>> \in Seq(BOOLEAN)
    OBVIOUS
  <2>2. Start(TRUE) \in Urls
    BY Constants, Zenon
  <2> QED
    <3>1. 1 \in Nat \ {0} /\ FALSE \in BOOLEAN
      OBVIOUS
    <3> QED
      BY <1>1, <2>1, <2>2, <3>1, FirstFetch, Zenon
<1>4. tried \in Attempts /\ pause \in Pauses /\ PausesAreBounded
  BY Constants DEF HttpInit, PausesAreBounded, Least
<1> QED
  BY <1>2, <1>3, <1>4, Zenon DEF FetchInv

\* No pause is longer than MaxDelay, and none is shorter than the server asked for up to that.
THEOREM PausesCorrect == HttpSpec => []PausesAreBounded
<1>1. FetchInv => PausesAreBounded
  BY Zenon DEF FetchInv
<1> QED
  BY <1>1, FetchStart, FetchStep, PTL DEF HttpSpec

-----------------------------------------------------------------------------
\* Two URLs are the same place however they are spelt.
SamePlace(u, v) == u.page = v.page /\ (u.secure <=> v.secure)

\* The types of what was asked.
Asked == [urls : Seq(Urls), dialled : SUBSET (Pages \X Addresses)]
\* No place is asked twice, and no plain URL after a secure one.
Distinct(urls) ==
  \A i, j \in 1 .. Len(urls) :
    i < j => ~SamePlace(urls[i], urls[j]) /\ (urls[i].secure => urls[j].secure)
\* All that was asked is in the set of seen URLs, and none was secure unless the URL at hand is.
Towards(urls) ==
  \A i \in 1 .. Len(urls) : CanonicalURL(urls[i]) \in fetch.seen /\ (urls[i].secure => fetch.url.secure)
\* The URL at hand has not been asked.
Fresh(urls) == \A i \in 1 .. Len(urls) : ~SamePlace(urls[i], fetch.url)
\* What was dialled was permitted.
Permitted ==
  /\ \A d \in asked.dialled : d[2] \notin Blocked
  /\ fetch.pinned # {} => \A d \in asked.dialled : d[1] = Home => d[2] \in fetch.pinned

\* The inductive invariant of the chain of redirects.
ChainInv ==
  /\ asked \in Asked /\ Distinct(asked.urls) /\ Permitted
  /\ fetch.phase \in {"pause", "done"} => asked.urls = <<>> /\ asked.dialled = {}
  /\ fetch.phase \in {"dial", "request"} =>
       /\ CanonicalURL(fetch.url) \in fetch.seen /\ Towards(asked.urls)
       /\ Len(fetch.hops) <= MaxRedirects
  /\ fetch.phase = "dial" => Len(asked.urls) = Len(fetch.hops) /\ Fresh(asked.urls)
  /\ fetch.phase = "request" => Len(asked.urls) = Len(fetch.hops) + 1

\* CanonicalURL tells two places apart only if they differ.
LEMMA SameIsCanonical ==
  ASSUME NEW u \in Urls, NEW v \in Urls, SamePlace(u, v)
  PROVE  CanonicalURL(u) = CanonicalURL(v)
<1> DEFINE cu == CanonicalURL(u)
           cv == CanonicalURL(v)
<1>1. cu \in Urls /\ cu.secure = u.secure /\ cu.page = u.page /\ cu.spelt = "plain"
  BY Zenon DEF CanonicalURL, Urls
<1>2. cv \in Urls /\ cv.secure = v.secure /\ cv.page = v.page /\ cv.spelt = "plain"
  BY Zenon DEF CanonicalURL, Urls
<1>3. u.secure \in BOOLEAN /\ v.secure \in BOOLEAN
  BY Zenon DEF Urls
<1>4. cu.secure = cv.secure /\ cu.page = cv.page /\ cu.spelt = cv.spelt
  BY <1>1, <1>2, <1>3, Zenon DEF SamePlace
<1> HIDE DEF cu, cv
<1>5. cu = cv
  BY <1>1, <1>2, <1>4 DEF Urls
<1> QED
  BY <1>5, Zenon DEF cu, cv

\* No attempt is under way, or one is just beginning.
NoChain ==
  \/ fetch.phase \in {"pause", "done"}
  \/ fetch.phase = "dial" /\ fetch.hops = <<>> /\ CanonicalURL(fetch.url) \in fetch.seen

\* Nothing is asked when an attempt begins or ends.
LEMMA NothingAsked ==
  ASSUME asked' = [urls |-> <<>>, dialled |-> {}], NoChain'
  PROVE  ChainInv'
<1>0. \/ fetch'.phase \in {"pause", "done"}
      \/ fetch'.phase = "dial" /\ fetch'.hops = <<>> /\ CanonicalURL(fetch'.url) \in fetch'.seen
  BY Zenon DEF NoChain
<1>1. asked'.urls = <<>> /\ asked'.dialled = {}
  BY Zenon
<1>2. <<>> \in Seq(Urls) /\ Len(<<>>) = 0
  OBVIOUS
<1>3. asked' \in Asked
  <2>1. <<>> \in Seq(Urls) /\ {} \in SUBSET (Pages \X Addresses)
    OBVIOUS
  <2> QED
    BY <2>1, Zenon DEF Asked
<1>4. Distinct(asked.urls)' /\ Towards(asked.urls)' /\ Fresh(asked.urls)' /\ Permitted'
  <2>1. \A i \in 1 .. Len(asked'.urls) : FALSE
    BY <1>1, <1>2
  <2>2. \A d \in asked'.dialled : FALSE
    BY <1>1, Zenon
  <2> QED
    BY <2>1, <2>2, Zenon DEF Distinct, Towards, Fresh, Permitted
<1>5. Len(asked'.urls) = 0
  BY <1>1, <1>2, Zenon
<1>6. fetch'.phase = "dial" => Len(fetch'.hops) = 0 /\ Len(fetch'.hops) <= MaxRedirects /\ CanonicalURL(fetch'.url) \in fetch'.seen
  BY <1>0, <1>2, HttpCheckAssumption
<1>7. fetch'.phase # "request"
  BY <1>0, Zenon
<1> QED
  BY <1>1, <1>3, <1>4, <1>5, <1>6, <1>7, Zenon DEF ChainInv

\* A connection adds the URL at hand and permitted addresses to what was asked.
LEMMA ConnectsKeeps ==
  ASSUME FetchInv, ChainInv, NEW addresses \in SUBSET Addresses, Connects(addresses)
  PROVE  ChainInv'
<1> DEFINE urls == asked.urls
           longer == Append(asked.urls, fetch.url)
           dialled == asked.dialled \cup {<<fetch.url.page, a>> : a \in addresses}
<1>1. fetch \in Fetches /\ asked \in Asked
  BY Zenon DEF FetchInv, ChainInv
<1>2. fetch.url \in Urls /\ urls \in Seq(Urls) /\ asked.dialled \in SUBSET (Pages \X Addresses)
  BY <1>1, Zenon DEF Fetches, Asked
<1>3. /\ fetch'.phase = "request" /\ fetch'.url = fetch.url /\ fetch'.seen = fetch.seen /\ fetch'.hops = fetch.hops
      /\ fetch'.pinned = fetch.pinned
  BY <1>1, Zenon DEF Connects, Fetches
<1>4. asked'.urls = longer /\ asked'.dialled = dialled /\ asked' = [asked EXCEPT !.urls = longer, !.dialled = dialled]
  BY <1>1, Zenon DEF Connects, Asked
<1>5. /\ longer \in Seq(Urls) /\ Len(longer) = Len(urls) + 1 /\ Len(urls) \in Nat
      /\ \A i \in 1 .. Len(longer) : longer[i] = IF i <= Len(urls) THEN urls[i] ELSE fetch.url
  BY <1>2
<1>6. /\ Len(urls) = Len(fetch.hops) /\ Fresh(urls) /\ Towards(urls) /\ Distinct(urls)
      /\ CanonicalURL(fetch.url) \in fetch.seen /\ Len(fetch.hops) <= MaxRedirects
  BY Zenon DEF ChainInv, Connects
<1>7. dialled \in SUBSET (Pages \X Addresses)
  <2>1. fetch.url.page \in Pages
    BY <1>2, Zenon DEF Urls
  <2> QED
    BY <1>2, <2>1
<1>8. Permitted'
  <2>1. \A a \in addresses : a \notin Blocked
    BY Zenon DEF Connects
  <2>2. fetch.pinned # {} /\ fetch.url.page = Home => addresses = fetch.pinned
    BY Zenon DEF Connects, Lookup
  <2>3. Permitted
    BY Zenon DEF ChainInv
  <2>4. ASSUME NEW d \in dialled
        PROVE  d[2] \notin Blocked /\ (fetch.pinned # {} /\ d[1] = Home => d[2] \in fetch.pinned)
    <3>1. CASE d \in asked.dialled
      BY <2>3, <3>1, Zenon DEF Permitted
    <3>2. CASE d \in {<<fetch.url.page, a>> : a \in addresses}
      <4>1. PICK a \in addresses : d = <<fetch.url.page, a>>
        BY <3>2, Zenon
      <4>2. d[1] = fetch.url.page /\ d[2] = a
        BY <4>1, Zenon
      <4> QED
        BY <2>1, <2>2, <4>2, Zenon
    <3> QED
      BY <3>1, <3>2, Zenon
  <2> QED
    BY <1>3, <1>4, <2>4, Zenon DEF Permitted
<1>9. asked' \in Asked
  <2> HIDE DEF longer, dialled
  <2> QED
    BY <1>1, <1>4, <1>5, <1>7, ZenonT(40) DEF Asked
<1> HIDE DEF urls, longer, dialled
<1>10. Distinct(asked.urls)'
  <2> SUFFICES ASSUME NEW i \in 1 .. Len(longer), NEW j \in 1 .. Len(longer), i < j
               PROVE  ~SamePlace(longer[i], longer[j]) /\ (longer[i].secure => longer[j].secure)
    BY <1>4, Zenon DEF Distinct
  <2>1. i \in 1 .. Len(urls) /\ longer[i] = urls[i]
    BY <1>5
  <2>2. CASE j \in 1 .. Len(urls)
    <3>1. longer[j] = urls[j]
      BY <1>5, <2>2
    <3> QED
      BY <1>6, <2>1, <2>2, <3>1, ZenonT(40) DEF Distinct
  <2>3. CASE j = Len(longer)
    <3>1. longer[j] = fetch.url
      BY <1>5, <2>3
    <3> QED
      BY <1>6, <2>1, <3>1, Zenon DEF Fresh, Towards
  <2> QED
    BY <1>5, <2>2, <2>3
<1>11. Towards(asked.urls)'
  <2> SUFFICES ASSUME NEW i \in 1 .. Len(longer)
               PROVE  CanonicalURL(longer[i]) \in fetch.seen /\ (longer[i].secure => fetch.url.secure)
    BY <1>3, <1>4, Zenon DEF Towards
  <2>1. CASE i \in 1 .. Len(urls)
    BY <1>5, <1>6, <2>1, Zenon DEF Towards
  <2>2. CASE i = Len(longer)
    BY <1>5, <1>6, <2>2
  <2> QED
    BY <1>5, <2>1, <2>2
<1>12. Len(asked'.urls) = Len(fetch'.hops) + 1 /\ Len(fetch'.hops) <= MaxRedirects
  BY <1>3, <1>4, <1>5, <1>6, Zenon
<1> QED
  BY <1>3, <1>6, <1>8, <1>9, <1>10, <1>11, <1>12, ZenonT(40) DEF ChainInv

\* A redirect that is followed leads to a place not asked before, and not down from HTTPS.
LEMMA FollowsKeeps ==
  ASSUME FetchInv, ChainInv, NEW permanent \in BOOLEAN, NEW target \in Urls, Follows(permanent, target)
  PROVE  ChainInv'
<1> DEFINE urls == asked.urls
<1>1. fetch \in Fetches /\ asked \in Asked
  BY Zenon DEF FetchInv, ChainInv
<1>2. urls \in Seq(Urls) /\ fetch.hops \in Seq(BOOLEAN)
  BY <1>1, Zenon DEF Fetches, Asked
<1>3. /\ fetch'.phase = "dial" /\ fetch'.url = target /\ fetch'.seen = fetch.seen \cup {CanonicalURL(target)}
      /\ fetch'.hops = Hop(permanent) /\ fetch'.pinned = fetch.pinned
  BY <1>1, Zenon DEF Follows, Fetches
<1>4. asked' = asked
  BY Zenon DEF Follows
<1>5. Len(Hop(permanent)) = Len(fetch.hops) + 1 /\ Len(fetch.hops) \in Nat
  BY <1>2 DEF Hop
<1>6. Len(fetch.hops) < MaxRedirects /\ (fetch.url.secure => target.secure) /\ CanonicalURL(target) \notin fetch.seen
  BY <1>5, HttpCheckAssumption DEF Follows
<1>7. Len(urls) = Len(fetch.hops) + 1 /\ Towards(urls) /\ Distinct(urls) /\ Permitted
  BY Zenon DEF ChainInv, Follows
<1>8. \A i \in 1 .. Len(urls) : urls[i] \in Urls
  BY <1>2
<1> HIDE DEF urls
<1>9. Fresh(asked.urls)'
  <2> SUFFICES ASSUME NEW i \in 1 .. Len(urls), SamePlace(urls[i], target)
               PROVE  FALSE
    BY <1>3, <1>4, Zenon DEF Fresh, urls
  <2>1. CanonicalURL(urls[i]) = CanonicalURL(target)
    BY <1>8, SameIsCanonical, Zenon
  <2> QED
    BY <1>6, <1>7, <2>1, Zenon DEF Towards
<1>10. Towards(asked.urls)'
  <2>1. \A i \in 1 .. Len(urls) : CanonicalURL(urls[i]) \in fetch'.seen /\ (urls[i].secure => target.secure)
    BY <1>3, <1>6, <1>7, Zenon DEF Towards
  <2> QED
    BY <1>3, <1>4, <2>1, Zenon DEF Towards, urls
<1>11. Distinct(asked.urls)' /\ Permitted' /\ asked' \in Asked
  BY <1>1, <1>3, <1>4, <1>7, ZenonT(40) DEF Distinct, Permitted, urls
<1>12. Len(asked'.urls) = Len(fetch'.hops) /\ Len(fetch'.hops) <= MaxRedirects
  <2>1. Len(asked'.urls) = Len(urls)
    BY <1>4, Zenon DEF urls
  <2> QED
    BY <1>3, <1>5, <1>6, <1>7, <2>1, HttpCheckAssumption
<1>13. CanonicalURL(fetch'.url) \in fetch'.seen
  BY <1>3, Zenon
<1> QED
  BY <1>3, <1>9, <1>10, <1>11, <1>12, <1>13, Zenon DEF ChainInv

\* The first URL of an attempt is in canonical form.
LEMMA StartIsCanonical ==
  ASSUME NEW secure \in BOOLEAN
  PROVE  CanonicalURL(Start(secure)) = Start(secure)
BY DEF CanonicalURL, Start

\* After an attempt nothing is asked.
LEMMA MovesOnAsksNothing ==
  ASSUME fetch \in Fetches, NEW a, asked' = [urls |-> <<>>, dialled |-> {}],
         Begun(1, FALSE, TRUE) \/ Left("done", a) \/ Left("pause", a)
  PROVE  ChainInv'
<1>1. CASE Begun(1, FALSE, TRUE)
  <2> DEFINE start == Start(FALSE)
  <2>1. CanonicalURL(start) = start
    BY StartIsCanonical, Zenon
  <2>2. fetch' = [fetch EXCEPT !.phase = "dial", !.n = 1, !.url = start, !.seen = {start}, !.hops = <<>>, !.fallback = TRUE]
    BY <1>1, Zenon DEF Begun
  <2> HIDE DEF start
  <2>3. fetch'.phase = "dial" /\ fetch'.hops = <<>> /\ fetch'.url = start /\ fetch'.seen = {start}
    BY <2>2, Zenon DEF Fetches
  <2> QED
    BY <2>1, <2>3, NothingAsked, Zenon DEF NoChain
<1>2. ASSUME NEW phase \in {"done", "pause"}, Left(phase, a)
      PROVE  ChainInv'
  <2>1. fetch'.phase \in {"pause", "done"}
    BY <1>2, Zenon DEF Left, Fetches
  <2> QED
    BY <2>1, NothingAsked, Zenon DEF NoChain
<1> QED
  BY <1>1, <1>2, Zenon

\* Every step keeps ChainInv.
LEMMA ChainStep == FetchInv /\ ChainInv /\ [HttpNext]_httpVars => ChainInv'
<1> SUFFICES ASSUME FetchInv, ChainInv, [HttpNext]_httpVars
             PROVE  ChainInv'
  BY Zenon
<1>0. fetch \in Fetches /\ tried \in Attempts /\ asked \in Asked
  BY Zenon DEF FetchInv, ChainInv
<1>1. CASE Ends
  <2>1. PICK a \in Attempts : SoundAttempt(a, fetch.fallback) /\ EndAttempt(a)
    BY <1>1, Zenon DEF Ends
  <2>2. /\ asked' = [urls |-> <<>>, dialled |-> {}]
        /\ Begun(1, FALSE, TRUE) \/ Left("done", a) \/ Left("pause", a)
    BY <1>0, <2>1, AttemptEnds, ZenonT(40)
  <2> QED
    BY <1>0, <2>2, MovesOnAsksNothing, Zenon
<1>2. ASSUME UNCHANGED asked, fetch'.phase = fetch.phase, fetch'.url = fetch.url, fetch'.seen = fetch.seen,
             fetch'.hops = fetch.hops, fetch'.pinned = fetch.pinned
      PROVE  ChainInv'
  BY <1>2 DEF ChainInv, Distinct, Towards, Fresh, Permitted
<1>3. CASE CancelCheck
  <2>1. /\ fetch'.phase = fetch.phase /\ fetch'.url = fetch.url /\ fetch'.seen = fetch.seen
        /\ fetch'.hops = fetch.hops /\ fetch'.pinned = fetch.pinned
    BY <1>0, <1>3, Zenon DEF CancelCheck, Fetches
  <2>2. UNCHANGED asked
    BY <1>3, Zenon DEF CancelCheck
  <2> QED
    BY <1>2, <2>1, <2>2, Zenon
<1>4. CASE EndPause
  <2>1. CASE EndOfScheme(tried)
    <3>1. /\ asked' = [urls |-> <<>>, dialled |-> {}]
          /\ Begun(1, FALSE, TRUE) \/ Left("done", tried)
      BY <2>1, SchemeEnds, Zenon
    <3> QED
      BY <1>0, <3>1, MovesOnAsksNothing, Zenon
  <2>2. CASE BeginAttempt(fetch.n + 1, ~fetch.fallback, fetch.fallback) /\ UNCHANGED asked
    <3> DEFINE start == Start(~fetch.fallback)
    <3>1. CanonicalURL(start) = start
      <4>1. (~fetch.fallback) \in BOOLEAN
        BY <1>0, Zenon DEF Fetches
      <4> QED
        BY <4>1, StartIsCanonical, Zenon
    <3>2. fetch' = [fetch EXCEPT !.phase = "dial", !.n = fetch.n + 1, !.url = start, !.seen = {start},
                                 !.hops = <<>>, !.fallback = fetch.fallback]
      BY <2>2, Zenon DEF BeginAttempt
    <3> HIDE DEF start
    <3>3. fetch'.phase = "dial" /\ fetch'.hops = <<>> /\ fetch'.url = start /\ fetch'.seen = {start}
      BY <1>0, <3>2, Zenon DEF Fetches
    <3>4. asked.urls = <<>> /\ asked.dialled = {}
      BY <1>4, Zenon DEF ChainInv, EndPause
    <3>5. asked' = [urls |-> <<>>, dialled |-> {}]
      <4>1. asked = [urls |-> asked.urls, dialled |-> asked.dialled]
        BY <1>0, Zenon DEF Asked
      <4> QED
        BY <2>2, <3>4, <4>1, Zenon
    <3> QED
      BY <3>1, <3>3, <3>5, NothingAsked, Zenon DEF NoChain
  <2> QED
    BY <1>4, <2>1, <2>2, Zenon DEF EndPause
<1>5. CASE FetchTick
  BY <1>2, <1>5, Zenon DEF FetchTick
<1>6. CASE UNCHANGED httpVars
  BY <1>2, <1>6, Zenon DEF httpVars
<1> QED
  BY <1>1, <1>3, <1>4, <1>5, <1>6, HttpSteps, ConnectsKeeps, FollowsKeeps, Zenon

\* An attempt follows at most MaxRedirects redirects, asks for no place twice, never goes from HTTPS
\* to plain HTTP, and connects to no blocked address and, pinned, to no other for the domain.
THEOREM ChainsCorrect == HttpSpec => []ChainsAreSafe
<1>1. HttpInit => ChainInv
  <2> SUFFICES ASSUME HttpInit
               PROVE  ChainInv
    BY Zenon
  <2>1. asked.urls = <<>> /\ asked.dialled = {} /\ asked = [urls |-> <<>>, dialled |-> {}]
    BY Zenon DEF HttpInit
  <2>2. PICK mode \in ContentModes, pinned \in SUBSET Addresses :
          fetch = [phase |-> "dial", mode |-> mode, pinned |-> pinned, n |-> 1, url |-> Start(TRUE),
                   seen |-> {Start(TRUE)}, hops |-> <<>>, fallback |-> FALSE, cancelled |-> FALSE]
    BY Zenon DEF HttpInit
  <2>3. fetch.phase = "dial" /\ fetch.url = Start(TRUE) /\ fetch.seen = {Start(TRUE)} /\ fetch.hops = <<>>
    BY <2>2, Zenon
  <2>4. Len(asked.urls) = 0 /\ Len(fetch.hops) = 0 /\ 0 <= MaxRedirects
    BY <2>1, <2>3, HttpCheckAssumption
  <2>5. asked \in Asked
    <3>1. <<>> \in Seq(Urls) /\ {} \in SUBSET (Pages \X Addresses)
      OBVIOUS
    <3> QED
      BY <2>1, <3>1, Zenon DEF Asked
  <2>6. Distinct(asked.urls) /\ Towards(asked.urls) /\ Fresh(asked.urls) /\ Permitted
    <3>1. \A i \in 1 .. Len(asked.urls) : FALSE
      BY <2>4
    <3>2. \A d \in asked.dialled : FALSE
      BY <2>1, Zenon
    <3> QED
      BY <3>1, <3>2, Zenon DEF Distinct, Towards, Fresh, Permitted
  <2>7. CanonicalURL(fetch.url) \in fetch.seen
    BY <2>3, StartIsCanonical, Zenon
  <2> QED
    BY <2>3, <2>4, <2>5, <2>6, <2>7, Zenon DEF ChainInv
<1>2. FetchInv /\ ChainInv => ChainsAreSafe
  <2> SUFFICES ASSUME FetchInv, ChainInv
               PROVE  ChainsAreSafe
    BY Zenon
  <2> DEFINE urls == asked.urls
  <2>1. fetch \in Fetches /\ asked \in Asked
    BY Zenon DEF FetchInv, ChainInv
  <2>2. urls \in Seq(Urls) /\ fetch.hops \in Seq(BOOLEAN) /\ fetch.phase \in {"dial", "request", "pause", "done"}
    BY <2>1, Zenon DEF Fetches, Asked
  <2>3. Len(urls) \in Nat /\ DOMAIN urls = 1 .. Len(urls) /\ Len(fetch.hops) \in Nat
    BY <2>2
  <2>4. Len(urls) <= MaxRedirects + 1
    <3>1. CASE fetch.phase \in {"pause", "done"}
      <4>1. Len(urls) = 0
        BY <3>1 DEF ChainInv
      <4> QED
        BY <4>1, HttpCheckAssumption
    <3>2. CASE fetch.phase \in {"dial", "request"}
      <4>1. Len(urls) <= Len(fetch.hops) + 1 /\ Len(fetch.hops) <= MaxRedirects
        BY <2>3, <3>2 DEF ChainInv
      <4> HIDE DEF urls
      <4> QED
        BY <2>3, <4>1, HttpCheckAssumption
    <3> QED
      BY <2>2, <3>1, <3>2, Zenon
  <2>5. ASSUME NEW i \in DOMAIN urls, NEW j \in DOMAIN urls, i < j
        PROVE  /\ urls[i].page = urls[j].page => urls[i].secure # urls[j].secure
               /\ urls[i].secure => urls[j].secure
    BY <2>3, <2>5, Zenon DEF ChainInv, Distinct, SamePlace
  <2>6. Permitted
    BY Zenon DEF ChainInv
  <2> QED
    BY <2>4, <2>5, <2>6, Zenon DEF ChainsAreSafe, Permitted
<1> QED
  BY <1>1, <1>2, FetchStart, FetchStep, ChainStep, PTL DEF HttpSpec

-----------------------------------------------------------------------------
(***************************************************************************)
(* Classification: a verdict is a function of a sound outcome and of the   *)
(* results of two resolvers.                                               *)
(***************************************************************************)
LEMMA LeastNatural ==
  ASSUME NEW T, T \subseteq Nat, T # {}
  PROVE  \E x \in T : \A y \in T : x <= y
<1>1. PICK x \in T : \A y \in T : ~(<<y, x>> \in OpToRel(<, Nat))
  BY WFMin, NatLessThanWellFounded, Zenon
<1>2. \A y \in T : ~(y < x)
  BY <1>1, Zenon DEF OpToRel
<1> QED
  BY <1>2

\* The result that counts for a type is one of the results, and of that type.
LEMMA LatestIsThere ==
  ASSUME NEW results, Complete(results), NEW t \in QueryTypes
  PROVE  /\ t \in DOMAIN LatestByType(results)
         /\ LatestByType(results)[t] \in results /\ LatestByType(results)[t].type = t
<1> DEFINE S == {r \in results : r.type = t}
           T == {DnsAttempts - r.attempt : r \in S}
<1>1. S # {} /\ TypesOf(results) = QueryTypes
  BY Zenon DEF Complete, TypesOf
<1>2. \A r \in S : r.attempt \in 1 .. DnsAttempts
  BY Zenon DEF Complete
<1>3. DnsAttempts \in Nat
  BY DnsCheckAssumption, Zenon
<1>4. T \subseteq Nat /\ T # {}
  BY <1>1, <1>2, <1>3
<1>5. PICK x \in T : \A y \in T : x <= y
  BY <1>4, LeastNatural, Zenon
<1>6. PICK r \in S : x = DnsAttempts - r.attempt
  BY <1>5, Zenon
<1>7. \A s \in S : s.attempt <= r.attempt
  <2> SUFFICES ASSUME NEW s \in S
               PROVE  s.attempt <= r.attempt
    BY Zenon
  <2>1. x <= DnsAttempts - s.attempt
    BY <1>5, Zenon
  <2>2. s.attempt \in Nat /\ r.attempt \in Nat
    BY <1>2
  <2> QED
    BY <1>3, <1>6, <2>1, <2>2
<1>8. \E u \in results : u.type = t /\ \A s \in results : s.type = t => s.attempt <= u.attempt
  BY <1>7, Zenon
<1>9. LatestByType(results)[t] =
        CHOOSE u \in results : u.type = t /\ \A s \in results : s.type = t => s.attempt <= u.attempt
  BY <1>1, Zenon DEF LatestByType
<1>10. t \in DOMAIN LatestByType(results)
  BY <1>1, Zenon DEF LatestByType
<1> QED
  BY <1>8, <1>9, <1>10, Zenon

\* The name of an error is never OK.
LEMMA ErrorsAreNotOK ==
  ASSUME NEW known \in SUBSET (1 .. 5), known # {}
  PROVE  DnsErrorNames[ByGravity[CHOOSE i \in known : \A j \in known : i <= j]] # "OK"
<1> DEFINE k == CHOOSE i \in known : \A j \in known : i <= j
<1>1. \E i \in known : \A j \in known : i <= j
  <2>1. known \subseteq Nat
    OBVIOUS
  <2> QED
    BY <2>1, LeastNatural, Zenon
<1>2. k \in known
  BY <1>1, Zenon
<1> HIDE DEF k
<1>3. k \in {1, 2, 3, 4, 5}
  BY <1>2
<1>4. ByGravity[k] \in {"DNS_NXDOMAIN", "DNS_SERVFAIL", "DNS_REFUSED", "DNS_TIMEOUT", "DNS_NETWORK_ERROR"}
  BY <1>3 DEF ByGravity
<1>5. DnsErrorNames[ByGravity[k]] # "OK"
  BY <1>4 DEF DnsErrorNames
<1> QED
  BY <1>5, Zenon DEF k

\* The DNS column is OK only if the resolvers do not differ and the local one has an address.
LEMMA DnsIsOK ==
  ASSUME NEW local, NEW alternate, ClassifyDNS(local, alternate) = "OK"
  PROVE  /\ ~Discrepancy(local, alternate)
         /\ \E t \in AddressTypes \cap DOMAIN LatestByType(local) :
              LatestByType(local)[t].code = "none" /\ LatestByType(local)[t].rcode = "NOERROR"
<1> DEFINE latest == LatestByType(local)
           codes == {latest[t].code : t \in DOMAIN latest}
           known == {i \in DOMAIN ByGravity : ByGravity[i] \in codes}
           fine == \E t \in AddressTypes \cap DOMAIN latest : latest[t].code = "none" /\ latest[t].rcode = "NOERROR"
           named == DnsErrorNames[ByGravity[CHOOSE i \in known : \A j \in known : i <= j]]
<1>1. ClassifyDNS(local, alternate) =
        IF Discrepancy(local, alternate) THEN "DISCREPANCY"
        ELSE IF fine THEN "OK" ELSE IF known # {} THEN named ELSE "UNKNOWN"
  BY Zenon DEF ClassifyDNS
<1>2. known \in SUBSET (1 .. 5)
  BY DEF ByGravity
<1>3. known # {} => named # "OK"
  BY <1>2, ErrorsAreNotOK, Zenon
<1> HIDE DEF fine, named, known
<1>4. ~Discrepancy(local, alternate) /\ fine
  BY <1>1, <1>3, ZenonT(40)
<1> QED
  BY <1>4, Zenon DEF fine

\* classifyAvailability and the other columns, on the outcome of an attempt.
LEMMA ColumnsOfAttempt ==
  ASSUME NEW a \in Attempts, NEW plain \in BOOLEAN, SoundAttempt(a, plain)
  PROVE  /\ ClassifyAvailability(a) \in {"ACTIVE", "DEGRADED", "UNAVAILABLE", "UNKNOWN"}
         /\ ClassifyAvailability(a) = "ACTIVE" =>
              /\ a.code = "none" /\ ClassifyHTTP(a) \in {"OK", "REDIRECT"} /\ a.content \in ValidContent
              /\ ClassifyRedirect(a) \in {"NONE", "PERMANENT", "TEMPORARY"}
              /\ ClassifyTLS(a, plain) \notin {"INVALID", "UNKNOWN"}
         /\ ClassifyAvailability(a) = "UNAVAILABLE" => a.code # "none"
         /\ ClassifyAvailability(a) = "DEGRADED" => a.code # "none" \/ a.content \notin ValidContent
         /\ ClassifyAvailability(a) = "UNKNOWN" => ClassifyHTTP(a) \in {"UNKNOWN", "OK", "REDIRECT"}
<1>1. a.status \in Nat /\ a.tls \in {"none", "EXPIRED", "EXPIRING", "VALID"}
  BY Zenon DEF Attempts
<1>2. CASE a.status \in 200 .. 299 /\ a.content \in ValidContent
  <2>1. ClassifyAvailability(a) = "ACTIVE" /\ a.code = "none"
    BY <1>1, <1>2 DEF ClassifyAvailability, SoundAttempt
  <2>2. ClassifyHTTP(a) \in {"OK", "REDIRECT"}
    BY <1>1, <1>2 DEF ClassifyHTTP
  <2>3. ClassifyRedirect(a) \in {"NONE", "PERMANENT", "TEMPORARY"}
    BY <2>1, Zenon DEF ClassifyRedirect
  <2>4. ClassifyTLS(a, plain) \notin {"INVALID", "UNKNOWN"}
    <3>1. CASE a.tls # "none"
      BY <1>1, <3>1, Zenon DEF ClassifyTLS
    <3>2. CASE a.tls = "none"
      <4>1. plain
        BY <1>1, <1>2, <3>2 DEF SoundAttempt
      <4> QED
        BY <2>1, <3>2, <4>1, ZenonT(40) DEF ClassifyTLS
    <3> QED
      BY <3>1, <3>2, Zenon
  <2> QED
    BY <1>2, <2>1, <2>2, <2>3, <2>4, ZenonT(40)
<1>3. CASE a.status \in 200 .. 299 /\ a.content \notin ValidContent
  <2>1. ClassifyAvailability(a) = "DEGRADED"
    BY <1>1, <1>3, Zenon DEF ClassifyAvailability
  <2> QED
    BY <1>3, <2>1, Zenon
<1>4. CASE a.status \in 400 .. 499
  <2>1. ClassifyAvailability(a) = "DEGRADED" /\ a.code # "none"
    BY <1>1, <1>4 DEF ClassifyAvailability, SoundAttempt
  <2> QED
    BY <2>1, ZenonT(40)
<1>5. CASE a.status >= 500
  <2>1. ClassifyAvailability(a) = "UNAVAILABLE" /\ a.code # "none"
    BY <1>1, <1>5 DEF ClassifyAvailability, SoundAttempt
  <2> QED
    BY <2>1, ZenonT(40)
<1>6. CASE a.status \notin 200 .. 299 /\ a.status < 400
  <2>1. CASE a.code \in {"RUN_CANCELLED", "none"}
    <3>1. ClassifyAvailability(a) = "UNKNOWN"
      BY <1>1, <1>6, <2>1 DEF ClassifyAvailability
    <3>2. CASE a.status = 0
      <4>1. a.code = "RUN_CANCELLED"
        BY <2>1, <3>2, Zenon DEF SoundAttempt
      <4>2. ClassifyHTTP(a) = "UNKNOWN"
        BY <3>2, <4>1 DEF ClassifyHTTP, RedirectErrors
      <4> QED
        BY <3>1, <4>2, Zenon
    <3>3. CASE a.status # 0
      <4>1. a.status \in 200 .. 399
        BY <1>1, <1>6, <3>3 DEF SoundAttempt
      <4>2. ClassifyHTTP(a) \in {"OK", "REDIRECT"}
        BY <4>1, Zenon DEF ClassifyHTTP
      <4> QED
        BY <3>1, <4>2, ZenonT(40)
    <3> QED
      BY <3>2, <3>3, Zenon
  <2>2. CASE a.code \notin {"RUN_CANCELLED", "none"}
    <3>1. ClassifyAvailability(a) \in {"DEGRADED", "UNAVAILABLE"}
      BY <1>1, <1>6, <2>2 DEF ClassifyAvailability
    <3> QED
      BY <2>2, <3>1, Zenon
  <2> QED
    BY <2>1, <2>2, Zenon
<1> QED
  BY <1>1, <1>2, <1>3, <1>4, <1>5, <1>6

\* A verdict is drawn from a sound outcome.
LEMMA VerdictsOf ==
  ASSUME FetchInv, NEW verdict \in Verdicts
  PROVE  \E local, alternate \in ResolverResults :
           /\ verdict = Classify(local, alternate, tried, fetch.fallback)
           /\ tried \in Attempts /\ fetch.fallback \in BOOLEAN /\ SoundAttempt(tried, fetch.fallback)
<1>1. fetch.phase = "done"
  BY DEF Verdicts
<1>2. PICK local, alternate \in ResolverResults : verdict = Classify(local, alternate, tried, fetch.fallback)
  BY DEF Verdicts
<1>3. tried \in Attempts /\ fetch.fallback \in BOOLEAN /\ SoundAttempt(tried, fetch.fallback)
  BY <1>1, Zenon DEF FetchInv, Fetches
<1> QED
  BY <1>2, <1>3, Zenon

\* The columns of a verdict agree, whatever the attempts ended with: an ACTIVE domain answered without
\* error at the end of a sound chain, and one that is not shows why.
THEOREM ColumnsCorrect == HttpSpec => []ColumnsAgree
<1>1. FetchInv => ColumnsAgree
  <2> SUFFICES ASSUME FetchInv, NEW verdict \in Verdicts
               PROVE
                 /\ verdict.availability = "ACTIVE" =>
                      /\ verdict.code = "none" /\ verdict.http \in {"OK", "REDIRECT"} /\ verdict.content \in ValidContent
                      /\ verdict.redirect \in {"NONE", "PERMANENT", "TEMPORARY"} /\ verdict.tls \notin {"INVALID", "UNKNOWN"}
                 /\ verdict.availability = "UNAVAILABLE" => verdict.code # "none"
                 /\ verdict.availability = "DEGRADED" => verdict.code # "none" \/ verdict.content \notin ValidContent
                 /\ verdict.availability = "UNKNOWN" => verdict.http \in {"UNKNOWN", "OK", "REDIRECT"}
    BY Zenon DEF ColumnsAgree
  <2>1. PICK local, alternate \in ResolverResults :
          /\ verdict = Classify(local, alternate, tried, fetch.fallback)
          /\ tried \in Attempts /\ fetch.fallback \in BOOLEAN /\ SoundAttempt(tried, fetch.fallback)
    BY VerdictsOf, Zenon
  <2>2. /\ verdict.availability = ClassifyAvailability(tried) /\ verdict.code = tried.code
        /\ verdict.http = ClassifyHTTP(tried) /\ verdict.content = tried.content
        /\ verdict.redirect = ClassifyRedirect(tried) /\ verdict.tls = ClassifyTLS(tried, fetch.fallback)
    BY <2>1, Zenon DEF Classify
  <2> QED
    BY <2>1, <2>2, ColumnsOfAttempt, Zenon
<1> QED
  BY <1>1, FetchStart, FetchStep, PTL DEF HttpSpec

\* The score stays within its range, and is high only if the domain is ACTIVE with its DNS OK.
LEMMA ScoreBounds ==
  ASSUME NEW availability \in {"ACTIVE", "DEGRADED", "UNAVAILABLE", "UNKNOWN"}, NEW dns, NEW code, NEW local, NEW alternate,
         availability = "ACTIVE" => code = "none"
  PROVE  LET score == Score(availability, dns, code, local, alternate)
         IN /\ score \in 0 .. 99
            /\ score >= 80 => availability = "ACTIVE" /\ dns = "OK"
<1> DEFINE base == BaseScore(availability)
           fine == IF dns = "OK" THEN 10 ELSE 0
           second == IF HasConclusiveDNS(alternate) THEN 10 ELSE 0
           again == IF RepeatedFailure(local, code) THEN 5 ELSE 0
           apart == IF dns = "DISCREPANCY" THEN 10 ELSE 0
<1>1. /\ availability = "ACTIVE" => base = 65
      /\ availability # "ACTIVE" => base \in {20, 35, 50}
  BY Zenon DEF BaseScore
<1>2. /\ fine \in {0, 10} /\ (fine = 10 => dns = "OK") /\ second \in {0, 10} /\ again \in {0, 5} /\ apart \in {0, 10}
  OBVIOUS
<1>3. availability = "ACTIVE" => again = 0
  BY Zenon DEF RepeatedFailure
<1>4. Score(availability, dns, code, local, alternate) = base + fine + second + again - apart
  BY Zenon DEF Score
<1> HIDE DEF base, fine, second, again, apart
<1> QED
  BY <1>1, <1>2, <1>3, <1>4

\* The score needs no clamp, and HIGH confidence comes only with an ACTIVE domain, DNS that is OK and an
\* address type on which both resolvers agree.
THEOREM ConfidenceCorrect == HttpSpec => []HighConfidenceIsEarned
<1>1. FetchInv => HighConfidenceIsEarned
  <2> SUFFICES ASSUME FetchInv, NEW verdict \in Verdicts
               PROVE
                 /\ verdict.score \in 0 .. 99
                 /\ verdict.level = "HIGH" =>
                      /\ verdict.availability = "ACTIVE" /\ verdict.dns = "OK"
                      /\ \E t \in AddressTypes, l \in verdict.local, a \in verdict.alternate :
                           l.type = t /\ a.type = t /\ l.rcode = "NOERROR" /\ a.rcode = "NOERROR"
                             /\ CanonicalValues(l.answers, t) = CanonicalValues(a.answers, t)
    BY Zenon DEF HighConfidenceIsEarned
  <2>1. PICK local, alternate \in ResolverResults :
          /\ verdict = Classify(local, alternate, tried, fetch.fallback)
          /\ tried \in Attempts /\ fetch.fallback \in BOOLEAN /\ SoundAttempt(tried, fetch.fallback)
    BY VerdictsOf, Zenon
  <2> DEFINE availability == ClassifyAvailability(tried)
             dns == ClassifyDNS(local, alternate)
             score == Score(availability, dns, tried.code, local, alternate)
  <2>2. /\ verdict.availability = availability /\ verdict.dns = dns /\ verdict.score = score
        /\ verdict.level = ConfidenceLevel(score) /\ verdict.local = local /\ verdict.alternate = alternate
    BY <2>1, Zenon DEF Classify
  <2>3. availability \in {"ACTIVE", "DEGRADED", "UNAVAILABLE", "UNKNOWN"} /\ (availability = "ACTIVE" => tried.code = "none")
    BY <2>1, ColumnsOfAttempt, ZenonT(40)
  <2>4. score \in 0 .. 99 /\ (score >= 80 => availability = "ACTIVE" /\ dns = "OK")
    <3> HIDE DEF availability, dns
    <3> QED
      BY <2>3, ScoreBounds
  <2>5. ASSUME dns = "OK"
        PROVE  \E t \in AddressTypes, l \in local, a \in alternate :
                 l.type = t /\ a.type = t /\ l.rcode = "NOERROR" /\ a.rcode = "NOERROR"
                   /\ CanonicalValues(l.answers, t) = CanonicalValues(a.answers, t)
    <3>1. PICK t \in AddressTypes \cap DOMAIN LatestByType(local) :
            LatestByType(local)[t].code = "none" /\ LatestByType(local)[t].rcode = "NOERROR"
      BY <2>5, DnsIsOK, Zenon
    <3>2. t \in QueryTypes /\ Complete(local) /\ Complete(alternate)
      BY ClassificationAssumption, Zenon DEF QueryTypes
    <3> DEFINE l == LatestByType(local)[t]
               a == LatestByType(alternate)[t]
    <3>3. l \in local /\ l.type = t
      BY <3>2, LatestIsThere, Zenon
    <3>4. a \in alternate /\ a.type = t /\ t \in DOMAIN LatestByType(alternate)
      BY <3>2, LatestIsThere, Zenon
    <3>5. ~Differ(l, a, t)
      BY <2>5, <3>1, <3>4, DnsIsOK, Zenon DEF Discrepancy
    <3> HIDE DEF l, a
    <3>6. l.rcode = a.rcode /\ CanonicalValues(l.answers, t) = CanonicalValues(a.answers, t)
      BY <3>5, Zenon DEF Differ
    <3>7. l.rcode = "NOERROR"
      BY <3>1, Zenon DEF l
    <3> QED
      BY <3>1, <3>3, <3>4, <3>6, <3>7, Zenon
  <2>6. ConfidenceLevel(score) = "HIGH" => score >= 80
    <3> HIDE DEF score
    <3> QED
      BY Zenon DEF ConfidenceLevel
  <2> HIDE DEF availability, dns, score
  <2> QED
    BY <2>2, <2>4, <2>5, <2>6
<1> QED
  BY <1>1, FetchStart, FetchStep, PTL DEF HttpSpec

-----------------------------------------------------------------------------
(***************************************************************************)
(* Rdap: the interval between requests to a registry and the age of the    *)
(* bootstrap data.  The limiter remembers the latest start only; a lookup  *)
(* that waits carries the time it must not start before.                   *)
(***************************************************************************)
\* A lookup under way.
CallRows == [phase : CheckPhases, host : Hosts, now : Nat, read : [fetched : Nat, expires : Nat],
             attempt : {0, 1}, arrived : Nat, wake : Nat, age : Nat, stale : BOOLEAN]

\* The limiter knows of every start, and no newcomer came too soon.
LimiterInv ==
  /\ rdapTime \in Nat \ {0}
  /\ lastRequest \in [Hosts -> Nat] /\ \A h \in Hosts : lastRequest[h] <= rdapTime
  /\ \A s \in starts : /\ s.host \in Hosts /\ s.arrived \in Nat /\ s.at \in Nat \ {0}
                       /\ s.arrived <= s.at /\ s.at <= lastRequest[s.host]
  /\ NewcomersKeepDistance

\* A call that waits wakes an interval after all that started before it came.
WaitsEnough(call) ==
  /\ call.arrived <= rdapTime
  /\ \A a \in starts : a.host = call.host /\ a.at < call.arrived => a.at + MinInterval <= call.wake

\* Bootstrap data within its limits: fresh, or marked stale and not older than BootstrapMaxStale.
Recent(r) == r.age <= BootstrapMaxStale /\ (r.stale \/ r.age <= BootstrapTTL)

\* What is true of one lookup.
CallInv(call) ==
  /\ call \in CallRows
  /\ call.now <= rdapTime /\ call.read.fetched <= call.now
  /\ Recent(call)

\* The cache was fetched in the past and expires BootstrapTTL later at most.
CacheInv ==
  /\ cache \in [fetched : Nat, expires : Nat]
  /\ cache.fetched <= rdapTime /\ cache.expires <= cache.fetched + BootstrapTTL

\* The inductive invariant of limiter, cache and lookups.
RdapInv ==
  /\ LimiterInv
  /\ CacheInv
  /\ check \in [Checks -> CallRows]
  /\ \A c \in Checks : CallInv(check[c]) /\ (check[c].phase = "waiting" => WaitsEnough(check[c]))
  /\ BootstrapIsRecent
-----------------------------------------------------------------------------
\* A start that keeps its distance keeps the invariant of the limiter, and what others wait for.
LEMMA StartKeeps ==
  ASSUME LimiterInv, NEW h \in Hosts, NEW arrived \in Nat, arrived <= rdapTime,
         \A a \in starts : a.host = h /\ a.at < arrived => a.at + MinInterval <= rdapTime,
         starts' = Started(h, arrived), lastRequest' = [lastRequest EXCEPT ![h] = rdapTime], rdapTime' = rdapTime
  PROVE  /\ LimiterInv'
         /\ \A call \in CallRows : WaitsEnough(call) => WaitsEnough(call)'
<1> DEFINE new == [host |-> h, arrived |-> arrived, at |-> rdapTime]
<1>1. new.host = h /\ new.arrived = arrived /\ new.at = rdapTime
  BY Zenon
<1>2. \A s \in starts' : s \in starts \/ s = new
  BY Zenon DEF Started
<1> HIDE DEF new
<1>3. lastRequest' \in [Hosts -> Nat] /\ \A g \in Hosts : lastRequest'[g] <= rdapTime' /\ lastRequest[g] <= lastRequest'[g]
  BY DEF LimiterInv
<1>4. lastRequest'[h] = rdapTime
  BY Zenon DEF LimiterInv
<1>5. \A s \in starts' : /\ s.host \in Hosts /\ s.arrived \in Nat /\ s.at \in Nat \ {0}
                         /\ s.arrived <= s.at /\ s.at <= lastRequest'[s.host]
  BY <1>1, <1>2, <1>3, <1>4 DEF LimiterInv
<1>6. NewcomersKeepDistance'
  <2> SUFFICES ASSUME NEW a \in starts', NEW b \in starts', a.host = b.host, a.at < b.arrived
               PROVE  b.at >= a.at + MinInterval
    BY Zenon DEF NewcomersKeepDistance
  <2>1. CASE a \in starts /\ b \in starts
    BY <2>1, Zenon DEF LimiterInv, NewcomersKeepDistance
  <2>2. CASE a \in starts /\ b = new
    BY <1>1, <2>2, RdapAssumption, Zenon DEF LimiterInv
  <2>3. CASE a = new
    BY <1>1, <1>3, <1>5, <2>3 DEF LimiterInv
  <2> QED
    BY <1>2, <2>1, <2>2, <2>3, Zenon
<1>7. ASSUME NEW call \in CallRows, WaitsEnough(call)
      PROVE  WaitsEnough(call)'
  <2>1. call.arrived \in Nat /\ call.wake \in Nat
    BY Zenon DEF CallRows
  <2>2. \A a \in starts' : a.host = call.host /\ a.at < call.arrived => a.at + MinInterval <= call.wake
    BY <1>1, <1>2, <1>7, <2>1 DEF WaitsEnough, LimiterInv
  <2> QED
    BY <1>7, <2>2, Zenon DEF WaitsEnough
<1> QED
  BY <1>3, <1>5, <1>6, <1>7, Zenon DEF LimiterInv

\* A call changes, and the rest stays what it was.
LEMMA CallChanges ==
  ASSUME RdapInv, NEW c \in Checks, NEW call, CallInv(call),
         call.phase = "waiting" => WaitsEnough(call)',
         check' = [check EXCEPT ![c] = call], rdapTime' = rdapTime, LimiterInv',
         \A x \in CallRows : WaitsEnough(x) => WaitsEnough(x)',
         CacheInv', BootstrapIsRecent'
  PROVE  RdapInv'
<1>2. check' \in [Checks -> CallRows] /\ \A d \in Checks : check'[d] = IF d = c THEN call ELSE check[d]
  BY Zenon DEF RdapInv, CallInv
<1>3. \A d \in Checks : CallInv(check[d])'
  BY <1>2, Zenon DEF RdapInv, CallInv
<1>4. \A d \in Checks : (check[d].phase = "waiting" => WaitsEnough(check[d]))'
  BY <1>2, Zenon DEF RdapInv, CallInv, WaitsEnough
<1> QED
  BY <1>2, <1>3, <1>4, Zenon DEF RdapInv

\* waitForRateSlot, with the first locked section.
LEMMA AskKeeps ==
  ASSUME RdapInv, NEW c \in Checks, NEW h \in Hosts, NEW call, CallInv(call), AskForSlot(c, h, call),
         CacheInv', rows' = rows, rdapTime' = rdapTime
  PROVE  RdapInv'
<1>0. BootstrapIsRecent' /\ rdapTime \in Nat \ {0} /\ lastRequest[h] \in Nat
  BY Zenon DEF RdapInv, BootstrapIsRecent, LimiterInv
<1>1. CASE SlotIsFree(h)
  <2> DEFINE new == [call EXCEPT !.phase = "asking", !.host = h, !.attempt = 0]
  <2>1. new \in CallRows /\ new.phase = "asking" /\ new.now = call.now /\ new.read = call.read
        /\ new.age = call.age /\ new.stale = call.stale
    BY Zenon DEF CallInv, CallRows, CheckPhases
  <2>2. check' = [check EXCEPT ![c] = new] /\ starts' = Started(h, rdapTime)
        /\ lastRequest' = [lastRequest EXCEPT ![h] = rdapTime]
    BY <1>1, Zenon DEF AskForSlot
  <2> HIDE DEF new
  <2>3. CallInv(new)
    BY <2>1, Zenon DEF CallInv, Recent
  <2>4. \A a \in starts : a.host = h => a.at + MinInterval <= rdapTime
    BY <1>0, <1>1, RdapAssumption DEF SlotIsFree, Never, RdapInv, LimiterInv
  <2>5. LimiterInv' /\ \A x \in CallRows : WaitsEnough(x) => WaitsEnough(x)'
    <3>1. LimiterInv /\ rdapTime \in Nat /\ rdapTime <= rdapTime
      BY <1>0 DEF RdapInv
    <3>2. \A a \in starts : a.host = h /\ a.at < rdapTime => a.at + MinInterval <= rdapTime
      BY <2>4, Zenon
    <3> QED
      BY <2>2, <3>1, <3>2, StartKeeps, Zenon
  <2> QED
    BY <1>0, <2>1, <2>2, <2>3, <2>5, CallChanges, Zenon
<1>2. CASE ~SlotIsFree(h)
  <2> DEFINE new == [call EXCEPT !.phase = "waiting", !.host = h, !.attempt = 0,
                                 !.arrived = rdapTime, !.wake = lastRequest[h] + MinInterval]
  <2>1. new \in CallRows /\ new.phase = "waiting" /\ new.now = call.now /\ new.read = call.read
        /\ new.age = call.age /\ new.stale = call.stale
        /\ new.host = h /\ new.arrived = rdapTime /\ new.wake = lastRequest[h] + MinInterval
    <3>1. lastRequest[h] + MinInterval \in Nat
      BY <1>0, RdapAssumption
    <3>2. call \in CallRows /\ "waiting" \in CheckPhases /\ rdapTime \in Nat
      BY <1>0, Zenon DEF CallInv, CheckPhases
    <3> HIDE <1>0
    <3> QED
      BY <3>1, <3>2, Zenon DEF CallRows
  <2>2. check' = [check EXCEPT ![c] = new] /\ UNCHANGED <<starts, lastRequest>>
    BY <1>2, Zenon DEF AskForSlot
  <2>3. \A x \in CallRows : WaitsEnough(x) => WaitsEnough(x)'
    BY <2>2, Zenon DEF WaitsEnough
  <2>4. WaitsEnough(new)
    BY <1>0, <2>1, RdapAssumption DEF WaitsEnough, RdapInv, LimiterInv
  <2>5. WaitsEnough(new) => /\ new.arrived <= rdapTime'
                            /\ \A a \in starts' : a.host = new.host /\ a.at < new.arrived => a.at + MinInterval <= new.wake
    BY <2>2, Zenon DEF WaitsEnough
  <2>6. PICK k : k = new
    BY Zenon
  <2> HIDE DEF new
  <2>7. CallInv(k) /\ WaitsEnough(k)' /\ check' = [check EXCEPT ![c] = k]
    BY <2>1, <2>2, <2>4, <2>5, <2>6, Zenon DEF CallInv, Recent, WaitsEnough
  <2>8. LimiterInv'
    BY <2>2, Zenon DEF RdapInv, LimiterInv, NewcomersKeepDistance
  <2> QED
    BY <1>0, <2>3, <2>7, <2>8, CallChanges, Zenon
<1> QED
  BY <1>1, <1>2, Zenon

\* A call that has not begun.
LEMMA IdleSound == IdleCheck \in CallRows /\ IdleCheck.read.fetched = 0 /\ IdleCheck.phase = "idle"
                   /\ IdleCheck.now = 0 /\ IdleCheck.age = 0
BY Zenon DEF IdleCheck, CallRows, CheckPhases, Hosts, NoCache, Never

\* It holds nothing that could be out of date.
LEMMA IdleRecent ==
  ASSUME rdapTime \in Nat
  PROVE  CallInv(IdleCheck) /\ IdleCheck.phase # "waiting"
<1>1. 0 <= BootstrapMaxStale /\ 0 <= BootstrapTTL /\ 0 <= rdapTime
  BY RdapAssumption
<1>2. Recent(IdleCheck)
  BY <1>1, IdleSound, Zenon DEF Recent
<1> QED
  BY <1>1, <1>2, IdleSound DEF CallInv

\* What a call leaves for persist.
LEMMA OutcomeSound ==
  ASSUME NEW call, CallInv(call), NEW phase \in {"found", "failed"}, rdapTime \in Nat
  PROVE  CallInv(LookupResult(call, phase)) /\ LookupResult(call, phase).phase = phase
<1>1. call.now \in Nat /\ call.age \in Nat /\ call.stale \in BOOLEAN
  BY Zenon DEF CallInv, CallRows
<1>2. /\ LookupResult(call, phase) \in CallRows /\ LookupResult(call, phase).phase = phase /\ LookupResult(call, phase).now = call.now
      /\ LookupResult(call, phase).read = IdleCheck.read /\ LookupResult(call, phase).age = call.age
      /\ LookupResult(call, phase).stale = call.stale
  BY <1>1, IdleSound, Zenon DEF LookupResult, CallRows, CheckPhases
<1> QED
  BY <1>1, <1>2, IdleSound DEF CallInv, Recent

\* A call that ends its requests or begins anew, with nothing else changed but the cache or the rows.
LEMMA CallEnds ==
  ASSUME RdapInv, NEW c \in Checks, NEW call, CallInv(call), call.phase # "waiting",
         check' = [check EXCEPT ![c] = call], UNCHANGED <<rdapTime, lastRequest, starts>>,
         CacheInv', BootstrapIsRecent'
  PROVE  RdapInv'
<1>1. LimiterInv' /\ \A x \in CallRows : WaitsEnough(x) => WaitsEnough(x)'
  BY Zenon DEF RdapInv, LimiterInv, NewcomersKeepDistance, WaitsEnough
<1> QED
  BY <1>1, CallChanges, Zenon

\* ResolveBase, whatever became of the cache.
LEMMA RegistryKeeps ==
  ASSUME RdapInv, NEW c \in Checks, NEW call, CallInv(call), NEW listed \in BOOLEAN, AskRegistry(c, call, listed),
         CacheInv', rows' = rows, rdapTime' = rdapTime
  PROVE  RdapInv'
<1>1. CASE listed
  <2> DEFINE new == [call EXCEPT !.read = NoCache]
  <2>1. /\ new \in CallRows /\ new.now = call.now /\ new.read.fetched = 0 /\ new.age = call.age /\ new.stale = call.stale
        /\ call.now \in Nat
    BY Zenon DEF CallInv, CallRows, NoCache, Never
  <2>2. AskForSlot(c, "registry", new)
    BY <1>1, Zenon DEF AskRegistry
  <2> HIDE DEF new
  <2>3. CallInv(new)
    BY <2>1 DEF CallInv, Recent
  <2> QED
    BY <2>2, <2>3, AskKeeps, Zenon DEF Hosts
<1>2. CASE ~listed
  <2>1. check' = [check EXCEPT ![c] = LookupResult(call, "failed")] /\ UNCHANGED <<lastRequest, starts>>
    BY <1>2, Zenon DEF AskRegistry
  <2>2. CallInv(LookupResult(call, "failed")) /\ LookupResult(call, "failed").phase = "failed"
    BY OutcomeSound, Zenon DEF RdapInv, LimiterInv
  <2> QED
    BY <2>1, <2>2, CallEnds, Zenon DEF RdapInv, BootstrapIsRecent
<1> QED
  BY <1>1, <1>2, Zenon

\* Every step of a lookup, every answer and the clock keep RdapInv.
LEMMA RdapStep ==
  ASSUME RdapInv, [RdapNext]_rdapVars
  PROVE  RdapInv'
<1> USE DEF RdapInv
<1>0. rdapTime \in Nat \ {0} /\ CacheInv /\ \A c \in Checks : CallInv(check[c])
  BY Zenon DEF LimiterInv
<1>1. ASSUME NEW r \in rows, AnswerFromStore(r)
      PROVE  RdapInv'
  BY <1>1, Zenon DEF AnswerFromStore, LimiterInv, NewcomersKeepDistance, CacheInv, CallInv, WaitsEnough, BootstrapIsRecent
<1>2. ASSUME NEW c \in Checks, NEW force \in BOOLEAN, NEW listed \in BOOLEAN, StartCheck(c, force, listed)
      PROVE  RdapInv'
  <2> DEFINE call == [IdleCheck EXCEPT !.now = rdapTime, !.read = cache]
             fresh == [call EXCEPT !.age = rdapTime - cache.fetched]
  <2>1. UNCHANGED <<rdapTime, cache, rows, replies>> /\ CacheInv'
    BY <1>0, <1>2, Zenon DEF StartCheck, CacheInv
  <2>2. /\ cache \in [fetched : Nat, expires : Nat] /\ cache.fetched \in Nat /\ cache.expires \in Nat
        /\ cache.fetched <= rdapTime /\ cache.expires <= cache.fetched + BootstrapTTL /\ rdapTime \in Nat
    BY <1>0, Zenon DEF CacheInv
  <2>3. call \in CallRows /\ call.now = rdapTime /\ call.read = cache /\ call.age = 0
    BY <2>2, IdleSound, Zenon DEF CallRows
  <2>4. CASE cache.expires > rdapTime
    <3>1. rdapTime - cache.fetched \in Nat /\ rdapTime - cache.fetched <= BootstrapTTL
          /\ rdapTime - cache.fetched <= BootstrapMaxStale
      BY <2>2, <2>4, RdapAssumption
    <3>2. fresh \in CallRows /\ fresh.now = rdapTime /\ fresh.read = cache /\ fresh.age = rdapTime - cache.fetched
      BY <2>3, <3>1, Zenon DEF CallRows
    <3>3. AskRegistry(c, fresh, listed)
      BY <1>2, <2>4, Zenon DEF StartCheck
    <3> HIDE DEF fresh
    <3>4. CallInv(fresh)
      BY <2>2, <3>1, <3>2 DEF CallInv, Recent
    <3> QED
      BY <2>1, <3>3, <3>4, RegistryKeeps, Zenon
  <2>5. CASE ~(cache.expires > rdapTime)
    <3>1. AskForSlot(c, "iana", call)
      BY <1>2, <2>5, Zenon DEF StartCheck
    <3> HIDE DEF call
    <3>2. CallInv(call)
      BY <2>2, <2>3, RdapAssumption DEF CallInv, Recent
    <3> QED
      BY <2>1, <3>1, <3>2, AskKeeps, Zenon DEF Hosts
  <2> QED
    BY <2>4, <2>5, Zenon
<1>3. ASSUME NEW c \in Checks, SlotComes(c)
      PROVE  RdapInv'
  <2> DEFINE h == check[c].host
             arrived == check[c].arrived
             new == [check[c] EXCEPT !.phase = "asking", !.arrived = 0, !.wake = 0]
  <2>1. /\ WaitsEnough(check[c]) /\ rdapTime >= check[c].wake
        /\ lastRequest' = [lastRequest EXCEPT ![h] = rdapTime] /\ starts' = Started(h, arrived)
        /\ UNCHANGED <<rdapTime, cache, rows, replies>>
        /\ check' = [check EXCEPT ![c] = new]
    BY <1>3, Zenon DEF SlotComes, Recorded
  <2>2. h \in Hosts /\ arrived \in Nat /\ check[c].wake \in Nat
    BY Zenon DEF CallRows
  <2>3. arrived <= rdapTime /\ \A a \in starts : a.host = h /\ a.at < arrived => a.at + MinInterval <= rdapTime
    BY <1>0, <2>1, <2>2, RdapAssumption DEF WaitsEnough, LimiterInv
  <2>4. LimiterInv' /\ \A x \in CallRows : WaitsEnough(x) => WaitsEnough(x)'
    BY <2>1, <2>2, <2>3, StartKeeps, Zenon
  <2>5. new \in CallRows /\ new.phase = "asking" /\ new.now = check[c].now /\ new.read = check[c].read
        /\ new.age = check[c].age /\ new.stale = check[c].stale
    BY ZenonT(40) DEF CallRows, CheckPhases
  <2> HIDE DEF new
  <2>6. CallInv(new)
    BY <1>0, <2>5, Zenon DEF CallInv, Recent
  <2>7. CacheInv' /\ BootstrapIsRecent'
    BY <1>0, <2>1, Zenon DEF CacheInv, BootstrapIsRecent
  <2> QED
    BY <2>1, <2>4, <2>5, <2>6, <2>7, CallChanges, Zenon
<1>4. ASSUME NEW c \in Checks, AskAgain(c)
      PROVE  RdapInv'
  <2> DEFINE new == [check[c] EXCEPT !.attempt = 1]
  <2>1. new \in CallRows /\ new.phase = "asking" /\ new.now = check[c].now /\ new.read = check[c].read
        /\ new.age = check[c].age /\ new.stale = check[c].stale
    BY <1>4 DEF CallRows, AskAgain
  <2>2. check' = [check EXCEPT ![c] = new] /\ UNCHANGED <<rdapTime, lastRequest, cache, rows, starts, replies>>
    BY <1>4, Zenon DEF AskAgain
  <2> HIDE DEF new
  <2>3. CallInv(new)
    BY <1>0, <2>1, Zenon DEF CallInv, Recent
  <2> QED
    BY <1>0, <2>1, <2>2, <2>3, CallEnds, Zenon DEF CacheInv, BootstrapIsRecent
<1>5. ASSUME NEW c \in Checks, NEW listed \in BOOLEAN, BootstrapFetched(c, listed)
      PROVE  RdapInv'
  <2>1. CacheInv'
    <3>1. check[c].now \in Nat /\ check[c].now <= rdapTime
      BY <1>0, Zenon DEF CallInv, CallRows
    <3>2. cache' = [fetched |-> check[c].now, expires |-> check[c].now + BootstrapTTL]
      BY <1>5, Zenon DEF BootstrapFetched
    <3>5. rdapTime' = rdapTime
      BY <1>5, Zenon DEF BootstrapFetched
    <3>3. check[c].now + BootstrapTTL \in Nat
      BY <3>1, RdapAssumption
    <3>4. /\ cache' \in [fetched : Nat, expires : Nat]
          /\ cache'.fetched = check[c].now /\ cache'.expires = check[c].now + BootstrapTTL
      BY <3>1, <3>2, <3>3, Zenon
    <3> QED
      BY <3>1, <3>3, <3>4, <3>5 DEF CacheInv
  <2> QED
    BY <1>0, <1>5, <2>1, RegistryKeeps, Zenon DEF BootstrapFetched
<1>6. ASSUME NEW c \in Checks, NEW listed \in BOOLEAN, BootstrapFails(c, listed)
      PROVE  RdapInv'
  <2> DEFINE age == check[c].now - check[c].read.fetched
             new == [check[c] EXCEPT !.stale = TRUE, !.age = age]
  <2>1. UNCHANGED <<rdapTime, cache, rows, replies>> /\ CacheInv' /\ BootstrapIsRecent'
    BY <1>0, <1>6, Zenon DEF BootstrapFails, CacheInv, BootstrapIsRecent
  <2>2. CASE StaleEnough(check[c])
    <3>1. /\ check[c].now \in Nat /\ check[c].read.fetched \in Nat /\ check[c].read.fetched <= check[c].now
          /\ age <= BootstrapMaxStale
      BY <1>0, <2>2, Zenon DEF CallInv, CallRows, StaleEnough
    <3>2. age \in Nat
      <4>1. \A m, n \in Nat : m <= n => n - m \in Nat
        OBVIOUS
      <4> QED
        BY <3>1, <4>1, Zenon
    <3>3. AskRegistry(c, new, listed)
      BY <1>6, <2>2, Zenon DEF BootstrapFails
    <3> HIDE DEF age
    <3>4. new \in CallRows /\ new.now = check[c].now /\ new.read = check[c].read /\ new.age = age /\ new.stale
      BY <3>2, Zenon DEF CallRows
    <3> HIDE DEF new
    <3>5. CallInv(new)
      BY <1>0, <3>1, <3>4, Zenon DEF CallInv, Recent
    <3> QED
      BY <2>1, <3>3, <3>5, RegistryKeeps, Zenon
  <2>3. CASE ~StaleEnough(check[c])
    <3>1. check' = [check EXCEPT ![c] = LookupResult(check[c], "failed")] /\ UNCHANGED <<lastRequest, starts>>
      BY <1>6, <2>3, Zenon DEF BootstrapFails
    <3>2. CallInv(LookupResult(check[c], "failed")) /\ LookupResult(check[c], "failed").phase = "failed"
      BY <1>0, OutcomeSound, Zenon
    <3> QED
      BY <2>1, <3>1, <3>2, CallEnds, Zenon
  <2> QED
    BY <2>2, <2>3, Zenon
<1>7. ASSUME NEW c \in Checks, BootstrapInvalid(c) \/ RegistryAnswers(c)
      PROVE  RdapInv'
  <2>1. PICK phase \in {"found", "failed"} : check' = [check EXCEPT ![c] = LookupResult(check[c], phase)]
    BY <1>7, Zenon DEF BootstrapInvalid, RegistryAnswers
  <2>2. UNCHANGED <<rdapTime, lastRequest, cache, rows, starts, replies>>
    BY <1>7, Zenon DEF BootstrapInvalid, RegistryAnswers
  <2>3. CallInv(LookupResult(check[c], phase)) /\ LookupResult(check[c], phase).phase # "waiting"
    BY <1>0, OutcomeSound, Zenon
  <2>4. CacheInv' /\ BootstrapIsRecent'
    BY <1>0, <2>2, Zenon DEF CacheInv, BootstrapIsRecent
  <2> QED
    BY <2>1, <2>2, <2>3, <2>4, CallEnds, Zenon
<1>8. ASSUME NEW c \in Checks, \/ AbandonCheck(c)
                               \/ \E known \in {0, 4} : Persist(c, known)
      PROVE  RdapInv'
  <2>1. check' = [check EXCEPT ![c] = IdleCheck] /\ UNCHANGED <<rdapTime, lastRequest, cache, starts, replies>>
    BY <1>8, Zenon DEF AbandonCheck, Persist
  <2>2. CallInv(IdleCheck) /\ IdleCheck.phase # "waiting"
    BY <1>0, IdleRecent, Zenon
  <2>3. \A r \in rows' : r \in rows \/ (r.age = check[c].age /\ r.stale = check[c].stale)
    BY <1>8 DEF AbandonCheck, Persist
  <2>4. CacheInv' /\ BootstrapIsRecent'
    BY <1>0, <2>1, <2>3, Zenon DEF CacheInv, BootstrapIsRecent, CallInv, Recent
  <2> QED
    BY <2>1, <2>2, <2>4, CallEnds, Zenon
<1>9. ASSUME RdapTick
      PROVE  RdapInv'
  <2>1. rdapTime' = rdapTime + 1 /\ UNCHANGED <<lastRequest, cache, check, rows, starts, replies>>
    BY <1>9, Zenon DEF RdapTick
  <2>2. LimiterInv' /\ CacheInv' /\ BootstrapIsRecent'
    BY <1>0, <2>1 DEF LimiterInv, NewcomersKeepDistance, CacheInv, BootstrapIsRecent
  <2>3. \A c \in Checks : CallInv(check[c])'
    BY <1>0, <2>1 DEF CallInv, CallRows
  <2>4. \A c \in Checks : (check[c].phase = "waiting" => WaitsEnough(check[c]))'
    BY <1>0, <2>1 DEF WaitsEnough, CallInv, CallRows
  <2> QED
    BY <2>1, <2>2, <2>3, <2>4, Zenon
<1>10. CASE UNCHANGED rdapVars
  BY <1>10, Zenon DEF rdapVars, LimiterInv, NewcomersKeepDistance, CacheInv, CallInv, WaitsEnough, BootstrapIsRecent
<1> QED
  BY <1>1, <1>2, <1>3, <1>4, <1>5, <1>6, <1>7, <1>8, <1>9, <1>10, Zenon DEF RdapNext

\* RdapInv is an invariant.
LEMMA RdapInvariant == RdapSpec => []RdapInv
<1>1. RdapInit => RdapInv
  <2> SUFFICES ASSUME RdapInit PROVE RdapInv
    BY Zenon
  <2>1. LimiterInv
    BY DEF RdapInit, LimiterInv, NewcomersKeepDistance, Never, Hosts
  <2>2. CacheInv
    BY RdapAssumption DEF RdapInit, CacheInv, NoCache, Never
  <2>3. CallInv(IdleCheck) /\ IdleCheck.phase # "waiting"
    BY IdleRecent, Zenon DEF RdapInit
  <2> QED
    BY <2>1, <2>2, <2>3, IdleSound, Zenon DEF RdapInit, RdapInv, BootstrapIsRecent
<1> QED
  BY <1>1, RdapStep, PTL DEF RdapSpec

\* A lookup that comes after a request to the host has started starts its own MinInterval later; only
\* those that waited already may follow sooner.
THEOREM RateCorrect == RdapSpec => []NewcomersKeepDistance
<1>1. RdapInv => NewcomersKeepDistance
  BY Zenon DEF RdapInv, LimiterInv
<1> QED
  BY <1>1, RdapInvariant, PTL

\* No stored result rests on bootstrap data older than BootstrapMaxStale, or than BootstrapTTL if it is
\* not marked stale.
THEOREM BootstrapCorrect == RdapSpec => []BootstrapIsRecent
<1>1. RdapInv => BootstrapIsRecent
  BY Zenon DEF RdapInv
<1> QED
  BY <1>1, RdapInvariant, PTL
=============================================================================
