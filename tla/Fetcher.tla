------------------------------ MODULE Fetcher ------------------------------
(***************************************************************************)
(* internal/crawler/fetcher.go: the per-site HTTP client with the adaptive *)
(* rate controller, driven by the single goroutine of Crawler.Run: first   *)
(* robots.txt, then SetMaxRate when it carries a Crawl-delay, then pages.  *)
(*                                                                         *)
(* Time advances in ticks.  Instants the code stores (retryUntil) are kept *)
(* as the ticks left until them, so no clock bound is needed.  A rate is a *)
(* whole number of units per tick and a request costs Token units, so at   *)
(* rate r two requests are at least Token / r ticks apart; the products    *)
(* with 1.25 and 0.5 are rounded down to a unit.                           *)
(***************************************************************************)
EXTENDS Integers

CONSTANTS
    MinRPS, MaxRPS,   \* minRPS and maxRPS
    OneRPS,           \* 1 request per second, for a site configured with <= 0
    RampStreak,       \* rampSuccessStreak
    MaxRetryAfter,    \* maxRetryAfterWindow, in ticks
    Second,           \* time.Second, in ticks
    DurationSpan,     \* 2^64 in the code: time.Duration wraps modulo this
    Token,            \* what a request takes from the limiter (burst 1)
    ConfiguredRates,  \* rate_limit_rps values a site may be stored with
    Ceilings,         \* 1 / Crawl-delay of the robots.txt files met
    RetryAfterSecs,   \* delta-seconds values of Retry-After; 0 when absent
    Horizon           \* largest number of ticks sinceSend tells apart

ASSUME RateAssumption ==
    /\ MinRPS \in Nat \ {0} /\ MaxRPS \in Nat \ {0} /\ OneRPS \in Nat \ {0}
    /\ RampStreak \in Nat \ {0} /\ Token \in Nat \ {0} /\ Horizon \in Nat \ {0}
    /\ MinRPS <= OneRPS /\ OneRPS <= MaxRPS
    /\ ConfiguredRates \subseteq Int
    /\ Ceilings \subseteq Nat \ {0}

ASSUME RetryAssumption ==
    /\ MaxRetryAfter \in Nat \ {0}
    /\ Second \in Nat \ {0} /\ DurationSpan \in Nat \ {0}
    /\ RetryAfterSecs \subseteq Nat

\* sinceSend saturates only where every rate in use has earned a token.
ASSUME HorizonAssumption ==
    /\ Horizon * MaxRPS >= Token
    /\ \A c \in Ceilings : Horizon * c >= Token

\* Every Crawl-delay met is at most 1 / minRPS (10 s in the code).
CeilingsAboveFloor == \A c \in Ceilings : c >= MinRPS

\* No Retry-After met overflows time.Duration.
RetryAfterFits == \A secs \in RetryAfterSecs : secs * Second < DurationSpan \div 2

VARIABLES
    currentRate, maxAllowedRPS, successStreak, retryLeft,  \* Fetcher's fields
    limit, tokens,    \* rate.Limiter: its limit and what it has accumulated
    pc,               \* where the crawl goroutine is inside Get
    stage,            \* "robots", "policy" (robots.txt parsed), "page"
    cancelled,        \* ctx is done
    sinceSend,        \* history: ticks since the last page request went out
    asked,            \* history: ticks left of the pause the server asked for
    lateSends         \* history: requests sent after ctx was done

fields == <<currentRate, maxAllowedRPS, successStreak, limit>>
history == <<sinceSend, asked, lateSends>>
vars == <<fields, retryLeft, tokens, pc, stage, cancelled, history>>

Lesser(a, b) == IF a < b THEN a ELSE b
Greater(a, b) == IF a > b THEN a ELSE b

TypeOK ==
    /\ currentRate \in Nat \ {0} /\ limit \in Nat \ {0}
    /\ maxAllowedRPS \in Ceilings \union {MaxRPS}
    /\ successStreak \in 0 .. RampStreak - 1
    /\ retryLeft \in 0 .. MaxRetryAfter
    /\ tokens \in 0 .. Token
    /\ pc \in {"idle", "parked", "limited", "inflight"}
    /\ stage \in {"robots", "policy", "page"}
    /\ cancelled \in BOOLEAN
    /\ sinceSend \in 0 .. Horizon
    /\ asked \in 0 .. MaxRetryAfter
    /\ lateSends \in Nat

(***************************************************************************)
(* The arithmetic of the controller.                                       *)
(***************************************************************************)
ConfiguredRate(rps) ==
    IF rps <= 0 THEN OneRPS ELSE Lesser(MaxRPS, Greater(MinRPS, rps))

\* Faulty: the floor is the starting rate, so backing off can speed up.
HalvedToOne(r) == Greater(OneRPS, r \div 2)

Halved(r) == Greater(MinRPS, r \div 2)

\* The ceiling increaseRateLocked applies.
Ceiling == Lesser(maxAllowedRPS, MaxRPS)

\* Faulty: ramps to the global maximum whatever robots.txt asked for.
RampedToMax(r) == Lesser(MaxRPS, (5 * r) \div 4)

Ramped(r) == Lesser(Ceiling, (5 * r) \div 4)

\* Conversion of a product of seconds to a time.Duration, a signed integer.
Duration(n) ==
    LET half == DurationSpan \div 2 IN ((n + half) % DurationSpan) - half

\* Faulty: an overlong Retry-After is dropped instead of being shortened.
DroppedRetryWait(secs) ==
    LET wait == Duration(secs * Second)
    IN  IF wait <= 0 \/ wait > MaxRetryAfter THEN 0 ELSE wait

\* Faulty: no cap on what the server asks for.
UncappedRetryWait(secs) ==
    LET wait == Duration(secs * Second) IN IF wait <= 0 THEN 0 ELSE wait

\* applyRetryAfterLocked: the pause a header leads to, 0 when it is ignored.
RetryWait(secs) ==
    LET wait == Duration(secs * Second)
    IN  IF wait <= 0 THEN 0 ELSE Lesser(wait, MaxRetryAfter)

(***************************************************************************)
(* NewFetcherWithTag.                                                      *)
(***************************************************************************)
Init ==
    /\ \E rps \in ConfiguredRates : currentRate = ConfiguredRate(rps)
    /\ limit = currentRate
    /\ maxAllowedRPS = MaxRPS
    /\ successStreak = 0 /\ retryLeft = 0
    /\ tokens = Token
    /\ pc = "idle" /\ stage = "robots" /\ cancelled = FALSE
    /\ sinceSend = Horizon /\ asked = 0 /\ lateSends = 0

(***************************************************************************)
(* Get.  An error or a response of the robots.txt request ends the robots  *)
(* stage; only a healthy response can carry a policy.                      *)
(***************************************************************************)
AfterRobots == IF stage = "robots" THEN "page" ELSE stage

\* Faulty: the limiter's wait is given a ctx of its own.
EnterLimiterRegardless ==
    /\ pc' = "limited"
    /\ UNCHANGED <<fields, retryLeft, tokens, stage, cancelled, history>>

\* limiter.Wait refuses a ctx that is already done.
EnterLimiter ==
    /\ pc' = IF cancelled THEN "idle" ELSE "limited"
    /\ stage' = IF cancelled THEN AfterRobots ELSE stage
    /\ UNCHANGED <<fields, retryLeft, tokens, cancelled, history>>

Park ==
    /\ pc' = "parked"
    /\ UNCHANGED <<fields, retryLeft, tokens, stage, cancelled, history>>

Get ==
    /\ pc = "idle" /\ stage # "policy"
    /\ IF retryLeft > 0 THEN Park ELSE EnterLimiter

\* Faulty: the park has no timer branch, only ctx.Done.
TimerNeverFires ==
    /\ pc = "parked" /\ retryLeft = 0 /\ cancelled
    /\ EnterLimiter

TimerFires ==
    /\ pc = "parked" /\ retryLeft = 0
    /\ EnterLimiter

\* ctx.Done wins in the park or in the limiter's wait: no observation.
Abort ==
    /\ pc \in {"parked", "limited"} /\ cancelled
    /\ pc' = "idle" /\ stage' = AfterRobots
    /\ UNCHANGED <<fields, retryLeft, tokens, cancelled, history>>

\* The limiter grants its token and client.Do starts.
Send ==
    /\ pc = "limited" /\ tokens >= Token
    /\ pc' = "inflight"
    /\ tokens' = tokens - Token
    /\ sinceSend' = IF stage = "page" THEN 0 ELSE sinceSend
    /\ lateSends' = IF cancelled THEN lateSends + 1 ELSE lateSends
    /\ UNCHANGED <<fields, retryLeft, stage, cancelled, asked>>

Reply(nextStage) ==
    /\ pc = "inflight"
    /\ pc' = "idle" /\ stage' = nextStage
    /\ UNCHANGED <<tokens, cancelled, sinceSend, lateSends>>

\* decreaseRateLocked, and the end of the streak with it.
DecreaseRate ==
    /\ currentRate' = Halved(currentRate)
    /\ limit' = currentRate'
    /\ successStreak' = 0
    /\ UNCHANGED maxAllowedRPS

IncreaseRate ==
    /\ currentRate' = Ramped(currentRate)
    /\ limit' = IF currentRate' = currentRate THEN limit ELSE currentRate'

\* Faulty: the streak starts over with every response.
ObserveHealthyForgetful ==
    /\ successStreak' = 0
    /\ UNCHANGED <<currentRate, limit>>

ObserveHealthy ==
    IF successStreak + 1 >= RampStreak
    THEN successStreak' = 0 /\ IncreaseRate
    ELSE successStreak' = successStreak + 1 /\ UNCHANGED <<currentRate, limit>>

\* 2xx or 3xx.
Healthy ==
    /\ Reply(IF stage = "robots" THEN "policy" ELSE stage)
    /\ ObserveHealthy
    /\ UNCHANGED <<maxAllowedRPS, retryLeft, asked>>

\* 429 or 5xx; what the server asked for is the header, capped at the window.
Throttled(secs) ==
    /\ Reply(AfterRobots)
    /\ retryLeft' = Greater(retryLeft, RetryWait(secs))
    /\ asked' = Greater(asked, Lesser(secs * Second, MaxRetryAfter))
    /\ DecreaseRate

\* Any other status.
Refused ==
    /\ Reply(AfterRobots)
    /\ successStreak' = 0
    /\ UNCHANGED <<currentRate, limit, maxAllowedRPS, retryLeft, asked>>

\* client.Do or the read of the body fails: observeError.
Fail ==
    /\ Reply(AfterRobots)
    /\ DecreaseRate
    /\ UNCHANGED <<retryLeft, asked>>

(***************************************************************************)
(* SetMaxRate, or no Crawl-delay in the policy.                            *)
(***************************************************************************)
\* Faulty: only the ceiling is lowered, the current rate stays above it.
SetCeilingOnly(rps) ==
    /\ stage = "policy" /\ stage' = "page"
    /\ maxAllowedRPS' = rps
    /\ UNCHANGED <<currentRate, limit, successStreak, retryLeft, tokens, pc,
                   cancelled, history>>

SetMaxRate(rps) ==
    /\ stage = "policy" /\ stage' = "page"
    /\ maxAllowedRPS' = rps
    /\ currentRate' = Lesser(currentRate, rps)
    /\ limit' = IF currentRate > rps THEN rps ELSE limit
    /\ UNCHANGED <<successStreak, retryLeft, tokens, pc, cancelled, history>>

NoCrawlDelay ==
    /\ stage = "policy" /\ stage' = "page"
    /\ UNCHANGED <<fields, retryLeft, tokens, pc, cancelled, history>>

(***************************************************************************)
(* The environment: ctx and the clock.                                     *)
(***************************************************************************)
Cancel ==
    /\ ~cancelled /\ cancelled' = TRUE
    /\ UNCHANGED <<fields, retryLeft, tokens, pc, stage, history>>

Tick ==
    /\ tokens' = Lesser(Token, tokens + limit)
    /\ retryLeft' = Greater(0, retryLeft - 1)
    /\ asked' = Greater(0, asked - 1)
    /\ sinceSend' = Lesser(Horizon, sinceSend + 1)
    /\ UNCHANGED <<fields, pc, stage, cancelled, lateSends>>

Next ==
    \/ Get \/ TimerFires \/ Abort \/ Send
    \/ Healthy \/ Refused \/ Fail
    \/ \E secs \in RetryAfterSecs : Throttled(secs)
    \/ \E rps \in Ceilings : SetMaxRate(rps)
    \/ NoCrawlDelay
    \/ Cancel \/ Tick

Spec == Init /\ [][Next]_vars

\* Time passes, the runtime runs a goroutine whose timer or token is ready,
\* and the client's 30 s timeout ends a request nobody answers.
Fairness ==
    /\ WF_vars(Tick)
    /\ WF_vars(TimerFires)
    /\ WF_vars(Send)
    /\ WF_vars(Healthy \/ Refused \/ Fail
                \/ \E secs \in RetryAfterSecs : Throttled(secs))

LiveSpec == Spec /\ Fairness

(***************************************************************************)
(* Properties.                                                             *)
(***************************************************************************)
\* The controller never runs above the lower of maxRPS and the Crawl-delay
\* ceiling, and the limiter enforces the rate the controller believes in.
RateWithinCeiling ==
    /\ limit = currentRate
    /\ currentRate <= Ceiling

\* Two page requests are at least a Crawl-delay apart, through any sequence
\* of back-offs and ramp-ups in between.
CrawlDelaySpacing ==
    [][pc = "limited" /\ pc' = "inflight" /\ stage = "page"
        => sinceSend * maxAllowedRPS >= Token]_vars

\* No request goes out during a pause the server asked for with Retry-After.
RetryAfterHonored ==
    [][pc = "limited" /\ pc' = "inflight" => asked = 0]_vars

\* A throttled or failed request never makes the controller faster.
BackOffNeverRaises ==
    [][pc = "inflight" /\ pc' = "idle" /\ ~Healthy
        => currentRate' <= currentRate]_vars

\* Once ctx is done at most the request already past the limiter's check
\* still goes out.
FewLateSends == lateSends <= 1

\* Get always returns: neither the pause nor the limiter blocks for ever.
GetReturns == pc # "idle" ~> pc = "idle"

\* When from some point on every answer is healthy, the rate climbs back to
\* the ceiling, however it was brought down before.
RecoversToCeiling ==
    (/\ <>[][pc = "inflight" /\ pc' = "idle" => Healthy]_vars
     /\ []<><<Healthy>>_vars)
        => []<>(currentRate = Ceiling)
=============================================================================
