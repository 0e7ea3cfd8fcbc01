--------------------------- MODULE FetcherProofs ---------------------------
(***************************************************************************)
(* The safety properties of Fetcher for every value of its constants.      *)
(* Three invariants: the types, what couples the rate, the limiter's       *)
(* tokens and the time since the last request, and what couples the pause  *)
(* the server asked for and a cancelled ctx with the place inside Get.     *)
(***************************************************************************)
EXTENDS Fetcher, TLAPS

USE RateAssumption, RetryAssumption DEF RateAssumption, RetryAssumption

(***************************************************************************)
(* The controller's arithmetic.                                            *)
(***************************************************************************)
LEMMA ProductLemma ==
    ASSUME NEW a \in Nat, NEW b \in Nat
    PROVE  a * b \in Nat
OBVIOUS

LEMMA TransitivityLemma ==
    ASSUME NEW a \in Nat, NEW b \in Nat, NEW c \in Nat, a <= b, b <= c
    PROVE  a <= c
OBVIOUS

LEMMA HalvedLemma ==
    ASSUME NEW r \in Nat \ {0}
    PROVE  /\ Halved(r) \in Nat \ {0}
           /\ \A c \in Nat : c >= MinRPS /\ r <= c => Halved(r) <= c
           /\ r >= MinRPS => Halved(r) <= r
           /\ Halved(r) >= MinRPS
BY DEF Halved, Greater

LEMMA RampedLemma ==
    ASSUME NEW r \in Nat \ {0}, maxAllowedRPS \in Nat \ {0}
    PROVE  /\ Ramped(r) \in Nat \ {0}
           /\ Ramped(r) <= Ceiling
           /\ r >= MinRPS /\ Ceiling >= MinRPS => Ramped(r) >= MinRPS
<1> DEFINE up == (5 * r) \div 4
<1>1. up \in Nat /\ up >= r
  OBVIOUS
<1>2. Ceiling \in Nat \ {0}
  BY DEF Ceiling, Lesser
<1> HIDE DEF up
<1>3. Ramped(r) = Lesser(Ceiling, up)
  BY DEF Ramped, up
<1> QED
  BY <1>1, <1>2, <1>3 DEF Lesser

LEMMA RetryWaitLemma ==
    ASSUME NEW secs \in Nat
    PROVE  /\ RetryWait(secs) \in 0 .. MaxRetryAfter
           /\ secs * Second < DurationSpan \div 2
                => RetryWait(secs) = Lesser(secs * Second, MaxRetryAfter)
<1> DEFINE n == secs * Second
           half == DurationSpan \div 2
<1>1. n \in Nat
  OBVIOUS
<1>2. half \in Nat /\ half + half <= DurationSpan
  OBVIOUS
<1> HIDE DEF n, half
<1>3. (n + half) % DurationSpan \in Int
  BY <1>1, <1>2
<1>4. Duration(n) \in Int
  BY <1>2, <1>3 DEF Duration, half
<1>5. n < half => Duration(n) = n
  <2> SUFFICES ASSUME n < half PROVE Duration(n) = n
    OBVIOUS
  <2>1. n + half \in 0 .. DurationSpan - 1
    BY <1>1, <1>2
  <2>2. (n + half) % DurationSpan = n + half
    BY <2>1
  <2> QED
    BY <1>1, <1>2, <2>2 DEF Duration, half
<1>6. RetryWait(secs) = IF Duration(n) <= 0 THEN 0
                        ELSE Lesser(Duration(n), MaxRetryAfter)
  BY DEF RetryWait, n
<1> QED
  BY <1>1, <1>4, <1>5, <1>6 DEF Lesser, n, half

(***************************************************************************)
(* Types.                                                                  *)
(***************************************************************************)
LEMMA TypeInit == Init => TypeOK
<1> SUFFICES ASSUME Init PROVE TypeOK
  OBVIOUS
<1>1. PICK rps \in ConfiguredRates : currentRate = ConfiguredRate(rps)
  BY DEF Init
<1>2. currentRate \in Nat \ {0}
  BY <1>1 DEF ConfiguredRate, Lesser, Greater
<1>3. cancelled \in BOOLEAN
  BY DEF Init
<1>4. limit = currentRate /\ maxAllowedRPS \in Ceilings \union {MaxRPS}
  BY DEF Init
<1>5. /\ successStreak \in 0 .. RampStreak - 1 /\ retryLeft \in 0 .. MaxRetryAfter
      /\ tokens \in 0 .. Token /\ sinceSend \in 0 .. Horizon
      /\ asked \in 0 .. MaxRetryAfter /\ lateSends \in Nat
  BY DEF Init
<1> QED
  BY <1>2, <1>3, <1>4, <1>5 DEF Init, TypeOK

LEMMA TypeStep == TypeOK /\ [Next]_vars => TypeOK'
<1> SUFFICES ASSUME TypeOK, [Next]_vars
             PROVE  TypeOK'
  OBVIOUS
<1> USE DEF TypeOK
<1>1. Halved(currentRate) \in Nat \ {0} /\ Ramped(currentRate) \in Nat \ {0}
  BY HalvedLemma, RampedLemma
<1>2. CASE Get \/ TimerFires
  BY <1>2 DEF Get, TimerFires, Park, EnterLimiter, AfterRobots, fields, history
<1>3. CASE Abort
  BY <1>3 DEF Abort, AfterRobots, fields, history
<1>4. CASE Send
  BY <1>4 DEF Send, fields
<1>5. CASE Healthy
  BY <1>1, <1>5 DEF Healthy, Reply, ObserveHealthy, IncreaseRate
<1>6. CASE Refused
  BY <1>6 DEF Refused, Reply, AfterRobots
<1>7. CASE Fail
  BY <1>1, <1>7 DEF Fail, Reply, DecreaseRate, AfterRobots
<1>8. ASSUME NEW secs \in RetryAfterSecs, Throttled(secs)
      PROVE  TypeOK'
  <2>1. RetryWait(secs) \in 0 .. MaxRetryAfter
    BY RetryWaitLemma
  <2>2. retryLeft' \in 0 .. MaxRetryAfter
    BY <1>8, <2>1 DEF Throttled, Greater
  <2>3. secs * Second \in Nat
    OBVIOUS
  <2>4. asked' \in 0 .. MaxRetryAfter
    BY <1>8, <2>3 DEF Throttled, Greater, Lesser
  <2> QED
    BY <1>1, <1>8, <2>2, <2>4 DEF Throttled, Reply, DecreaseRate, AfterRobots
<1>9. ASSUME NEW rps \in Ceilings, SetMaxRate(rps)
      PROVE  TypeOK'
  BY <1>9 DEF SetMaxRate, Lesser, history
<1>10. CASE NoCrawlDelay
  BY <1>10 DEF NoCrawlDelay, fields, history
<1>11. CASE Cancel
  BY <1>11 DEF Cancel, fields, history
<1>12. CASE Tick
  BY <1>12 DEF Tick, Lesser, Greater, fields
<1>13. CASE UNCHANGED vars
  BY <1>13 DEF vars, fields, history
<1> QED
  BY <1>2, <1>3, <1>4, <1>5, <1>6, <1>7, <1>8, <1>9, <1>10, <1>11, <1>12,
     <1>13 DEF Next

\* NewFetcher and every later step keep the fetcher's fields, the limiter and
\* the pauses within their ranges, whatever the rates, robots.txt and headers.
THEOREM TypeCorrect == Spec => []TypeOK
BY TypeInit, TypeStep, PTL DEF Spec

(***************************************************************************)
(* Pacing.  What the limiter has accumulated since the last page request   *)
(* is bounded by the time passed at the ceiling; SetMaxRate is called once *)
(* and before the first page, so the ceiling the bound speaks of is fixed. *)
(***************************************************************************)
PacingInv ==
    /\ limit = currentRate
    /\ MinRPS <= currentRate /\ currentRate <= Ceiling
    /\ stage # "page" => maxAllowedRPS = MaxRPS /\ sinceSend = Horizon
    /\ tokens <= sinceSend * Ceiling

\* A ceiling earns a token within the horizon.
LEMMA CeilingLemma ==
    ASSUME CeilingsAboveFloor, NEW m \in Ceilings \union {MaxRPS}
    PROVE  /\ Lesser(m, MaxRPS) \in Nat \ {0}
           /\ MinRPS <= Lesser(m, MaxRPS) /\ Lesser(m, MaxRPS) <= m
           /\ Token <= Horizon * Lesser(m, MaxRPS)
<1>1. m \in Nat \ {0} /\ MinRPS <= m
  BY DEF CeilingsAboveFloor
<1>2. Lesser(m, MaxRPS) \in Ceilings \union {MaxRPS}
  BY <1>1 DEF Lesser
<1> QED
  BY <1>1, <1>2, HorizonAssumption DEF HorizonAssumption, CeilingsAboveFloor, Lesser

LEMMA TokensWithinHorizon ==
    ASSUME CeilingsAboveFloor, TypeOK
    PROVE  tokens <= Horizon * Ceiling
<1>1. Token <= Horizon * Ceiling /\ Ceiling \in Nat \ {0}
  BY CeilingLemma DEF TypeOK, Ceiling
<1>2. tokens \in Nat /\ tokens <= Token /\ Horizon * Ceiling \in Nat
  BY <1>1 DEF TypeOK
<1> QED
  BY <1>1, <1>2

LEMMA PacingInit == CeilingsAboveFloor /\ Init => PacingInv
<1> SUFFICES ASSUME CeilingsAboveFloor, Init PROVE PacingInv
  OBVIOUS
<1>1. PICK rps \in ConfiguredRates : currentRate = ConfiguredRate(rps)
  BY DEF Init
<1>2. MinRPS <= currentRate /\ currentRate <= MaxRPS
  BY <1>1 DEF ConfiguredRate, Lesser, Greater
<1>3. Ceiling = MaxRPS
  BY DEF Init, Ceiling, Lesser
<1>4. tokens <= sinceSend * Ceiling
  BY TypeInit, TokensWithinHorizon DEF Init
<1> QED
  BY <1>2, <1>3, <1>4 DEF Init, PacingInv

LEMMA PacingStep ==
    ASSUME CeilingsAboveFloor, TypeOK, TypeOK', PacingInv, [Next]_vars
    PROVE  PacingInv'
<1>1. /\ Ceiling \in Nat \ {0} /\ MinRPS <= Ceiling
      /\ currentRate \in Nat \ {0} /\ sinceSend \in 0 .. Horizon
      /\ tokens \in 0 .. Token
  BY CeilingLemma DEF TypeOK, Ceiling
<1>2. maxAllowedRPS' = maxAllowedRPS => Ceiling' = Ceiling
  BY DEF Ceiling
<1>3. tokens' <= Horizon * Ceiling'
  <2>1. Token <= Horizon * Ceiling' /\ Ceiling' \in Nat \ {0}
    BY CeilingLemma DEF TypeOK, Ceiling
  <2>2. Horizon * Ceiling' \in Nat
    BY <2>1, ProductLemma
  <2>3. tokens' \in Nat /\ tokens' <= Token
    BY DEF TypeOK
  <2> QED
    BY <2>1, <2>2, <2>3, TransitivityLemma
<1>4. ASSUME UNCHANGED <<currentRate, limit, maxAllowedRPS, tokens, sinceSend>>,
             stage' # "page" => stage # "page"
      PROVE  PacingInv'
  BY <1>2, <1>4 DEF PacingInv
<1>5. ASSUME UNCHANGED <<maxAllowedRPS, tokens, sinceSend>>,
             stage' # "page" => stage # "page",
             limit' = currentRate', MinRPS <= currentRate', currentRate' <= Ceiling
      PROVE  PacingInv'
  BY <1>2, <1>5 DEF PacingInv
<1>6. /\ Halved(currentRate) >= MinRPS
      /\ Halved(currentRate) <= Ceiling
  BY <1>1, HalvedLemma DEF PacingInv
<1>7. CASE Get \/ TimerFires \/ Abort \/ Cancel \/ UNCHANGED vars
  <2>1. UNCHANGED <<currentRate, limit, maxAllowedRPS, tokens, sinceSend>>
    BY <1>7 DEF Get, TimerFires, Park, EnterLimiter, Abort, Cancel, vars,
                fields, history
  <2>2. stage' # "page" => stage # "page"
    BY <1>7 DEF Get, TimerFires, Park, EnterLimiter, Abort, Cancel, vars,
                AfterRobots
  <2> QED
    BY <1>4, <2>1, <2>2
<1>8. CASE Send
  <2>1. tokens' = 0 /\ sinceSend' \in Nat
    BY <1>1, <1>8 DEF Send, TypeOK
  <2>2. sinceSend' * Ceiling >= 0
    <3>1. sinceSend' * Ceiling \in Nat
      BY <1>1, <2>1, ProductLemma
    <3> QED
      BY <3>1
  <2>3. stage' # "page" => sinceSend' = Horizon
    BY <1>8 DEF Send, PacingInv
  <2> QED
    BY <1>2, <1>8, <2>1, <2>2, <2>3 DEF Send, PacingInv, fields
<1>9. CASE Healthy
  <2>1. /\ Ramped(currentRate) <= Ceiling
        /\ Ramped(currentRate) >= MinRPS
    BY <1>1, RampedLemma DEF PacingInv, TypeOK
  <2>2. currentRate' \in {currentRate, Ramped(currentRate)} /\ limit' = currentRate'
    BY <1>9 DEF Healthy, ObserveHealthy, IncreaseRate, PacingInv
  <2>3. UNCHANGED <<maxAllowedRPS, tokens, sinceSend>>
    BY <1>9 DEF Healthy, Reply
  <2>4. stage' # "page" => stage # "page"
    BY <1>9 DEF Healthy, Reply
  <2> QED
    BY <1>5, <2>1, <2>2, <2>3, <2>4 DEF PacingInv
<1>10. CASE Refused
  BY <1>4, <1>10 DEF Refused, Reply, AfterRobots
<1>11. CASE Fail \/ \E secs \in RetryAfterSecs : Throttled(secs)
  <2>1. DecreaseRate /\ Reply(AfterRobots)
    BY <1>11 DEF Fail, Throttled
  <2> QED
    BY <1>5, <1>6, <2>1 DEF DecreaseRate, Reply, AfterRobots
<1>12. ASSUME NEW rps \in Ceilings, SetMaxRate(rps)
       PROVE  PacingInv'
  <2>1. Ceiling' = Lesser(rps, MaxRPS) /\ Ceiling = MaxRPS
    BY <1>12 DEF SetMaxRate, PacingInv, Ceiling, Lesser
  <2>2. /\ currentRate' = Lesser(currentRate, rps) /\ limit' = currentRate'
        /\ MinRPS <= rps /\ rps \in Nat
    BY <1>1, <1>12 DEF SetMaxRate, PacingInv, CeilingsAboveFloor, Lesser
  <2>3. tokens' <= sinceSend' * Ceiling'
    BY <1>12, <1>3 DEF SetMaxRate, PacingInv, history
  <2>4. MinRPS <= currentRate' /\ currentRate' <= Ceiling'
    BY <1>1, <2>1, <2>2 DEF PacingInv, Lesser
  <2> QED
    BY <1>12, <2>2, <2>3, <2>4 DEF SetMaxRate, PacingInv
<1>13. CASE NoCrawlDelay
  BY <1>4, <1>13 DEF NoCrawlDelay, fields, history
<1>14. CASE Tick
  <2>1. UNCHANGED <<currentRate, limit, maxAllowedRPS, stage>>
    BY <1>14 DEF Tick, fields
  <2>2. stage # "page" => sinceSend' = Horizon
    BY <1>14 DEF Tick, PacingInv, Lesser
  <2>3. tokens' <= sinceSend' * Ceiling
    <3>1. tokens' \in Nat /\ tokens' <= tokens + Ceiling /\ tokens' <= Token
      BY <1>1, <1>14 DEF Tick, PacingInv, Lesser
    <3>2. CASE sinceSend = Horizon
      BY <1>2, <1>14, <1>3, <2>1, <3>2 DEF Tick, Lesser
    <3>3. CASE sinceSend < Horizon
      <4>1. sinceSend' = sinceSend + 1
        BY <1>1, <1>14, <3>3 DEF Tick, Lesser
      <4>2. (sinceSend + 1) * Ceiling = sinceSend * Ceiling + Ceiling
        BY <1>1
      <4>3. sinceSend * Ceiling \in Nat
        BY <1>1
      <4> QED
        BY <1>1, <3>1, <4>1, <4>2, <4>3 DEF PacingInv
    <3> QED
      BY <1>1, <3>2, <3>3
  <2> QED
    BY <1>2, <2>1, <2>2, <2>3 DEF PacingInv
<1> QED
  BY <1>7, <1>8, <1>9, <1>10, <1>11, <1>12, <1>13, <1>14 DEF Next

LEMMA Pacing == CeilingsAboveFloor /\ Spec => []PacingInv
<1>1. CeilingsAboveFloor /\ Init => PacingInv
  BY PacingInit
<1>2. CeilingsAboveFloor /\ TypeOK /\ TypeOK' /\ PacingInv /\ [Next]_vars
        => PacingInv'
  BY PacingStep
<1>3. CeilingsAboveFloor => []CeilingsAboveFloor
  BY DEF CeilingsAboveFloor
<1> QED
  BY <1>1, <1>2, <1>3, TypeCorrect, PTL DEF Spec

\* As long as no Crawl-delay exceeds 1 / minRPS the controller stays under the
\* Crawl-delay ceiling (SetMaxRate, observe) and the limiter is in step.
THEOREM RateCeiling == CeilingsAboveFloor /\ Spec => []RateWithinCeiling
<1>1. PacingInv => RateWithinCeiling
  BY DEF PacingInv, RateWithinCeiling
<1> QED
  BY <1>1, Pacing, PTL

LEMMA SpacingStep ==
    ASSUME CeilingsAboveFloor, TypeOK, PacingInv, [Next]_vars,
           pc = "limited", pc' = "inflight"
    PROVE  sinceSend * maxAllowedRPS >= Token
<1>1. Send
  BY DEF Next, Get, TimerFires, Park, EnterLimiter, Abort, Healthy, Refused,
         Fail, Throttled, Reply, SetMaxRate, NoCrawlDelay, Cancel, Tick, vars
<1>2. Token <= sinceSend * Ceiling
  BY <1>1 DEF Send, PacingInv, TypeOK
<1>3. /\ Ceiling \in Nat /\ Ceiling <= maxAllowedRPS
      /\ maxAllowedRPS \in Nat /\ sinceSend \in Nat
  BY CeilingLemma DEF TypeOK, Ceiling
<1>4. sinceSend * Ceiling <= sinceSend * maxAllowedRPS
  <2>1. PICK d \in Nat : maxAllowedRPS = Ceiling + d
    BY <1>3
  <2>2. sinceSend * (Ceiling + d) = sinceSend * Ceiling + sinceSend * d
    BY <1>3, <2>1
  <2>3. sinceSend * d \in Nat /\ sinceSend * Ceiling \in Nat
    BY <1>3, ProductLemma
  <2> QED
    BY <2>1, <2>2, <2>3
<1>5. sinceSend * Ceiling \in Nat /\ sinceSend * maxAllowedRPS \in Nat
  BY <1>3, ProductLemma
<1> QED
  BY <1>2, <1>4, <1>5, TransitivityLemma

\* Under the same condition two page requests are a Crawl-delay apart, through
\* every sequence of back-offs, ramp-ups and pauses.
THEOREM PageSpacing == CeilingsAboveFloor /\ Spec => CrawlDelaySpacing
<1>1. CeilingsAboveFloor /\ TypeOK /\ PacingInv /\ [Next]_vars
        => [pc = "limited" /\ pc' = "inflight" /\ stage = "page"
              => sinceSend * maxAllowedRPS >= Token]_vars
  BY SpacingStep
<1>2. CeilingsAboveFloor => []CeilingsAboveFloor
  BY DEF CeilingsAboveFloor
<1> QED
  BY <1>1, <1>2, Pacing, TypeCorrect, PTL DEF Spec, CrawlDelaySpacing

\* Under the same condition no 429, 5xx, refusal or error raises the rate.
THEOREM BackOff == CeilingsAboveFloor /\ Spec => BackOffNeverRaises
<1>1. ASSUME CeilingsAboveFloor, TypeOK, PacingInv, [Next]_vars,
             pc = "inflight", pc' = "idle", ~Healthy
      PROVE  currentRate' <= currentRate
  <2>1. Halved(currentRate) <= currentRate /\ currentRate <= currentRate
    BY <1>1, HalvedLemma DEF TypeOK, PacingInv
  <2>2. CASE Refused
    BY <2>1, <2>2 DEF Refused
  <2>3. CASE Fail \/ \E secs \in RetryAfterSecs : Throttled(secs)
    BY <2>1, <2>3 DEF Fail, Throttled, DecreaseRate
  <2> QED
    BY <1>1, <2>2, <2>3 DEF Next, Get, TimerFires, Park, EnterLimiter, Abort,
       Send, SetMaxRate, NoCrawlDelay, Cancel, Tick, vars
<1>2. CeilingsAboveFloor /\ TypeOK /\ PacingInv /\ [Next]_vars
        => [pc = "inflight" /\ pc' = "idle" /\ ~Healthy
              => currentRate' <= currentRate]_vars
  BY <1>1
<1>3. CeilingsAboveFloor => []CeilingsAboveFloor
  BY DEF CeilingsAboveFloor
<1> QED
  BY <1>2, <1>3, Pacing, TypeCorrect, PTL DEF Spec, BackOffNeverRaises

(***************************************************************************)
(* The pause and the cancelled ctx.  A request in the limiter or on the    *)
(* wire has seen the pause end, and the server starts a new one only with  *)
(* the answer to it; a cancelled ctx is never let into the limiter.        *)
(***************************************************************************)
PauseInv ==
    /\ asked <= retryLeft
    /\ pc \in {"limited", "inflight"} => retryLeft = 0

LateInv ==
    /\ lateSends <= 1
    /\ ~cancelled \/ pc = "limited" => lateSends = 0

LEMMA PauseStep ==
    ASSUME RetryAfterFits, TypeOK, PauseInv, [Next]_vars
    PROVE  PauseInv'
<1> USE DEF TypeOK, PauseInv
<1>1. CASE Get \/ TimerFires
  BY <1>1 DEF Get, TimerFires, Park, EnterLimiter, history
<1>2. CASE Abort \/ Send \/ Healthy \/ Refused \/ Fail \/ NoCrawlDelay \/ Cancel
           \/ UNCHANGED vars
  BY <1>2 DEF Abort, Send, Healthy, Refused, Fail, Reply, NoCrawlDelay, Cancel,
              vars, history
<1>3. ASSUME NEW secs \in RetryAfterSecs, Throttled(secs)
      PROVE  PauseInv'
  <2>1. RetryWait(secs) = Lesser(secs * Second, MaxRetryAfter)
    BY RetryWaitLemma DEF RetryAfterFits
  <2>2. Lesser(secs * Second, MaxRetryAfter) \in Nat
    BY <2>1, RetryWaitLemma
  <2> QED
    BY <1>3, <2>1, <2>2 DEF Throttled, Reply, Greater
<1>4. ASSUME NEW rps \in Ceilings, SetMaxRate(rps)
      PROVE  PauseInv'
  BY <1>4 DEF SetMaxRate, history
<1>5. CASE Tick
  BY <1>5 DEF Tick, Greater
<1> QED
  BY <1>1, <1>2, <1>3, <1>4, <1>5 DEF Next

LEMMA Pause == RetryAfterFits /\ Spec => []PauseInv
<1>1. Init => PauseInv
  BY DEF Init, PauseInv
<1>2. RetryAfterFits /\ TypeOK /\ PauseInv /\ [Next]_vars => PauseInv'
  BY PauseStep
<1>3. RetryAfterFits => []RetryAfterFits
  BY DEF RetryAfterFits
<1> QED
  BY <1>1, <1>2, <1>3, TypeCorrect, PTL DEF Spec

\* Unless a header overflows time.Duration, no request goes out during a pause
\* the server asked for (applyRetryAfterLocked and the park of Get).
THEOREM RetryAfter == RetryAfterFits /\ Spec => RetryAfterHonored
<1>1. TypeOK /\ PauseInv => (pc = "limited" => asked = 0)
  BY DEF TypeOK, PauseInv
<1>2. TypeOK /\ PauseInv
        => [pc = "limited" /\ pc' = "inflight" => asked = 0]_vars
  BY <1>1
<1> QED
  BY <1>2, Pause, TypeCorrect, PTL DEF RetryAfterHonored

\* After the ctx is done at most one request still goes out.
THEOREM LateSends == Spec => []FewLateSends
<1>1. Init => LateInv
  BY DEF Init, LateInv
<1>2. ASSUME TypeOK, LateInv, [Next]_vars
      PROVE  LateInv'
  <2> USE DEF TypeOK, LateInv
  <2>1. CASE Get \/ TimerFires
    BY <1>2, <2>1 DEF Get, TimerFires, Park, EnterLimiter, history
  <2>2. CASE Abort \/ Send
    BY <1>2, <2>2 DEF Abort, Send, history
  <2>3. CASE Healthy \/ Refused \/ Fail
             \/ \E secs \in RetryAfterSecs : Throttled(secs)
    BY <1>2, <2>3 DEF Healthy, Refused, Fail, Throttled, Reply
  <2>4. CASE NoCrawlDelay \/ Cancel \/ Tick \/ UNCHANGED vars
             \/ \E rps \in Ceilings : SetMaxRate(rps)
    BY <1>2, <2>4 DEF NoCrawlDelay, Cancel, Tick, SetMaxRate, vars, history
  <2> QED
    BY <1>2, <2>1, <2>2, <2>3, <2>4 DEF Next
<1>3. LateInv => FewLateSends
  BY DEF LateInv, FewLateSends
<1> QED
  BY <1>1, <1>2, <1>3, TypeCorrect, PTL DEF Spec
=============================================================================
