---------------------------- MODULE RetryProofs ----------------------------
(* The bounds of internal/retry for every configuration: any number of        *)
(* attempts, delays, multiplier, jitter and Retry-After headers.              *)
EXTENDS Retry, SelectionProofs, TLAPS

(* A call and a wait belong to an attempt that is still within the bound.     *)
InLoop == pc \in {"calling", "waiting"} => attempt < MaxAttempts

(* Late calls: the one that started after the end of the context is under way *)
(* or has made the function return.                                           *)
LateInv ==
    /\ late \in 0..1
    /\ late = 1 => /\ ended
                   /\ \/ pc = "calling" /\ endedFirst
                      \/ pc = "returned" /\ result = "context"

(* Only a failure that is worth another attempt leads to a wait.              *)
HonestInv ==
    /\ pc = "waiting" => last \in {"error", "retryable"}
    /\ ResultIsHonest

(* The number of delays paid for so far, at most one per attempt and none for *)
(* the last attempt.                                                          *)
WaitInv ==
    \E k \in 0..(MaxAttempts - 1) :
        /\ waited <= k * MaxDelay
        /\ pc \in {"loop", "calling"} => k <= attempt
        /\ pc = "waiting" => k <= attempt + 1

RetryInv == TypeOK /\ InLoop /\ LateInv /\ HonestInv

-----------------------------------------------------------------------------
LEMMA DelayType == \A a \in Nat : calculateDelay(a) \subseteq 0..MaxDelay
BY DEF calculateDelay

LEMMA StepPreservesInv ==
    ASSUME RetryInv, [Next]_vars
    PROVE  RetryInv'
<1> USE RetryAssumption DEF RetryInv, TypeOK, InLoop, LateInv, HonestInv, ResultIsHonest, caller, Outcomes
<1>1. CASE Call
  BY <1>1 DEF Call
<1>2. CASE Exhausted
  BY <1>2 DEF Exhausted, Return
<1>3. ASSUME NEW e \in {"error", "retryable"}, Outcome(e), Backoff(e)
      PROVE  RetryInv'
  <2>1. CASE Return(e)
    BY <1>3, <2>1 DEF Outcome, Return
  <2>2. CASE ~Return(e)
    <3>1. delay' \in 0..MaxDelay
      BY <1>3, <2>2, DelayType DEF Backoff
    <3> QED
      BY <1>3, <2>2, <3>1 DEF Outcome, Backoff
  <2> QED
    BY <2>1, <2>2
<1>4. CASE CallSucceeds
  BY <1>4 DEF CallSucceeds, Outcome, Return
<1>5. ASSUME NEW e \in {"error", "listed", "timeout", "context"}, CallFails(e)
      PROVE  RetryInv'
  <2>1. CASE isRetryable(e)
    BY <1>3, <1>5, <2>1 DEF CallFails, isRetryable
  <2>2. CASE ~isRetryable(e)
    BY <1>5, <2>2 DEF CallFails, Outcome, Return
  <2> QED
    BY <2>1, <2>2
<1>6. ASSUME NEW s \in {"retryable", "refused"}, NEW ra \in RetryAfters, StatusError(s, ra)
      PROVE  RetryInv'
  <2>1. CASE ~isStatusRetryable(s)
    BY <1>6, <2>1 DEF StatusError, Outcome, Return
  <2>2. CASE isStatusRetryable(s) /\ ra > 0
    BY <1>6, <2>2 DEF StatusError, Outcome, RetryAfter, isStatusRetryable
  <2>3. CASE isStatusRetryable(s) /\ ~(ra > 0)
    BY <1>3, <1>6, <2>3 DEF StatusError, isStatusRetryable
  <2> QED
    BY <2>1, <2>2, <2>3
<1>7. CASE TimerFires
  BY <1>7 DEF TimerFires
<1>8. CASE ContextDone
  BY <1>8 DEF ContextDone, Return
<1>9. CASE EndContext
  BY <1>9 DEF EndContext
<1>10. CASE UNCHANGED vars
  BY <1>10 DEF vars
<1> QED
  BY <1>1, <1>2, <1>4, <1>5, <1>6, <1>7, <1>8, <1>9, <1>10 DEF Next, Step

LEMMA InvHolds == Spec => []RetryInv
<1>1. Init => RetryInv
  <2> SUFFICES ASSUME Init PROVE RetryInv
    OBVIOUS
  <2>1. ended \in BOOLEAN /\ endedFirst \in BOOLEAN
    BY Zenon DEF Init
  <2>2. TypeOK
    BY <2>1, RetryAssumption DEF Init, TypeOK, Outcomes
  <2> QED
    BY <2>2 DEF Init, RetryInv, InLoop, LateInv, HonestInv, ResultIsHonest
<1> QED
  BY <1>1, StepPreservesInv, PTL DEF Spec

(* Every reachable state is well typed; there are never more than MaxAttempts *)
(* attempts, whatever the server answers.                                     *)
THEOREM TypeCorrect == Spec => []TypeOK
BY InvHolds, PTL DEF RetryInv

(* After the end of the context at most one more request starts, and it makes *)
(* the function return the error of the context.                              *)
THEOREM LateCallsAreBounded == Spec => []OneLateCall
<1>1. RetryInv => OneLateCall
  BY DEF RetryInv, LateInv, OneLateCall
<1> QED
  BY <1>1, InvHolds, PTL

(* The result is that of the last call, or the error of the context.          *)
THEOREM ResultIsThatOfTheLastCall == Spec => []ResultIsHonest
BY InvHolds, PTL DEF RetryInv, HonestInv

-----------------------------------------------------------------------------
LEMMA MoreIsLonger ==
    ASSUME NEW a \in Nat, NEW b \in Nat, NEW m \in Nat, a <= b
    PROVE  a * m <= b * m
<1>1. b * m = a * m + (b - a) * m
  OBVIOUS
<1>2. (b - a) * m \in Nat
  OBVIOUS
<1> QED
  BY <1>1, <1>2

(* Each wait of the backoff adds at most MaxDelay, and it is followed by an   *)
(* attempt of its own.                                                        *)
LEMMA StepPreservesWait ==
    ASSUME RetryInv, RetryInv', WaitInv, [Next]_vars
    PROVE  WaitInv'
<1> USE RetryAssumption
<1>1. PICK k \in 0..(MaxAttempts - 1) :
          /\ waited <= k * MaxDelay
          /\ pc \in {"loop", "calling"} => k <= attempt
          /\ pc = "waiting" => k <= attempt + 1
  BY DEF WaitInv
<1>2. attempt \in Nat /\ waited \in Nat /\ (pc = "calling" => attempt < MaxAttempts)
  BY DEF RetryInv, TypeOK, InLoop
<1>3. ASSUME waited' = waited,
             \/ pc' = "returned"
             \/ pc = "waiting" /\ pc' = "loop" /\ attempt' = attempt + 1
             \/ pc \in {"loop", "calling"} /\ attempt' = attempt
             \/ pc' = pc /\ attempt' = attempt
      PROVE  WaitInv'
  BY <1>1, <1>2, <1>3 DEF WaitInv
<1>4. ASSUME NEW e, pc = "calling", Backoff(e)
      PROVE  WaitInv'
  <2>1. CASE Return(e)
    BY <1>3, <2>1 DEF Return
  <2>2. CASE ~Return(e)
    <3>1. /\ delay' \in 0..MaxDelay /\ waited' = waited + delay'
          /\ attempt' = attempt /\ attempt # MaxAttempts - 1 /\ pc' = "waiting"
      BY <1>2, <1>4, <2>2, DelayType DEF Backoff
    <3>2. k + 1 \in 0..(MaxAttempts - 1) /\ k + 1 <= attempt + 1
      BY <1>1, <1>2, <1>4, <3>1
    <3>3. (k + 1) * MaxDelay = k * MaxDelay + MaxDelay /\ k * MaxDelay \in Nat
      OBVIOUS
    <3>4. waited' <= (k + 1) * MaxDelay
      <4> DEFINE p == k * MaxDelay
      <4>1. PICK w \in Nat, d \in 0..MaxDelay : waited = w /\ delay' = d
        BY <1>2, <3>1
      <4>2. p \in Nat /\ w <= p /\ (k + 1) * MaxDelay = p + MaxDelay
        BY <1>1, <3>3, <4>1
      <4> HIDE DEF p
      <4>3. w + d <= p + MaxDelay
        BY <4>2
      <4> QED
        BY <3>1, <4>1, <4>2, <4>3
    <3> QED
      BY <3>1, <3>2, <3>4 DEF WaitInv
  <2> QED
    BY <2>1, <2>2
<1>5. CASE Call
  BY <1>3, <1>5 DEF Call
<1>6. CASE Exhausted \/ CallSucceeds \/ ContextDone
  BY <1>3, <1>6 DEF Exhausted, CallSucceeds, ContextDone, Return
<1>7. ASSUME NEW e \in {"error", "listed", "timeout", "context"}, CallFails(e)
      PROVE  WaitInv'
  BY <1>3, <1>4, <1>7 DEF CallFails, Outcome, Return
<1>8. ASSUME NEW s \in {"retryable", "refused"}, NEW ra \in RetryAfters, StatusError(s, ra)
      PROVE  WaitInv'
  BY <1>3, <1>4, <1>8 DEF StatusError, Outcome, Return, RetryAfter
<1>9. CASE TimerFires
  BY <1>3, <1>9 DEF TimerFires
<1>10. CASE EndContext \/ UNCHANGED vars
  BY <1>3, <1>10 DEF EndContext, vars
<1> QED
  BY <1>5, <1>6, <1>7, <1>8, <1>9, <1>10 DEF Next, Step

(* The whole backoff of an execution takes at most MaxDelay per repetition,   *)
(* for every multiplier, jitter and number of attempts.                       *)
THEOREM BackoffTimeIsBounded == Spec => []BackoffIsBounded
<1>1. Init => WaitInv
  <2>1. 0 * MaxDelay = 0
    BY RetryAssumption
  <2> QED
    BY <2>1, RetryAssumption DEF Init, WaitInv
<1>2. RetryInv /\ RetryInv' /\ WaitInv /\ [Next]_vars => WaitInv'
  BY StepPreservesWait
<1>3. RetryInv /\ WaitInv => BackoffIsBounded
  <2> SUFFICES ASSUME RetryInv, WaitInv PROVE BackoffIsBounded
    OBVIOUS
  <2>1. PICK k \in 0..(MaxAttempts - 1) : waited <= k * MaxDelay
    BY DEF WaitInv
  <2>2. k * MaxDelay <= (MaxAttempts - 1) * MaxDelay
    BY MoreIsLonger, RetryAssumption
  <2>3. waited \in Nat /\ k * MaxDelay \in Int /\ (MaxAttempts - 1) * MaxDelay \in Int
    BY RetryAssumption DEF RetryInv, TypeOK
  <2> QED
    BY <2>1, <2>2, <2>3 DEF BackoffIsBounded
<1> QED
  BY <1>1, <1>2, <1>3, InvHolds, PTL DEF Spec

-----------------------------------------------------------------------------
(* The delays before cap and jitter.                                          *)
LEMMA ExponentialDef ==
    /\ Exponential \in [0..MaxAttempts -> Nat]
    /\ Exponential[0] = BaseDelay
    /\ \A a \in 1..MaxAttempts : Exponential[a] = Multiplier * Exponential[a - 1]
<1> DEFINE Value(g, a) == Multiplier * g[a - 1]
           base == BaseDelay
           Body(g) == [a \in 0..MaxAttempts |-> IF a = 0 THEN base ELSE Value(g, a)]
           step == [p \in (1..MaxAttempts) \X Nat |-> Multiplier * p[2]]
<1>1. MaxAttempts \in Nat /\ Multiplier \in Nat
  BY RetryAssumption
<1>2. PICK f : Iterates(f, MaxAttempts, Nat, base, step)
  <2>1. step \in [(1..MaxAttempts) \X Nat -> Nat] /\ base \in Nat
    BY <1>1, RetryAssumption
  <2> HIDE DEF step
  <2> QED
    BY <1>1, <2>1, IterationExists
<1>3. ASSUME NEW a \in 1..MaxAttempts PROVE f[a] = Value(f, a)
  <2>1. f[a - 1] \in Nat /\ f[a] = step[<<a, f[a - 1]>>]
    <3>1. a - 1 \in 0..MaxAttempts
      BY <1>1
    <3> HIDE DEF step
    <3> QED
      BY <1>2, <3>1 DEF Iterates
  <2>2. step[<<a, f[a - 1]>>] = Value(f, a)
    BY <2>1
  <2> QED
    BY <2>1, <2>2
<1>4. f = Body(f)
  <2>1. f = [a \in 0..MaxAttempts |-> f[a]] /\ f[0] = base
    BY <1>2 DEF Iterates
  <2> HIDE DEF Value, base
  <2>2. \A a \in 0..MaxAttempts : a = 0 \/ a \in 1..MaxAttempts
    BY <1>1
  <2>3. \A a \in 0..MaxAttempts : f[a] = IF a = 0 THEN base ELSE Value(f, a)
    BY <1>3, <2>1, <2>2, Zenon
  <2> QED
    BY <2>1, <2>3, Zenon
<1>5. Exponential = CHOOSE g : g = Body(g)
  BY DEF Exponential
<1>6. Exponential = Body(Exponential)
  <2> HIDE DEF Body
  <2> QED
    BY <1>4, <1>5
<1>7. /\ Exponential[0] = BaseDelay
      /\ \A a \in 1..MaxAttempts : Exponential[a] = Multiplier * Exponential[a - 1]
  <2>1. Exponential[0] = BaseDelay /\ \A a \in 1..MaxAttempts : Exponential[a] = Value(Exponential, a)
    <3> DEFINE x == Exponential
    <3>1. x = Body(x)
      BY <1>6
    <3> HIDE DEF x, Value, base
    <3>2. x[0] = base
      BY <1>1, <3>1
    <3>3. \A a \in 1..MaxAttempts : x[a] = Value(x, a)
      BY <1>1, <3>1
    <3> QED
      BY <3>2, <3>3 DEF x, base
  <2> QED
    BY <2>1
<1>8. \A a \in 0..MaxAttempts : Exponential[a] \in Nat
  <2> DEFINE N == {a \in Nat : a <= MaxAttempts => Exponential[a] \in Nat}
  <2> HIDE DEF Exponential
  <2>1. 0 \in N
    BY <1>7, RetryAssumption
  <2>2. ASSUME NEW a \in Nat, a \in N PROVE a + 1 \in N
    <3> SUFFICES ASSUME a + 1 <= MaxAttempts PROVE Exponential[a + 1] \in Nat
      OBVIOUS
    <3>1. Exponential[a + 1] = Multiplier * Exponential[a] /\ Exponential[a] \in Nat
      <4>1. a + 1 \in 1..MaxAttempts /\ (a + 1) - 1 = a
        BY <1>1
      <4>2. Exponential[a] \in Nat
        BY <1>1, <2>2, <4>1
      <4>3. Exponential[a + 1] = Multiplier * Exponential[(a + 1) - 1]
        BY <1>7, <4>1, Zenon
      <4> QED
        BY <4>1, <4>2, <4>3
    <3> QED
      BY <1>1, <3>1
  <2>3. \A a \in Nat : a \in N
    <3> HIDE DEF N
    <3> QED
      BY <2>1, <2>2, NatSetInduction
  <2> QED
    BY <2>3
<1>9. Exponential \in [0..MaxAttempts -> Nat]
  <2> HIDE DEF Exponential, Value
  <2> QED
    BY <1>6, <1>8
<1> QED
  BY <1>7, <1>9

(* The multiplier outweighs the jitter, as the defaults (2 and 20 %) do: the  *)
(* shortest delay of an attempt is not below the longest of the one before.   *)
JitterIsCovered == Multiplier * (100 - JitterPercent) >= 100 + JitterPercent

(* What the next attempt may wait at least, in hundredths.                    *)
Floor(a) == (100 - JitterPercent) * Exponential[a]

GrowthInv ==
    /\ pc \in {"loop", "calling"} => 100 * backoff <= Floor(attempt)
    /\ pc = "waiting" => 100 * backoff <= Floor(attempt + 1)

LEMMA JitterRange ==
    ASSUME JitterIsCovered
    PROVE  JitterPercent \in 0..99 /\ Multiplier \in Nat \ {0}
<1>1. Multiplier # 0
  BY RetryAssumption DEF JitterIsCovered
<1>2. JitterPercent < 100
  <2> SUFFICES ASSUME JitterPercent >= 100 PROVE FALSE
    BY RetryAssumption
  <2>1. Multiplier * (100 - JitterPercent) <= 0
    BY RetryAssumption, Z3
  <2> QED
    BY <2>1, RetryAssumption DEF JitterIsCovered
<1> QED
  BY <1>1, <1>2, RetryAssumption

(* From one attempt to the next the floor rises above the longest delay.      *)
LEMMA FloorRises ==
    ASSUME JitterIsCovered, NEW a \in 0..(MaxAttempts - 1)
    PROVE  /\ Floor(a) \in Nat /\ Floor(a + 1) \in Nat /\ Floor(a) <= Floor(a + 1)
           /\ (100 + JitterPercent) * Exponential[a] <= Floor(a + 1)
<1> DEFINE e == Exponential[a]
           k == 100 - JitterPercent
<1>1. e \in Nat /\ Exponential[a + 1] = Multiplier * e
  <2>1. a + 1 \in 1..MaxAttempts /\ (a + 1) - 1 = a /\ a \in 0..MaxAttempts
    BY RetryAssumption
  <2>2. Exponential[a] \in Nat
    BY <2>1, ExponentialDef
  <2>3. Exponential[a + 1] = Multiplier * Exponential[(a + 1) - 1]
    BY <2>1, ExponentialDef, Zenon
  <2> QED
    BY <2>1, <2>2, <2>3
<1>2. k \in 1..100 /\ Multiplier \in Nat \ {0} /\ Multiplier * k \in Nat /\ 100 + JitterPercent \in Nat
  BY JitterRange
<1>3. Floor(a) = k * e /\ Floor(a + 1) = (Multiplier * k) * e
  BY <1>1, <1>2 DEF Floor
<1>4. (100 + JitterPercent) * e <= (Multiplier * k) * e
  BY <1>1, <1>2, MoreIsLonger DEF JitterIsCovered
<1>5. k <= Multiplier * k
  BY <1>2
<1>6. k * e <= (Multiplier * k) * e
  BY <1>1, <1>2, <1>5, MoreIsLonger
<1>7. k * e \in Nat /\ (Multiplier * k) * e \in Nat
  BY <1>1, <1>2
<1> QED
  BY <1>3, <1>4, <1>6, <1>7

(* A delay lies between the floor of its attempt, or MaxDelay, and the floor  *)
(* of the next.                                                               *)
LEMMA DelayRange ==
    ASSUME JitterIsCovered, NEW a \in 0..(MaxAttempts - 1), NEW x \in calculateDelay(a)
    PROVE  /\ x \in 0..MaxDelay
           /\ 100 * x <= Floor(a + 1)
           /\ Capped(a) \/ x = MaxDelay \/ Floor(a) <= 100 * x
<1> DEFINE raw == Exponential[a]
           d == IF raw > MaxDelay THEN MaxDelay ELSE raw
           j == (d * JitterPercent) \div 100
<1>1. raw \in Nat /\ MaxDelay \in Nat /\ JitterPercent \in 0..99
  BY ExponentialDef, JitterRange, RetryAssumption
<1>2. d \in Nat /\ d <= raw /\ (~Capped(a) => d = raw)
  BY <1>1 DEF Capped
<1>3. PICK y \in (d - j)..(d + j) : x = IF y < 0 THEN 0 ELSE IF y > MaxDelay THEN MaxDelay ELSE y
  BY DEF calculateDelay
<1>4. x \in 0..MaxDelay
  BY DEF calculateDelay
<1> HIDE DEF d, raw
<1>5. d * JitterPercent \in Nat
  BY <1>1, <1>2
<1>6. j \in Nat /\ 100 * j <= d * JitterPercent
  <2> DEFINE p == d * JitterPercent
  <2>1. p \in Nat
    BY <1>5
  <2> HIDE DEF p
  <2>2. p \div 100 \in Nat /\ 100 * (p \div 100) <= p
    BY <2>1, Z3
  <2> QED
    BY <2>2 DEF p
<1> HIDE DEF j
<1>7. y \in Int /\ y <= d + j /\ d - j <= y
  BY <1>2, <1>6
<1>8. 100 * x <= (100 + JitterPercent) * d
  <2>1. x <= d + j
    BY <1>1, <1>2, <1>3, <1>6, <1>7
  <2>2. (100 + JitterPercent) * d = 100 * d + d * JitterPercent
    BY <1>1, <1>2
  <2> QED
    BY <1>2, <1>4, <1>5, <1>6, <2>1, <2>2
<1>9. (100 + JitterPercent) * d <= (100 + JitterPercent) * raw
  <2>1. d * (100 + JitterPercent) <= raw * (100 + JitterPercent)
    BY <1>1, <1>2, MoreIsLonger
  <2> QED
    BY <1>1, <1>2, <2>1
<1>10. 100 * x <= Floor(a + 1)
  <2>1. (100 + JitterPercent) * raw <= Floor(a + 1) /\ Floor(a + 1) \in Nat
    BY FloorRises DEF raw
  <2>2. 100 * x \in Nat /\ (100 + JitterPercent) * d \in Nat /\ (100 + JitterPercent) * raw \in Nat
    BY <1>1, <1>2, <1>4
  <2> QED
    BY <1>8, <1>9, <2>1, <2>2
<1>11. ASSUME ~Capped(a), x # MaxDelay PROVE Floor(a) <= 100 * x
  <2>1. d = raw /\ Floor(a) = 100 * d - d * JitterPercent
    BY <1>1, <1>2, <1>11 DEF Floor, raw
  <2>2. 100 * (d - j) <= 100 * y /\ 100 * d - d * JitterPercent <= 100 * (d - j)
    BY <1>2, <1>5, <1>6, <1>7
  <2>3. y <= x
    BY <1>1, <1>3, <1>4, <1>7, <1>11
  <2> QED
    BY <1>2, <1>4, <1>5, <1>6, <1>7, <2>1, <2>2, <2>3
<1> QED
  BY <1>4, <1>10, <1>11

LEMMA StepPreservesGrowth ==
    ASSUME JitterIsCovered, RetryInv, RetryInv', GrowthInv, [Next]_vars
    PROVE  GrowthInv' /\ (waited' # waited => backoff' >= backoff \/ Capped(attempt))
<1>1. /\ pc \in {"loop", "calling", "waiting", "returned"}
      /\ attempt \in Nat /\ attempt <= MaxAttempts
      /\ pc \in {"calling", "waiting"} => attempt \in 0..(MaxAttempts - 1)
      /\ backoff \in 0..MaxDelay
  BY RetryAssumption DEF RetryInv, TypeOK, InLoop
<1>2. ASSUME waited' = waited, backoff' = backoff,
             \/ pc' = "returned"
             \/ pc = "waiting" /\ pc' = "loop" /\ attempt' = attempt + 1
             \/ pc \in {"loop", "calling"} /\ pc' = "calling" /\ attempt' = attempt
             \/ pc' = pc /\ attempt' = attempt
             \/ pc = "calling" /\ pc' = "waiting" /\ attempt' = attempt
      PROVE  GrowthInv' /\ waited' = waited
  <2>1. CASE pc = "calling" /\ pc' = "waiting" /\ attempt' = attempt
    <3>1. /\ Floor(attempt) \in Nat /\ Floor(attempt + 1) \in Nat
          /\ Floor(attempt) <= Floor(attempt + 1)
      BY <1>1, <2>1, FloorRises
    <3>2. 100 * backoff <= Floor(attempt) /\ 100 * backoff \in Nat
      BY <1>1, <2>1, RetryAssumption DEF GrowthInv
    <3>3. 100 * backoff <= Floor(attempt + 1)
      BY <3>1, <3>2
    <3> QED
      BY <1>2, <2>1, <3>3 DEF GrowthInv, Floor
  <2> QED
    BY <1>2, <2>1 DEF GrowthInv, Floor
<1>3. ASSUME NEW e, pc = "calling", Backoff(e)
      PROVE  GrowthInv' /\ (waited' # waited => backoff' >= backoff \/ Capped(attempt))
  <2>1. CASE Return(e)
    BY <1>2, <2>1 DEF Return
  <2>2. CASE ~Return(e)
    <3>1. /\ delay' \in calculateDelay(attempt) /\ backoff' = delay'
          /\ attempt' = attempt /\ pc' = "waiting"
      BY <1>3, <2>2 DEF Backoff
    <3>2. /\ delay' \in 0..MaxDelay /\ 100 * delay' <= Floor(attempt + 1)
          /\ Capped(attempt) \/ delay' = MaxDelay \/ Floor(attempt) <= 100 * delay'
      BY <1>1, <1>3, <3>1, DelayRange
    <3>3. GrowthInv'
      BY <3>1, <3>2 DEF GrowthInv, Floor
    <3>4. ASSUME Floor(attempt) <= 100 * delay' PROVE delay' >= backoff
      <4>1. 100 * backoff <= Floor(attempt) /\ Floor(attempt) \in Nat
        BY <1>1, <1>3, FloorRises DEF GrowthInv
      <4> QED
        BY <1>1, <3>2, <3>4, <4>1, RetryAssumption
    <3>5. delay' = MaxDelay => delay' >= backoff
      BY <1>1, RetryAssumption
    <3> QED
      BY <3>1, <3>2, <3>3, <3>4, <3>5
  <2> QED
    BY <2>1, <2>2
<1>4. CASE Call
  BY <1>2, <1>4 DEF Call
<1>5. CASE Exhausted \/ CallSucceeds \/ ContextDone
  BY <1>2, <1>5 DEF Exhausted, CallSucceeds, ContextDone, Return
<1>6. ASSUME NEW e \in {"error", "listed", "timeout", "context"}, CallFails(e)
      PROVE  GrowthInv' /\ (waited' # waited => backoff' >= backoff \/ Capped(attempt))
  BY <1>2, <1>3, <1>6 DEF CallFails, Outcome, Return
<1>7. ASSUME NEW s \in {"retryable", "refused"}, NEW ra \in RetryAfters, StatusError(s, ra)
      PROVE  GrowthInv' /\ (waited' # waited => backoff' >= backoff \/ Capped(attempt))
  BY <1>2, <1>3, <1>7 DEF StatusError, Outcome, Return, RetryAfter
<1>8. CASE TimerFires
  BY <1>2, <1>8 DEF TimerFires
<1>9. CASE EndContext \/ UNCHANGED vars
  BY <1>2, <1>9 DEF EndContext, vars
<1> QED
  BY <1>4, <1>5, <1>6, <1>7, <1>8, <1>9 DEF Next, Step

(* When the multiplier outweighs the jitter, as with the defaults, no backoff *)
(* is shorter than the last one until the delays meet MaxDelay, also when     *)
(* waits for Retry-After come in between.                                     *)
THEOREM BackoffDoesNotShrink == ASSUME JitterIsCovered PROVE Spec => BackoffGrows
<1>1. Init => GrowthInv
  <2> SUFFICES ASSUME Init PROVE GrowthInv
    OBVIOUS
  <2>1. Floor(0) \in Nat
    BY FloorRises, RetryAssumption
  <2> QED
    BY <2>1 DEF Init, GrowthInv
<1>2. RetryInv /\ RetryInv' /\ GrowthInv /\ [Next]_vars => GrowthInv'
  BY StepPreservesGrowth
<1>3. RetryInv /\ RetryInv' /\ GrowthInv /\ [Next]_vars =>
          [waited' # waited => backoff' >= backoff \/ Capped(attempt)]_vars
  BY StepPreservesGrowth
<1> QED
  BY <1>1, <1>2, <1>3, InvHolds, PTL DEF Spec, BackoffGrows
=============================================================================
