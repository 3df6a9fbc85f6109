------------------------------- MODULE Retry -------------------------------
(* internal/retry/retry.go: one execution of Do or of DoWithRetryAfter, with  *)
(* the context of the caller ending at any moment.  Times are in units of     *)
(* BaseDelay / 5, so that the jitter is a whole number.                       *)
EXTENDS Integers

CONSTANTS
    MaxAttempts, BaseDelay, MaxDelay, Multiplier,   \* retry.Config
    JitterPercent,      \* 100 * Config.JitterFactor
    RetryAfters         \* what parseRetryAfter makes of the header of an answer

ASSUME RetryAssumption ==
    /\ MaxAttempts \in Nat \ {0}
    /\ BaseDelay \in Nat /\ MaxDelay \in Nat /\ Multiplier \in Nat
    /\ JitterPercent \in Nat
    /\ RetryAfters \subseteq Int

(* What fn returns: nil; an error that is tried again; an error listed in     *)
(* RetryableErrors, which is not (the tests say so, despite the name); the    *)
(* timeout of the HTTP client, which errors.Is takes for DeadlineExceeded; an *)
(* error of the context; a status that is, or is not, in RetryableStatus.     *)
Outcomes == {"nil", "error", "listed", "timeout", "context", "retryable", "refused"}

VARIABLES
    function,   \* the function executed
    pc,         \* "loop", "calling", "waiting" or "returned"
    attempt,    \* the loop counter
    late,       \* calls of fn that started after the end of the context
    ended,      \* the context is cancelled or has expired
    endedFirst, \* ... and was so when the call under way started
    delay,      \* what the timer of the select is set to
    backoff,    \* the last delay that came from calculateDelay, or 0
    waited,     \* sum of the delays that came from calculateDelay
    last,       \* the outcome of the last call
    result      \* what is returned

vars == <<function, pc, attempt, late, ended, endedFirst, delay, backoff, waited, last, result>>
caller == <<function, ended>>

TypeOK ==
    /\ function \in {"Do", "DoWithRetryAfter"}
    /\ pc \in {"loop", "calling", "waiting", "returned"}
    /\ attempt \in 0..MaxAttempts
    /\ late \in Nat
    /\ ended \in BOOLEAN /\ endedFirst \in BOOLEAN
    /\ delay \in Nat /\ backoff \in 0..MaxDelay /\ waited \in Nat
    /\ last \in Outcomes /\ result \in Outcomes

Init ==
    /\ function \in {"Do", "DoWithRetryAfter"}
    /\ pc = "loop" /\ attempt = 0 /\ late = 0
    /\ ended \in BOOLEAN /\ endedFirst = FALSE
    /\ delay = 0 /\ backoff = 0 /\ waited = 0
    /\ last = "nil" /\ result = "nil"

-----------------------------------------------------------------------------
(* A plausible slip: errors of the context are tried again as well.           *)
isRetryableAlways(e) == e # "listed"

isRetryable(e) == e \notin {"context", "timeout", "listed"}

isStatusRetryable(s) == s = "retryable"

(* BaseDelay * Multiplier ^ a                                                 *)
Exponential[a \in 0..MaxAttempts] ==
    IF a = 0 THEN BaseDelay ELSE Multiplier * Exponential[a - 1]

(* Plausible slips: the delay is not raised to the power of the attempt; or   *)
(* the jitter is added after the last comparison with MaxDelay.               *)
calculateDelayFlat(a) ==
    LET d == IF BaseDelay > MaxDelay THEN MaxDelay ELSE BaseDelay
        j == (d * JitterPercent) \div 100
    IN {x \in (d - j)..(d + j) : x \in 0..MaxDelay}

calculateDelayUnclamped(a) ==
    LET raw == Exponential[a]
        d == IF raw > MaxDelay THEN MaxDelay ELSE raw
        j == (d * JitterPercent) \div 100
    IN {x \in (d - j)..(d + j) : x >= 0}

(* The delays that calculateDelay may return: what jitter takes out of        *)
(* 0..MaxDelay is brought back to its nearest end.                            *)
calculateDelay(a) ==
    LET raw == Exponential[a]
        d == IF raw > MaxDelay THEN MaxDelay ELSE raw
        j == (d * JitterPercent) \div 100
    IN {x \in 0..MaxDelay : \E y \in (d - j)..(d + j) :
            x = IF y < 0 THEN 0 ELSE IF y > MaxDelay THEN MaxDelay ELSE y}

-----------------------------------------------------------------------------
Return(r) ==
    /\ pc' = "returned" /\ result' = r
    /\ UNCHANGED <<attempt, delay, backoff, waited>>

(* A plausible slip: the loop runs from 0 to MaxAttempts.                     *)
CallOnceMore ==
    /\ pc = "loop" /\ attempt <= MaxAttempts
    /\ pc' = "calling"
    /\ late' = IF ended THEN late + 1 ELSE late
    /\ endedFirst' = ended
    /\ UNCHANGED <<caller, attempt, delay, backoff, waited, last, result>>

(* The loop starts a call, or is exhausted and returns the last error.        *)
Call ==
    /\ pc = "loop" /\ attempt < MaxAttempts
    /\ pc' = "calling"
    /\ late' = IF ended THEN late + 1 ELSE late
    /\ endedFirst' = ended
    /\ UNCHANGED <<caller, attempt, delay, backoff, waited, last, result>>

(* A plausible slip: lastErr is declared again inside the loop.               *)
ExhaustedSilently ==
    /\ pc = "loop" /\ attempt = MaxAttempts
    /\ Return("nil")
    /\ UNCHANGED <<caller, late, endedFirst, last>>

Exhausted ==
    /\ pc = "loop" /\ attempt = MaxAttempts
    /\ Return(last)
    /\ UNCHANGED <<caller, late, endedFirst, last>>

(* The rest of an iteration after a failed call: the last attempt ends the    *)
(* loop, any other sets the timer.                                            *)
Backoff(e) ==
    \/ attempt = MaxAttempts - 1 /\ Return(e)
    \/ /\ attempt # MaxAttempts - 1
       /\ pc' = "waiting"
       /\ delay' \in calculateDelay(attempt)
       /\ backoff' = delay' /\ waited' = waited + delay'
       /\ UNCHANGED <<attempt, result>>

(* fn is done with outcome e.  It passes the context on to the request, so a  *)
(* call that starts after the end of the context yields its error.            *)
Outcome(e) ==
    /\ pc = "calling"
    /\ endedFirst => e = "context"
    /\ e = "context" => ended
    /\ last' = e
    /\ UNCHANGED <<caller, late, endedFirst>>

CallSucceeds == Outcome("nil") /\ Return("nil")

CallFails(e) ==
    /\ Outcome(e)
    /\ IF isRetryable(e) THEN Backoff(e) ELSE Return(e)

(* A plausible slip: waiting as told by the server is not counted as an       *)
(* attempt.                                                                   *)
RetryAfterUncounted(ra) ==
    /\ pc' = "waiting" /\ delay' = ra
    /\ attempt' = attempt - 1
    /\ UNCHANGED <<backoff, waited, result>>

(* Retry-After replaces the delay, without MaxDelay and at the last attempt   *)
(* as well; the timer that fires continues the loop either way.               *)
RetryAfter(ra) ==
    /\ pc' = "waiting" /\ delay' = ra
    /\ UNCHANGED <<attempt, backoff, waited, result>>

(* DoWithRetryAfter: the answer has a status of 400 or more.                  *)
StatusError(s, ra) ==
    /\ function = "DoWithRetryAfter"
    /\ Outcome(s)
    /\ IF ~isStatusRetryable(s) THEN Return(s)
       ELSE IF ra > 0 THEN RetryAfter(ra) ELSE Backoff(s)

(* The select: with both channels ready, either branch may be taken.          *)
TimerFires ==
    /\ pc = "waiting"
    /\ pc' = "loop" /\ attempt' = attempt + 1
    /\ UNCHANGED <<caller, late, endedFirst, delay, backoff, waited, last, result>>

ContextDone ==
    /\ pc = "waiting" /\ ended
    /\ Return("context")
    /\ UNCHANGED <<caller, late, endedFirst, last>>

(* The caller cancels the context, or its deadline expires.                   *)
EndContext ==
    /\ ~ended /\ pc # "returned"
    /\ ended' = TRUE
    /\ UNCHANGED <<function, pc, attempt, late, endedFirst, delay, backoff, waited, last, result>>

Step ==
    \/ Call \/ Exhausted \/ CallSucceeds
    \/ \E e \in {"error", "listed", "timeout", "context"} : CallFails(e)
    \/ \E s \in {"retryable", "refused"}, ra \in RetryAfters : StatusError(s, ra)
    \/ TimerFires \/ ContextDone

Next == Step \/ EndContext

Spec == Init /\ [][Next]_vars

(* Requests come to an end (they carry the context and the timeouts of the    *)
(* transport), timers fire, and the goroutine is scheduled.                   *)
FairSpec == Spec /\ WF_vars(Step)

-----------------------------------------------------------------------------
(* Requests that are sent in vain: once the context of a pass has ended (stop *)
(* of the process, sync.timeout) at most one more request is started, and the *)
(* caller is told of the context, even when the timer wins the select.        *)
OneLateCall ==
    /\ late <= 1
    /\ late = 1 /\ pc = "returned" => result = "context"

(* A caller is told nil exactly when its last call succeeded; otherwise it    *)
(* has the error of that call, or that of the context that ended the wait.    *)
ResultIsHonest ==
    pc = "returned" =>
        \/ result = last
        \/ result = "context" /\ ended /\ last \in {"error", "retryable"}

(* The backoff adds at most MaxDelay per repetition, jitter included, so that *)
(* the time an unreachable server costs a pass is bounded by the settings.    *)
BackoffIsBounded == waited <= (MaxAttempts - 1) * MaxDelay

(* With the default settings jitter never makes a delay shorter than the one  *)
(* before it, until the delays meet MaxDelay.                                 *)
Capped(a) == Exponential[a] >= MaxDelay

BackoffGrows ==
    [][waited' # waited => backoff' >= backoff \/ Capped(attempt)]_vars

(* Every execution returns, also when the server always answers that it has   *)
(* to be asked again later.                                                   *)
Returns == <>(pc = "returned")
=============================================================================
