---------------------------- MODULE ModelFallback ----------------------------
(***************************************************************************)
(* The wrappers of internal/provider around a chat model: retry.go around  *)
(* fallback.go around a primary model, with the circuit breaker that       *)
(* concurrent requests share and the error classes of internal/errors.     *)
(* Stream passes through both without retry or fallback; the gateway wraps *)
(* its model in neither (factory.go:37), so this is a model of the package *)
(* in its standard mode.                                                   *)
(*                                                                         *)
(* A model's answer is a class of errors or "ok".  Time is abstract: the   *)
(* cooldown may be over at any moment, and a delay passes or the context   *)
(* ends.                                                                   *)
(***************************************************************************)
EXTENDS Integers

CONSTANTS
    Callers,      \* goroutines that call Generate
    Fallbacks,    \* number of fallback models
    Tries,        \* 1 + len(retryDelays) (code: 4)
    Threshold,    \* circuitBreakerThreshold (code: 3)
    MaxRequests   \* bound on the requests of a caller

ASSUME FallbackAssumption ==
    /\ Fallbacks \in Nat /\ MaxRequests \in Nat
    /\ Tries \in Nat \ {0} /\ Threshold \in Nat \ {0}

VARIABLES
    consecutiveFails,
    cooling,      \* time.Now() is before cooldownUntil
    request,      \* [Callers -> [phase, try, next, err]]: the Generate in progress
    requests,     \* [Callers -> Nat]
    attempts,     \* history: [Callers -> model calls of the request]
    refused,      \* history: callers whose request met a permanent error
    streak        \* history: failures recorded since the last recorded success

fallbackVars == <<consecutiveFails, cooling, request, requests, attempts, refused, streak>>

\* Normalize and KindOf sort errors into these: permanent are unauthorized, not found and
\* invalid; transient unavailable, timeout and network; other everything else, a canceled
\* context and one that is too long for the model too.
Permanent == {"permanent"}
Transient == {"transient"}
Errors == Permanent \cup Transient \cup {"limited", "other"}

ShouldFallback_Always(err) == TRUE
ShouldFallback(err) == err \notin Permanent
Fallbackable(err) == err \in Transient
Retryable(err) == err \in Transient \cup {"limited"}

RequestPhases == {"idle", "primary", "recording", "fallback", "calling", "waiting"}
FallbackTypeOK ==
    /\ consecutiveFails \in Nat /\ cooling \in BOOLEAN /\ streak \in Nat
    /\ request \in [Callers -> [phase : RequestPhases, try : 1 .. Tries, next : 1 .. Fallbacks + 1,
                                err : Errors \cup {"ok"}]]
    /\ requests \in [Callers -> 0 .. MaxRequests]
    /\ attempts \in [Callers -> Nat]
    /\ refused \subseteq Callers

FallbackInit ==
    /\ consecutiveFails = 0 /\ cooling = FALSE /\ streak = 0
    /\ request = [c \in Callers |-> [phase |-> "idle", try |-> 1, next |-> 1, err |-> "ok"]]
    /\ requests = [c \in Callers |-> 0]
    /\ attempts = [c \in Callers |-> 0]
    /\ refused = {}

-----------------------------------------------------------------------------

Generate(c) ==
    /\ request[c].phase = "idle" /\ requests[c] < MaxRequests
    /\ requests' = [requests EXCEPT ![c] = @ + 1]
    /\ request' = [request EXCEPT ![c] = [phase |-> "primary", try |-> 1, next |-> 1, err |-> "ok"]]
    /\ attempts' = [attempts EXCEPT ![c] = 0]
    /\ refused' = refused \ {c}
    /\ UNCHANGED <<consecutiveFails, cooling, streak>>

\* The retry loop gets an error: it gives up, or waits for the next try.
Retry(c, err) ==
    request' = [request EXCEPT ![c].err = err,
        ![c].phase = IF Retryable(err) /\ request[c].try < Tries THEN "waiting" ELSE "idle"]

Called(c, err) ==
    /\ attempts' = [attempts EXCEPT ![c] = @ + 1]
    /\ refused' = IF err \in Permanent THEN refused \cup {c} ELSE refused

\* The primary returns.  What it returned is recorded under the lock of the breaker, in a
\* step of its own: other requests may record theirs in between.
PrimaryAnswers(c) ==
    /\ request[c].phase = "primary"
    /\ request' = [request EXCEPT ![c].phase = "recording", ![c].err = "ok"]
    /\ Called(c, "ok")
    /\ UNCHANGED <<consecutiveFails, cooling, requests, streak>>

\* An error that no other model would mend is returned, and not recorded.
PrimaryFails(c, err) ==
    /\ request[c].phase = "primary"
    /\ IF ShouldFallback(err)
       THEN request' = [request EXCEPT ![c].phase = "recording", ![c].err = err]
       ELSE Retry(c, err)
    /\ Called(c, err)
    /\ UNCHANGED <<consecutiveFails, cooling, requests, streak>>

RecordSuccess_NoReset(c) ==
    /\ request[c].phase = "recording" /\ request[c].err = "ok"
    /\ streak' = 0
    /\ request' = [request EXCEPT ![c].phase = "idle"]
    /\ UNCHANGED <<consecutiveFails, cooling, requests, attempts, refused>>

RecordSuccess(c) ==
    /\ request[c].phase = "recording" /\ request[c].err = "ok"
    /\ consecutiveFails' = 0 /\ cooling' = FALSE /\ streak' = 0
    /\ request' = [request EXCEPT ![c].phase = "idle"]
    /\ UNCHANGED <<requests, attempts, refused>>

RecordFailure(c) ==
    /\ request[c].phase = "recording" /\ request[c].err \in Errors
    /\ consecutiveFails' = consecutiveFails + 1
    /\ cooling' = (cooling \/ consecutiveFails + 1 >= Threshold)
    /\ streak' = streak + 1
    /\ request' = [request EXCEPT ![c].phase = "fallback", ![c].next = 1]
    /\ UNCHANGED <<requests, attempts, refused>>

\* primaryAvailable: false while the breaker is open; when the cooldown is over the
\* failures are forgotten.
BreakerOpen == consecutiveFails >= Threshold /\ cooling
HalfOpen == consecutiveFails' = IF consecutiveFails >= Threshold THEN 0 ELSE consecutiveFails

Trying(c) == request[c].phase = "fallback" /\ request[c].next <= Fallbacks
NextFallback(c) ==
    request' = [request EXCEPT ![c].phase = "fallback", ![c].next = @ + 1]

\* While the breaker is open a fallback is passed over, and so is one that the factory
\* cannot build.
FallbackSkipped(c) ==
    /\ Trying(c)
    /\ \/ BreakerOpen /\ UNCHANGED consecutiveFails
       \/ ~BreakerOpen /\ HalfOpen
    /\ NextFallback(c)
    /\ UNCHANGED <<cooling, requests, attempts, refused, streak>>

FallbackBegins(c) ==
    /\ Trying(c) /\ ~BreakerOpen
    /\ HalfOpen
    /\ request' = [request EXCEPT ![c].phase = "calling"]
    /\ UNCHANGED <<cooling, requests, attempts, refused, streak>>

FallbackAnswers(c) ==
    /\ request[c].phase = "calling"
    /\ request' = [request EXCEPT ![c].phase = "idle", ![c].err = "ok"]
    /\ Called(c, "ok")
    /\ UNCHANGED <<consecutiveFails, cooling, requests, streak>>

\* The next fallback is asked only after an error that may pass.
FallbackFails(c, err) ==
    /\ request[c].phase = "calling"
    /\ IF Fallbackable(err) THEN NextFallback(c) ELSE Retry(c, err)
    /\ Called(c, err)
    /\ UNCHANGED <<consecutiveFails, cooling, requests, streak>>

\* No fallback is left: the error of the primary is returned.
FallbacksExhausted(c) ==
    /\ request[c].phase = "fallback" /\ request[c].next > Fallbacks
    /\ Retry(c, request[c].err)
    /\ UNCHANGED <<consecutiveFails, cooling, requests, attempts, refused, streak>>

\* The delay is over, or the context is done.
DelayEnds(c) ==
    /\ request[c].phase = "waiting"
    /\ \/ request' = [request EXCEPT ![c].phase = "primary", ![c].try = @ + 1]
       \/ request' = [request EXCEPT ![c].phase = "idle"]
    /\ UNCHANGED <<consecutiveFails, cooling, requests, attempts, refused, streak>>

CooldownEnds ==
    /\ cooling /\ cooling' = FALSE
    /\ UNCHANGED <<consecutiveFails, request, requests, attempts, refused, streak>>

FallbackNext ==
    \/ \E c \in Callers :
          \/ Generate(c) \/ PrimaryAnswers(c) \/ RecordSuccess(c) \/ RecordFailure(c)
          \/ FallbackSkipped(c) \/ FallbackBegins(c) \/ FallbackAnswers(c)
          \/ FallbacksExhausted(c) \/ DelayEnds(c)
          \/ \E err \in Errors : PrimaryFails(c, err) \/ FallbackFails(c, err)
    \/ CooldownEnds

FallbackSpec == FallbackInit /\ [][FallbackNext]_fallbackVars

-----------------------------------------------------------------------------
(* Properties                                                               *)

\* The breaker is open only after Threshold failures of the primary were recorded without a
\* success in between, whatever order concurrent requests return, record, succeed and probe
\* in (fallback.go:53-63, 92-119).  A success that is recorded late, after failures of calls
\* that began after it, still closes the breaker.
BreakerNeedsStreak ==
    /\ consecutiveFails <= streak
    /\ cooling => streak >= Threshold

\* A request makes no call after a model has refused it for good: neither a fallback nor
\* a retry asks again (fallback.go:60-80, retry.go:55-57).
PermanentIsFinal ==
    [][\A c \in Callers : c \in refused /\ requests'[c] = requests[c]
            => attempts'[c] = attempts[c]]_fallbackVars

\* Retries and fallbacks multiply, and no further: every try asks the primary once and
\* each fallback at most once.
AttemptsBounded == \A c \in Callers : attempts[c] <= request[c].try * (1 + Fallbacks)
=============================================================================
