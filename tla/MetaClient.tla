----------------------------- MODULE MetaClient -----------------------------
(***************************************************************************)
(* One call to Meta's API: the token it is made with, the attempts that    *)
(* MetaApiClient makes and the value or exception the call ends with.      *)
(*                                                                         *)
(* Time is counted in half seconds from the moment get_access_token looks  *)
(* at the token row.  httpx applies its timeout to each phase of a request *)
(* (a free connection, connect, write, read), so an attempt may use it up  *)
(* as often as it has slow phases.                                         *)
(***************************************************************************)
EXTENDS Integers

CONSTANTS
  meta_max_retries, meta_retry_base_delay, meta_api_timeout,
  MaxDelay,     \* longest wait between attempts
  Power,        \* 2 ** (n - 1) for the n-th attempt
  SlowPhases,   \* phases of one attempt that may use up the timeout
  Leeway, TTL,  \* of get_access_token and of a refreshed token
  Lifetime      \* what a stored token may have left, expired ones 0

ASSUME SettingsAssumption ==
  /\ meta_max_retries \in Nat \ {0}
  /\ {meta_retry_base_delay, meta_api_timeout, MaxDelay, SlowPhases} \subseteq Nat
ASSUME TokenAssumption ==
  /\ Leeway \in Nat /\ TTL \in Nat /\ TTL > Leeway
  /\ Lifetime \subseteq Nat
ASSUME PowerAssumption ==
  /\ Power \in [1..meta_max_retries -> Nat]
  /\ Power[1] = 1
  /\ \A n \in 1..(meta_max_retries - 1) : Power[n + 1] = 2 * Power[n]

\* What an attempt may meet with: a status, or no response at all.
Answer == {"ok", "malformed", "rate_limited", "rate_limited_until_date",
           "unauthorized", "not_found", "server_error", "client_error",
           "no_response"}

Error == {"MetaRateLimitedError", "MetaAuthError", "MetaNotFoundError",
          "MetaError", "TransportError", "ValueError", "NotFoundError"}

VARIABLES
  pc,           \* "token", "send", "sleep", "returned" or "raised"
  attempt,      \* tenacity's attempt_number
  clock,        \* time since the token row was read
  left,         \* when the token in use expires
  refreshable,  \* does the row hold a refresh token?
  answer,       \* what the last attempt met with
  error         \* the exception the call ended with

token == <<left, refreshable>>
vars == <<pc, attempt, clock, token, answer, error>>

Span == SlowPhases * meta_api_timeout

\* Mutation: the exponent is the attempt's number, not the number before it.
wait_exponential_Late(n) ==
  LET grown == 2 * meta_retry_base_delay * Power[n]
      capped == IF grown < MaxDelay THEN grown ELSE MaxDelay
  IN  IF capped > meta_retry_base_delay THEN capped ELSE meta_retry_base_delay

\* The base delay is both the multiplier and the minimum.
wait_exponential(n) ==
  LET grown == meta_retry_base_delay * Power[n]
      capped == IF grown < MaxDelay THEN grown ELSE MaxDelay
  IN  IF capped > meta_retry_base_delay THEN capped ELSE meta_retry_base_delay

\* _do_request: the exception for each answer but "ok".  A Retry-After that is
\* a date fails in float(), before the MetaRateLimitedError is made.
Raises ==
  [a \in Answer \ {"ok"} |->
    CASE a \in {"rate_limited", "server_error"} -> "MetaRateLimitedError"
      [] a = "unauthorized" -> "MetaAuthError"
      [] a = "not_found" -> "MetaNotFoundError"
      [] a = "client_error" -> "MetaError"
      [] a = "no_response" -> "TransportError"
      [] OTHER -> "ValueError"]

\* Mutation: whatever derives from MetaError is tried again.
Retried_MetaErrors(e) ==
  e \in {"MetaRateLimitedError", "MetaAuthError", "MetaNotFoundError",
         "MetaError", "TransportError"}

Retried(e) == e \in {"MetaRateLimitedError", "TransportError"}

\* Mutation: the setting counts retries, not attempts.
Exhausted_Late == attempt > meta_max_retries

Exhausted == attempt >= meta_max_retries
-----------------------------------------------------------------------------
Init ==
  /\ pc = "token"
  /\ attempt = 1
  /\ clock = 0
  /\ left \in Lifetime
  /\ refreshable \in BOOLEAN
  /\ answer = "none"
  /\ error = "none"

\* Mutation: a token is used as long as it has not expired.
GetToken_NoLeeway ==
  /\ pc = "token"
  /\ \/ left > 0 /\ pc' = "send" /\ UNCHANGED <<left, error>>
     \/ left = 0 /\ refreshable /\ left' = TTL /\ pc' = "send" /\ UNCHANGED error
     \/ left = 0 /\ ~refreshable /\ pc' = "raised" /\ error' = "NotFoundError"
        /\ UNCHANGED left
  /\ UNCHANGED <<attempt, clock, refreshable, answer>>

\* get_access_token: the cached token, a refreshed one, or no token.
GetToken ==
  /\ pc = "token"
  /\ \/ /\ left > Leeway
        /\ pc' = "send"
        /\ UNCHANGED <<left, error>>
     \/ /\ left <= Leeway /\ refreshable
        /\ left' = TTL
        /\ pc' = "send"
        /\ UNCHANGED error
     \/ /\ left <= Leeway /\ ~refreshable
        /\ pc' = "raised"
        /\ error' = "NotFoundError"
        /\ UNCHANGED left
  /\ UNCHANGED <<attempt, clock, refreshable, answer>>

\* One request to Meta and what it meets with.  An expired token is refused.
Meets(a) ==
  /\ pc = "send"
  /\ a \in {"ok", "malformed", "not_found", "client_error"} => clock < left
  /\ \E d \in 0..Span : clock' = clock + d
  /\ answer' = a
  /\ UNCHANGED <<attempt, token>>

Succeed ==
  /\ Meets("ok")
  /\ pc' = "returned"
  /\ UNCHANGED error

\* The wait that Meta may ask for with a 429 is carried by the exception, and
\* nobody reads it.
Fail ==
  \E a \in Answer \ {"ok"} :
    /\ Meets(a)
    /\ IF Retried(Raises[a]) /\ ~Exhausted
         THEN pc' = "sleep" /\ UNCHANGED error
         ELSE pc' = "raised" /\ error' = Raises[a]

Sleep ==
  /\ pc = "sleep"
  /\ clock' = clock + wait_exponential(attempt)
  /\ attempt' = attempt + 1
  /\ pc' = "send"
  /\ UNCHANGED <<token, answer, error>>

Terminating == pc \in {"returned", "raised"} /\ UNCHANGED vars

Next == GetToken \/ Succeed \/ Fail \/ Sleep \/ Terminating

Spec == Init /\ [][Next]_vars
-----------------------------------------------------------------------------
\* Every variable stays within its type; no attempt exceeds the setting.
TypeOK ==
  /\ pc \in {"token", "send", "sleep", "returned", "raised"}
  /\ attempt \in 1..meta_max_retries
  /\ clock \in Nat
  /\ left \in Nat
  /\ refreshable \in BOOLEAN
  /\ answer \in Answer \cup {"none"}
  /\ error \in Error \cup {"none"}

\* The comment at the leeway: a token is refreshed early so that no request
\* leaves with an expired one, the late attempts of a retried call included.
TokenAliveWhenSent == pc = "send" => clock < left

\* The latest time at which the n-th attempt is sent.
Budget(n) == (n - 1) * Span + meta_retry_base_delay * (Power[n] - 1)

\* A call, and with it the locks that its request holds in the database, takes
\* no longer than its attempts and the doubling waits between them allow.
CallEndsInTime ==
  /\ pc = "send" => clock <= Budget(attempt)
  /\ pc \in {"sleep", "returned", "raised"} => clock <= Budget(attempt) + Span

\* A refusal (bad token, unknown object, bad request) is never followed by
\* another attempt.  A passing trouble ends a call only when no attempt is left,
\* with one exception to what client.py:5 and the README promise of a 429: if
\* its Retry-After is a date, that answer ends the call, on the first attempt
\* as on the last, and with a ValueError instead of a MetaError.
RetriesOnlyTransient ==
  /\ attempt > 1 /\ pc = "send" =>
       answer \in {"rate_limited", "server_error", "no_response"}
  /\ pc = "raised" /\ answer \in {"rate_limited", "server_error", "no_response"} =>
       attempt = meta_max_retries
  /\ answer = "rate_limited_until_date" => pc = "raised" /\ error = "ValueError"
=============================================================================
