-------------------------- MODULE MetaClientProofs --------------------------
(***************************************************************************)
(* Theorems about MetaClient: a call to Meta stays within its types, ends  *)
(* in time, retries nothing but passing troubles, and never sends an       *)
(* expired token if the leeway covers the latest attempt.                  *)
(***************************************************************************)
EXTENDS MetaClient, TLAPS

Transient == {"rate_limited", "server_error", "no_response"}

\* A call that is still running: how late it may be, what it has met with and
\* how long its token lasts.  Power[attempt] >= 1 stands for an induction over
\* the attempts that the power of two needs.
Inv ==
  /\ TypeOK
  /\ CallEndsInTime
  /\ RetriesOnlyTransient
  /\ Power[attempt] >= 1
  /\ pc = "token" => clock = 0 /\ attempt = 1 /\ answer = "none"
  /\ pc = "sleep" => attempt < meta_max_retries /\ answer \in Transient
  /\ pc \in {"send", "sleep"} => left > Leeway

\* The span of an attempt and the settings are numbers.
LEMMA SettingsTyped ==
  /\ meta_max_retries \in Nat \ {0}
  /\ meta_retry_base_delay \in Nat /\ meta_api_timeout \in Nat
  /\ MaxDelay \in Nat /\ SlowPhases \in Nat
  /\ Span \in Nat
  BY SettingsAssumption DEF Span

\* The powers of two are numbers, the first is 1 and each doubles the last.
LEMMA Powers ==
  /\ \A n \in 1..meta_max_retries : Power[n] \in Nat
  /\ Power[1] = 1
  /\ \A n \in 1..meta_max_retries : n < meta_max_retries => Power[n + 1] = 2 * Power[n]
<1>1. \A n \in 1..meta_max_retries : n < meta_max_retries => n \in 1..(meta_max_retries - 1)
  BY SettingsTyped
<1>2. QED
  BY <1>1, PowerAssumption

\* The first attempt may be sent at once.
LEMMA BudgetFirst == Budget(1) = 0
  BY SettingsTyped, Powers DEF Budget

\* The budget of an attempt is a number.
LEMMA BudgetTyped ==
  ASSUME NEW n \in 1..meta_max_retries, Power[n] >= 1
  PROVE  Budget(n) \in Nat
<1> DEFINE p == Power[n] - 1
           k == n - 1
<1>1. p \in Nat /\ k \in Nat /\ meta_retry_base_delay \in Nat /\ Span \in Nat
  BY SettingsTyped, Powers
<1>2. Budget(n) = k * Span + meta_retry_base_delay * p
  BY DEF Budget
<1> HIDE DEF p, k
<1>3. k * Span \in Nat /\ meta_retry_base_delay * p \in Nat
  BY <1>1
<1>4. QED
  BY <1>2, <1>3

\* tenacity's wait after the n-th attempt never exceeds the doubled base delay.
LEMMA WaitBounded ==
  ASSUME NEW n \in 1..meta_max_retries, Power[n] >= 1
  PROVE  /\ wait_exponential(n) \in Nat
         /\ wait_exponential(n) <= meta_retry_base_delay * Power[n]
<1> DEFINE b == meta_retry_base_delay
           p == Power[n]
<1>1. b \in Nat /\ p \in Nat /\ p >= 1 /\ MaxDelay \in Nat
  BY SettingsTyped, Powers
<1> HIDE DEF p, b
<1>2. b * p \in Nat /\ b <= b * p
  BY <1>1
<1>3. QED
  BY <1>1, <1>2 DEF wait_exponential, b, p

\* An attempt and the wait after it fit between two budgets.
LEMMA BudgetNext ==
  ASSUME NEW n \in 1..meta_max_retries, n < meta_max_retries, Power[n] >= 1
  PROVE  Budget(n) + Span + meta_retry_base_delay * Power[n] = Budget(n + 1)
<1> DEFINE b == meta_retry_base_delay
           p == Power[n]
           s == Span
<1>1. b \in Nat /\ p \in Nat /\ s \in Nat /\ n \in Nat
  BY SettingsTyped, Powers
<1>2. Budget(n) = (n - 1) * s + b * (p - 1)
  BY DEF Budget
<1>3. Budget(n + 1) = n * s + b * (2 * p - 1)
  BY <1>1, Powers DEF Budget
<1> HIDE DEF p, b, s
<1>4. (n - 1) * s + s = n * s
  BY <1>1
<1>5. b * (p - 1) + b * p = b * (2 * p - 1)
  BY <1>1
<1>6. (n - 1) * s \in Int /\ b * (p - 1) \in Int /\ b * p \in Int
      /\ n * s \in Int /\ b * (2 * p - 1) \in Int
  BY <1>1
<1>7. (n - 1) * s + b * (p - 1) + s + b * p = n * s + b * (2 * p - 1)
  BY <1>1, <1>4, <1>5, <1>6
<1>8. QED
  BY <1>2, <1>3, <1>7 DEF b, p, s

\* The retried exceptions are those of the passing troubles.
LEMMA RetriedIsTransient ==
  \A a \in Answer \ {"ok"} : Retried(Raises[a]) <=> a \in Transient
  BY DEF Answer, Raises, Retried, Transient

\* Every exception a request raises is a known one.
LEMMA RaisesTyped == \A a \in Answer \ {"ok"} : Raises[a] \in Error
  BY DEF Answer, Raises, Error

\* A Retry-After that is a date raises an exception that is not retried.
LEMMA DateNotRetried ==
  /\ "rate_limited_until_date" \notin Transient
  /\ Raises["rate_limited_until_date"] = "ValueError"
  BY DEF Answer, Raises, Transient

-----------------------------------------------------------------------------
\* The call begins within the invariant.
LEMMA InvInit == Init => Inv
<1> SUFFICES ASSUME Init PROVE Inv
  OBVIOUS
<1>1. TypeOK
  BY SettingsTyped, TokenAssumption DEF Init, TypeOK
<1>2. CallEndsInTime /\ RetriesOnlyTransient
  BY DEF Init, CallEndsInTime, RetriesOnlyTransient
<1>3. QED
  BY <1>1, <1>2, Powers DEF Init, Inv

\* Looking up or refreshing the token takes no time and yields one that lasts
\* longer than the leeway.
LEMMA GetTokenStep == Inv /\ GetToken => Inv'
<1> SUFFICES ASSUME Inv, GetToken PROVE Inv'
  OBVIOUS
<1>1. TypeOK'
  BY TokenAssumption DEF Inv, TypeOK, GetToken, Error
<1>2. CallEndsInTime'
  BY BudgetFirst, SettingsTyped DEF Inv, GetToken, CallEndsInTime, Budget, TypeOK
<1>3. RetriesOnlyTransient'
  BY DEF Inv, GetToken, RetriesOnlyTransient, TypeOK
<1>4. (pc \in {"send", "sleep"} => left > Leeway)'
  BY TokenAssumption DEF Inv, TypeOK, GetToken
<1>5. QED
  BY <1>1, <1>2, <1>3, <1>4 DEF Inv, GetToken

\* An attempt takes at most its span.
LEMMA MeetsInTime ==
  ASSUME Inv, NEW a \in Answer, Meets(a)
  PROVE  /\ clock' \in Nat
         /\ clock' <= Budget(attempt) + Span
         /\ pc = "send" /\ answer' = a
         /\ UNCHANGED <<attempt, left, refreshable>>
<1>1. Budget(attempt) \in Nat /\ clock <= Budget(attempt) /\ clock \in Nat
  BY BudgetTyped DEF Inv, TypeOK, CallEndsInTime, Meets
<1>2. PICK d \in 0..Span : clock' = clock + d
  BY DEF Meets
<1>3. QED
  BY <1>1, <1>2, SettingsTyped DEF Meets, token

\* A call that Meta answers returns in time.
LEMMA SucceedStep == Inv /\ Succeed => Inv'
<1> SUFFICES ASSUME Inv, Succeed PROVE Inv'
  OBVIOUS
<1>1. /\ clock' \in Nat /\ clock' <= Budget(attempt) + Span
      /\ pc = "send" /\ answer' = "ok" /\ pc' = "returned"
      /\ UNCHANGED <<attempt, left, refreshable, error>>
  BY MeetsInTime DEF Succeed, Answer
<1>2. TypeOK'
  BY <1>1 DEF Inv, TypeOK, Answer
<1>3. CallEndsInTime'
  BY <1>1 DEF CallEndsInTime, Budget
<1>4. RetriesOnlyTransient'
  BY <1>1 DEF RetriesOnlyTransient
<1>5. QED
  BY <1>1, <1>2, <1>3, <1>4 DEF Inv

\* A failed attempt waits for the next one if its trouble may pass and attempts
\* are left, and ends the call otherwise.
LEMMA FailStep == Inv /\ Fail => Inv'
<1> SUFFICES ASSUME Inv, Fail PROVE Inv'
  OBVIOUS
<1>1. PICK a \in Answer \ {"ok"} :
        /\ Meets(a)
        /\ IF Retried(Raises[a]) /\ ~Exhausted
             THEN pc' = "sleep" /\ UNCHANGED error
             ELSE pc' = "raised" /\ error' = Raises[a]
  BY DEF Fail
<1>2. /\ clock' \in Nat /\ clock' <= Budget(attempt) + Span
      /\ pc = "send" /\ answer' = a
      /\ UNCHANGED <<attempt, left, refreshable>>
  BY <1>1, MeetsInTime
<1>3. \/ a \in Transient /\ attempt < meta_max_retries /\ pc' = "sleep" /\ UNCHANGED error
      \/ a \in Transient /\ attempt = meta_max_retries /\ pc' = "raised" /\ error' = Raises[a]
      \/ a \notin Transient /\ pc' = "raised" /\ error' = Raises[a]
  BY <1>1, RetriedIsTransient, SettingsTyped DEF Inv, TypeOK, Exhausted
<1>4. TypeOK'
  BY <1>1, <1>2, <1>3, RaisesTyped DEF Inv, TypeOK
<1>5. CallEndsInTime'
  BY <1>2, <1>3 DEF CallEndsInTime, Budget
<1>6. RetriesOnlyTransient'
  BY <1>2, <1>3, DateNotRetried DEF RetriesOnlyTransient, Transient
<1>7. QED
  BY <1>2, <1>3, <1>4, <1>5, <1>6 DEF Inv

\* The wait after an attempt leads to the budget of the next.
LEMMA SleepStep == Inv /\ Sleep => Inv'
<1> SUFFICES ASSUME Inv, Sleep PROVE Inv'
  OBVIOUS
<1>1. /\ attempt \in 1..meta_max_retries /\ attempt < meta_max_retries
      /\ Power[attempt] >= 1 /\ clock \in Nat
      /\ clock <= Budget(attempt) + Span
      /\ answer \in Transient /\ left > Leeway
  BY DEF Inv, TypeOK, Sleep, CallEndsInTime
<1>2. attempt' = attempt + 1 /\ attempt' \in 1..meta_max_retries /\ pc' = "send"
      /\ UNCHANGED <<left, refreshable, answer, error>>
  BY <1>1, SettingsTyped DEF Sleep, token
<1>3. Power[attempt'] >= 1
  BY <1>1, <1>2, Powers
<1>4. clock' = clock + wait_exponential(attempt) /\ clock' \in Nat
  BY <1>1, WaitBounded DEF Sleep
<1>5. clock' <= Budget(attempt')
  <2>1. wait_exponential(attempt) \in Nat
        /\ wait_exponential(attempt) <= meta_retry_base_delay * Power[attempt]
    BY <1>1, WaitBounded
  <2>2. Budget(attempt) + Span + meta_retry_base_delay * Power[attempt] = Budget(attempt')
    BY <1>1, <1>2, BudgetNext
  <2>3. Budget(attempt) \in Nat /\ Span \in Nat
        /\ meta_retry_base_delay * Power[attempt] \in Nat
    BY <1>1, BudgetTyped, SettingsTyped, Powers
  <2>4. QED
    BY <1>1, <1>4, <2>1, <2>2, <2>3
<1>6. TypeOK'
  BY <1>2, <1>4 DEF Inv, TypeOK
<1>7. CallEndsInTime'
  BY <1>2, <1>5 DEF CallEndsInTime, Budget
<1>8. RetriesOnlyTransient'
  BY <1>1, <1>2, DateNotRetried DEF RetriesOnlyTransient, Transient
<1>9. QED
  BY <1>1, <1>2, <1>3, <1>6, <1>7, <1>8 DEF Inv

\* Every step of a call preserves the invariant.
LEMMA InvNext == Inv /\ [Next]_vars => Inv'
<1> SUFFICES ASSUME Inv, [Next]_vars PROVE Inv'
  OBVIOUS
<1>1. CASE GetToken
  BY <1>1, GetTokenStep
<1>2. CASE Succeed
  BY <1>2, SucceedStep
<1>3. CASE Fail
  BY <1>3, FailStep
<1>4. CASE Sleep
  BY <1>4, SleepStep
<1>5. CASE UNCHANGED vars
  BY <1>5 DEF Inv, TypeOK, CallEndsInTime, RetriesOnlyTransient, Budget, vars, token
<1>6. QED
  BY <1>1, <1>2, <1>3, <1>4, <1>5 DEF Next, Terminating

\* The invariant holds throughout every call.
LEMMA Invariance == Spec => []Inv
  BY InvInit, InvNext, PTL DEF Spec

-----------------------------------------------------------------------------
\* _request: for all settings and every answer of Meta's, a call stays within
\* its types, in particular within meta_max_retries attempts.
THEOREM ClientTypes == Spec => []TypeOK
<1>1. Inv => TypeOK
  BY DEF Inv
<1>2. QED
  BY <1>1, Invariance, PTL

\* _request: the n-th attempt is sent no later than n - 1 spans and the doubling
\* waits allow, and the call ends within one more span.
THEOREM EndsInTime == Spec => []CallEndsInTime
<1>1. Inv => CallEndsInTime
  BY DEF Inv
<1>2. QED
  BY <1>1, Invariance, PTL

\* retry_if_exception_type, for all settings and every sequence of answers: final
\* errors are never retried.  A 429, a 5xx or a lost answer is given up only after
\* the last attempt, but for the 429 whose Retry-After is a date: it ends the call
\* at once, by the ValueError of float(), however many attempts are left.
THEOREM OnlyTransientRetried == Spec => []RetriesOnlyTransient
<1>1. Inv => RetriesOnlyTransient
  BY DEF Inv
<1>2. QED
  BY <1>1, Invariance, PTL

\* What the leeway must be for the comment at _REFRESH_LEEWAY_SECONDS to hold.  The
\* powers of two are all at least 1; saying so spares the proof an induction.
LeewaySuffices == \A n \in 1..meta_max_retries : Power[n] >= 1 => Budget(n) <= Leeway

\* get_access_token and _request: if no attempt can be sent later than the leeway
\* after the token was looked up, then no attempt is sent with an expired token.
THEOREM TokenOutlivesCall == LeewaySuffices => (Spec => []TokenAliveWhenSent)
<1>1. LeewaySuffices /\ Inv => TokenAliveWhenSent
  <2> SUFFICES ASSUME LeewaySuffices, Inv, pc = "send" PROVE clock < left
    BY DEF TokenAliveWhenSent
  <2>1. /\ attempt \in 1..meta_max_retries /\ Power[attempt] >= 1
        /\ clock \in Nat /\ clock <= Budget(attempt)
        /\ left \in Nat /\ left > Leeway
    BY DEF Inv, TypeOK, CallEndsInTime
  <2>2. Budget(attempt) <= Leeway /\ Budget(attempt) \in Nat
    BY <2>1, BudgetTyped DEF LeewaySuffices
  <2>3. QED
    BY <2>1, <2>2, TokenAssumption
<1>2. SUFFICES ASSUME LeewaySuffices PROVE Spec => []TokenAliveWhenSent
  OBVIOUS
<1>3. Inv => TokenAliveWhenSent
  BY <1>1, <1>2
<1>4. QED
  BY <1>3, Invariance, PTL
=============================================================================
