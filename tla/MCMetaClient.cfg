SPECIFICATION Spec
CONSTANTS
  meta_max_retries = 4
  meta_retry_base_delay = 1
  meta_api_timeout = 30
  MaxDelay = 20
  Power <- DefaultPower
  SlowPhases = 1
  Leeway = 120
  TTL = 7200
  Lifetime <- Lifetimes
INVARIANTS
  TypeOK
  TokenAliveWhenSent
  CallEndsInTime
  RetriesOnlyTransient
