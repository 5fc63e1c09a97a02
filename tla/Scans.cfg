SPECIFICATION MCSpec
CONSTANTS
  Callers = {p, q}
  Burst = 2
  Refill = 2
  Window = 2
  MaxClock = 7
  x = x
  a = a
  d = d
  t = t
  g1 = g1
  bg = bg
  None = None
INVARIANTS OneWalk RateBound
PROPERTIES HonestRetry CacheConverges
