SPECIFICATION EffectSpec
CONSTANTS
  Attempt = {a1, a2}
  NoInvocation = NoInvocation
  NoOutcome = NoOutcome
CHECK_DEADLOCK FALSE
INVARIANT EffectivelyOnce
