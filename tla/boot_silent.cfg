CONSTANTS
  Config <- Deployed
  ResetArmed <- ArmedAfterReset
  CtsTimeout = 3
  Enables = {0, 1}

SPECIFICATION Spec
INVARIANT TakesAll
