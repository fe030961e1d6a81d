SPECIFICATION FairSpec
CONSTANTS
  Workers = {w1, w2}
  Deliveries = {d1}
  NoDelivery = none
  Hooks = {"h"}
  HookOf <- MCHookOf
  BatchSize = 1
  Timeout = 1
  Margin = 2
  FirstBackoff = 1
  MaxBackoff = 2
  Cutoff = 3
  Retention = 3
  Stalls = FALSE
  Horizon = 3
  MaxTime = 11
  MaxCrashes = 1
  MaxResets = 1
PROPERTY EverySettles
