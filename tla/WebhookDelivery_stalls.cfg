SPECIFICATION Spec
CONSTANTS
  Workers = {w1, w2}
  Deliveries = {d1}
  NoDelivery = none
  Hooks = {"h"}
  HookOf <- MCHookOf
  BatchSize = 1
  Timeout = 1
  Margin = 1
  FirstBackoff = 1
  MaxBackoff = 2
  Cutoff = 3
  Retention = 3
  Stalls = TRUE
  Horizon = 6
  MaxTime = 6
  MaxCrashes = 0
  MaxResets = 2
SYMMETRY MCSymmetry
PROPERTIES DeliveredStays LostLeaseNeverOverwrites
