SPECIFICATION Spec
CONSTANTS
  Workers = {w1, w2}
  Deliveries = {d1, d2}
  NoDelivery = none
  Hooks = {"h"}
  HookOf <- MCHookOf
  BatchSize = 2
  Timeout = 1
  Margin = 2
  FirstBackoff = 1
  MaxBackoff = 2
  Cutoff = 4
  Retention = 9
  Stalls = FALSE
  Horizon = 2
  MaxTime = 5
  MaxCrashes = 1
  MaxResets = 1
SYMMETRY MCSymmetry
INVARIANTS NeverOvertaken DeliveredWasAccepted
PROPERTY AcceptedOnce
