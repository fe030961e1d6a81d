SPECIFICATION FairSpec
CONSTANTS
  a = a
  b = b
  here = here
  there = there
  Replicas = {a, b}
  Readers = {r1}
  Writers = {here, there}
  Home <- MCHome
  Watchable = {"spec_version", "endpoint", "service_id", "clients_list", "effective_roles"}
  Ttl = 2
  Lag = 1
INVARIANTS BoundedStaleness OwnWritesSeen OffAndOnAgain
PROPERTIES Converges
