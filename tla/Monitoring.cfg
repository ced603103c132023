SPECIFICATION MonitorSpec
CONSTANTS
  Containers = {c1, c2}
  Foreign = host
  Samplers = {s1, s2}
  MaxErrors = 1
  MaxTicks = 2
  MaxCollectors = 1
INVARIANTS
  SweepAccounted
  OneCollector
