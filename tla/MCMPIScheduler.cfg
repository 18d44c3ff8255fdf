SPECIFICATION Spec
CONSTANTS
  Host = {1, 2, 3}
  Tasks = 3
  MaxFaults = 3
  Repeats = 2
  Slots <- MCSlots
INVARIANTS
  HostsMatch
  StatusTrue
PROPERTY
  JobStops
