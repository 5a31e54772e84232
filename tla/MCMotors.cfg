SPECIFICATION Spec
CONSTANTS
  main = main
  replay = replay
  Tasks <- TwoTasks
  Throttle <- Half
  throttle_map <- HalfMap
INVARIANTS
  MotorsObey
  MetricsTell
PROPERTIES
  Recovers
