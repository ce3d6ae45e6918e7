\* All options at their defaults, with both output files; two interfering threads,
\* two interrupts by the user, signals to the process handled by any thread.
CONSTANTS
  benchmarks = {"getuid"}
  machine <- TwoPackages
  measuring_cpu = 0
  raw_interference = "all"
  latency_output = TRUE
  duration = 1
  energy_output = TRUE
  nr_samples = 2
  NrInterfering = 2
  supports_non_interference = {"getuid"}
  supports_energy_measurement = {"getuid"}
  Takers <- AnyThread
  NoStalls = TRUE
  MaxSigints = 2
SPECIFICATION Spec
INVARIANTS
  TypeOK
  ThreadsWithinRun
  InterferenceThroughout
PROPERTIES
  FullMeasurement
  KeepsPromise
  Termination
