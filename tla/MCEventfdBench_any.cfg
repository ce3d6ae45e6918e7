\* bench-eventfd, with signals to the process handled by any thread.  The program
\* may hang at the end of a run: see MCEventfdBench_hang.cfg.
CONSTANTS
  benchmarks = {"eventfd"}
  EFD_NONBLOCK = FALSE
  machine <- TwoCores
  measuring_cpu = 0
  raw_interference = "all"
  latency_output = TRUE
  duration = 1
  energy_output = TRUE
  nr_samples = 1
  NrInterfering = 1
  supports_non_interference = {}
  supports_energy_measurement = {"eventfd"}
  Takers <- AnyThread
  NoStalls = TRUE
  MaxSigints = 2
SPECIFICATION Spec
INVARIANTS
  OneMessage
PROPERTIES
  RequestAnswered
  OnlyEintrAborts
CHECK_DEADLOCK FALSE
