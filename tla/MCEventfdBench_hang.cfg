\* The end of a run of bench-eventfd.
CONSTANTS
  benchmarks = {"eventfd"}
  EFD_NONBLOCK = FALSE
  machine <- TwoCores
  measuring_cpu = 0
  raw_interference = "all"
  latency_output = TRUE
  duration = 1
  energy_output = FALSE
  nr_samples = 1
  NrInterfering = 1
  supports_non_interference = {}
  supports_energy_measurement = {"eventfd"}
  Takers <- MainOnly
  NoStalls = TRUE
  MaxSigints = 0
SPECIFICATION Spec
PROPERTY Termination
CHECK_DEADLOCK FALSE
