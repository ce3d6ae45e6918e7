\* bench-eventfd-nonblock, latency and energy.
CONSTANTS
  benchmarks = {"eventfd_nonblock"}
  EFD_NONBLOCK = TRUE
  machine <- TwoCores
  measuring_cpu = 0
  raw_interference = "all"
  latency_output = TRUE
  duration = 1
  energy_output = TRUE
  nr_samples = 1
  NrInterfering = 1
  supports_non_interference = {}
  supports_energy_measurement = {"eventfd_nonblock"}
  Takers <- MainOnly
  NoStalls = TRUE
  MaxSigints = 1
SPECIFICATION Spec
INVARIANTS
  TypeOK
  OneMessage
  AssertionsHold
PROPERTIES
  IsHandshake
  Termination
