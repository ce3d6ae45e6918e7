\* Latency and energy runs without stalls.
CONSTANTS
  benchmarks = {"pthread_kill"}
  machine <- TwoCores
  measuring_cpu = 0
  raw_interference = "all"
  latency_output = TRUE
  duration = 1
  energy_output = TRUE
  nr_samples = 1
  NrInterfering = 2
  supports_non_interference = {}
  supports_energy_measurement = {"pthread_kill"}
  Takers <- MainOnly
  NoStalls = TRUE
  MaxSigints = 1
SPECIFICATION Spec
INVARIANTS
  TypeOK
  OneSignal
  AssertionsHold
PROPERTIES
  IsHandshake
  Termination
