\* A thread may be held up for as long as an alarm takes.
CONSTANTS
  benchmarks = {"getuid"}
  machine <- TwoPackages
  measuring_cpu = 0
  raw_interference = "none"
  latency_output = TRUE
  duration = 1
  energy_output = FALSE
  nr_samples = 2
  NrInterfering = 1
  supports_non_interference = {"getuid"}
  supports_energy_measurement = {"getuid"}
  Takers <- MainOnly
  NoStalls = FALSE
  MaxSigints = 0
SPECIFICATION Spec
PROPERTY Termination
