\* The user interrupts the program between or during its runs.
CONSTANTS
  benchmarks = {"getuid"}
  machine <- TwoPackages
  measuring_cpu = 0
  raw_interference = "all"
  latency_output = TRUE
  duration = 1
  energy_output = TRUE
  nr_samples = 2
  NrInterfering = 1
  supports_non_interference = {"getuid"}
  supports_energy_measurement = {"getuid"}
  Takers <- MainOnly
  NoStalls = TRUE
  MaxSigints = 1
SPECIFICATION Spec
PROPERTY QuitStopsRuns
