\* Every program, with and without interference, on a machine that has one huge
\* page for each thread.
CONSTANTS
  benchmarks <- ProgramNames
  machine <- TwoCores
  measuring_cpu = 0
  raw_interference = "all"
  latency_output = TRUE
  duration = 1
  energy_output = TRUE
  nr_samples = 1
  NrInterfering = 1
  supports_non_interference <- ProgramNames
  supports_energy_measurement <- EnergyPrograms
  Takers <- MainOnly
  NoStalls = TRUE
  MaxSigints = 1
  nr_hugepages = 2
SPECIFICATION SharedSpec
INVARIANTS
  SharedTypeOK
  ResourcesAccounted
  NothingLeftBehind
  EndAfterStart
  AssertionsHold
PROPERTY ImplementsSymmetric
