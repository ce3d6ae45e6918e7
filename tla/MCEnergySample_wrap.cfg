\* One sample, during which the counters may wrap.
CONSTANTS
  NsPerSec = 20
  Exact = 32
  nr_samples = 1
  NsPerMs = 5
  StepTicks = {0, 1}
  OpTicks = {1, 2}
  Late = 3
  Uptimes = {20}
  Powers <- Loads
  EnergyUnit = 6
  CounterSize = 64
  LongSize = 1024
SPECIFICATION Spec
INVARIANT MeanEnergy
