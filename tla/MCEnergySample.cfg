\* Two samples, at uptimes at which nanoseconds are exact, at the limit, and beyond it
\* with distances of two and four; the counters of 6 bits wrap.
CONSTANTS
  NsPerSec = 20
  Exact = 32
  nr_samples = 2
  NsPerMs = 5
  StepTicks = {0, 1}
  OpTicks = {1, 2}
  Late = 3
  Uptimes = {20, 50, 75}
  Powers <- Loads
  EnergyUnit = 6
  CounterSize = 64
  LongSize = 1024
SPECIFICATION Spec
INVARIANTS
  TypeOK
  SomeOperation
  EnergyUnlessWrapped
  OrderKept
PROPERTY DurationAccurate
