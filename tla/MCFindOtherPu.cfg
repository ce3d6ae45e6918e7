\* The default measuring CPU, the first PU.
CONSTANTS
  Topologies <- MCTopologies
  MeasuringCpus = {0}
SPECIFICATION Spec
INVARIANTS
  TypeOK
  ComputesClosedForm
  Sound
  Complete
