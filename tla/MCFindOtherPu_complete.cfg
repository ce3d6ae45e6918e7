\* The completeness of the search for a measuring CPU that is not the first PU.
CONSTANTS
  Topologies <- MCTopologies
  MeasuringCpus = {0, 1, 2, 3}
SPECIFICATION Spec
INVARIANT Complete
