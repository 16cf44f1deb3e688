CONSTANTS
  Jobs <- ExpertsAlone
  MaxSteps = 2
SPECIFICATION Spec
INVARIANTS GradientComplete
CHECK_DEADLOCK FALSE
