SPECIFICATION FairOperationSpec
CONSTANT
  MaxOps = 1
PROPERTY
  OperationTimesOut
CHECK_DEADLOCK FALSE
