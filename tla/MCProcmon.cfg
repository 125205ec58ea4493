SPECIFICATION Spec
CONSTANTS
  Number <- MCNumber
  Scripts <- MCScripts
  ChartSize = 2
  MaxBurn = 2
INVARIANT RepliesInOrder
INVARIANT Answered
INVARIANT CpuTimeCountedOnce
