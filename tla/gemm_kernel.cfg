\* Two calls in a row over words of five bits and a grid of four threads.
SPECIFICATION Spec
CONSTANTS
  Problems <- MCProblems
  MaxWord = 31
  ThreadsPerBlock = 2
  MaxBlocks = 2
  MaxCalls = 2
CHECK_DEADLOCK FALSE
INVARIANTS KernelReadsMemory SizesFit OutputsExact
