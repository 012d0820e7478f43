CONSTANTS
  CpuCount <- MCCpuCount
  JobsArgs <- MCJobsArgs
  MaxChunks <- MCMaxChunks
  Idle = Idle

SPECIFICATION Spec

INVARIANT WithinThreads

\* diff() goes on after pool.join(); the pool itself stops in "joined".
CHECK_DEADLOCK FALSE
