SPECIFICATION SessionSpec
CONSTANTS
  t1 = t1
  t2 = t2
  q1 = q1
  q2 = q2
  Threads = {t1, t2}
  Queues = {q1, q2}
  DevQueue = q1
  kPoolBlockSize = 4
  QueueOf <- MCQueueOf
  Environments <- MCEnvironments
  Does <- MCDoes
  MaxPools <- MCMaxPools
  MayLose <- MCMayLose
  MayErr <- MCMayErr
  MachinesOf <- MCMachinesOf
  AsksOf <- MCAsksOf
  KindsOf <- MCKindsOf
  GivesOf <- MCGivesOf
  FailsUnseen <- MCFailsUnseen
INVARIANTS TypeOK ReportAttributed SamplingEnds QueriesAnswered AnswersHonoured AnswersWithinLimits RequestsSupported TranscodeEnabled Equipped PoolHoldsSets OnlyTranscodersRemain ViewsCompatible
PROPERTIES CallsReturn BatchesCleaned
CHECK_DEADLOCK FALSE
